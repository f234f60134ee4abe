SPECIFICATION Spec
CONSTANTS
    u1 = u1
    u2 = u2
    Users <- MCUsers
    WORKER = 2
    MaxLogins = 2
    MaxRequests = 3
    Pending <- MCPending
    NoUser = NoUser
CHECK_DEADLOCK FALSE
INVARIANTS
    TypeOK
    OfflineNoticeKept
    AsymmetryNeedsOverlap
    AcceptedWereAsked
