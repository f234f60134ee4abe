SPECIFICATION Spec
CONSTANTS
    u1 = u1
    u2 = u2
    u3 = u3
    g1 = g1
    id1 = id1
    Users <- MCUsers
    Founders <- MCFounders
    Applicants <- MCNobody
    Names <- MCNames
    Uuids <- MCUuids
    MaxRequests = 9
    WORKER = 1
    NoUser = NoUser
    NoUuid = NoUuid
SYMMETRY MCOthers
CHECK_DEADLOCK FALSE
INVARIANTS
    KickedIsUnlisted
