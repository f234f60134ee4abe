SPECIFICATION Spec
CONSTANTS
    c1 = c1
    c2 = c2
    c3 = c3
    u1 = u1
    u2 = u2
    Clients <- MCTwoClients
    Users <- MCUsers
    Fds <- MCFds
    WORKER = 2
    MaxFrames = 2
    IdleTimeouts = TRUE
    NoClient = NoClient
    NoUser = NoUser
SYMMETRY MCTwoSymmetry
CHECK_DEADLOCK FALSE
INVARIANTS
    SoleSessionReachable
