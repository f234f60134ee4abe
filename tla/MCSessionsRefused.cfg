SPECIFICATION Spec
CONSTANTS
    c1 = c1
    c2 = c2
    c3 = c3
    u1 = u1
    u2 = u2
    Clients <- MCTwoClients
    Users <- MCOneUser
    Fds <- MCFds
    WORKER = 2
    MaxFrames = 1
    IdleTimeouts = FALSE
    NoClient = NoClient
    NoUser = NoUser
CHECK_DEADLOCK FALSE
INVARIANTS
    RefusedIsNotRegistered
