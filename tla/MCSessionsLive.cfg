SPECIFICATION FairSpec
CONSTANTS
    c1 = c1
    c2 = c2
    c3 = c3
    u1 = u1
    u2 = u2
    Clients <- MCTwoClients
    Users <- MCOneUser
    Fds <- MCFds
    WORKER = 1
    MaxFrames = 2
    IdleTimeouts = TRUE
    NoClient = NoClient
    NoUser = NoUser
CHECK_DEADLOCK FALSE
PROPERTIES
    Released
