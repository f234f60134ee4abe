SPECIFICATION Spec
CONSTANTS
    c1 = c1
    c2 = c2
    c3 = c3
    u1 = u1
    u2 = u2
    Clients <- MCClients
    Users <- MCUsers
    Fds <- MCFds
    WORKER = 2
    MaxFrames = 1
    IdleTimeouts = FALSE
    NoClient = NoClient
    NoUser = NoUser
SYMMETRY MCSymmetry
CHECK_DEADLOCK FALSE
INVARIANTS
    TypeOK
    RegisteredIsLive
    ServedByOneWorker
    MisroutedByReuseOnly
PROPERTIES
    ImplementsPresence
