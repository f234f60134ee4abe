SPECIFICATION Spec
CONSTANTS
    u1 = u1
    u2 = u2
    u3 = u3
    Users <- MCUsers
    Group <- MCUsers
    Present <- MCPresent
    Friends <- MCFriends
    w1 = w1
    w2 = w2
    Workers <- MCWorkers
    Cap = 2
    Recent = 1
    MaxMessages = 2
    MaxOpens = 1
    MaxExits = 1
    MaxLogins = 1
    MaxRoles = 1
    NoWorker = NoWorker
    NoUser = NoUser
SYMMETRY MCSymmetry
CHECK_DEADLOCK FALSE
INVARIANTS
    TypeOK
    HistoryIsLatest
    OpenedIsComplete
    SenderOrder
    NobodyForgotten
