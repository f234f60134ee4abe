SPECIFICATION FairSpec
CONSTANTS
    u1 = u1
    u2 = u2
    u3 = u3
    g = g
    Users <- MCUsers
    Senders <- MCSenders
    Audience <- MCAudience
    Workers = 2
    Chunks = 1
    MaxUp <- MCUp
    MaxDown = 2
    MaxTransfers = 3
    MaxActive = 2
    MaxKeys = 1
    MaxMenus = 3
    MaxFaults = 1
CHECK_DEADLOCK FALSE
INVARIANTS
    TypeOK
    UploadedIsWhole
    DownloadedIsAsked
    NamesMatchPaths
    RemovedWasSent
    CrashNeedsDisorder
PROPERTIES
    TransfersEnd
