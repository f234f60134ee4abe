SPECIFICATION FairSpec
CONSTANTS
    FrameLen = 2
    Cap = 3
    MaxRead = 3
    MaxFrames = 2
    MaxChats = 3
CHECK_DEADLOCK FALSE
INVARIANTS
    TypeOK
    InOrderOnce
    OneHandler
PROPERTIES
    QuitReturns
    AllHandled
