SPECIFICATION FairSpec
CHECK_DEADLOCK FALSE
CONSTANTS
    Slots <- MCSlots
    MaxConn = 2
    MaxMsg = 2
    MaxClose = 1
    MaxFrame = 1
    MaxUser = 4
    Workers <- MCWorkers
    Acceptor = acceptor
    Closer = closer
    w1 = w1
    w2 = w2
    None = None
    ScanInit = FALSE
INVARIANTS
    TypeOK
    FoundByContents
    WelcomedToEcho
    MoveFindsSession
    UsersAccounted
PROPERTY
    LeavesWhenGone
