SPECIFICATION FairSpec
CONSTANTS
    w1 = w1
    w2 = w2
    c1 = c1
    Workers <- MCWorkers
    Closers <- MCClosers
    Main = Main
    None = None
    ScanInit = FALSE
    MaxSession = 1
    MaxConn = 1
    MaxCalls = 2
PROPERTIES
    DisconnectEnds
CHECK_DEADLOCK FALSE
