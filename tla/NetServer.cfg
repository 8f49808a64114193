SPECIFICATION Spec
CONSTANTS
    w1 = w1
    w2 = w2
    c1 = c1
    Workers <- MCWorkers
    Closers <- MCClosers
    Main = Main
    None = None
    ScanInit = FALSE
    MaxSession = 2
    MaxConn = 3
    MaxCalls = 1
INVARIANTS
    TypeOK
    PopFindsIndex
    RecvInOrder
    RecvWhileOpen
    StopLeavesNothing
CHECK_DEADLOCK FALSE
