SPECIFICATION Spec
CHECK_DEADLOCK FALSE
CONSTANTS
    w1 = w1
    w2 = w2
    s1 = s1
    s2 = s2
    Workers <- MCWorkers
    Sessions <- MCSessions
    XMax = 3
    YMax = 2
    UserMax = 1
    None = None
SYMMETRY Symmetry
INVARIANTS
    TypeOK
    LocksInOrder
    BroadcastOnce
    ListsHoldUsers
