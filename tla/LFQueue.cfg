SPECIFICATION Spec
CONSTANTS
    q1 = q1  q2 = q2
    t1 = t1  t2 = t2  t3 = t3
    n1 = n1  n2 = n2  n3 = n3  n4 = n4  n5 = n5
    Queues <- MCQueue
    Nodes <- MCNodes
    Threads <- MCThreads
    MaxEnq = 3
    MaxDeq = 2
    Null = Null
    Linking = Linking
INVARIANTS
    TypeOK
PROPERTIES
    FifoSpec
    EmptyIsReal
CHECK_DEADLOCK FALSE
