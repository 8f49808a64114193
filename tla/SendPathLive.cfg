SPECIFICATION FairSpec
CONSTANTS
    s1 = s1
    s2 = s2
    w1 = w1
    w2 = w2
    c1 = c1
    m1 = m1
    m2 = m2
    m3 = m3
    Sweeper = Sweeper
    NoMsg = NoMsg
    Senders <- MCSenders
    Closers <- MCClosers
    Workers <- MCWorkers
    Msgs <- MCTwoMsgs
    Batch = 1
    QMax = 2
    MaxDisc = 0
PROPERTIES
    EverySent
    MessagesComeBack
CHECK_DEADLOCK FALSE
