SPECIFICATION FairSpec
CONSTANTS
    r1 = r1
    r2 = r2
    r3 = r3
    Acc = Acc
    Refs <- MCRefs
    MaxId = 2
    ScanTable = FALSE
INVARIANTS
    TypeOK
    RefCntExact
    UsersSeeTheirSession
    LastDropReleases
    ReleasedOnce
PROPERTIES
    SlotComesBack
    LifeSpec
CHECK_DEADLOCK FALSE
