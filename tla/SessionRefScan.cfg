SPECIFICATION Spec
CONSTANTS
    r1 = r1
    r2 = r2
    r3 = r3
    Acc = Acc
    Refs <- MCRefs
    MaxId = 2
    ScanTable = TRUE
SYMMETRY Symmetry
INVARIANTS
    ReleasedOnce
CHECK_DEADLOCK FALSE
