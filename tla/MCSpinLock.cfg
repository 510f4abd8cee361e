SPECIFICATION LockSpec
CONSTANTS
    Thread = {t1, t2, t3}
    Sublock = {0, 1}
    Master = 0
    Group <- AllGroups
    Nested = TRUE
SYMMETRY Symmetry
INVARIANTS MutualExclusion NoBitLeaks
CHECK_DEADLOCK FALSE
