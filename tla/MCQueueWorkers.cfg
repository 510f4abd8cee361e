SPECIFICATION Spec
CONSTANTS
    Worker = {w1, w2}
    Manager = manager
    Caller = caller
    Task = {t1, t2}
    Nobody = nobody
    MaxCalls = 3
    CarefulDestroy = TRUE
INVARIANTS WorkersOK StopDrains
PROPERTIES OnlyMissedTasksStay OnlyOversleptStay
CHECK_DEADLOCK FALSE
