SPECIFICATION Spec
CONSTANTS
    Timer = {t1, t2}
    Intervals = {1, 2}
    Repetitions <- MCRepetitions
    MaxTime = 6
    MemoryCanFail = FALSE
INVARIANTS EventsOK RunsAsAsked NeverEarly
PROPERTY EventuallyFinished
CHECK_DEADLOCK FALSE
