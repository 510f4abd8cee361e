SPECIFICATION Spec
CONSTANTS
    Worker = {w1, w2, w3}
    N = 1
    Ipc = TRUE
    SafeFork = TRUE
    MaxCrashes = 2
    MaxRestarts = 1
    MaxAdds = 1
    MaxTasks = 1
    MaxEvents = 2
INVARIANTS OneLoop NeverTooMany OthersReplaced
PROPERTIES StopEndsAll
CHECK_DEADLOCK FALSE
