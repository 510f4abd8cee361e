\* Two commands, one of a worker, a lost connection, a timeout and a channel
\* that comes and goes, with a server that may refuse or send garbage.
SPECIFICATION Spec
CONSTANTS
    Commands = {"GET", "SET"}
    Remote = {"SET"}
    MaxBatch = 2
    MaxLosses = 1
    MaxTimeouts = 1
    MaxToggles = 1
    Circumstances = {"refuse", "garbage"}
INVARIANTS RefsHeld LockStep OwnAnswer Settled
CHECK_DEADLOCK FALSE
