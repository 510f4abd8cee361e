SPECIFICATION Spec
CONSTANTS
    Names = {n}
    Patterns = {p}
    Matches <- MCMatches
    Ios = {w}
    Global = Global
    QueueOf <- MCQueueOf
    MaxSubs = 3
    MaxMsgs = 2
    MaxDefers = 1
    MaxObjects = 6
INVARIANTS RefsOK EndsLast InOrder SilentWhenCancelled
CHECK_DEADLOCK FALSE
