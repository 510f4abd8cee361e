SPECIFICATION Spec
CONSTANTS
    Async = TRUE
    StopWhileRunning = FALSE
    MaxKnocks = 2
INVARIANTS ListenerHeld ListenerGone
PROPERTIES StartReturns
CHECK_DEADLOCK FALSE
