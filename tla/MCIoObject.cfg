SPECIFICATION Spec
CONSTANTS
    MaxCalls = 2
    MaxTimeouts = 1
    ThrottleLimit = 1
INVARIANTS LifeOK FlagsOK NeverDeaf NeverStuck
PROPERTIES ClosesEventually ReactorStops
CHECK_DEADLOCK FALSE
