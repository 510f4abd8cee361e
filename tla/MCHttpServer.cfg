\* Three pipelined messages of the kinds whose accounts balance.
SPECIFICATION Spec
CONSTANTS
    Kinds = {"get", "post", "target", "junk", "large", "expect", "refuse", "upgrade"}
    MaxMessages = 3
    MaxHandles = 5
INVARIANTS RefsBalance InTurn NothingStuck
CHECK_DEADLOCK FALSE
