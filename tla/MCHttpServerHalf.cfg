\* The client leaves within a request: ValidInCallback is violated.
SPECIFICATION Spec
CONSTANTS
    Kinds = {"get"}
    MaxMessages = 1
    MaxHandles = 5
INVARIANTS ValidInCallback
CHECK_DEADLOCK FALSE
