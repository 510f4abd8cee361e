SPECIFICATION Spec
CONSTANTS
    a = a
    b = b
    c = c
    v = v
    w = w
    x = x
    Nobody = Nobody
    Machines = {a, b}
    Workers = {v, w, x}
    Home <- TwoHomes
    Peers <- TwoPeers
    Authors = {b, v}
    Calls <- SomeCalls
    Answers = 2
    Window = 1
    FilterLimit = 9
    FilterKeep = 2
    FilterMoved = 1
    MaxPosts = 2
    MaxCrashes = 1
    MaxTicks = 1
INVARIANTS  Answered
PROPERTIES ImplementsMulticast
CHECK_DEADLOCK FALSE
