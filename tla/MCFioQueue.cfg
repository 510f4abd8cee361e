SPECIFICATION Spec
CONSTANTS
    Task = {t1, t2}
    NoTask = NoTask
    TasksPerAlloc = 2
    HeapRing = {h1, h2}
    Mem = Mem
    Nil = Nil
    MaxCount = 5
    MaxLeaks = 3
INVARIANTS ChainOK PopReturnsTask
PROPERTY ImplementsDeque
