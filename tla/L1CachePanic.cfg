SPECIFICATION FairSpec
CONSTANTS
    Procs = {p1, p2, p3}
    Keys = {k1}
    Vals = {v1}
    Calls = {c1, c2, c3}
    None = None
    Err = Err
    Panic = Panic
PROPERTY EveryCallReturnsAnyway
\* After a loader has panicked every goroutine may end up waiting.
CHECK_DEADLOCK FALSE
