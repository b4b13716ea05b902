SPECIFICATION FairSpec
CONSTANTS
    Procs = {p1, p2}
    Keys = {k1}
    Vals = {v1, v2}
    Calls = {c1, c2}
    None = None
    Miss = Miss
    Err = Err
    Panic = Panic
INVARIANTS
    TypeOK
    
PROPERTIES
    EveryCallReturns
    KeepsPromise
\* After a loader has panicked every goroutine may end up waiting.
CHECK_DEADLOCK FALSE
