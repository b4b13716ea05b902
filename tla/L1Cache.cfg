SPECIFICATION FairSpec
CONSTANTS
    Procs = {p1, p2}
    Keys = {k1, k2}
    Vals = {v1}
    Calls = {c1, c2, c3}
    None = None
    Err = Err
    Panic = Panic
INVARIANTS
    TypeOK
    SingleFlight
    ReturnsOwnKey
    LoadsOwned
    NobodyWaitsInVain
PROPERTIES
    EveryCallReturns
    KeepsPromise
\* After a loader has panicked every goroutine may end up waiting.
CHECK_DEADLOCK FALSE
