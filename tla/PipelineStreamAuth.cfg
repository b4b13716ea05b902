SPECIFICATION Spec
CHECK_DEADLOCK FALSE
CONSTANTS
    Supported = {"WithAuth"}
    MaxSame = 1
    MaxConfig = 1
    Reqs = {r1}
INVARIANTS
    IdentityReachesHandler
