SPECIFICATION AssemblySpec
CHECK_DEADLOCK FALSE
CONSTANTS
    Supported = {"WithRateLimitGlobal", "WithResolver", "WithAuth"}
    MaxSame = 1
    MaxConfig = 3
INVARIANTS
    LimiterKnowsResolver
