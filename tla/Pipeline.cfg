SPECIFICATION FairSpec
CHECK_DEADLOCK FALSE
CONSTANTS
    Supported = {"WithOpenTelemetry", "WithRecovery", "WithIPBlocker",
                 "WithRateLimitGlobal", "WithAuth", "WithUnaryInterceptor",
                 "WithStreamInterceptor", "WithResolver",
                 "WithCacheL1", "WithCacheRedis"}
    MaxSame = 2
    MaxConfig = 3
    Reqs = {r1, r2}
INVARIANTS
    TypeOK
    OptionOrderIrrelevant
    CacheFollowsOptions
    HandlerBehindGates
    BlockedCostsNothing
    AuthBehindLimiters
    PanicContained
    SpansBalanced
    SpanTellsOutcome
    UnaryContextComplete
PROPERTIES EveryCallAnswered
