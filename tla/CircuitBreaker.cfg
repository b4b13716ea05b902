SPECIFICATION FairSpec
CONSTANTS
    Callers = {c1, c2, c3}
    Configs <- MCConfigs
INVARIANTS
    TypeOK
    CountersMatchState
PROPERTIES
    OpenHoldsForTimeout
    ZeroGoalStrands
    HealsWithDependency
