CONSTANTS
    Codes = {"Unavailable", "Aborted", "NotFound"}
    NoStatus = "no status"
    Configs <- MCConfigs
SPECIFICATION FairSpec
INVARIANTS TypeOK HonestOutcome
PROPERTIES  CancelEndsDo EveryDoReturns
CHECK_DEADLOCK FALSE
