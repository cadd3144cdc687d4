SPECIFICATION FairSpec
CONSTANTS
    Bad = Bad
    Requests = {r1, r2}
    MaxLoads = 2
    MaxBlocks = 2
    Configs <- MCConfigs
    TiesDown = {}
CHECK_DEADLOCK FALSE
INVARIANTS
    CleanedLeavesNothing
PROPERTIES
    CleanedSetsNoGauge
    EveryRequestAnswered
    RetiredIsOver
