SPECIFICATION FairSpec
CONSTANTS
    Levels <- MCLevels
    RampUp = 2
    Hold = 2
    RequestTimeout = 2
    MinLatency = 1
    MaxLag = 1
    MayCancel = TRUE
CHECK_DEADLOCK FALSE
INVARIANTS
    OffByOneRequest
PROPERTIES
    RowTellsLevel
    SweepReturns
