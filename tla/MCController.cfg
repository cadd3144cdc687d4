SPECIFICATION FairSpec
CONSTANTS
  Acquirers = {a1, a2, a3}
  kind = "adaptive"
  InitialConcurrency = 1
  MinConcurrency = 3
  MaxConcurrency = 5
  MaxWaking = 2
  TiesDown = {}
INVARIANT TypeOK
INVARIANT NoLostWakeup
INVARIANT OverloadBounded
PROPERTY OverLimitOnlyDrains
PROPERTY StoppedIsQuiet
PROPERTY FreeCapacityIsClaimed
