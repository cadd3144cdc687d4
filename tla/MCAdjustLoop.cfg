SPECIFICATION FairSpec
CONSTANTS
  size = 3
  histBucketCount = 4
  bucketStart <- Starts
  EdgesDown = {1, 2, 3}
  Outcomes <- MixedOutcomes
  TickGaps = {20}
  MinConcurrency = 1
  InitialConcurrency = 3
  MaxConcurrency = 8
  TargetP95 = 6
  TimeoutRateThreshold = 10
  ErrorRateThreshold = 20
  TiesDown = {}
INVARIANT SumsMatchRecent
INVARIANT PercentileNearestRank
PROPERTY CooldownsHeld
PROPERTY HealthRestoresLimit
PROPERTY ErrorsDrainLimit
PROPERTY LimitFollowsTraffic
