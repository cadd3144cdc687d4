SPECIFICATION FairQueueSpec
CONSTANTS
  Requests = {1, 2, 3, 4}
  Score <- Scores4
  MaxSize = 3
  WaitTimeout = 1
  Means = {5}
  Panics = {3}
  Dispatcher = dispatcher
  Nobody = nobody
  kind = "adaptive"
  InitialConcurrency = 2
  MinConcurrency = 2
  MaxConcurrency = 3
  MaxWaking = 5
  TiesDown = {}
  Scores = {5, 9}
  MaxPushes = 4
CHECK_DEADLOCK FALSE
INVARIANT UnitsAccounted
INVARIANT TicketsAccounted
INVARIANT SleepsOnlyWhenIdle
INVARIANT BackendProtected
INVARIANT FreeUnitReachesQueue
INVARIANT HeapHoldsQueue
PROPERTY ImplementsLine
PROPERTY TicketsGranted
PROPERTY PopsHighest
