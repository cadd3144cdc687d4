SPECIFICATION QueueSpec
CONSTANTS
  Requests = {1, 2}
  Score <- Scores2
  MaxSize = 0
  WaitTimeout = 0
  Means = {1}
  Panics = {1}
  Dispatcher = dispatcher
  Nobody = nobody
  kind = "fixed"
  InitialConcurrency = 2
  MinConcurrency = 1
  MaxConcurrency = 1
  MaxWaking = 3
  TiesDown = {}
  Scores = {5, 9}
  MaxPushes = 2
CHECK_DEADLOCK FALSE
INVARIANT AtMostOneAhead
