SPECIFICATION Spec
CONSTANTS
  r1 = r1
  r2 = r2
  r3 = r3
  Requests <- MCRequests3
  NumKeys = 2
  MaxConcurrency = 2
  MaxBodies = 2
  MaxRetries = 1
  BaseDelay = 1
  MaxDelay = 2
  Jitter = 1
  Cooldown = 2
  LongBlock = 3
  Limit = 2
  Window = 2
  Horizon = 4
SYMMETRY AnyRequest
CHECK_DEADLOCK FALSE
INVARIANTS
  WindowBound
  EveryCallGranted
  CallsBounded
PROPERTIES
  WindowSpec
  CoolingKeyLast
  BlockStopsOthers
