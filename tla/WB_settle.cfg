SPECIFICATION FairSpec
CONSTANTS
  MaxCalls = 2
  Warmers = {w1}
  Fns = {f1}
  f1 = f1
  f2 = f2
  w1 = w1
  Budgets <- SomeEndless
  MIN_TURN = 1
  COLD_TURN_FLOOR = 2
  COLD_TURN = 3
  ColdShare = 2
  LoadTimeout = 1
  MaxFailures = 1
  RetryAfter = 1
  HasFallback = TRUE
  Abortable = {}
  Disposable = FALSE
  Faults = {"spawnThrows", "loadError", "crash", "silent", "trap", "fallbackFails"}
PROPERTIES CallsSettle WarmSettles
CHECK_DEADLOCK FALSE
