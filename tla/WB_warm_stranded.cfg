SPECIFICATION FairSpec
CONSTANTS
  MaxCalls = 1
  Warmers = {w1}
  Fns = {f1}
  f1 = f1
  f2 = f2
  w1 = w1
  Budgets <- Short
  MIN_TURN = 1
  COLD_TURN_FLOOR = 2
  COLD_TURN = 3
  ColdShare = 2
  LoadTimeout = 2
  MaxFailures = 2
  RetryAfter = 1
  HasFallback = FALSE
  Abortable = {}
  Disposable = FALSE
  Faults = {"postThrows"}
PROPERTIES WarmSettles
CHECK_DEADLOCK FALSE
