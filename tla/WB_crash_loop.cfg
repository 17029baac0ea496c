SPECIFICATION HistorySpec
CONSTANTS
  MaxCalls = 4
  Warmers = {}
  Fns = {f1}
  f1 = f1
  f2 = f2
  w1 = w1
  Budgets <- Endless
  MIN_TURN = 1
  COLD_TURN_FLOOR = 2
  COLD_TURN = 3
  ColdShare = 2
  LoadTimeout <- Infinity
  MaxFailures = 2
  RetryAfter = 2
  HasFallback = TRUE
  Abortable = {}
  Disposable = FALSE
  Faults = {"crash"}
INVARIANTS FailuresBounded
CHECK_DEADLOCK FALSE
