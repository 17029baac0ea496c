SPECIFICATION Spec
CONSTANTS
  MaxCalls = 2
  Warmers = {w1}
  Fns = {f1}
  f1 = f1
  f2 = f2
  w1 = w1
  Budgets <- Short
  MIN_TURN = 1
  COLD_TURN_FLOOR = 2
  COLD_TURN = 3
  ColdShare = 2
  LoadTimeout = 1
  MaxFailures = 2
  RetryAfter = 1
  HasFallback = FALSE
  Abortable = {2}
  Disposable = TRUE
  Faults = {"late", "crash", "argsClone", "resultClone", "turnedAway", "loadError", "postThrows", "spawnThrows"}
INVARIANTS WaitingNeverRan ServedInOrder WorkConserving RefdWhileBusy
PROPERTIES KeepsContract OnlyTimerOvertakes
CHECK_DEADLOCK FALSE
