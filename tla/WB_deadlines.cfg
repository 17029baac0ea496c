SPECIFICATION Spec
CONSTANTS
  MaxCalls = 3
  Warmers = {}
  Fns = {f1, f2}
  f1 = f1
  f2 = f2
  w1 = w1
  Budgets <- TwoBudgets
  MIN_TURN = 1
  COLD_TURN_FLOOR = 2
  COLD_TURN = 3
  ColdShare = 2
  LoadTimeout <- Infinity
  MaxFailures = 1
  RetryAfter = 2
  HasFallback = TRUE
  Abortable = {}
  Disposable = FALSE
  Faults = {"trap", "late", "silentLoad"}
SYMMETRY FnSymmetry
INVARIANTS TypeOK Accounting ClockDiscipline MarginKept WorkerServesOne
PROPERTIES DroppedOnlyLate
CHECK_DEADLOCK FALSE
