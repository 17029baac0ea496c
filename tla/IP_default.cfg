SPECIFICATION Spec
CONSTANTS
  Backends = {b1, b2, b3}
  HostBackends = {b3}
  Calls = {c1, c2, c3}
  Signals = {c1}
  MaxFailed = 1
  Faults = {"trap", "refused"}
INVARIANTS LateNeverRuns NoStaleFailure
PROPERTY KeepsContract
CHECK_DEADLOCK FALSE
