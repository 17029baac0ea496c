SPECIFICATION Spec
CONSTANTS
  Backends = {b1}
  HostBackends = {}
  Calls = {c1, c2}
  Signals = {}
  MaxFailed = 0
  Faults = {"trap"}
PROPERTIES PoisonedNotReused
CHECK_DEADLOCK FALSE
