SPECIFICATION Spec
CONSTANTS
  Accounts = {a1}
  Pools = {p1}
  DReps = {d1}
  Cold = {c1}
  a1 = a1
  p1 = p1
  d1 = d1
  c1 = c1
  None = None
  Scripts = {}
  KeyDeposit = 2
  PoolDeposit = 3
  DRepDeposit = 1
  MaxRetirement = 1
  Coins = {1, 2}
  Epochs = {1, 2, 3}
  MaxCerts = 3
  Moments <- SomeMoments
  AccountContexts <- SomeAccounts
  PoolContexts <- SomePools
  DRepContexts <- SomeDReps
INVARIANTS ObservesLedger CleanIsAccepted NoFalseAlarm DepositsBalance
CHECK_DEADLOCK FALSE
