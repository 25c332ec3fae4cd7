SPECIFICATION Spec
CONSTANTS
  Instances = {i1, i2}
  NoOne = NoOne
  NSources = 1
  Devices = TRUE
  Observed = {"SETTLED", "FAULT"}
  MaxAttempts = 2
  ShortTransactions = TRUE
  MaxWindow = 1
  MaxHandBacks = 0
  MaxFaults = 0
INVARIANTS RetryIsOwed
CHECK_DEADLOCK FALSE
