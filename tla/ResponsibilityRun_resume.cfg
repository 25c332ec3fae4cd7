SPECIFICATION Spec
CONSTANTS
  Instances = {i1, i2}
  NoOne = NoOne
  NSources = 1
  Devices = FALSE
  Observed = {"SETTLED", "FAULT"}
  MaxAttempts = 2
  ShortTransactions = TRUE
  MaxWindow = 1
  MaxHandBacks = 1
  MaxFaults = 0
INVARIANTS ResumedWindowIsWorked
CHECK_DEADLOCK FALSE
