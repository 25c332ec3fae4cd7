SPECIFICATION FairSpec
CONSTANTS
  Instances = {i1, i2}
  NoOne = NoOne
  NSources = 1
  Devices = FALSE
  Observed = {"SETTLED", "FAULT"}
  MaxAttempts = 2
  ShortTransactions = FALSE
  MaxWindow = 1
  MaxHandBacks = 0
  MaxFaults = 1
PROPERTIES OnlyTheHolderEnds
CHECK_DEADLOCK FALSE
