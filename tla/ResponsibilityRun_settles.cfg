SPECIFICATION FairSpec
CONSTANTS
  Instances = {i1, i2}
  NoOne = NoOne
  NSources = 1
  Devices = FALSE
  Observed = {"FAULT"}
  MaxAttempts = 2
  ShortTransactions = TRUE
  MaxWindow = 2
  MaxHandBacks = 1
  MaxFaults = 1
INVARIANTS QueuedOnlyWhileActive AtMostOneRunning
PROPERTIES EveryWindowIsAccountedFor
CHECK_DEADLOCK FALSE
