SPECIFICATION Spec
CONSTANTS
  Instances = {i1, i2}
  NoOne = NoOne
  NSources = 2
  Devices = TRUE
  Observed = {"SETTLED", "FAULT"}
  MaxAttempts = 2
  ShortTransactions = TRUE
  MaxWindow = 1
  MaxHandBacks = 1
  MaxFaults = 1
SYMMETRY InstanceSymmetry
INVARIANTS TypeOK SuccessMeansSettled
PROPERTIES SettledStays OnlyTheHolderEnds ImplementsWindowContract
CHECK_DEADLOCK FALSE
