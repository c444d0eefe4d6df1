CONSTANTS
  MaxEpoch = 2
  MaxFunding = 2
  MaxTotal = 2
  MaxFaults = 1
  Window = 4
  MaxBps = 2
  DistributionBps = 2
  Interval = 2
SPECIFICATION Spec
INVARIANTS
  VaultCovers
  RoundsInOneList
CHECK_DEADLOCK FALSE
