CONSTANTS
  MaxEpoch = 3
  MaxFunding = 2
  MaxTotal = 1
  MaxFaults = 1
  Window = 4
  MaxBps = 2
  DistributionBps = 2
  Interval = 2
SPECIFICATION Spec
INVARIANTS
  HolderSolKept
CHECK_DEADLOCK FALSE
