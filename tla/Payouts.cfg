CONSTANTS
  native = native
  bound = bound
  shared = shared
  burner = burner
  Few = 1
  Many = 0
  Pools = {native, bound}
  Bound = {bound}
  Choice <- MCChoice
  CreatorPct = 50
  Float = 1
  Recorded <- MCRecorded
  MaxFees <- MCMaxFees
  MaxWeek = 3
  MaxMoment = 0
  MaxUnseen = 1
  MaxFaults = 1
SPECIFICATION Spec
INVARIANTS
  WithinEntitlement
  HoldersSolBacked
PROPERTIES
  KeyUsedOnce
  ImplementsRound
CHECK_DEADLOCK FALSE
