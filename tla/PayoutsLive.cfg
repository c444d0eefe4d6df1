CONSTANTS
  native = native
  bound = bound
  shared = shared
  burner = burner
  Few = 1
  Many = 2
  Pools = {shared, burner}
  Bound = {shared}
  Choice <- MCChoice
  CreatorPct = 50
  Float = 1
  Recorded <- MCRecorded
  MaxFees <- MCMaxFees
  MaxWeek = 2
  MaxMoment = 1
  MaxUnseen = 0
  MaxFaults = 1
SPECIFICATION FairSpec
INVARIANTS
  WithinEntitlement
  BooksCover
PROPERTIES
  PaymentsSettle
CHECK_DEADLOCK FALSE
