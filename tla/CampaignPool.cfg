CONSTANTS
  creator = creator
  trader = trader
  Creator = creator
  Traders = {trader}
  CurveSupply = 3
  LiquiditySupply = 2
  CreatorReserve = 1
  BasePrice = 2
  PriceSlope = 2
  Wad = 2
  MaxBps = 10
  GradProtocolBps = 2
  GradCreatorBps = 3
  MaxNativeRefundBps = 1
  FirstBuyMaxSupplyBps = 3
  FirstBuyMaxTargetBps = 5
  MaxTargetOfCurveBps = 9
  ProtocolFeeBps = 1
  AntiSniperStartBps = 5
  AntiSniperWindow = 2
  CreatorBuyCap = 1
  EscrowCliff = 9
  EscrowStep = 1
  PauseHonourWindow = 1
  PauseRearmAfter = 2
  NativeFallbackDelay = 1
  Targets = {3}
  Values = {3}
  Proceeds = {0, 1}
  PauseSettings <- MCPauses
  QuoteKinds = {FALSE, TRUE}
  MaxHeld = 1
  MaxSurplus = 1
  MaxTime = 5
  MaxDonation = 1
SPECIFICATION Spec
CHECK_DEADLOCK FALSE
INVARIANTS
  Solvent
  BudgetSuffices
  PoolRecorded
  PauseLeavesRoom
