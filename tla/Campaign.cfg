CONSTANTS
  creator = creator
  trader = trader
  Creator = creator
  Traders = {trader}
  CurveSupply = 4
  LiquiditySupply = 2
  CreatorReserve = 1
  BasePrice = 2
  PriceSlope = 2
  Wad = 2
  MaxBps = 10
  GradProtocolBps = 2
  GradCreatorBps = 3
  MaxNativeRefundBps = 1
  FirstBuyMaxSupplyBps = 3
  FirstBuyMaxTargetBps = 5
  MaxTargetOfCurveBps = 9
  ProtocolFeeBps = 1
  AntiSniperStartBps = 5
  AntiSniperWindow = 2
  CreatorBuyCap = 5
  EscrowCliff = 1
  EscrowStep = 1
  PauseHonourWindow = 1
  PauseRearmAfter = 2
  NativeFallbackDelay = 2
  Targets = {5, 7}
  Values = {3, 9}
  Proceeds = {}
  PauseSettings = {}
  QuoteKinds = {FALSE}
  MaxHeld = 0
  MaxSurplus = 0
  MaxTime = 7
  MaxDonation = 0
SPECIFICATION Spec
CHECK_DEADLOCK FALSE
INVARIANTS
  TypeOK
  RaiseIsArea
  MemeConserved
  EscrowSafe
  SearchIsBest
