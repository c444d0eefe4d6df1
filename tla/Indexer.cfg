CONSTANTS
  sol = sol
  v = v
  w = w
  x1 = x1
  x3 = x3
  NoSwap = NoSwap
  NoPool = NoPool
  Pools = {sol}
  Bound = {sol}
  Txs = {x1, x3}
  Swaps <- MCSwaps
  TxOf <- MCTxOf
  PoolOf <- MCPoolOf
  SlotOf <- MCSlotOf
  ChainRank <- MCChainRank
  SigRank <- MCSigRank
  Workers = {v, w}
  Timeframes = 2
  MaxSlot = 2
  MaxFaults = 1
SPECIFICATION LiveSpec
INVARIANTS
  NothingSkipped
  FannedOutOnce
PROPERTIES
  StoredUnlessMigrated
