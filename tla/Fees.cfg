CONSTANTS
  a1 = a1
  a2 = a2
  b1 = b1
  b2 = b2
  solPool = solPool
  stockPool = stockPool
  stock = stock
  Sol = Sol
  Trades = {a1, a2, b1}
  Pools = {solPool, stockPool}
  Mints = {Sol, stock}
  PoolOf <- MCPoolOf
  MintOf <- MCMintOf
  MaxSends = 8
  MaxSwaps = 1
  MaxFaults = 1
SPECIFICATION LiveSpec
INVARIANTS
  MovedOnce
  OneInTheAir
  BooksMatch
  SolCovers
PROPERTIES
  NativeRouted
  PendingResolves
