CONSTANTS
  v1 = v1
  bound = bound
  free = free
  NoPool = NoPool
  Pools = {bound, free}
  Vesting = {}
  Compensated = {free}
  ZeroCut = {free}
  ZeroFee = {free}
  Bound = {bound}
  Profiles = {"standard_linked", "og_linked"}
  MaxSends = 3
  MaxFaults = 0
SPECIFICATION LiveSpec
PROPERTIES
  Graduates
