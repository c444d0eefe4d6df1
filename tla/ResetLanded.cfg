CONSTANTS
  v1 = v1
  bound = bound
  free = free
  NoPool = NoPool
  Pools = {v1}
  Vesting = {v1}
  Compensated = {v1}
  ZeroCut = {}
  ZeroFee = {}
  Bound = {}
  Profiles = {"standard_linked"}
  MaxSends = 7
  MaxFaults = 2
SPECIFICATION Spec
PROPERTIES
  NeverResetLanded
