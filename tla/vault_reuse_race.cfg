SPECIFICATION Spec
CONSTANTS
  gateway = gateway
  cron = cron
  gw1 = gw1
  gw2 = gw2
  cr1 = cr1
  k1 = k1
  Procs = {gateway}
  Threads = {gw1, gw2}
  ProcOf <- ThreadOwner
  Values = {v1, v2}
  Types = {name}
  MaxN = 3
  FarBase = 3
  CompactEvery = 2
  Gens = {g1, g2, g3}
  NoKey = NoKey
  BadKey = BadKey
  KeyOf <- NoKeys
  Budget <- OneCrash
  None = None
  Corrupt = Corrupt
  Blank = Blank
SYMMETRY ValueSymmetry
CHECK_DEADLOCK FALSE
INVARIANTS Durable
