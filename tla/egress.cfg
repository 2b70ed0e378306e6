SPECIFICATION ReadSpec
CONSTANTS
  gateway = gateway
  cron = cron
  script = script
  gw1 = gw1
  cr1 = cr1
  Procs = {gateway, cron, script}
  Threads = {gw1, cr1}
  ProcOf <- ThreadOwner
  Reader = script
  MaxReads = 1
  Values = {v1, v2}
  Types = {name}
  MaxN = 3
  FarBase = 3
  CompactEvery = 2
  Gens = {g1, g2, g3, g4}
  NoKey = NoKey
  BadKey = BadKey
  KeyOf <- NoKeys
  Budget <- Harmed
  None = None
  Corrupt = Corrupt
  Blank = Blank
CHECK_DEADLOCK FALSE
SYMMETRY ValueSymmetry
INVARIANTS EgressComplete EgressFaithful
