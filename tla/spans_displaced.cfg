SPECIFICATION PartsSpec
CONSTANTS
  c1 = c1
  c2 = c2
  x1 = x1
  x2 = x2
  Callers = {c1, c2}
  Shadow = Shadow
  Asks <- AsksMC
  Default = Default
  Configurations <- ConfigurationsMC
  Concurrency = 1
  BreakerFails = 2
  DailyCap = 2
  MaxChoice = 3
  LocalMaxChoice = 2
  MaxDays = 2
  MaxCalls = 4
  Clients = {c1, c2}
  Starters = {x1, x2}
  Cooldown = 2
  StreamLength = 5
  MaxHold = 2
  MaxFlips = 2
  MaxFails = 2
  TextLength = 4
  MinSpan = 2
  MaxFinds = 2
  NeverMask <- NeverMaskMC
  Requests <- RequestsMC
  MaxDepth = 8
  None = None
CHECK_DEADLOCK FALSE
INVARIANT FoundBroken
