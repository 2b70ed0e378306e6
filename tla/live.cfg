SPECIFICATION Spec
CONSTANTS
  a = a
  b = b
  t1 = t1
  t2 = t2
  s1 = s1
  s2 = s2
  Threads = {t1, t2}
  Sessions = {s1, s2}
  Values = {a, b}
  Prompts <- PromptsMC
  Replies <- RepliesMC
  Setups <- SetupsMC
  MaxSent = 1
  ReplayMax = 1
  MaxLives = 2
  MaxTurns = 2
  MaxEvents = 1
  None = None
SYMMETRY LiveSymmetry
CHECK_DEADLOCK FALSE
INVARIANTS TypeOK OnlyOwnValues OwnValuesReturn SentStands NothingInClear
