SPECIFICATION EnginesSpec
CONSTANTS
  a = a
  b = b
  letter = letter
  note = note
  t1 = t1
  t2 = t2
  s1 = s1
  s2 = s2
  n1 = n1
  n2 = n2
  Threads = {t1, t2}
  Values = {a, b}
  Contents = {letter, note}
  Holds <- HoldsMC
  Finds <- FindsMC
  NerFinds <- NerMC
  CacheMax = 1
  MaxLives = 2
  Files <- FilesMC
  Sessions = {s1, s2}
  MaxEngines = 1
  MaxEdits = 3
  Classes = {"chat", "azure", "codex", "tool"}
  Mro <- MroMC
  Defines = {"chat", "codex"}
  Early = {"chat", "azure"}
  MaxCalls = 3
  Hosts <- HostsMC
  HostFiles <- HostFilesMC
  Bodies <- BodiesMC
  Tokens = {n1, n2}
  MaxSends = 2
  MaxMoves = 3
  Limit = 1
  Keep = 3
  MaxLines = 10
  MaxKills = 1
  MaxLate = 1
  None = None
SYMMETRY EnginesSymmetry
CHECK_DEADLOCK FALSE
INVARIANTS TypeOK FoundMasked TokensStand KnownMasked ConfigInForce RestoredOnce NeverSilently AuditKept
PROPERTIES KeepsProtection
