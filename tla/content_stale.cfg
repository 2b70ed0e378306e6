SPECIFICATION Spec
CONSTANTS
  a = a
  b = b
  letter = letter
  note = note
  t1 = t1
  t2 = t2
  Threads = {t1, t2}
  Values = {a, b}
  Contents = {letter, note}
  Holds <- HoldsMC
  Finds <- FindsMC
  NerFinds <- NerMC
  CacheMax = 1
  MaxLives = 1
  None = None
SYMMETRY ThreadSymmetry
INVARIANTS LaterMasked
