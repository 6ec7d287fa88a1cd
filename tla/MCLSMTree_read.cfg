CONSTANTS
  Key = {k1, k2}
  Reader = {r1, r2}
  MaxVersion = 2
  MemMax = 1
  L0Threshold = 1
  CacheCap = 1
  CrashTears = FALSE
  ShortWrites = TRUE
  MaxWrites = 2
  MaxTables = 2
  MaxCrashes = 0
SPECIFICATION Spec
SYMMETRY Symmetry
INVARIANT ReadSeesAcked
