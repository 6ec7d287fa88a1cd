CONSTANTS
  Key = {k1, k2}
  Reader = {}
  MaxVersion = 2
  MemMax = 1
  L0Threshold = 1
  CacheCap = 1
  CrashTears = FALSE
  ShortWrites = FALSE
  MaxWrites = 3
  MaxTables = 5
  MaxCrashes = 2
SPECIFICATION Spec
SYMMETRY Symmetry
INVARIANTS AckedDurable AckedServed FirstHitSuffices
PROPERTY ViewMonotone
CHECK_DEADLOCK FALSE
