CONSTANTS
  Proc = {p1, p2, p3}
  Stat = {x}
  Nil = Nil
  MaxCount = 2
  MaxSample = 3
  Replica = {r1}
  MaxWrites = 3
SPECIFICATION VcSpec
SYMMETRY Symmetry
INVARIANT KeepsHighestRank
CHECK_DEADLOCK FALSE
