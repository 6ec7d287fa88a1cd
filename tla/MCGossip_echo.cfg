CONSTANTS
  Node = {n1, n2, n3}
  Peers <- FullMesh
  SuspectAfter = 2
  DeadAfter = 3
  Fanout = 3
  MaxInc = 2
  MaxLoss = 0
  MaxStalls = 0
  MaxCrashes = 1
  MaxRestarts = 0
SPECIFICATION Spec
INVARIANT DeadWhenDown
