CONSTANTS
  Node = {n1, n2, n3}
  Peers <- FullMesh
  SuspectAfter = 3
  DeadAfter = 4
  Fanout = 3
  MaxInc = 4
  MaxLoss = 2
  MaxStalls = 1
  MaxCrashes = 2
  MaxRestarts = 1
SPECIFICATION Spec
INVARIANTS DeadToTheLast IncarnationsSound NoFalseSuspicion
SYMMETRY Symmetry
