CONSTANTS
  n1 = n1
  n2 = n2
  n3 = n3
  Node <- ThreeNodes
  Walk <- Walk123
  ReplicaFactor = 3
  WriteQuorum = 2
  ReadQuorum = 2
  Nobody = Nobody
  Versions = 1
  Reader = {r1}
  MaxDeaths = 0
  MaxRestarts = 0
SPECIFICATION Spec
SYMMETRY Symmetry
INVARIANT ReadFresh
CHECK_DEADLOCK FALSE
