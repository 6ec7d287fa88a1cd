CONSTANTS
  n1 = n1
  n2 = n2
  n3 = n3
  Node <- ThreeNodes
  Walk <- Walk123
  ReplicaFactor = 3
  WriteQuorum = 2
  ReadQuorum = 2
  Nobody = Nobody
  Versions = 2
  Reader = {r1}
  MaxDeaths = 1
  MaxRestarts = 1
SPECIFICATION Spec
SYMMETRY Symmetry
INVARIANTS AckedHeld QuorumReadFresh
CHECK_DEADLOCK FALSE
