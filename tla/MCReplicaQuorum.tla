--------------------------- MODULE MCReplicaQuorum ---------------------------
(* Instances of ReplicaQuorum for TLC. *)
EXTENDS ReplicaQuorum, TLC

CONSTANTS n1, n2, n3
ThreeNodes == {n1, n2, n3}
Walk123 == <<n1, n2, n3>>

\* With as many replicas as nodes the walk decides nothing.
Symmetry == Permutations(ThreeNodes)
=============================================================================
