------------------------------ MODULE MCGossip ------------------------------
(* Instances of Gossip for TLC: three nodes, as many as docker-compose.yml  *)
(* starts.                                                                  *)
EXTENDS Gossip, TLC

\* Every node is configured with all the others.
FullMesh == [n \in Node |-> Node \ {n}]

\* The nodes are alike.
Symmetry == Permutations(Node)
=============================================================================
