------------------------------ MODULE MCVClock ------------------------------
(* Instances of VClock for TLC. *)
EXTENDS VClock, TLC

\* Replicas, processors and statistics are each interchangeable.
Symmetry == Permutations(Replica) \cup Permutations(Proc) \cup Permutations(Stat)
=============================================================================
