----------------------------- MODULE MCPartition -----------------------------
(* Instances of Partition for TLC: every constant is set in the cfg files. *)
EXTENDS Partition
=============================================================================
