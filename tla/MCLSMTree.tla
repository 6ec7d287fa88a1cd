---------------------------- MODULE MCLSMTree ----------------------------
(* Instances of LSMTree for TLC. *)
EXTENDS LSMTree, TLC

\* Keys, and readers, are interchangeable.
Symmetry == Permutations(Key) \cup Permutations(Reader)
=============================================================================
