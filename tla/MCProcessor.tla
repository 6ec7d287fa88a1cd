---------------------------- MODULE MCProcessor ----------------------------
(* Instances of Processor for TLC: every constant is set in the cfg files. *)
EXTENDS Processor
=============================================================================
