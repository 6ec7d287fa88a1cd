------------------------------ MODULE MCIngest ------------------------------
(* Instances of Ingest for TLC: two tiers of one region. *)
EXTENDS Ingest, TLC
CONSTANTS challenger, iron
MCTask == {challenger, iron}
MCRank == challenger :> 0 @@ iron :> 8
=============================================================================
