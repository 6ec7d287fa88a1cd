----------------------------- MODULE AppendLog -----------------------------
(***************************************************************************)
(* What a broker partition promises its readers: an append-only log with   *)
(* head retention.  Offsets are contiguous, a record keeps its offset and  *)
(* its payload for as long as it is retained, and records leave the log    *)
(* oldest first only.                                                      *)
(***************************************************************************)
EXTENDS Integers

CONSTANT Payload

VARIABLES lo,     \* lowest retained offset
          hi,     \* next offset to assign
          rec     \* the retained records: [lo .. hi-1 -> Payload]

logVars == <<lo, hi, rec>>

LogInit == lo = 0 /\ hi = 0 /\ rec = [o \in 0 .. -1 |-> 0]

\* One record is appended; the head may be dropped with it, never the new
\* record itself.
Publish(p) ==
  /\ hi' = hi + 1
  /\ lo' \in lo .. hi
  /\ rec' = [o \in lo' .. hi |-> IF o = hi THEN p ELSE rec[o]]

\* The head is dropped, one record at least is kept.
Retain ==
  /\ lo' \in lo .. hi - 1
  /\ hi' = hi
  /\ rec' = [o \in lo' .. hi - 1 |-> rec[o]]

LogNext == Retain \/ \E p \in Payload : Publish(p)

LogSpec == LogInit /\ [][LogNext]_logVars
=============================================================================
