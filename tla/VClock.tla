------------------------------- MODULE VClock -------------------------------
(***************************************************************************)
(* Conflict resolution: metastore/vclock.go, for the entries of one key    *)
(* as they reach the replicas of that key.  Write sends an entry to every  *)
(* owner in goroutines of their own (Server.replicaWrite), so each replica *)
(* meets the entries in an order of its own and keeps what MemTable.Put,   *)
(* which calls pickNewer, leaves.                                          *)
(*                                                                         *)
(* Module LSMTree calls a "version" what is called Rank here.              *)
(***************************************************************************)
EXTENDS Integers, FiniteSets, Functions

CONSTANTS Proc,        \* the writers with a component in the clock
          MaxCount,    \* bound: components of a clock
          MaxSample,   \* bound: SampleSize
          Stat,        \* the statistics pickNewer does not look at
          Nil,         \* no entry
          Replica,
          MaxWrites    \* bound: entries written

\* A missing component counts as 0 in every operation, so clocks are total.
\* The processor that writes an entry has counted its own flush.
Clock == {c \in [Proc -> 0 .. MaxCount] : \E p \in Proc : c[p] > 0}
Entry == [clock : Clock, sample : 1 .. MaxSample, stat : Stat]

ASSUME VClockAssumption ==
  IsFiniteSet(Proc) /\ {MaxCount, MaxSample, MaxWrites} \subseteq Nat /\ Nil \notin Entry

VARIABLES sent,      \* entries written
          applied,   \* applied[r]: those replica r has put
          held       \* held[r]: what its memtable has

vcVars == <<sent, applied, held>>

VcSum(c) == SumFunction(c)
VcDominates(a, b) == \A p \in DOMAIN b : a[p] >= b[p]

\* Mutant of PickNewer: the event count alone decides, a tie for the later.
PickNewerLater(a, b) ==
  CASE a = Nil -> b
    [] a # Nil /\ b = Nil -> a
    [] a # Nil /\ b # Nil -> IF VcSum(a.clock) > VcSum(b.clock) THEN a ELSE b

PickNewer(a, b) ==
  CASE a = Nil -> b
    [] a # Nil /\ b = Nil -> a
    [] a # Nil /\ b # Nil ->
       LET aDom == VcDominates(a.clock, b.clock)
           bDom == VcDominates(b.clock, a.clock)
           sa == VcSum(a.clock)
           sb == VcSum(b.clock)
       IN  CASE aDom /\ ~bDom -> a
             [] bDom /\ ~aDom -> b
             [] aDom = bDom /\ sa # sb -> IF sa > sb THEN a ELSE b
             [] aDom = bDom /\ sa = sb -> IF a.sample >= b.sample THEN a ELSE b

VcInit ==
  /\ sent = {}
  /\ applied = [r \in Replica |-> {}]
  /\ held = [r \in Replica |-> Nil]

\* A processor writes what it has aggregated.
WriteStat(e) ==
  /\ e \notin sent /\ Cardinality(sent) < MaxWrites
  /\ sent' = sent \cup {e}
  /\ UNCHANGED <<applied, held>>

\* MemTable.Put at one replica.
Put(r, e) ==
  /\ e \in sent \ applied[r]
  /\ applied' = [applied EXCEPT ![r] = @ \cup {e}]
  /\ held' = [held EXCEPT ![r] = PickNewer(@, e)]
  /\ UNCHANGED sent

VcNext == \/ \E e \in Entry : WriteStat(e)
        \/ \E r \in Replica : \E e \in sent : Put(r, e)

VcSpec == VcInit /\ [][VcNext]_vcVars

-----------------------------------------------------------------------------
(* Properties                                                               *)

\* Every variable keeps its type.
VcTypeOK ==
  /\ sent \subseteq Entry
  /\ applied \in [Replica -> SUBSET Entry]
  /\ held \in [Replica -> Entry \cup {Nil}]

\* The total order behind pickNewer: event count, then sample size.
Rank(e) == VcSum(e.clock) * (MaxSample + 1) + e.sample

\* pickNewer compares two entries by dominance, which is partial, and only
\* then by two totals; applied one after the other in any order it must not
\* go round in circles: what is kept ranks at least as high as everything
\* applied.  "the entry whose vector clock dominates wins" (vclock.go:5)
\* follows, as a clock that dominates another has the greater sum.
KeepsHighestRank == \A r \in Replica : \A e \in applied[r] : Rank(held[r]) >= Rank(e)

=============================================================================
