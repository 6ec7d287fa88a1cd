---------------------------- MODULE ReplicaQuorum ----------------------------
(***************************************************************************)
(* Quorum writes and reads of one key: Write, Read and onPeerDead of       *)
(* metastore/server.go.                                                    *)
(*                                                                         *)
(* What a node's LSM tree holds for the key is a version, ordered as       *)
(* pickNewer orders entries (module VClock); it survives restarts (module  *)
(* LSMTree).  Of the gossip layer nothing is assumed (module Gossip):      *)
(* IsAlive may answer anything at any time, and the onDead callback, which *)
(* shrinks the ring for good, may name any peer.  A node that is down is   *)
(* one that takes no step until it restarts.  Every write is of its own    *)
(* version.                                                                *)
(***************************************************************************)
EXTENDS Integers, Sequences, FiniteSets

CONSTANTS Node,
          Walk,           \* the nodes in the order the key's ring walk meets them
          ReplicaFactor, WriteQuorum, ReadQuorum,
          Versions,       \* the versions written are 1 .. Versions
          Reader,
          Nobody,         \* the coordinator of a call that has not begun
          MaxDeaths,      \* bound: peers declared dead
          MaxRestarts     \* bound: restarts of a node

ASSUME QuorumAssumption ==
  /\ Walk \in [1 .. Cardinality(Node) -> Node] /\ {Walk[i] : i \in DOMAIN Walk} = Node
  /\ IsFiniteSet(Node)
  /\ {ReplicaFactor, WriteQuorum, ReadQuorum} \subseteq Nat \ {0}
  /\ {Versions, MaxDeaths, MaxRestarts} \subseteq Nat

Version == 0 .. Versions
Write == 1 .. Versions

WriteState == [pc : {"idle", "wait", "acked", "failed"}, at : Node \cup {Nobody},
               need : Nat, acks : SUBSET Node]
ReadState == [pc : {"idle", "loop", "done"}, at : Node \cup {Nobody}, need : Nat,
              todo : SUBSET Node, from : SUBSET Node, best : Version, acked : SUBSET Write]

VARIABLES ring,     \* ring[n]: members of n's hash ring
          store,    \* store[n]: what n's tree holds of the key
          net,      \* replica writes under way: <<version, node>>
          wr, rd,   \* the calls of Write and Read
          deaths, restarts

vars == <<ring, store, net, wr, rd, deaths, restarts>>

-----------------------------------------------------------------------------

Newer(a, b) == IF a >= b THEN a ELSE b
Least(a, b) == IF a <= b THEN a ELSE b
Pos(n) == CHOOSE i \in DOMAIN Walk : Walk[i] = n

\* GetNodes: the first ReplicaFactor members of the ring on the key's walk.
Owners(R) == {n \in R : Cardinality({m \in R : Pos(m) < Pos(n)}) < ReplicaFactor}

NoWrite == [pc |-> "idle", at |-> Nobody, need |-> 0, acks |-> {}]
NoRead == [pc |-> "idle", at |-> Nobody, need |-> 0, todo |-> {}, from |-> {},
           best |-> 0, acked |-> {}]

Init ==
  /\ ring = [n \in Node |-> Node]
  /\ store = [n \in Node |-> 0]
  /\ net = {}
  /\ wr = [v \in Write |-> NoWrite] /\ rd = [r \in Reader |-> NoRead]
  /\ deaths = 0 /\ restarts = 0

Acked == {v \in Write : wr[v].pc = "acked"}

-----------------------------------------------------------------------------
(* Write                                                                    *)

\* Local write first, when the coordinator is an owner, then one goroutine per
\* other owner that IsAlive accepts.  lsm.Write may fail, with the entry in the
\* memtable already (a flush that failed) or not; that is no ack.  A ring always
\* holds its own node, so that there are owners.
WriteBegin(v, c) ==
  LET owners == Owners(ring[c])
  IN  /\ wr[v].pc = "idle"
      /\ \E stored, ok \in BOOLEAN :
           /\ ok => stored
           /\ stored => c \in owners
           /\ store' = IF stored THEN [store EXCEPT ![c] = Newer(@, v)] ELSE store
           /\ wr' = [wr EXCEPT ![v] =
                [pc   |-> "wait", at |-> c,
                 need |-> Least(WriteQuorum, Cardinality(owners)),
                 acks |-> IF ok THEN {c} ELSE {}]]
      /\ net' = net \cup {<<v, n>> : n \in owners \ {c}}
      /\ UNCHANGED <<ring, rd, deaths, restarts>>

\* The owner applies the forwarded write.  The answer counts if it arrives
\* while the coordinator still waits.  A call that is lost, refused or, for
\* IsAlive, never made is one for which this does not happen.
Deliver(v, n) ==
  /\ <<v, n>> \in net
  /\ net' = net \ {<<v, n>>}
  /\ store' = [store EXCEPT ![n] = Newer(@, v)]
  /\ \/ wr[v].pc = "wait" /\ wr' = [wr EXCEPT ![v].acks = @ \cup {n}]
     \/ UNCHANGED wr
  /\ UNCHANGED <<ring, rd, deaths, restarts>>

\* The call is over: its coordinator and later answers matter to nobody.
Ended(v, pc) == [wr[v] EXCEPT !.pc = pc, !.at = Nobody, !.acks = {}]

\* Mutant of WriteReturn: one ack fewer is enough.
WriteReturnEarly(v) ==
  /\ wr[v].pc = "wait" /\ Cardinality(wr[v].acks) >= wr[v].need - 1
  /\ wr' = [wr EXCEPT ![v] = Ended(v, "acked")]
  /\ UNCHANGED <<ring, store, net, rd, deaths, restarts>>

\* The loop over results ends at the quorum ...
WriteReturn(v) ==
  /\ wr[v].pc = "wait" /\ Cardinality(wr[v].acks) >= wr[v].need
  /\ wr' = [wr EXCEPT ![v] = Ended(v, "acked")]
  /\ UNCHANGED <<ring, store, net, rd, deaths, restarts>>

\* ... or when the other owners have failed or timed out, too.
WriteFail(v) ==
  /\ wr[v].pc = "wait" /\ Cardinality(wr[v].acks) < wr[v].need
  /\ wr' = [wr EXCEPT ![v] = Ended(v, "failed")]
  /\ UNCHANGED <<ring, store, net, rd, deaths, restarts>>

-----------------------------------------------------------------------------
(* Read                                                                     *)

\* The list of owners, and our own replica, which is first in it.
ReadBegin(r, c) ==
  LET owners == Owners(ring[c])
      self == {c} \cap owners
  IN  /\ rd[r].pc = "idle"
      /\ rd' = [rd EXCEPT ![r] =
           [pc |-> "loop", at |-> c, need |-> Least(ReadQuorum, Cardinality(owners)),
            todo |-> owners \ {c}, from |-> self,
            best |-> IF self # {} THEN store[c] ELSE 0, acked |-> Acked]]
      /\ UNCHANGED <<ring, store, net, wr, deaths, restarts>>

\* The owner whose turn it is.  The others come in the order of the key's
\* walk; every order is allowed here.
Turn(r, n) == rd[r].pc = "loop" /\ n \in rd[r].todo

ReadSkip(r, n) ==
  /\ Turn(r, n)
  /\ rd' = [rd EXCEPT ![r].todo = @ \ {n}]
  /\ UNCHANGED <<ring, store, net, wr, deaths, restarts>>

\* What is left to ask: nobody, once need replicas answered and one had a value.
Remaining(r, n, from, best) ==
  IF Cardinality(from) >= rd[r].need /\ best # 0 THEN {} ELSE rd[r].todo \ {n}

\* Mutant of ReadReplica: the entry read last is kept, not the newer one.
ReadReplicaLast(r, n) ==
  /\ Turn(r, n)
  /\ LET from == rd[r].from \cup {n}
         best == IF store[n] # 0 THEN store[n] ELSE rd[r].best
     IN  rd' = [rd EXCEPT ![r].todo = Remaining(r, n, from, best),
                          ![r].from = from, ![r].best = best]
  /\ UNCHANGED <<ring, store, net, wr, deaths, restarts>>

ReadReplica(r, n) ==
  /\ Turn(r, n)
  /\ LET from == rd[r].from \cup {n}
         best == Newer(rd[r].best, store[n])
     IN  rd' = [rd EXCEPT ![r].todo = Remaining(r, n, from, best),
                          ![r].from = from, ![r].best = best]
  /\ UNCHANGED <<ring, store, net, wr, deaths, restarts>>

\* replicaRead fails or times out; the number of answers is looked at again.
ReadFail(r, n) ==
  /\ Turn(r, n)
  /\ rd' = [rd EXCEPT ![r].todo = Remaining(r, n, rd[r].from, rd[r].best)]
  /\ UNCHANGED <<ring, store, net, wr, deaths, restarts>>

\* Read answers with whatever it found, however many replicas answered.
ReadReturn(r) ==
  /\ rd[r].pc = "loop" /\ rd[r].todo = {}
  /\ rd' = [rd EXCEPT ![r].pc = "done", ![r].at = Nobody]
  /\ UNCHANGED <<ring, store, net, wr, deaths, restarts>>

-----------------------------------------------------------------------------
(* Membership and failures                                                  *)

\* onPeerDead.  Nothing puts a node back.
PeerDead(n, m) ==
  /\ n # m /\ m \in ring[n] /\ deaths < MaxDeaths
  /\ ring' = [ring EXCEPT ![n] = @ \ {m}]
  /\ deaths' = deaths + 1
  /\ UNCHANGED <<store, net, wr, rd, restarts>>

\* The node ends and NewServer runs: calls it coordinates end without an
\* answer, and everyone configured is in the ring again.
Restart(n) ==
  /\ restarts < MaxRestarts
  /\ restarts' = restarts + 1
  /\ ring' = [ring EXCEPT ![n] = Node]
  /\ wr' = [v \in Write |-> IF wr[v].pc = "wait" /\ wr[v].at = n
                            THEN Ended(v, "failed") ELSE wr[v]]
  /\ rd' = [r \in Reader |-> IF rd[r].pc = "loop" /\ rd[r].at = n
                             THEN NoRead ELSE rd[r]]
  /\ UNCHANGED <<store, net, deaths>>

Next ==
  \/ \E v \in Write : WriteReturn(v) \/ WriteFail(v)
  \/ \E v \in Write, n \in Node : WriteBegin(v, n) \/ Deliver(v, n)
  \/ \E r \in Reader : ReadReturn(r)
  \/ \E r \in Reader, n \in Node :
       ReadBegin(r, n) \/ ReadSkip(r, n) \/ ReadReplica(r, n) \/ ReadFail(r, n)
  \/ \E n, m \in Node : PeerDead(n, m)
  \/ \E n \in Node : Restart(n)

Spec == Init /\ [][Next]_vars

-----------------------------------------------------------------------------
(* Properties                                                               *)

\* Every variable keeps its type.
TypeOK ==
  /\ ring \in [Node -> SUBSET Node]
  /\ store \in [Node -> Version]
  /\ net \subseteq Write \X Node
  /\ wr \in [Write -> WriteState]
  /\ rd \in [Reader -> ReadState]
  /\ deaths \in Nat /\ restarts \in Nat

\* The nodes that hold v or something newer.
Holders(v) == {n \in Node : store[n] >= v}

\* A write that was acknowledged is held, then and ever after, by as many
\* nodes as its coordinator asked for.
AckedHeld == \A v \in Acked : Cardinality(Holders(v)) >= wr[v].need

\* The two quorums meet: a read that heard readQuorum replicas sees every
\* write that was acknowledged, by writeQuorum replicas, before it began,
\* whatever the two coordinators believed about the others at the time.
QuorumReadFresh ==
  \A r \in Reader : rd[r].pc = "done" /\ Cardinality(rd[r].from) >= ReadQuorum =>
    \A v \in rd[r].acked : wr[v].need >= WriteQuorum => rd[r].best >= v

\* "Quorum is always W=2, R=2 with N=3" (README.md:154) and "zero data loss"
\* (README.md:177): every read sees every write acknowledged before it began.
ReadFresh ==
  \A r \in Reader : rd[r].pc = "done" => \A v \in rd[r].acked : rd[r].best >= v

=============================================================================
