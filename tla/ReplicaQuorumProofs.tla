------------------------ MODULE ReplicaQuorumProofs ------------------------
(***************************************************************************)
(* Proofs about ReplicaQuorum, for every set of nodes, every walk, every   *)
(* replica factor, any number of writes, reads, deaths and restarts, and   *)
(* about VClock, for any number of writers: that the versions the quorums  *)
(* are proved about stand for the entries pickNewer compares.              *)
(***************************************************************************)
EXTENDS ReplicaQuorum, VClock, FiniteSetTheorems, WellFoundedInduction, TLAPS

-----------------------------------------------------------------------------
(* Types                                                                    *)

\* A set of nodes is finite, and the smaller of two numbers is a number.
LEMMA CountNodes ==
  ASSUME NEW S, S \subseteq Node
  PROVE  IsFiniteSet(S) /\ Cardinality(S) \in Nat
BY QuorumAssumption, FS_Subset, FS_CardinalityType

\* The number of answers a call waits for.
LEMMA NeedType ==
  ASSUME NEW R, R \subseteq Node, NEW q \in Nat
  PROVE  Owners(R) \subseteq Node /\ Least(q, Cardinality(Owners(R))) \in Nat
PROOF
  <1>1. Owners(R) \subseteq Node
    BY DEF Owners
  <1>2. Cardinality(Owners(R)) \in Nat
    BY <1>1, CountNodes
  <1> QED BY <1>1, <1>2 DEF Least

\* The tree of a node never goes back, whatever it is given.
LEMMA NewerType ==
  ASSUME NEW a \in Version, NEW b \in Version
  PROVE  Newer(a, b) \in Version /\ Newer(a, b) >= a /\ Newer(a, b) >= b
BY QuorumAssumption DEF Newer, Version

\* Calls that have not begun and calls that have ended.
LEMMA CallTypes ==
  /\ NoWrite \in WriteState /\ NoRead \in ReadState
  /\ TypeOK => \A v \in Write, pc \in {"acked", "failed"} : Ended(v, pc) \in WriteState
PROOF
  <1>1. NoWrite \in WriteState
    BY DEF NoWrite, WriteState
  <1>2. NoRead \in ReadState
    <2>1. 0 \in Version
      BY QuorumAssumption DEF Version
    <2> QED BY <2>1 DEF NoRead, ReadState
  <1>3. ASSUME TypeOK, NEW v \in Write, NEW pc \in {"acked", "failed"}
        PROVE  Ended(v, pc) \in WriteState
    <2>1. wr[v] \in WriteState
      BY <1>3 DEF TypeOK
    <2> QED BY <2>1 DEF Ended, WriteState
  <1> QED BY <1>1, <1>2, <1>3

\* No step of server.go takes a variable out of its type.
LEMMA TypeStep == TypeOK /\ [Next]_vars => TypeOK'
PROOF
  <1> SUFFICES ASSUME TypeOK, [Next]_vars PROVE TypeOK'
    OBVIOUS
  <1>0. Write \subseteq Version /\ 0 \in Version /\ \A v \in Version : v \in Int
    BY QuorumAssumption DEF Write, Version
  <1>1. ASSUME NEW v \in Write, WriteReturn(v) \/ WriteFail(v) PROVE TypeOK'
    BY <1>1, CallTypes DEF WriteReturn, WriteFail, TypeOK
  <1>2. ASSUME NEW v \in Write, NEW c \in Node, WriteBegin(v, c) PROVE TypeOK'
    <2>1. Owners(ring[c]) \subseteq Node /\ Least(WriteQuorum, Cardinality(Owners(ring[c]))) \in Nat
      BY NeedType, QuorumAssumption DEF TypeOK
    <2>2. store' \in [Node -> Version]
      <3>1. Newer(store[c], v) \in Version
        BY <1>0, NewerType DEF TypeOK
      <3> QED BY <1>2, <3>1 DEF WriteBegin, TypeOK
    <2>3. wr' \in [Write -> WriteState]
      BY <1>2, <2>1 DEF WriteBegin, TypeOK, WriteState
    <2>4. net' \subseteq Write \X Node
      BY <1>2, <2>1 DEF WriteBegin, TypeOK
    <2> QED BY <1>2, <2>2, <2>3, <2>4 DEF WriteBegin, TypeOK
  <1>3. ASSUME NEW v \in Write, NEW n \in Node, Deliver(v, n) PROVE TypeOK'
    <2>1. Newer(store[n], v) \in Version
      BY <1>0, NewerType DEF TypeOK
    <2>2. wr' \in [Write -> WriteState]
      BY <1>3 DEF Deliver, TypeOK, WriteState
    <2> QED BY <1>3, <2>1, <2>2 DEF Deliver, TypeOK
  <1>4. ASSUME NEW r \in Reader, ReadReturn(r) PROVE TypeOK'
    <2>1. rd[r] \in ReadState
      BY DEF TypeOK
    <2>2. [rd[r] EXCEPT !.pc = "done", !.at = Nobody] \in ReadState
      BY <2>1 DEF ReadState
    <2>3. rd' = [rd EXCEPT ![r] = [rd[r] EXCEPT !.pc = "done", !.at = Nobody]]
      BY <1>4 DEF ReadReturn
    <2> QED BY <1>4, <2>2, <2>3 DEF ReadReturn, TypeOK
  <1>5. ASSUME NEW r \in Reader, NEW c \in Node, ReadBegin(r, c) PROVE TypeOK'
    <2>1. Owners(ring[c]) \subseteq Node /\ Least(ReadQuorum, Cardinality(Owners(ring[c]))) \in Nat
      BY NeedType, QuorumAssumption DEF TypeOK
    <2> QED BY <1>0, <1>5, <2>1 DEF ReadBegin, TypeOK, ReadState, Acked
  <1>6. ASSUME NEW r \in Reader, NEW n \in Node,
               ReadSkip(r, n) \/ ReadReplica(r, n) \/ ReadFail(r, n)
        PROVE  TypeOK'
    <2>1. CASE ReadSkip(r, n)
      BY <2>1 DEF ReadSkip, TypeOK, ReadState
    <2>2. CASE ReadReplica(r, n)
      <3>1. rd[r].best \in Version /\ store[n] \in Version
        BY DEF TypeOK, ReadState
      <3>2. Newer(rd[r].best, store[n]) \in Version
        BY <3>1, NewerType
      <3> DEFINE from == rd[r].from \cup {n}
                 best == Newer(rd[r].best, store[n])
                 todo == Remaining(r, n, from, best)
      <3>3. rd[r] \in ReadState /\ from \subseteq Node /\ todo \subseteq Node
        BY DEF TypeOK, ReadState, Remaining
      <3>4. rd' = [rd EXCEPT ![r] = [rd[r] EXCEPT !.todo = todo, !.from = from, !.best = best]]
        BY <2>2 DEF ReadReplica
      <3>5. [rd[r] EXCEPT !.todo = todo, !.from = from, !.best = best] \in ReadState
        <4> HIDE DEF from, best, todo
        <4> QED BY <3>2, <3>3 DEF ReadState, best
      <3> QED BY <2>2, <3>4, <3>5 DEF ReadReplica, TypeOK
    <2>3. CASE ReadFail(r, n)
      BY <2>3 DEF ReadFail, Remaining, TypeOK, ReadState
    <2> QED BY <1>6, <2>1, <2>2, <2>3
  <1>7. ASSUME NEW n \in Node, NEW m \in Node, PeerDead(n, m) PROVE TypeOK'
    BY <1>7 DEF PeerDead, TypeOK
  <1>8. ASSUME NEW n \in Node, Restart(n) PROVE TypeOK'
    BY <1>8, CallTypes DEF Restart, TypeOK
  <1>9. CASE UNCHANGED vars
    BY <1>9 DEF vars, TypeOK
  <1> QED BY <1>1, <1>2, <1>3, <1>4, <1>5, <1>6, <1>7, <1>8, <1>9 DEF Next

\* server.go: the state of every node and of every call keeps its type.
THEOREM TypeCorrect == Spec => []TypeOK
PROOF
  <1>1. Init => TypeOK
    BY QuorumAssumption, CallTypes DEF Init, TypeOK, Version
  <1> QED BY <1>1, TypeStep, PTL DEF Spec

-----------------------------------------------------------------------------
(* Acknowledged writes stay held, and the quorums meet                      *)

\* Whoever acknowledged a write that is under way holds it.
AcksHold == \A v \in Write : wr[v].pc = "wait" => \A n \in wr[v].acks : store[n] >= v

\* The writes a read must see stay acknowledged, and a read that has begun has
\* each of them, or has still as many holders of it ahead as acknowledged it.
HoldersAhead ==
  \A r \in Reader : \A v \in rd[r].acked :
    /\ wr[v].pc = "acked"
    /\ rd[r].best >= v \/ Cardinality(Holders(v) \ rd[r].from) >= wr[v].need

QuorumInv == TypeOK /\ AcksHold /\ AckedHeld /\ HoldersAhead

\* No step makes a node forget: of pickNewer and what LSMTree shows of a tree.
LEMMA StoreGrows ==
  ASSUME TypeOK, [Next]_vars
  PROVE  \A n \in Node : store'[n] >= store[n]
PROOF
  <1>0. Write \subseteq Version /\ \A v \in Version : v >= v
    BY QuorumAssumption DEF Write, Version
  <1>1. ASSUME NEW v \in Write, NEW c \in Node, WriteBegin(v, c) \/ Deliver(v, c)
        PROVE  \A n \in Node : store'[n] >= store[n]
    <2>1. Newer(store[c], v) >= store[c]
      BY <1>0, NewerType DEF TypeOK
    <2>2. store' = store \/ store' = [store EXCEPT ![c] = Newer(@, v)]
      BY <1>1 DEF WriteBegin, Deliver
    <2> QED BY <1>0, <2>1, <2>2 DEF TypeOK
  <1>2. CASE store' = store
    BY <1>0, <1>2 DEF TypeOK
  <1> QED BY <1>1, <1>2 DEF Next, vars, WriteReturn, WriteFail, ReadReturn, ReadBegin, ReadSkip,
                            ReadReplica, ReadFail, PeerDead, Restart

\* Holders stay holders, so that counts of them only grow.
LEMMA HoldersGrow ==
  ASSUME TypeOK, TypeOK', [Next]_vars, NEW v \in Write, NEW S
  PROVE  /\ Holders(v) \subseteq Holders(v)'
         /\ Cardinality(Holders(v) \ S) \in Nat /\ Cardinality((Holders(v) \ S)') \in Nat
         /\ Cardinality(Holders(v) \ S) <= Cardinality(Holders(v)' \ S)
PROOF
  <1>1. Holders(v) \subseteq Holders(v)'
    <2>1. \A n \in Node : store'[n] >= store[n]
      BY StoreGrows
    <2>2. \A n \in Node : store[n] \in Int /\ store'[n] \in Int
      BY QuorumAssumption DEF TypeOK, Version
    <2> QED BY <2>1, <2>2, QuorumAssumption DEF Holders, Write
  <1>2. Holders(v)' \ S \subseteq Node /\ Holders(v) \ S \subseteq Node
    BY DEF Holders
  <1> QED BY <1>1, <1>2, CountNodes, FS_Subset

\* A call that ends keeps the number of answers it asked for.
LEMMA EndedCall ==
  ASSUME TypeOK, NEW v \in Write, NEW pc
  PROVE  Ended(v, pc).pc = pc /\ Ended(v, pc).need = wr[v].need
PROOF
  <1>1. wr[v] \in WriteState
    BY DEF TypeOK
  <1> QED BY <1>1 DEF Ended, WriteState

\* What a step may do to a call of Write: begin it, add an ack, or end it.
LEMMA WriteSteps ==
  ASSUME TypeOK, [Next]_vars, NEW v \in Write
  PROVE  \/ wr'[v] = wr[v]
         \/ wr[v].pc = "idle" /\ wr'[v].pc = "wait"
              /\ \A n \in wr'[v].acks : store'[n] >= v
         \/ wr[v].pc = "wait" /\ wr'[v].pc = "wait" /\ wr'[v].need = wr[v].need
              /\ \E n \in Node : wr'[v].acks = wr[v].acks \cup {n} /\ store'[n] >= v
         \/ wr[v].pc = "wait" /\ wr'[v].pc = "acked" /\ wr'[v].need = wr[v].need
              /\ Cardinality(wr[v].acks) >= wr[v].need
         \/ wr[v].pc = "wait" /\ wr'[v].pc = "failed"
PROOF
  <1> DEFINE Goal == \/ wr'[v] = wr[v]
                     \/ wr[v].pc = "idle" /\ wr'[v].pc = "wait"
                          /\ \A n \in wr'[v].acks : store'[n] >= v
                     \/ wr[v].pc = "wait" /\ wr'[v].pc = "wait" /\ wr'[v].need = wr[v].need
                          /\ \E n \in Node : wr'[v].acks = wr[v].acks \cup {n} /\ store'[n] >= v
                     \/ wr[v].pc = "wait" /\ wr'[v].pc = "acked" /\ wr'[v].need = wr[v].need
                          /\ Cardinality(wr[v].acks) >= wr[v].need
                     \/ wr[v].pc = "wait" /\ wr'[v].pc = "failed"
  <1>0. v \in Version /\ v \in Int /\ wr \in [Write -> WriteState] /\ wr[v] \in WriteState
    BY QuorumAssumption DEF Write, Version, TypeOK
  <1>1. ASSUME NEW u \in Write, WriteReturn(u) \/ WriteFail(u) PROVE Goal
    BY <1>0, <1>1, EndedCall DEF WriteReturn, WriteFail
  <1>2. ASSUME NEW u \in Write, NEW c \in Node, WriteBegin(u, c) PROVE Goal
    <2>1. CASE u # v
      BY <1>0, <1>2, <2>1 DEF WriteBegin
    <2>2. CASE u = v
      <3>1. Newer(store[c], v) >= v
        BY <1>0, NewerType DEF TypeOK
      <3>2. PICK stored \in BOOLEAN, ok \in BOOLEAN :
              /\ ok => stored
              /\ store' = IF stored THEN [store EXCEPT ![c] = Newer(@, v)] ELSE store
              /\ wr' = [wr EXCEPT ![v] =
                          [pc   |-> "wait", at |-> c,
                           need |-> Least(WriteQuorum, Cardinality(Owners(ring[c]))),
                           acks |-> IF ok THEN {c} ELSE {}]]
        BY <1>2, <2>2 DEF WriteBegin
      <3>3. wr'[v].pc = "wait" /\ wr'[v].acks = (IF ok THEN {c} ELSE {})
        BY <1>0, <3>2
      <3>4. ok => store'[c] >= v
        BY <3>1, <3>2 DEF TypeOK
      <3> QED BY <1>2, <2>2, <3>3, <3>4 DEF WriteBegin
    <2> QED BY <2>1, <2>2
  <1>3. ASSUME NEW u \in Write, NEW n \in Node, Deliver(u, n) PROVE Goal
    <2>1. CASE u # v \/ wr' = wr
      BY <1>0, <1>3, <2>1 DEF Deliver
    <2>2. CASE u = v /\ wr' # wr
      <3>1. Newer(store[n], v) >= v
        BY <1>0, NewerType DEF TypeOK
      <3>2. store'[n] >= v
        BY <1>3, <2>2, <3>1 DEF Deliver, TypeOK
      <3>3. wr[v].pc = "wait" /\ wr' = [wr EXCEPT ![v].acks = @ \cup {n}]
        BY <1>3, <2>2 DEF Deliver
      <3>4. /\ wr'[v].pc = "wait" /\ wr'[v].need = wr[v].need
            /\ wr'[v].acks = wr[v].acks \cup {n}
        BY <1>0, <3>3 DEF WriteState
      <3> QED BY <3>2, <3>3, <3>4
    <2> QED BY <2>1, <2>2
  <1>4. ASSUME NEW n \in Node, Restart(n) PROVE Goal
    <2>1. wr'[v] = wr[v] \/ (wr[v].pc = "wait" /\ wr'[v] = Ended(v, "failed"))
      BY <1>4 DEF Restart
    <2>2. Ended(v, "failed").pc = "failed"
      BY EndedCall
    <2> QED BY <2>1, <2>2, Zenon
  <1>5. CASE wr' = wr
    BY <1>5
  <1>6. ASSUME NEW r \in Reader, NEW n \in Node,
               ReadReturn(r) \/ ReadBegin(r, n) \/ ReadSkip(r, n) \/ ReadReplica(r, n) \/ ReadFail(r, n)
        PROVE  wr' = wr
    BY <1>6 DEF ReadReturn, ReadBegin, ReadSkip, ReadReplica, ReadFail
  <1>7. ASSUME NEW n \in Node, NEW m \in Node, PeerDead(n, m) PROVE wr' = wr
    BY <1>7 DEF PeerDead
  <1>8. CASE UNCHANGED vars
    BY <1>8 DEF vars
  <1>9. ASSUME NEW r \in Reader, ReadReturn(r) PROVE wr' = wr
    BY <1>9 DEF ReadReturn
  <1> QED BY <1>1, <1>2, <1>3, <1>4, <1>5, <1>6, <1>7, <1>8, <1>9 DEF Next

\* Write counts an ack only of a replica that stored the version.
LEMMA AcksHoldStep == QuorumInv /\ TypeOK' /\ [Next]_vars => AcksHold'
PROOF
  <1> SUFFICES ASSUME QuorumInv, TypeOK', [Next]_vars,
                      NEW v \in Write, wr'[v].pc = "wait", NEW n \in wr'[v].acks
               PROVE  store'[n] >= v
    BY DEF AcksHold
  <1>1. v \in Int /\ n \in Node /\ wr[v].acks \subseteq Node
    BY QuorumAssumption DEF QuorumInv, TypeOK, WriteState, Write
  <1>2. ASSUME n \in wr[v].acks, wr[v].pc = "wait" PROVE store'[n] >= v
    <2>1. store[n] >= v
      BY <1>2 DEF QuorumInv, AcksHold
    <2>2. store'[n] >= store[n]
      BY <1>1, StoreGrows DEF QuorumInv
    <2>3. store[n] \in Int /\ store'[n] \in Int
      BY <1>1, QuorumAssumption DEF QuorumInv, TypeOK, Version
    <2> QED BY <1>1, <2>1, <2>2, <2>3
  <1>3. TypeOK
    BY DEF QuorumInv
  <1> QED BY <1>2, <1>3, WriteSteps

\* Write returns with enough acks, and who holds a version goes on holding it.
LEMMA AckedHeldStep == QuorumInv /\ TypeOK' /\ [Next]_vars => AckedHeld'
PROOF
  <1> SUFFICES ASSUME QuorumInv, TypeOK', [Next]_vars,
                      NEW v \in Write, wr'[v].pc = "acked"
               PROVE  Cardinality(Holders(v)') >= wr'[v].need
    BY DEF AckedHeld, Acked
  <1>0. TypeOK /\ wr[v].need \in Nat /\ wr[v].acks \subseteq Node
    BY DEF QuorumInv, TypeOK, WriteState
  <1>1. /\ Cardinality(Holders(v)) \in Nat /\ Cardinality(Holders(v)') \in Nat
        /\ Cardinality(Holders(v)) <= Cardinality(Holders(v)')
    <2>1. Holders(v) \ {} = Holders(v) /\ Holders(v)' \ {} = Holders(v)'
      OBVIOUS
    <2> QED BY <1>0, <2>1, HoldersGrow
  <1>2. CASE wr'[v] = wr[v]
    <2>1. v \in Acked
      BY <1>2 DEF Acked
    <2>2. Cardinality(Holders(v)) >= wr[v].need
      BY <2>1 DEF QuorumInv, AckedHeld
    <2> QED BY <1>0, <1>1, <1>2, <2>2
  <1>3. CASE /\ wr[v].pc = "wait" /\ wr'[v].need = wr[v].need
             /\ Cardinality(wr[v].acks) >= wr[v].need
    <2>1. wr[v].acks \subseteq Holders(v)
      BY <1>0, <1>3 DEF QuorumInv, AcksHold, Holders
    <2>2. Cardinality(wr[v].acks) <= Cardinality(Holders(v)) /\ Cardinality(wr[v].acks) \in Nat
      BY <1>0, <2>1, CountNodes, FS_Subset DEF Holders
    <2> QED BY <1>0, <1>1, <1>3, <2>2
  <1> QED BY <1>0, <1>2, <1>3, WriteSteps

\* A read that goes on, with what one more node answered, or without.
LEMMA HoldersAheadReads ==
  ASSUME QuorumInv, TypeOK', [Next]_vars, NEW r \in Reader, NEW v \in rd[r].acked,
         rd'[r].acked = rd[r].acked,
         \/ rd'[r].from = rd[r].from /\ rd'[r].best = rd[r].best
         \/ \E n \in Node : /\ rd'[r].from = rd[r].from \cup {n}
                            /\ rd'[r].best = Newer(rd[r].best, store[n])
                            /\ store' = store
  PROVE  rd'[r].best >= v \/ Cardinality(Holders(v)' \ rd'[r].from) >= wr[v].need
PROOF
  <1>0. /\ TypeOK /\ v \in Write /\ v \in Int /\ wr[v].need \in Nat
        /\ rd[r].best \in Version /\ rd[r].from \subseteq Node
    <2>1. TypeOK /\ rd[r] \in ReadState
      BY DEF QuorumInv, TypeOK
    <2>2. v \in Write /\ rd[r].best \in Version /\ rd[r].from \subseteq Node
      BY <2>1 DEF ReadState
    <2>3. wr[v] \in WriteState
      BY <2>1, <2>2 DEF TypeOK
    <2> QED BY <2>1, <2>2, <2>3, QuorumAssumption DEF WriteState, Write
  <1>1. rd[r].best >= v \/ Cardinality(Holders(v) \ rd[r].from) >= wr[v].need
    BY DEF QuorumInv, HoldersAhead
  <1>2. CASE rd'[r].from = rd[r].from /\ rd'[r].best = rd[r].best
    <2>1. /\ Cardinality(Holders(v) \ rd[r].from) <= Cardinality(Holders(v)' \ rd[r].from)
          /\ Cardinality(Holders(v) \ rd[r].from) \in Nat
          /\ Cardinality(Holders(v)' \ rd[r].from) \in Nat
      <3>1. Holders(v)' \ rd[r].from \subseteq Node
        BY DEF Holders
      <3> QED BY <1>0, <3>1, HoldersGrow, CountNodes
    <2> QED BY <1>0, <1>1, <1>2, <2>1
  <1>3. ASSUME NEW n \in Node, rd'[r].from = rd[r].from \cup {n},
               rd'[r].best = Newer(rd[r].best, store[n]), store' = store
        PROVE  rd'[r].best >= v \/ Cardinality(Holders(v)' \ rd'[r].from) >= wr[v].need
    <2>1. /\ rd'[r].best >= rd[r].best /\ rd'[r].best >= store[n]
          /\ rd'[r].best \in Int /\ rd[r].best \in Int /\ store[n] \in Int
      <3>1. store[n] \in Version
        BY <1>0 DEF TypeOK
      <3> QED BY <1>0, <1>3, <3>1, NewerType, QuorumAssumption DEF Version
    <2>2. CASE rd[r].best >= v \/ store[n] >= v
      BY <1>0, <2>1, <2>2
    <2>3. CASE ~ (rd[r].best >= v) /\ ~ (store[n] >= v)
      <3>1. Holders(v)' \ rd'[r].from = Holders(v) \ rd[r].from
        BY <1>3, <2>3 DEF Holders
      <3> QED BY <1>1, <2>3, <3>1
    <2> QED BY <2>2, <2>3
  <1> QED BY <1>2, <1>3

\* A read that begins: its coordinator's own replica is the first it hears.
LEMMA HoldersAheadBegin ==
  ASSUME QuorumInv, NEW r \in Reader, NEW c \in Node, ReadBegin(r, c), NEW v \in rd'[r].acked
  PROVE  /\ wr[v].pc = "acked" /\ v \in Write
         /\ rd'[r].best >= v \/ Cardinality(Holders(v) \ rd'[r].from) >= wr[v].need
PROOF
  <1> DEFINE self == {c} \cap Owners(ring[c])
  <1>1. /\ rd'[r].acked = Acked /\ rd'[r].from = self
        /\ rd'[r].best = IF self # {} THEN store[c] ELSE 0
    BY DEF ReadBegin, QuorumInv, TypeOK
  <1>2. v \in Write /\ wr[v].pc = "acked" /\ Cardinality(Holders(v)) >= wr[v].need
    BY <1>1 DEF Acked, QuorumInv, AckedHeld
  <1>3. CASE self # {} /\ store[c] >= v
    BY <1>1, <1>2, <1>3
  <1>4. CASE self = {} \/ ~ (store[c] >= v)
    <2>1. Holders(v) \ self = Holders(v)
      BY <1>4 DEF Holders
    <2> QED BY <1>1, <1>2, <2>1
  <1> QED BY <1>2, <1>3, <1>4

\* What a step does to a call of Read: nothing, begin it, drop it, or go on
\* with it, with one more answer or without.
LEMMA ReadSteps ==
  ASSUME TypeOK, [Next]_vars, NEW r \in Reader
  PROVE  \/ \E c \in Node : ReadBegin(r, c) /\ wr' = wr /\ store' = store
         \/ rd'[r].acked = {}
         \/ rd'[r].acked = rd[r].acked /\ rd'[r].from = rd[r].from /\ rd'[r].best = rd[r].best
         \/ /\ rd'[r].acked = rd[r].acked
            /\ \E n \in Node : /\ rd'[r].from = rd[r].from \cup {n}
                               /\ rd'[r].best = Newer(rd[r].best, store[n])
                               /\ store' = store
PROOF
  <1> DEFINE Goal == \/ \E c \in Node : ReadBegin(r, c) /\ wr' = wr /\ store' = store
                     \/ rd'[r].acked = {}
                     \/ rd'[r].acked = rd[r].acked /\ rd'[r].from = rd[r].from /\ rd'[r].best = rd[r].best
                     \/ /\ rd'[r].acked = rd[r].acked
                        /\ \E n \in Node : /\ rd'[r].from = rd[r].from \cup {n}
                                           /\ rd'[r].best = Newer(rd[r].best, store[n])
                                           /\ store' = store
  <1>0. rd \in [Reader -> ReadState] /\ rd[r] \in ReadState
    BY DEF TypeOK
  <1>1. CASE rd' = rd
    BY <1>1
  <1>2. ASSUME NEW q \in Reader, ReadReturn(q) PROVE Goal
    <2>1. rd' = [rd EXCEPT ![q] = [rd[q] EXCEPT !.pc = "done", !.at = Nobody]]
      BY <1>2 DEF ReadReturn
    <2> QED BY <1>0, <2>1 DEF ReadState
  <1>3. ASSUME NEW q \in Reader, NEW n \in Node, ReadBegin(q, n) PROVE Goal
    <2>1. CASE q = r
      BY <1>3, <2>1 DEF ReadBegin
    <2>2. CASE q # r
      BY <1>0, <1>3, <2>2 DEF ReadBegin
    <2> QED BY <2>1, <2>2
  <1>4. ASSUME NEW q \in Reader, NEW n \in Node, ReadSkip(q, n) \/ ReadFail(q, n) PROVE Goal
    <2>1. PICK todo : rd' = [rd EXCEPT ![q] = [rd[q] EXCEPT !.todo = todo]]
      <3>1. CASE ReadSkip(q, n)
        BY <3>1 DEF ReadSkip
      <3>2. CASE ReadFail(q, n)
        BY <3>2 DEF ReadFail
      <3> QED BY <1>4, <3>1, <3>2
    <2> QED BY <1>0, <2>1 DEF ReadState
  <1>5. ASSUME NEW q \in Reader, NEW n \in Node, ReadReplica(q, n) PROVE Goal
    <2>1. PICK todo : rd' = [rd EXCEPT ![q] = [rd[q] EXCEPT !.todo = todo,
                               !.from = rd[q].from \cup {n}, !.best = Newer(rd[q].best, store[n])]]
      BY <1>5 DEF ReadReplica
    <2>2. CASE q # r
      BY <1>0, <2>1, <2>2
    <2>3. CASE q = r
      <3>1. /\ rd'[r].acked = rd[r].acked /\ rd'[r].from = rd[r].from \cup {n}
            /\ rd'[r].best = Newer(rd[r].best, store[n])
        BY <1>0, <2>1, <2>3 DEF ReadState
      <3>2. store' = store
        BY <1>5 DEF ReadReplica
      <3> QED BY <3>1, <3>2
    <2> QED BY <2>2, <2>3
  <1>6. ASSUME NEW n \in Node, Restart(n) PROVE Goal
    <2>1. rd'[r] = rd[r] \/ rd'[r] = NoRead
      BY <1>6 DEF Restart
    <2> QED BY <2>1 DEF NoRead
  <1>7. ASSUME NEW v \in Write, NEW n \in Node, WriteBegin(v, n) \/ Deliver(v, n) PROVE rd' = rd
    BY <1>7 DEF WriteBegin, Deliver
  <1>8. ASSUME NEW v \in Write, WriteReturn(v) \/ WriteFail(v) PROVE rd' = rd
    BY <1>8 DEF WriteReturn, WriteFail
  <1>9. ASSUME NEW n \in Node, NEW m \in Node, PeerDead(n, m) PROVE rd' = rd
    BY <1>9 DEF PeerDead
  <1>10. CASE UNCHANGED vars
    BY <1>10 DEF vars
  <1> QED BY <1>1, <1>2, <1>3, <1>4, <1>5, <1>6, <1>7, <1>8, <1>9, <1>10 DEF Next

\* However Read goes on and the others write, what it must see stays ahead.
LEMMA HoldersAheadStep == QuorumInv /\ TypeOK' /\ [Next]_vars => HoldersAhead'
PROOF
  <1> SUFFICES ASSUME QuorumInv, TypeOK', [Next]_vars, NEW r \in Reader, NEW v \in rd'[r].acked
               PROVE  /\ wr'[v].pc = "acked"
                      /\ rd'[r].best >= v \/ Cardinality(Holders(v)' \ rd'[r].from) >= wr'[v].need
    BY DEF HoldersAhead
  <1>0. TypeOK
    BY DEF QuorumInv
  <1>1. ASSUME NEW c \in Node, ReadBegin(r, c), wr' = wr, store' = store
        PROVE  /\ wr'[v].pc = "acked"
               /\ rd'[r].best >= v \/ Cardinality(Holders(v)' \ rd'[r].from) >= wr'[v].need
    <2>1. Holders(v)' = Holders(v)
      BY <1>1 DEF Holders
    <2> QED BY <1>1, <2>1, HoldersAheadBegin
  <1>2. CASE /\ rd'[r].acked = rd[r].acked
             /\ \/ rd'[r].from = rd[r].from /\ rd'[r].best = rd[r].best
                \/ \E n \in Node : /\ rd'[r].from = rd[r].from \cup {n}
                                   /\ rd'[r].best = Newer(rd[r].best, store[n])
                                   /\ store' = store
    <2>1. v \in rd[r].acked
      BY <1>2
    <2>2. wr[v].pc = "acked" /\ v \in Write
      BY <1>0, <2>1 DEF QuorumInv, HoldersAhead, TypeOK, ReadState
    <2>3. wr'[v] = wr[v]
      BY <1>0, <2>2, WriteSteps
    <2>4. rd'[r].best >= v \/ Cardinality(Holders(v)' \ rd'[r].from) >= wr[v].need
      BY <1>2, <2>1, HoldersAheadReads
    <2> QED BY <2>2, <2>3, <2>4
  <1> QED BY <1>0, <1>1, <1>2, ReadSteps

\* server.go, Write and Read: the invariant the two theorems below rest on.
LEMMA QuorumInvariant == Spec => []QuorumInv
PROOF
  <1>1. Init => QuorumInv
    <2> SUFFICES ASSUME Init PROVE QuorumInv
      OBVIOUS
    <2>1. TypeOK
      BY QuorumAssumption, CallTypes DEF Init, TypeOK, Version
    <2>2. \A v \in Write : wr[v].pc = "idle"
      BY DEF Init, NoWrite
    <2>3. \A r \in Reader : rd[r].acked = {}
      BY DEF Init, NoRead
    <2> QED BY <2>1, <2>2, <2>3 DEF QuorumInv, AcksHold, AckedHeld, Acked, HoldersAhead
  <1>2. QuorumInv /\ [Next]_vars => QuorumInv'
    <2>1. QuorumInv /\ [Next]_vars => TypeOK'
      BY TypeStep DEF QuorumInv
    <2> QED BY <2>1, AcksHoldStep, AckedHeldStep, HoldersAheadStep DEF QuorumInv
  <1> QED BY <1>1, <1>2, PTL DEF Spec

\* server.go, Write: a write that was acknowledged is held, then and ever
\* after, by as many nodes as its coordinator asked for, whatever the
\* coordinators believe about the others and whoever restarts.
THEOREM AckedStayHeld == Spec => []AckedHeld
PROOF
  <1>1. QuorumInv => AckedHeld
    BY DEF QuorumInv
  <1> QED BY <1>1, QuorumInvariant, PTL

\* server.go, Read: where writeQuorum and readQuorum together exceed the
\* number of nodes (2 + 2 > 3 as deployed), a read that heard readQuorum
\* replicas sees every write that writeQuorum replicas acknowledged before it
\* began.
THEOREM QuorumsMeet ==
  ASSUME WriteQuorum + ReadQuorum > Cardinality(Node)
  PROVE  Spec => []QuorumReadFresh
PROOF
  <1>1. QuorumInv => QuorumReadFresh
    <2> SUFFICES ASSUME QuorumInv, NEW r \in Reader, Cardinality(rd[r].from) >= ReadQuorum,
                        NEW v \in rd[r].acked, wr[v].need >= WriteQuorum
                 PROVE  rd[r].best >= v
      BY DEF QuorumReadFresh
    <2>1. rd[r].best >= v \/ Cardinality(Holders(v) \ rd[r].from) >= wr[v].need
      BY DEF QuorumInv, HoldersAhead
    <2>2. rd[r].from \subseteq Node /\ wr[v].need \in Nat
      <3>1. rd[r] \in ReadState
        BY DEF QuorumInv, TypeOK
      <3>2. rd[r].from \subseteq Node /\ v \in Write
        BY <3>1 DEF ReadState
      <3>3. wr[v] \in WriteState
        BY <3>2 DEF QuorumInv, TypeOK
      <3> QED BY <3>2, <3>3 DEF WriteState
    <2> DEFINE S == rd[r].from
               T == Holders(v) \ rd[r].from
    <2>3. S \subseteq Node /\ T \subseteq Node /\ S \cap T = {}
      BY <2>2 DEF Holders
    <2>4. /\ IsFiniteSet(S) /\ IsFiniteSet(T) /\ S \cup T \subseteq Node
          /\ Cardinality(S) \in Nat /\ Cardinality(T) \in Nat /\ IsFiniteSet(Node) /\ Cardinality(Node) \in Nat
      BY <2>3, CountNodes
    <2>5. Cardinality(S \cup T) = Cardinality(S) + Cardinality(T)
      <3> HIDE DEF S, T
      <3>1. Cardinality(S \cup T) = Cardinality(S) + Cardinality(T) - Cardinality(S \cap T)
        BY <2>4, FS_Union
      <3>2. Cardinality(S \cap T) = 0
        BY <2>3, FS_EmptySet, Zenon
      <3> QED BY <2>4, <3>1, <3>2
    <2>6. Cardinality(S \cup T) <= Cardinality(Node)
      <3> HIDE DEF S, T
      <3> QED BY <2>4, FS_Subset
    <2>7. ~ (Cardinality(T) >= wr[v].need)
      <3> HIDE DEF T
      <3> QED BY <2>2, <2>4, <2>5, <2>6, QuorumAssumption
    <2> QED BY <2>1, <2>7
  <1> QED BY <1>1, QuorumInvariant, PTL

-----------------------------------------------------------------------------
(* Sums over finite sets                                                    *)

\* The recursion behind SumFunctionOnSet: it takes the elements out one by one.
Pick(s) == CHOOSE x \in s : TRUE
IsSum(g, S, it) ==
  it = [s \in SUBSET S |-> IF s = {} THEN 0 ELSE g[Pick(s)] + it[s \ {Pick(s)}]]

\* The same up to sets of n elements.
Small(S, n) == {s \in SUBSET S : Cardinality(s) <= n}
IsSumTo(g, S, it, n) ==
  it = [s \in Small(S, n) |-> IF s = {} THEN 0 ELSE g[Pick(s)] + it[s \ {Pick(s)}]]

\* A set of numbers has a least one.
LEMMA LeastOf ==
  ASSUME NEW B, B \subseteq Nat, B # {}
  PROVE  \E m \in B : \A i \in B : m <= i
PROOF
  <1>1. PICK m \in B : \A i \in B : ~ (<<i, m>> \in OpToRel(<, Nat))
    BY WFMin, NatLessThanWellFounded
  <1>2. \A i \in B : ~ (i < m)
    BY <1>1 DEF OpToRel
  <1>3. \A i \in B : m <= i
    BY <1>2
  <1> QED BY <1>3

\* Taking the picked element out leaves a smaller set.
LEMMA PickOut ==
  ASSUME NEW S, IsFiniteSet(S), NEW s \in SUBSET S, s # {}
  PROVE  /\ Pick(s) \in s /\ Pick(s) \in S /\ s \ {Pick(s)} \in SUBSET S
         /\ Cardinality(s) \in Nat /\ Cardinality(s \ {Pick(s)}) \in Nat
         /\ Cardinality(s \ {Pick(s)}) = Cardinality(s) - 1
PROOF
  <1>1. Pick(s) \in s
    BY DEF Pick
  <1>2. IsFiniteSet(s)
    BY FS_Subset
  <1>3. IsFiniteSet(s \ {Pick(s)}) /\ Cardinality(s \ {Pick(s)}) = Cardinality(s) - 1
    BY <1>1, <1>2, FS_RemoveElement
  <1> QED BY <1>1, <1>2, <1>3, FS_CardinalityType

\* The recursion has a solution.
LEMMA SumExists ==
  ASSUME NEW g, NEW S, IsFiniteSet(S)
  PROVE  \E it : IsSum(g, S, it)
PROOF
  <1>1. Cardinality(S) \in Nat /\ \A s \in SUBSET S : Cardinality(s) \in Nat /\ Cardinality(s) <= Cardinality(S)
    BY FS_Subset, FS_CardinalityType
  <1> DEFINE Without == {n \in Nat : \A it : ~IsSumTo(g, S, it, n)}
  <1>2. 0 \notin Without
    <2> DEFINE it == [s \in Small(S, 0) |-> 0]
    <2>1. \A s \in Small(S, 0) : s = {}
      <3> SUFFICES ASSUME NEW s \in Small(S, 0) PROVE s = {}
        OBVIOUS
      <3>1. IsFiniteSet(s) /\ Cardinality(s) = 0
        BY <1>1, FS_Subset DEF Small
      <3> QED BY <3>1, FS_EmptySet
    <2>2. it = [s \in Small(S, 0) |-> IF s = {} THEN 0 ELSE g[Pick(s)] + it[s \ {Pick(s)}]]
      BY <2>1
    <2> HIDE DEF it
    <2>3. IsSumTo(g, S, it, 0)
      BY <2>2 DEF IsSumTo
    <2> QED BY <2>3
  <1>3. ASSUME NEW n \in Nat, n \notin Without PROVE n + 1 \notin Without
    <2>1. PICK old : IsSumTo(g, S, old, n)
      BY <1>3
    <2> DEFINE it == [s \in Small(S, n + 1) |->
                        IF s \in Small(S, n) THEN old[s] ELSE g[Pick(s)] + old[s \ {Pick(s)}]]
    <2>2. \A s \in Small(S, n) : s \in Small(S, n + 1)
      BY <1>1 DEF Small
    <2>3. ASSUME NEW s \in Small(S, n + 1)
          PROVE  it[s] = IF s = {} THEN 0 ELSE g[Pick(s)] + it[s \ {Pick(s)}]
      <3>1. s \in SUBSET S /\ Cardinality(s) <= n + 1 /\ Cardinality(s) \in Nat
        BY <1>1 DEF Small
      <3>2. CASE s = {}
        <4>1. s \in Small(S, n)
          BY <3>1, <3>2, FS_EmptySet DEF Small
        <4>2. old[s] = 0
          BY <2>1, <3>2, <4>1 DEF IsSumTo
        <4> QED BY <2>2, <3>2, <4>1, <4>2
      <3>3. CASE s # {}
        <4>1. s \ {Pick(s)} \in Small(S, n)
          BY <3>1, <3>3, PickOut DEF Small
        <4>2. it[s \ {Pick(s)}] = old[s \ {Pick(s)}]
          BY <2>2, <4>1
        <4>3. s \in Small(S, n) => old[s] = g[Pick(s)] + old[s \ {Pick(s)}]
          BY <2>1, <3>3 DEF IsSumTo
        <4> QED BY <3>3, <4>2, <4>3
      <3> QED BY <3>2, <3>3
    <2>4. it = [s \in Small(S, n + 1) |-> IF s = {} THEN 0 ELSE g[Pick(s)] + it[s \ {Pick(s)}]]
      <3>1. it = [s \in Small(S, n + 1) |-> it[s]]
        OBVIOUS
      <3> HIDE DEF it
      <3> QED BY <2>3, <3>1
    <2> HIDE DEF it
    <2>5. IsSumTo(g, S, it, n + 1)
      BY <2>4 DEF IsSumTo
    <2> QED BY <2>5
  <1>4. Without = {}
    <2> SUFFICES ASSUME Without # {} PROVE FALSE
      OBVIOUS
    <2> Without \subseteq Nat
      OBVIOUS
    <2> HIDE DEF Without
    <2>1. PICK m \in Without : \A i \in Without : m <= i
      BY LeastOf
    <2>2. m \in Nat /\ m # 0
      BY <1>2
    <2>3. m - 1 \in Nat /\ m - 1 \notin Without
      BY <2>1, <2>2
    <2>4. (m - 1) + 1 \notin Without
      BY <1>3, <2>3
    <2> QED BY <2>2, <2>4
  <1>5. PICK it : IsSumTo(g, S, it, Cardinality(S))
    BY <1>1, <1>4
  <1>6. Small(S, Cardinality(S)) = SUBSET S
    BY <1>1 DEF Small
  <1> QED BY <1>5, <1>6 DEF IsSumTo, IsSum

Summed(g, S) == CHOOSE it : IsSum(g, S, it)

\* What the folds of the community modules compute, one element at a time.
LEMMA SumIs ==
  ASSUME NEW g, NEW S, IsFiniteSet(S)
  PROVE  /\ SumFunctionOnSet(g, S) = Summed(g, S)[S]
         /\ Summed(g, S)[{}] = 0
         /\ \A s \in SUBSET S : s # {} =>
              Summed(g, S)[s] = g[Pick(s)] + Summed(g, S)[s \ {Pick(s)}]
PROOF
  <1>1. SumFunctionOnSet(g, S) = Summed(g, S)[S]
    BY DEF SumFunctionOnSet, FoldFunctionOnSet, MapThenFoldSet, Summed, IsSum, Pick
  <1>2. IsSum(g, S, Summed(g, S))
    BY SumExists DEF Summed
  <1> HIDE DEF Summed
  <1> DEFINE it == Summed(g, S)
  <1>3. it = [s \in SUBSET S |-> IF s = {} THEN 0 ELSE g[Pick(s)] + it[s \ {Pick(s)}]]
    BY <1>2 DEF IsSum
  <1> HIDE DEF it
  <1>4. it[{}] = 0 /\ \A s \in SUBSET S : s # {} => it[s] = g[Pick(s)] + it[s \ {Pick(s)}]
    BY <1>3
  <1> QED BY <1>1, <1>4 DEF it

\* A sum of natural numbers is one, and not below any of them.
LEMMA SumAbove ==
  ASSUME NEW g, NEW S, IsFiniteSet(S), \A x \in S : g[x] \in Nat
  PROVE  SumFunctionOnSet(g, S) \in Nat /\ \A x \in S : SumFunctionOnSet(g, S) >= g[x]
PROOF
  <1> DEFINE it == Summed(g, S)
             Good(s) == it[s] \in Nat /\ \A x \in s : it[s] >= g[x]
             Bad == {n \in Nat : \E s \in SUBSET S : Cardinality(s) = n /\ ~Good(s)}
  <1>1. \A s \in SUBSET S : Cardinality(s) \in Nat
    BY FS_Subset, FS_CardinalityType
  <1>2. Bad = {}
    <2> SUFFICES ASSUME Bad # {} PROVE FALSE
      OBVIOUS
    <2>1. PICK m \in Bad : \A i \in Bad : m <= i
      <3> Bad \subseteq Nat
        OBVIOUS
      <3> HIDE DEF Bad
      <3> QED BY LeastOf
    <2>2. PICK s \in SUBSET S : Cardinality(s) = m /\ ~Good(s)
      OBVIOUS
    <2>3. s # {}
      <3>1. it[{}] = 0
        BY SumIs
      <3> HIDE DEF it
      <3> QED BY <2>2, <3>1
    <2> DEFINE p == Pick(s)
    <2>4. p \in s /\ p \in S /\ s \ {p} \in SUBSET S /\ Cardinality(s \ {p}) = m - 1
          /\ Cardinality(s \ {p}) \in Nat
      BY <2>2, <2>3, PickOut
    <2>5. Good(s \ {p})
      <3>1. ~(m <= m - 1)
        OBVIOUS
      <3> QED BY <2>1, <2>4, <3>1
    <2>6. it[s] = g[p] + it[s \ {p}]
      BY <2>3, SumIs
    <2> HIDE DEF it, p
    <2>7. g[p] \in Nat /\ \A x \in s : g[x] \in Nat
      BY <2>4
    <2>8. it[s] \in Nat /\ it[s] >= g[p] /\ it[s] >= it[s \ {p}]
      BY <2>5, <2>6, <2>7
    <2>9. ASSUME NEW x \in s PROVE it[s] >= g[x]
      <3>1. CASE x = p
        BY <2>8, <3>1
      <3>2. CASE x \in s \ {p}
        BY <2>5, <2>7, <2>8, <3>2
      <3> QED BY <3>1, <3>2
    <2> QED BY <2>2, <2>8, <2>9
  <1>3. Good(S)
    BY <1>1, <1>2
  <1> QED BY <1>3, SumIs

\* The greater summands, the greater the sum.
LEMMA SumGrows ==
  ASSUME NEW g, NEW h, NEW S, IsFiniteSet(S),
         \A x \in S : g[x] \in Nat /\ h[x] \in Nat /\ g[x] >= h[x]
  PROVE  /\ SumFunctionOnSet(g, S) >= SumFunctionOnSet(h, S)
         /\ \A x \in S : g[x] > h[x] => SumFunctionOnSet(g, S) > SumFunctionOnSet(h, S)
PROOF
  <1> DEFINE a == Summed(g, S)
             b == Summed(h, S)
             Good(s) == /\ a[s] \in Nat /\ b[s] \in Nat /\ a[s] >= b[s]
                        /\ \A x \in s : g[x] > h[x] => a[s] > b[s]
             Bad == {n \in Nat : \E s \in SUBSET S : Cardinality(s) = n /\ ~Good(s)}
  <1>1. \A s \in SUBSET S : Cardinality(s) \in Nat
    BY FS_Subset, FS_CardinalityType
  <1>2. Bad = {}
    <2> SUFFICES ASSUME Bad # {} PROVE FALSE
      OBVIOUS
    <2>1. PICK m \in Bad : \A i \in Bad : m <= i
      <3> Bad \subseteq Nat
        OBVIOUS
      <3> HIDE DEF Bad
      <3> QED BY LeastOf
    <2>2. PICK s \in SUBSET S : Cardinality(s) = m /\ ~Good(s)
      OBVIOUS
    <2>3. s # {}
      <3>1. a[{}] = 0 /\ b[{}] = 0
        BY SumIs
      <3> HIDE DEF a, b
      <3> QED BY <2>2, <3>1
    <2> DEFINE p == Pick(s)
    <2>4. p \in s /\ p \in S /\ s \ {p} \in SUBSET S /\ Cardinality(s \ {p}) = m - 1
          /\ Cardinality(s \ {p}) \in Nat
      BY <2>2, <2>3, PickOut
    <2>5. Good(s \ {p})
      <3>1. ~(m <= m - 1)
        OBVIOUS
      <3> QED BY <2>1, <2>4, <3>1
    <2>6. a[s] = g[p] + a[s \ {p}] /\ b[s] = h[p] + b[s \ {p}]
      BY <2>3, SumIs
    <2> HIDE DEF a, b, p
    <2>7. g[p] \in Nat /\ h[p] \in Nat /\ g[p] >= h[p]
      BY <2>4
    <2>8. a[s] \in Nat /\ b[s] \in Nat /\ a[s] >= b[s]
      BY <2>5, <2>6, <2>7
    <2>9. ASSUME NEW x \in s, g[x] > h[x] PROVE a[s] > b[s]
      <3>1. CASE x = p
        BY <2>5, <2>6, <2>7, <2>9, <3>1
      <3>2. CASE x \in s \ {p}
        <4>1. a[s \ {p}] > b[s \ {p}] /\ a[s \ {p}] \in Nat /\ b[s \ {p}] \in Nat
          BY <2>5, <2>9, <3>2
        <4> QED BY <2>6, <2>7, <4>1
      <3> QED BY <3>1, <3>2
    <2> QED BY <2>2, <2>8, <2>9
  <1>3. Good(S)
    BY <1>1, <1>2
  <1> QED BY <1>3, SumIs

-----------------------------------------------------------------------------
(* vclock.go: what pickNewer keeps                                          *)

\* vcSum is a number, and a clock that dominates another without being
\* dominated by it has the greater total.
LEMMA DominationSums ==
  ASSUME NEW c \in Clock, NEW d \in Clock
  PROVE  /\ VcSum(c) \in Nat
         /\ VcDominates(c, d) => VcSum(c) >= VcSum(d)
         /\ VcDominates(c, d) /\ ~VcDominates(d, c) => VcSum(c) > VcSum(d)
PROOF
  <1>1. /\ IsFiniteSet(Proc) /\ DOMAIN c = Proc /\ DOMAIN d = Proc
        /\ \A p \in Proc : c[p] \in Nat /\ d[p] \in Nat
    BY VClockAssumption DEF Clock
  <1>2. VcSum(c) = SumFunctionOnSet(c, Proc) /\ VcSum(d) = SumFunctionOnSet(d, Proc)
    BY <1>1 DEF VcSum, SumFunction
  <1>3. SumFunctionOnSet(c, Proc) \in Nat
    BY <1>1, SumAbove
  <1>4. ASSUME VcDominates(c, d)
        PROVE  /\ SumFunctionOnSet(c, Proc) >= SumFunctionOnSet(d, Proc)
               /\ ~VcDominates(d, c) => SumFunctionOnSet(c, Proc) > SumFunctionOnSet(d, Proc)
    <2>1. \A p \in Proc : c[p] \in Nat /\ d[p] \in Nat /\ c[p] >= d[p]
      BY <1>1, <1>4 DEF VcDominates
    <2>2. /\ SumFunctionOnSet(c, Proc) >= SumFunctionOnSet(d, Proc)
          /\ \A p \in Proc : c[p] > d[p] => SumFunctionOnSet(c, Proc) > SumFunctionOnSet(d, Proc)
      BY <1>1, <2>1, SumGrows
    <2>3. ASSUME ~VcDominates(d, c) PROVE \E p \in Proc : c[p] > d[p]
      <3>1. PICK p \in Proc : ~(d[p] >= c[p])
        BY <1>1, <2>3 DEF VcDominates
      <3> QED BY <2>1, <3>1
    <2> QED BY <2>2, <2>3
  <1> QED BY <1>2, <1>3, <1>4

\* Rank puts the total first and the sample size second.
LEMMA RankOrders ==
  ASSUME NEW e \in Entry, NEW f \in Entry
  PROVE  /\ Rank(e) \in Nat
         /\ VcSum(e.clock) > VcSum(f.clock) => Rank(e) > Rank(f)
         /\ VcSum(e.clock) = VcSum(f.clock) /\ e.sample >= f.sample => Rank(e) >= Rank(f)
PROOF
  <1> DEFINE x == VcSum(e.clock)
             y == VcSum(f.clock)
             k == MaxSample + 1
  <1>1. /\ x \in Nat /\ y \in Nat /\ k \in Nat
        /\ e.sample \in Nat /\ f.sample \in Nat /\ f.sample < k
    BY DominationSums, VClockAssumption DEF Entry
  <1>2. Rank(e) = x * k + e.sample /\ Rank(f) = y * k + f.sample
    BY DEF Rank
  <1> HIDE DEF x, y, k
  <1>3. x * k \in Nat /\ y * k \in Nat
    BY <1>1
  <1>4. ASSUME x > y PROVE x * k >= y * k + k
    <2>1. PICK n \in Nat : x = y + 1 + n
      <3>1. x - y - 1 \in Nat /\ x = y + 1 + (x - y - 1)
        BY <1>1, <1>4
      <3> QED BY <3>1
    <2>2. x * k = y * k + k + n * k /\ n * k \in Nat
      BY <1>1, <2>1
    <2> QED BY <1>1, <1>3, <2>2
  <1> QED BY <1>1, <1>2, <1>3, <1>4 DEF x, y

\* vclock.go:5, "the entry whose vector clock dominates wins", and the tie breaks
\* behind it: pickNewer keeps one of the two entries, of the higher rank.  A version
\* of ReplicaQuorum and LSMTree is such a rank, and Newer what pickNewer does to it.
THEOREM VersionsStandForEntries ==
  ASSUME NEW a \in Entry, NEW b \in Entry
  PROVE  PickNewer(a, b) \in {a, b} /\ Rank(PickNewer(a, b)) = Newer(Rank(a), Rank(b))
PROOF
  <1>1. a # Nil /\ b # Nil /\ a.clock \in Clock /\ b.clock \in Clock
        /\ a.sample \in Nat /\ b.sample \in Nat
    BY VClockAssumption DEF Entry
  <1>2. Rank(a) \in Nat /\ Rank(b) \in Nat
    BY RankOrders
  <1> DEFINE sa == VcSum(a.clock)
             sb == VcSum(b.clock)
             aDom == VcDominates(a.clock, b.clock)
             bDom == VcDominates(b.clock, a.clock)
  <1>3. PickNewer(a, b) =
          CASE aDom /\ ~bDom -> a
            [] bDom /\ ~aDom -> b
            [] aDom = bDom /\ sa # sb -> IF sa > sb THEN a ELSE b
            [] aDom = bDom /\ sa = sb -> IF a.sample >= b.sample THEN a ELSE b
    BY <1>1 DEF PickNewer
  <1>4. aDom \in BOOLEAN /\ bDom \in BOOLEAN
    BY DEF VcDominates
  <1>5. /\ sa \in Nat /\ sb \in Nat
        /\ aDom /\ ~bDom => sa > sb
        /\ bDom /\ ~aDom => sb > sa
    BY <1>1, DominationSums
  <1>6. /\ sa > sb => Rank(a) > Rank(b)
        /\ sb > sa => Rank(b) > Rank(a)
        /\ sa = sb /\ a.sample >= b.sample => Rank(a) >= Rank(b)
        /\ sa = sb /\ b.sample >= a.sample => Rank(b) >= Rank(a)
    BY RankOrders
  <1> HIDE DEF sa, sb, aDom, bDom
  <1>7. \/ PickNewer(a, b) = a /\ Rank(a) >= Rank(b)
        \/ PickNewer(a, b) = b /\ Rank(b) >= Rank(a)
    <2>1. CASE aDom /\ ~bDom
      <3>1. ~(bDom /\ ~aDom) /\ aDom # bDom
        BY <2>1
      <3>2. PickNewer(a, b) = a
        BY <1>3, <2>1, <3>1
      <3> QED BY <1>2, <1>5, <1>6, <2>1, <3>2
    <2>2. CASE bDom /\ ~aDom
      <3>1. ~(aDom /\ ~bDom) /\ aDom # bDom
        BY <2>2
      <3>2. PickNewer(a, b) = b
        BY <1>3, <2>2, <3>1
      <3> QED BY <1>2, <1>5, <1>6, <2>2, <3>2
    <2>3. CASE aDom = bDom /\ sa # sb
      BY <1>2, <1>3, <1>5, <1>6, <2>3
    <2>4. CASE aDom = bDom /\ sa = sb
      BY <1>1, <1>2, <1>3, <1>5, <1>6, <2>4
    <2> QED BY <1>4, <2>1, <2>2, <2>3, <2>4
  <1> QED BY <1>2, <1>7 DEF Newer

\* A replica has an entry as soon as one was put.
Holding == \A r \in Replica : applied[r] # {} => held[r] \in Entry

VcInv == VcTypeOK /\ Holding /\ KeepsHighestRank

\* memtable.go, Put: what is held ranks at least as high as what was held and
\* as what is put.
LEMMA PutStep ==
  ASSUME VcInv, NEW r \in Replica, NEW e \in sent, Put(r, e)
  PROVE  VcInv'
PROOF
  <1> DEFINE new == PickNewer(held[r], e)
  <1>1. /\ e \in Entry /\ held[r] \in Entry \cup {Nil} /\ Nil \notin Entry
        /\ applied \in [Replica -> SUBSET Entry] /\ held \in [Replica -> Entry \cup {Nil}]
        /\ applied' = [applied EXCEPT ![r] = @ \cup {e}]
        /\ held' = [held EXCEPT ![r] = new] /\ sent' = sent
    BY VClockAssumption DEF VcInv, VcTypeOK, Put
  <1>2. new \in Entry /\ Rank(new) >= Rank(e) /\ (held[r] # Nil => Rank(new) >= Rank(held[r]))
    <2>1. CASE held[r] = Nil
      <3>1. new = e
        BY <2>1 DEF PickNewer
      <3>2. Rank(e) \in Nat
        BY <1>1, RankOrders
      <3> QED BY <1>1, <2>1, <3>1, <3>2
    <2>2. CASE held[r] \in Entry
      <3>1. new \in {held[r], e} /\ Rank(new) = Newer(Rank(held[r]), Rank(e))
        BY <1>1, <2>2, VersionsStandForEntries
      <3>2. Rank(held[r]) \in Nat /\ Rank(e) \in Nat
        BY <1>1, <2>2, RankOrders
      <3> HIDE DEF new
      <3> QED BY <1>1, <2>2, <3>1, <3>2 DEF Newer
    <2> QED BY <1>1, <2>1, <2>2
  <1> HIDE DEF new
  <1>3. VcTypeOK' /\ Holding'
    <2>1. applied' \in [Replica -> SUBSET Entry] /\ held' \in [Replica -> Entry \cup {Nil}]
      BY <1>1, <1>2
    <2>2. Holding'
      BY <1>1, <1>2 DEF VcInv, Holding
    <2> QED BY <1>1, <2>1, <2>2 DEF VcInv, VcTypeOK
  <1>4. ASSUME NEW q \in Replica, NEW f \in applied'[q] PROVE Rank(held'[q]) >= Rank(f)
    <2>1. CASE q # r
      <3>1. applied'[q] = applied[q] /\ held'[q] = held[q]
        BY <1>1, <2>1
      <3> QED BY <1>4, <3>1 DEF VcInv, KeepsHighestRank
    <2>2. CASE q = r /\ f = e
      BY <1>1, <1>2, <2>2
    <2>3. CASE q = r /\ f # e
      <3>1. f \in applied[r] /\ f \in Entry /\ held'[q] = new
        BY <1>1, <1>4, <2>3
      <3>2. held[r] \in Entry /\ Rank(held[r]) >= Rank(f)
        BY <3>1 DEF VcInv, Holding, KeepsHighestRank
      <3>3. Rank(new) >= Rank(held[r])
        BY <1>1, <1>2, <3>2
      <3>4. Rank(new) \in Nat /\ Rank(held[r]) \in Nat /\ Rank(f) \in Nat
        BY <1>2, <3>1, <3>2, RankOrders
      <3> QED BY <3>1, <3>2, <3>3, <3>4
    <2> QED BY <2>1, <2>2, <2>3
  <1> QED BY <1>3, <1>4 DEF VcInv, KeepsHighestRank

\* vclock.go: applied one after the other, in any order and at any replica, the
\* comparison by dominance and the two tie breaks never go round in circles: no
\* entry put is lost to one of lower rank.
THEOREM HighestRankKept == VcSpec => []KeepsHighestRank
PROOF
  <1>1. VcInit => VcInv
    BY DEF VcInit, VcInv, VcTypeOK, Holding, KeepsHighestRank
  <1>2. VcInv /\ [VcNext]_vcVars => VcInv'
    <2> SUFFICES ASSUME VcInv, [VcNext]_vcVars PROVE VcInv'
      OBVIOUS
    <2>1. ASSUME NEW e \in Entry, WriteStat(e) PROVE VcInv'
      BY <2>1 DEF WriteStat, VcInv, VcTypeOK, Holding, KeepsHighestRank
    <2>2. ASSUME NEW r \in Replica, NEW e \in sent, Put(r, e) PROVE VcInv'
      BY <2>2, PutStep
    <2>3. CASE UNCHANGED vcVars
      BY <2>3 DEF vcVars, VcInv, VcTypeOK, Holding, KeepsHighestRank
    <2> QED BY <2>1, <2>2, <2>3 DEF VcNext
  <1>3. VcInv => KeepsHighestRank
    BY DEF VcInv
  <1> QED BY <1>1, <1>2, <1>3, PTL DEF VcSpec

=============================================================================
