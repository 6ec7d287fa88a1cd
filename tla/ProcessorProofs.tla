-------------------------- MODULE ProcessorProofs --------------------------
(***************************************************************************)
(* Proofs about Processor: how much a subscriber repeats after a broken    *)
(* stream or a restart; that the metastore never hides a flush behind an   *)
(* earlier one; and, of the reorder buffer, that it loses nothing and      *)
(* releases matches in the order of their numbers.                         *)
(***************************************************************************)
EXTENDS Processor, FiniteSetTheorems, SequenceTheorems, WellFoundedInduction, TLAPS

-----------------------------------------------------------------------------
(* Offsets                                                                  *)

\* The offset saved is that of the last record saved or the one after it, and the
\* thread is at most SaveEvery records past it when it saves.
Position(s, save) ==
  /\ s.lastSaved <= save /\ save <= s.pos /\ s.pos <= s.lastSaved + SaveEvery
  /\ s.pc = "save" => s.pos = s.lastSaved + SaveEvery

OffsetInv ==
  /\ saved \in [Part -> Nat] /\ stream \in [Part -> Stream]
  /\ \A p \in Part : Position(stream[p], saved[p])

\* A step of one thread.
LEMMA ThreadStep ==
  ASSUME OffsetInv, NEW p \in Part, NEW s \in Stream, NEW n \in Nat, Position(s, n),
         stream' = [stream EXCEPT ![p] = s], saved' = [saved EXCEPT ![p] = n]
  PROVE  OffsetInv'
PROOF
  <1>1. saved' \in [Part -> Nat] /\ stream' \in [Part -> Stream]
    BY DEF OffsetInv
  <1>2. ASSUME NEW q \in Part PROVE Position(stream'[q], saved'[q])
    <2>1. CASE q = p
      BY <2>1 DEF OffsetInv
    <2>2. CASE q # p
      BY <2>2 DEF OffsetInv
    <2> QED BY <2>1, <2>2
  <1>3. ASSUME NEW q \in Part PROVE Position(stream[q], saved[q])'
    BY <1>2 DEF Position
  <1> QED BY <1>1, <1>3 DEF OffsetInv

\* Facts about one thread.
LEMMA ThreadFacts ==
  ASSUME OffsetInv, NEW p \in Part
  PROVE  /\ stream[p] \in Stream /\ stream[p].pos \in Nat /\ stream[p].lastSaved \in Nat /\ saved[p] \in Nat
         /\ stream[p].pc \in {"recv", "save"} /\ Position(stream[p], saved[p]) /\ SaveEvery \in Nat /\ SaveEvery >= 1
         /\ saved' = saved => saved' = [saved EXCEPT ![p] = saved[p]]
PROOF
  <1>1. stream[p] \in Stream /\ saved[p] \in Nat /\ Position(stream[p], saved[p])
    BY DEF OffsetInv
  <1>2. SaveEvery \in Nat /\ SaveEvery >= 1
    BY ProcessorAssumption
  <1> QED BY <1>1, <1>2 DEF Stream, OffsetInv

\* Receive: the record is put into the queue and the thread goes on, or saves first.
LEMMA ReceiveStep ==
  ASSUME OffsetInv, NEW p \in Part, Receive(p)
  PROVE  OffsetInv'
PROOF
  <1> DEFINE s == stream[p]
             a == IF Due(s) THEN "save" ELSE "recv"
             b == IF Due(s) THEN s.pos ELSE s.pos + 1
             t == [s EXCEPT !.pc = a, !.pos = b]
  <1>1. s.pc = "recv" /\ stream' = [stream EXCEPT ![p] = t] /\ saved' = saved
    BY DEF Receive
  <1>2. /\ s \in Stream /\ s.pos \in Nat /\ s.lastSaved \in Nat /\ saved[p] \in Nat /\ SaveEvery \in Nat
        /\ Position(s, saved[p]) /\ saved' = [saved EXCEPT ![p] = saved[p]]
    BY <1>1, ThreadFacts
  <1>3. a \in {"recv", "save"} /\ b \in Nat
    BY <1>2
  <1>4. Position([pc |-> a, pos |-> b, lastSaved |-> s.lastSaved], saved[p])
    <2>1. CASE Due(s)
      BY <1>2, <2>1 DEF Position, Due
    <2>2. CASE ~Due(s)
      BY <1>2, <2>2 DEF Position, Due
    <2> QED BY <2>1, <2>2
  <1> HIDE DEF s, a, b
  <1>5. t.pc = a /\ t.pos = b /\ t.lastSaved = s.lastSaved
    BY <1>2 DEF Stream
  <1>6. t \in Stream
    BY <1>2, <1>3 DEF Stream
  <1>7. Position(t, saved[p])
    BY <1>4, <1>5 DEF Position
  <1> HIDE DEF t
  <1> QED BY <1>1, <1>2, <1>6, <1>7, ThreadStep

\* Save: the offset behind the record goes to the file.
LEMMA SaveStep ==
  ASSUME OffsetInv, NEW p \in Part, Save(p)
  PROVE  OffsetInv'
PROOF
  <1> DEFINE s == stream[p]
             t == [pc |-> "recv", pos |-> s.pos + 1, lastSaved |-> s.pos]
  <1>1. s.pc = "save" /\ stream' = [stream EXCEPT ![p] = t] /\ saved' = [saved EXCEPT ![p] = s.pos + 1]
    BY DEF Save
  <1>2. s.pos \in Nat /\ SaveEvery \in Nat /\ SaveEvery >= 1
    BY ThreadFacts
  <1>3. t \in Stream /\ t.pos = s.pos + 1 /\ t.lastSaved = s.pos /\ t.pc = "recv" /\ s.pos + 1 \in Nat
    BY <1>2 DEF Stream
  <1> HIDE DEF s, t
  <1>4. Position(t, s.pos + 1)
    BY <1>2, <1>3 DEF Position
  <1> QED BY <1>1, <1>3, <1>4, ThreadStep

\* Where a thread starts again.
LEMMA AtSavedPosition ==
  ASSUME OffsetInv, NEW p \in Part
  PROVE  AtSaved(p) \in Stream /\ Position(AtSaved(p), saved[p])
PROOF
  <1>1. saved[p] \in Nat /\ SaveEvery \in Nat
    BY ThreadFacts
  <1>2. /\ AtSaved(p) \in Stream /\ AtSaved(p).pos = saved[p] /\ AtSaved(p).lastSaved = saved[p]
        /\ AtSaved(p).pc = "recv"
    BY <1>1 DEF AtSaved, Stream
  <1> QED BY <1>1, <1>2 DEF Position

\* OffsetInv is inductive.
LEMMA OffsetStep ==
  ASSUME OffsetInv, [Next]_vars
  PROVE  OffsetInv'
PROOF
  <1>1. ASSUME NEW p \in Part, Receive(p) PROVE OffsetInv'
    BY <1>1, ReceiveStep
  <1>2. ASSUME NEW p \in Part, Save(p) PROVE OffsetInv'
    BY <1>2, SaveStep
  <1>3. ASSUME NEW p \in Part, Break(p) PROVE OffsetInv'
    <2>1. stream' = [stream EXCEPT ![p] = AtSaved(p)] /\ saved' = saved
      BY <1>3 DEF Break
    <2> QED BY <2>1, AtSavedPosition, ThreadFacts, ThreadStep
  <1>4. CASE Restart
    <2>1. stream' = [p \in Part |-> AtSaved(p)] /\ saved' = saved
      BY <1>4 DEF Restart
    <2>2. stream' \in [Part -> Stream] /\ saved' \in [Part -> Nat]
      BY <2>1, AtSavedPosition DEF OffsetInv
    <2>3. \A p \in Part : Position(stream'[p], saved'[p])
      BY <2>1, AtSavedPosition
    <2>4. \A p \in Part : Position(stream[p], saved[p])'
      BY <2>3 DEF Position
    <2> QED BY <2>2, <2>4 DEF OffsetInv
  <1>5. ASSUME UNCHANGED subVars PROVE OffsetInv'
    BY <1>5 DEF OffsetInv, Position, subVars
  <1>6. CASE \E p \in Part : Number(p) \/ Publish(p) \/ PublishFail(p)
    BY <1>5, <1>6 DEF Number, Publish, PublishFail
  <1>7. CASE Drain \/ Round \/ RoundFlush \/ Expire
    BY <1>5, <1>7 DEF Drain, Round, RoundFlush, Collect, Expire
  <1>8. CASE \E k \in Part : FlushWrite(k) \/ FlushError(k)
    BY <1>5, <1>8 DEF FlushWrite, FlushError
  <1>9. CASE UNCHANGED vars
    BY <1>5, <1>9 DEF vars
  <1> QED BY <1>1, <1>2, <1>3, <1>4, <1>6, <1>7, <1>8, <1>9 DEF Next, Threads, MainLoop, Subscriber

\* Every thread starts at the beginning.
LEMMA OffsetInit == Init => OffsetInv
PROOF
  <1> SUFFICES ASSUME Init PROVE OffsetInv
    OBVIOUS
  <1>1. /\ saved = [p \in Part |-> 0] /\ stream = [p \in Part |-> [pc |-> "recv", pos |-> 0, lastSaved |-> 0]]
        /\ SaveEvery \in Nat
    BY ProcessorAssumption DEF Init
  <1> QED BY <1>1 DEF OffsetInv, Position, Stream

\* After a broken stream or a restart a subscriber thread repeats at most the
\* messages between two savings of the offset, and the one at which the saving was
\* due; it never starts behind a record it has not received.
THEOREM RepeatsBounded == Spec => []RepeatBound
PROOF
  <1>1. Init => OffsetInv
    BY OffsetInit
  <1>2. OffsetInv /\ [Next]_vars => OffsetInv'
    BY OffsetStep
  <1>3. OffsetInv => RepeatBound
    <2> SUFFICES ASSUME OffsetInv, NEW p \in Part
                 PROVE  LET s == stream[p]
                            received == s.pos + IF s.pc = "save" THEN 1 ELSE 0
                        IN  received - saved[p] \in 0 .. SaveEvery + 1
      BY DEF RepeatBound
    <2> QED BY ThreadFacts DEF Position
  <1> QED BY <1>1, <1>2, <1>3, PTL DEF Spec

-----------------------------------------------------------------------------
(* Flushes                                                                  *)

\* An entry of the metastore is not newer, in either component of its clock, than
\* the processor's merged clock c and its flush number n; the last flush
\* acknowledged, l, is n or an earlier one, and the entry is of that flush or a
\* later one.
Behind(e, l, c, n) ==
  /\ e # Nil => e.ingest \in Nat /\ e.flush \in Nat /\ e.ingest <= c /\ e.flush <= n
  /\ l <= n
  /\ l > 0 => e.flush >= l

MatchTypes ==
  /\ seq \in 0 .. MaxSeq /\ flying \in [Part -> 0 .. MaxSeq] /\ log \in [Part -> Seq(Match)]
  /\ queue \in Seq(Match)

FlushTypes ==
  /\ clock \in Nat /\ flushSeq \in Nat /\ restarts \in Nat
  /\ last \in [Part -> Nat] /\ DOMAIN store = Part /\ store = [k \in Part |-> store[k]]

FlushesBehind == restarts = 0 => \A k \in Part : Behind(store[k], last[k], clock, flushSeq)

FlushInv == OffsetInv /\ MatchTypes /\ FlushTypes /\ FlushesBehind

\* pickNewer: against an entry that is behind, the entry of this flush wins, or one
\* with the same clock does.
LEMMA NewestWins ==
  ASSUME NEW e, NEW l \in Nat, NEW c \in Nat, NEW n \in Nat, NEW z, Behind(e, l, c, n)
  PROVE  LET d == PickNewer(e, [ingest |-> c, flush |-> n, sample |-> z])
         IN  Behind(d, l, c, n) /\ Behind(d, n, c, n)
PROOF
  <1> DEFINE b == [ingest |-> c, flush |-> n, sample |-> z]
  <1>1. b.ingest = c /\ b.flush = n
    OBVIOUS
  <1> HIDE DEF b
  <1>2. CASE e = Nil
    BY <1>1, <1>2 DEF Behind, PickNewer, b
  <1>3. CASE e # Nil
    <2>1. e.ingest \in Nat /\ e.flush \in Nat /\ e.ingest <= c /\ e.flush <= n /\ l <= n
      BY <1>3 DEF Behind
    <2>2. Dominates(b, e)
      BY <1>1, <2>1 DEF Dominates
    <2>3. CASE Dominates(e, b)
      <3>1. e.ingest = c /\ e.flush = n
        BY <1>1, <2>1, <2>3 DEF Dominates
      <3>2. PickNewer(e, b) = e \/ PickNewer(e, b) = b
        BY <1>1, <1>3, <2>1, <2>2, <2>3, <3>1 DEF PickNewer
      <3> QED BY <1>1, <2>1, <3>1, <3>2 DEF Behind, b
    <2>4. CASE ~Dominates(e, b)
      <3>1. PickNewer(e, b) = b
        BY <1>3, <2>2, <2>4 DEF PickNewer
      <3> QED BY <1>1, <2>1, <3>1 DEF Behind, b
    <2> QED BY <2>3, <2>4
  <1> QED BY <1>2, <1>3

\* merged_clock never goes back.
LEMMA ClockGrows ==
  ASSUME NEW c \in Nat, NEW m \in Match
  PROVE  MergeClock(c, m) \in Nat /\ MergeClock(c, m) >= c
PROOF
  <1>1. MaxSeq \in Nat
    BY ProcessorAssumption
  <1>2. m.seq \in Nat
    BY <1>1 DEF Match
  <1> QED BY <1>2 DEF MergeClock

\* What is behind stays behind when the clock and the flush number grow.
LEMMA StaysBehind ==
  ASSUME FlushTypes, FlushesBehind, store' = store, last' = last, restarts' = restarts,
         clock' \in Nat, flushSeq' \in Nat, clock' >= clock, flushSeq' >= flushSeq
  PROVE  FlushTypes' /\ FlushesBehind'
PROOF
  <1>1. FlushTypes'
    BY DEF FlushTypes
  <1>2. ASSUME restarts' = 0, NEW k \in Part PROVE Behind(store[k], last[k], clock, flushSeq)'
    <2>1. Behind(store[k], last[k], clock, flushSeq)
      BY <1>2 DEF FlushesBehind
    <2>2. clock \in Nat /\ flushSeq \in Nat /\ last[k] \in Nat
      BY DEF FlushTypes
    <2> QED BY <2>1, <2>2 DEF Behind
  <1> QED BY <1>1, <1>2 DEF FlushesBehind

\* A write of one entry, acknowledged (l is this flush) or not.
LEMMA WriteStep ==
  ASSUME FlushTypes, FlushesBehind, NEW k \in Part, NEW e, NEW l \in Nat,
         Behind(store[k], last[k], clock, flushSeq) => Behind(e, l, clock, flushSeq),
         store' = [store EXCEPT ![k] = e], last' = [last EXCEPT ![k] = l],
         clock' = clock, flushSeq' = flushSeq, restarts' = restarts
  PROVE  FlushTypes' /\ FlushesBehind'
PROOF
  <1>1. last' \in [Part -> Nat]
    BY DEF FlushTypes
  <1>2. DOMAIN store' = Part /\ store' = [j \in Part |-> store'[j]]
    BY DEF FlushTypes
  <1>3. ASSUME restarts' = 0, NEW j \in Part PROVE Behind(store'[j], last'[j], clock, flushSeq)
    <2>1. Behind(store[j], last[j], clock, flushSeq)
      BY <1>3 DEF FlushesBehind
    <2>2. CASE j = k
      <3>1. store'[j] = e /\ last'[j] = l
        BY <2>2 DEF FlushTypes
      <3> QED BY <2>1, <2>2, <3>1
    <2>3. CASE j # k
      <3>1. store'[j] = store[j] /\ last'[j] = last[j]
        BY <2>3 DEF FlushTypes
      <3> QED BY <2>1, <3>1
    <2> QED BY <2>2, <2>3
  <1>4. ASSUME restarts' = 0, NEW j \in Part PROVE Behind(store[j], last[j], clock, flushSeq)'
    BY <1>3, <1>4 DEF Behind
  <1>5. FlushTypes'
    BY <1>1, <1>2 DEF FlushTypes
  <1> QED BY <1>4, <1>5 DEF FlushesBehind

\* What the threads of ingestion and of the subscribers put into the logs and the
\* queue are matches.
LEMMA MatchesStep ==
  ASSUME FlushInv, [Next]_vars
  PROVE  MatchTypes'
PROOF
  <1> USE DEF FlushInv
  <1>0. MaxSeq \in Nat
    BY ProcessorAssumption
  <1>1. ASSUME NEW p \in Part, Number(p) PROVE MatchTypes'
    BY <1>0, <1>1 DEF Number, MatchTypes
  <1>2. ASSUME NEW p \in Part, Publish(p) PROVE MatchTypes'
    <2>1. flying[p] \in 1 .. MaxSeq
      BY <1>0, <1>2 DEF MatchTypes, Publish
    <2>2. [seq |-> flying[p], part |-> p] \in Match
      BY <2>1 DEF Match
    <2>3. log' \in [Part -> Seq(Match)]
      BY <1>2, <2>2 DEF MatchTypes, Publish
    <2>4. flying' \in [Part -> 0 .. MaxSeq]
      BY <1>0, <1>2 DEF MatchTypes, Publish
    <2> QED BY <1>2, <2>3, <2>4 DEF MatchTypes, Publish
  <1>3. ASSUME NEW p \in Part, PublishFail(p) PROVE MatchTypes'
    BY <1>0, <1>3 DEF PublishFail, MatchTypes
  <1>4. ASSUME NEW p \in Part, Receive(p) PROVE MatchTypes'
    <2>1. stream[p].pos \in Nat
      BY ThreadFacts
    <2>2. stream[p].pos < Len(log[p]) /\ queue' = Append(queue, log[p][stream[p].pos + 1]) /\ UNCHANGED inVars
      BY <1>4 DEF Receive
    <2>3. log[p] \in Seq(Match)
      BY DEF MatchTypes
    <2>4. log[p][stream[p].pos + 1] \in Match
      BY <2>1, <2>2, <2>3
    <2>5. queue' \in Seq(Match)
      BY <2>2, <2>4 DEF MatchTypes
    <2> QED BY <2>2, <2>5 DEF MatchTypes, inVars
  <1>5. CASE Drain
    <2>1. queue' = Tail(queue) /\ queue # <<>> /\ UNCHANGED inVars
      BY <1>5 DEF Drain
    <2>2. queue' \in Seq(Match)
      BY <2>1 DEF MatchTypes
    <2> QED BY <2>1, <2>2 DEF MatchTypes, inVars
  <1>6. CASE Restart
    <2>1. queue' = <<>> /\ UNCHANGED inVars
      BY <1>6 DEF Restart
    <2>2. queue' \in Seq(Match)
      BY <2>1
    <2> QED BY <2>1, <2>2 DEF MatchTypes, inVars
  <1>7. ASSUME UNCHANGED <<inVars, queue>> PROVE MatchTypes'
    BY <1>7 DEF MatchTypes, inVars
  <1>8. CASE \E p \in Part : Save(p) \/ Break(p)
    BY <1>7, <1>8 DEF Save, Break
  <1>9. CASE Round \/ RoundFlush \/ Expire
    BY <1>7, <1>9 DEF Round, RoundFlush, Collect, Expire
  <1>10. CASE \E k \in Part : FlushWrite(k) \/ FlushError(k)
    BY <1>7, <1>10 DEF FlushWrite, FlushError
  <1>11. CASE UNCHANGED vars
    BY <1>7, <1>11 DEF vars
  <1> QED BY <1>1, <1>2, <1>3, <1>4, <1>5, <1>6, <1>8, <1>9, <1>10, <1>11 DEF Next, Threads, MainLoop, Subscriber

\* The entries stay behind the clock.
LEMMA BehindStep ==
  ASSUME FlushInv, [Next]_vars
  PROVE  FlushTypes' /\ FlushesBehind'
PROOF
  <1>0. FlushTypes /\ FlushesBehind /\ clock \in Nat /\ flushSeq \in Nat
    BY DEF FlushInv, FlushTypes
  <1>1. CASE Drain
    <2>1. queue # <<>> /\ clock' = MergeClock(clock, Head(queue)) /\ UNCHANGED <<flushVars, restarts>>
      BY <1>1 DEF Drain
    <2>2. Head(queue) \in Match
      BY <2>1 DEF FlushInv, MatchTypes
    <2>3. clock' \in Nat /\ clock' >= clock
      BY <1>0, <2>1, <2>2, ClockGrows
    <2>4. UNCHANGED <<store, last, flushSeq, restarts>>
      BY <2>1 DEF flushVars
    <2> QED BY <1>0, <2>3, <2>4, StaysBehind
  <1>2. CASE RoundFlush
    <2>1. flushSeq' = flushSeq + 1 /\ UNCHANGED <<store, last, clock, restarts>>
      BY <1>2 DEF RoundFlush, Collect
    <2> QED BY <1>0, <2>1, StaysBehind
  <1>3. ASSUME NEW k \in Part, FlushWrite(k) PROVE FlushTypes' /\ FlushesBehind'
    <2> DEFINE e == PickNewer(store[k], [ingest |-> clock, flush |-> flushSeq, sample |-> pend[k]])
    <2>1. /\ store' = [store EXCEPT ![k] = e] /\ last' = [last EXCEPT ![k] = flushSeq]
          /\ clock' = clock /\ flushSeq' = flushSeq /\ restarts' = restarts
      BY <1>3 DEF FlushWrite, Stored
    <2>2. last[k] \in Nat
      BY <1>0 DEF FlushTypes
    <2>3. Behind(store[k], last[k], clock, flushSeq) => Behind(e, flushSeq, clock, flushSeq)
      BY <1>0, <2>2, NewestWins
    <2> HIDE DEF e
    <2> QED BY <1>0, <2>1, <2>3, WriteStep
  <1>4. ASSUME NEW k \in Part, FlushError(k) PROVE FlushTypes' /\ FlushesBehind'
    <2> DEFINE e == PickNewer(store[k], [ingest |-> clock, flush |-> flushSeq, sample |-> pend[k]])
    <2>1. /\ store' = store \/ store' = [store EXCEPT ![k] = e]
          /\ last' = last /\ clock' = clock /\ flushSeq' = flushSeq /\ restarts' = restarts
      BY <1>4 DEF FlushError, Stored
    <2>2. last[k] \in Nat /\ last' = [last EXCEPT ![k] = last[k]]
      BY <1>0, <2>1 DEF FlushTypes
    <2>3. Behind(store[k], last[k], clock, flushSeq) => Behind(e, last[k], clock, flushSeq)
      BY <1>0, <2>2, NewestWins
    <2> HIDE DEF e
    <2>4. CASE store' = [store EXCEPT ![k] = e]
      BY <1>0, <2>1, <2>2, <2>3, <2>4, WriteStep
    <2>5. CASE store' = store
      BY <1>0, <2>1, <2>5, StaysBehind
    <2> QED BY <2>1, <2>4, <2>5
  <1>5. CASE Restart
    <2>1. clock' = 0 /\ flushSeq' = 0 /\ restarts' = restarts + 1 /\ store' = store /\ last' = last
      BY <1>5 DEF Restart
    <2>2. FlushTypes' /\ restarts' # 0
      BY <1>0, <2>1 DEF FlushTypes
    <2> QED BY <2>2 DEF FlushesBehind
  <1>6. ASSUME UNCHANGED <<store, last, clock, flushSeq, restarts>> PROVE FlushTypes' /\ FlushesBehind'
    BY <1>0, <1>6, StaysBehind
  <1>7. CASE \E p \in Part : Number(p) \/ Publish(p) \/ PublishFail(p) \/ Break(p) \/ Subscriber(p)
    BY <1>6, <1>7 DEF Number, Publish, PublishFail, Break, Subscriber, Receive, Save, flushVars
  <1>8. CASE Round \/ Expire
    BY <1>6, <1>8 DEF Round, Collect, Expire, flushVars
  <1>9. CASE UNCHANGED vars
    BY <1>6, <1>9 DEF vars, flushVars
  <1> QED BY <1>1, <1>2, <1>3, <1>4, <1>5, <1>7, <1>8, <1>9 DEF Next, Threads, MainLoop

\* FlushInv holds at the start ...
LEMMA FlushInit == Init => FlushInv
PROOF
  <1> SUFFICES ASSUME Init PROVE FlushInv
    OBVIOUS
  <1>1. OffsetInv
    BY OffsetInit
  <1>2. MatchTypes
    <2>1. MaxSeq \in Nat
      BY ProcessorAssumption
    <2>2. seq = 0 /\ flying = [p \in Part |-> 0] /\ log = [p \in Part |-> <<>>] /\ queue = <<>>
      BY DEF Init
    <2> QED BY <2>1, <2>2 DEF MatchTypes
  <1>3. /\ clock = 0 /\ flushSeq = 0 /\ restarts = 0 /\ last = [p \in Part |-> 0]
        /\ store = [p \in Part |-> Nil]
    BY DEF Init
  <1>4. FlushTypes /\ FlushesBehind
    BY <1>3 DEF FlushTypes, FlushesBehind, Behind
  <1> QED BY <1>1, <1>2, <1>4 DEF FlushInv

\* ... and is inductive.
LEMMA FlushStep == FlushInv /\ [Next]_vars => FlushInv'
PROOF
  <1> SUFFICES ASSUME FlushInv, [Next]_vars PROVE FlushInv'
    OBVIOUS
  <1>1. OffsetInv'
    BY OffsetStep DEF FlushInv
  <1> QED BY <1>1, MatchesStep, BehindStep DEF FlushInv

\* While the processor was not restarted, the metastore has for every key the last
\* flush acknowledged or a later one: the clock of an entry is merged_clock and
\* flush_seq, both only grow, and pickNewer leaves the entry that dominates.
THEOREM NewFlushesServed == Spec => []LatestFlushServed
PROOF
  <1>1. FlushInv => LatestFlushServed
    BY DEF FlushInv, FlushesBehind, Behind, LatestFlushServed
  <1> QED BY <1>1, FlushInit, FlushStep, PTL DEF Spec

-----------------------------------------------------------------------------
(* Sorting: what Listed returns                                             *)

\* Ahead is a strict total order.
LEMMA AheadOrders ==
  ASSUME NEW K, NEW key \in [K -> Nat], NEW I, I \subseteq K, I \subseteq Nat,
         NEW i \in I, NEW j \in I
  PROVE  /\ ~Ahead(key, i, i)
         /\ i # j => Ahead(key, i, j) \/ Ahead(key, j, i)
         /\ \A k \in I : Ahead(key, k, i) /\ Ahead(key, i, j) => Ahead(key, k, j)
PROOF
  <1>1. i \in Nat /\ j \in Nat /\ key[i] \in Nat /\ key[j] \in Nat
    OBVIOUS
  <1>2. ASSUME NEW k \in I PROVE k \in Nat /\ key[k] \in Nat
    OBVIOUS
  <1> QED BY <1>1, <1>2 DEF Ahead

\* The rank is a number below the number of places, and grows with the order.
LEMMA RankGrows ==
  ASSUME NEW K, NEW key \in [K -> Nat], NEW I, I \subseteq K, I \subseteq Nat, IsFiniteSet(I), NEW i \in I
  PROVE  /\ Rank(I, key, i) \in 0 .. Cardinality(I) - 1
         /\ \A j \in I : Ahead(key, i, j) => Rank(I, key, i) < Rank(I, key, j)
PROOF
  <1> DEFINE B(k) == {j \in I : Ahead(key, j, k)}
  <1>1. ASSUME NEW k \in I PROVE B(k) \in SUBSET I /\ IsFiniteSet(B(k)) /\ Cardinality(B(k)) \in Nat
    <2>1. B(k) \in SUBSET I
      OBVIOUS
    <2> HIDE DEF B
    <2>2. IsFiniteSet(B(k))
      BY <2>1, FS_Subset
    <2> QED BY <2>1, <2>2, FS_CardinalityType
  <1>2. i \notin B(i) /\ \A k \in I : Rank(I, key, k) = Cardinality(B(k))
    BY AheadOrders DEF Rank
  <1>3. Cardinality(I) \in Nat
    BY FS_CardinalityType
  <1>4. ASSUME NEW j \in I, Ahead(key, i, j) PROVE B(i) \in SUBSET B(j) /\ i \in B(j)
    BY <1>4, AheadOrders
  <1> HIDE DEF B
  <1>5. Cardinality(B(i)) <= Cardinality(I) /\ Cardinality(B(i)) # Cardinality(I)
    <2>1. B(i) # I
      BY <1>2
    <2> QED BY <2>1, <1>1, FS_Subset
  <1>6. Rank(I, key, i) \in 0 .. Cardinality(I) - 1
    BY <1>1, <1>2, <1>3, <1>5
  <1>7. ASSUME NEW j \in I, Ahead(key, i, j) PROVE Rank(I, key, i) < Rank(I, key, j)
    <2>1. B(i) \in SUBSET B(j) /\ B(i) # B(j)
      BY <1>2, <1>4, <1>7
    <2>2. Cardinality(B(i)) <= Cardinality(B(j)) /\ Cardinality(B(i)) # Cardinality(B(j))
      BY <2>1, <1>1, FS_Subset
    <2> QED BY <2>2, <1>1, <1>2
  <1> QED BY <1>6, <1>7

\* The ranks number the places.
Ranked(I, key) ==
  /\ \A i, j \in I : Rank(I, key, i) = Rank(I, key, j) => i = j
  /\ \A n \in 0 .. Cardinality(I) - 1 : \E i \in I : Rank(I, key, i) = n

\* Every number below the number of places is the rank of one.
LEMMA RankOnto ==
  ASSUME NEW K, NEW key \in [K -> Nat], NEW I, I \subseteq K, I \subseteq Nat, IsFiniteSet(I)
  PROVE  Ranked(I, key)
PROOF
  <1> DEFINE n == Cardinality(I)
             r == [i \in I |-> Rank(I, key, i)]
  <1>1. n \in Nat
    BY FS_CardinalityType
  <1>2. \A i \in I : Rank(I, key, i) \in 0 .. n - 1
    BY RankGrows
  <1>3. \A i, j \in I : Rank(I, key, i) = Rank(I, key, j) => i = j
    <2> SUFFICES ASSUME NEW i \in I, NEW j \in I, i # j PROVE Rank(I, key, i) # Rank(I, key, j)
      OBVIOUS
    <2>1. Ahead(key, i, j) \/ Ahead(key, j, i)
      BY AheadOrders
    <2>2. Rank(I, key, i) < Rank(I, key, j) \/ Rank(I, key, j) < Rank(I, key, i)
      BY <2>1, RankGrows
    <2> QED BY <1>1, <1>2, <2>2
  <1>4. r \in [I -> 0 .. n - 1] /\ \A i, j \in I : r[i] = r[j] => i = j
    BY <1>2, <1>3
  <1>5. IsFiniteSet(0 .. n - 1) /\ Cardinality(0 .. n - 1) = n
    <2> HIDE DEF n
    <2>1. 0 \in Int /\ n - 1 \in Int /\ n - 1 - 0 + 1 = n /\ (0 > n - 1 <=> n = 0)
      BY <1>1
    <2>2. /\ IsFiniteSet(0 .. n - 1)
          /\ Cardinality(0 .. n - 1) = IF 0 > n - 1 THEN 0 ELSE n - 1 - 0 + 1
      BY <2>1, FS_Interval, Zenon
    <2> QED BY <2>1, <2>2
  <1> HIDE DEF n
  <1>6. r \in Injection(I, 0 .. n - 1)
    <2> HIDE DEF r
    <2> QED BY <1>4 DEF Injection, IsInjective
  <1>7. r \in Surjection(I, 0 .. n - 1)
    <2> HIDE DEF r
    <2> QED BY <1>5, <1>6, FS_Injection DEF n
  <1>8. \A m \in 0 .. n - 1 : \E i \in I : r[i] = m
    <2> HIDE DEF r
    <2> QED BY <1>7 DEF Surjection
  <1> QED BY <1>3, <1>8 DEF n, Ranked

\* g says where each element of Listed comes from.
Placed(s, I, key, g) ==
  /\ Listed(s, I, key) = [k \in 1 .. Cardinality(I) |-> s[g[k]]]
  /\ \A i \in I : \E k \in 1 .. Cardinality(I) : g[k] = i
  /\ \A k, l \in 1 .. Cardinality(I) : key[g[k]] < key[g[l]] => k < l

\* Listed is a permutation of the places, in the order of the key.
LEMMA ListedSorts ==
  ASSUME NEW s, NEW K, NEW key \in [K -> Nat], NEW I, I \subseteq K, I \subseteq Nat, IsFiniteSet(I)
  PROVE  \E g \in [1 .. Cardinality(I) -> I] : Placed(s, I, key, g)
PROOF
  <1> DEFINE n == Cardinality(I)
             g == [k \in 1 .. n |-> CHOOSE i \in I : Rank(I, key, i) = k - 1]
  <1>1. n \in Nat
    BY FS_CardinalityType
  <1>4. Listed(s, I, key) = [k \in 1 .. n |-> s[g[k]]]
    BY DEF Listed
  <1> HIDE DEF n
  <1>5. /\ \A i, j \in I : Rank(I, key, i) = Rank(I, key, j) => i = j
        /\ \A m \in 0 .. n - 1 : \E i \in I : Rank(I, key, i) = m
        /\ \A i \in I : Rank(I, key, i) \in 0 .. n - 1
        /\ \A i, j \in I : Ahead(key, i, j) => Rank(I, key, i) < Rank(I, key, j)
    <2>1. Ranked(I, key)
      BY RankOnto
    <2>2. ASSUME NEW i \in I
          PROVE  /\ Rank(I, key, i) \in 0 .. Cardinality(I) - 1
                 /\ \A j \in I : Ahead(key, i, j) => Rank(I, key, i) < Rank(I, key, j)
      BY RankGrows, Zenon
    <2> QED BY <2>1, <2>2 DEF n, Ranked
  <1>6. ASSUME NEW k \in 1 .. n PROVE g[k] \in I /\ Rank(I, key, g[k]) = k - 1
    <2>1. k - 1 \in 0 .. n - 1
      BY <1>1
    <2>2. \E i \in I : Rank(I, key, i) = k - 1
      BY <2>1, <1>5
    <2> QED BY <2>2
  <1>7. g \in [1 .. n -> I]
    <2>1. g = [k \in 1 .. n |-> g[k]]
      OBVIOUS
    <2> HIDE DEF g
    <2> QED BY <2>1, <1>6
  <1> HIDE DEF g
  <1>8. ASSUME NEW i \in I PROVE \E k \in 1 .. n : g[k] = i
    <2>1. Rank(I, key, i) \in 0 .. n - 1
      BY <1>5
    <2>2. Rank(I, key, i) + 1 \in 1 .. n /\ (Rank(I, key, i) + 1) - 1 = Rank(I, key, i)
      BY <2>1, <1>1
    <2>3. g[Rank(I, key, i) + 1] = i
      BY <2>2, <1>5, <1>6
    <2> QED BY <2>2, <2>3
  <1>9. ASSUME NEW k \in 1 .. n, NEW l \in 1 .. n, key[g[k]] < key[g[l]] PROVE k < l
    <2>1. g[k] \in I /\ g[l] \in I
      BY <1>6
    <2>2. Ahead(key, g[k], g[l])
      BY <2>1, <1>9 DEF Ahead
    <2>3. Rank(I, key, g[k]) < Rank(I, key, g[l])
      BY <2>1, <2>2, <1>5
    <2> QED BY <2>3, <1>1, <1>6
  <1> QED BY <1>4, <1>7, <1>8, <1>9 DEF n, Placed

-----------------------------------------------------------------------------
(* The watermark                                                            *)

\* A bounded nonempty set of naturals has a greatest element.
LEMMA MaxOfSome ==
  ASSUME NEW S, S \subseteq Nat, S # {}, NEW b \in Nat, \A x \in S : x <= b
  PROVE  Max(S) \in S /\ \A x \in S : Max(S) >= x
PROOF
  <1> DEFINE T == {b - x : x \in S}
  <1>1. T \subseteq Nat /\ T # {}
    <2>1. ASSUME NEW x \in S PROVE b - x \in Nat
      <3>1. x \in Nat /\ x <= b
        OBVIOUS
      <3> QED BY <3>1
    <2> QED BY <2>1
  <1>2. PICK m \in T : \A i \in T : ~ (<<i, m>> \in OpToRel(<, Nat))
    <2> HIDE DEF T
    <2> QED BY <1>1, WFMin, NatLessThanWellFounded
  <1>3. \A i \in T : ~ (i < m)
    BY <1>1, <1>2 DEF OpToRel
  <1>4. PICK x \in S : m = b - x
    OBVIOUS
  <1>5. ASSUME NEW y \in S PROVE x >= y
    <2>1. b - y \in T /\ x \in Nat /\ y \in Nat
      OBVIOUS
    <2>2. ~ (b - y < b - x)
      BY <2>1, <1>3, <1>4
    <2> QED BY <2>1, <2>2
  <1> QED BY <1>5 DEF Max

\* The reorder buffer holds matches.
BufferTypes ==
  /\ heap \in Seq(Match) /\ old \in 0 .. Len(heap) /\ delivered \in Nat
  /\ done \in Seq(Match) /\ first \in [Part -> Nat] /\ jumped \in BOOLEAN

\* What follows w up to Reach(w) is in the buffer.
LEMMA ReachFilled ==
  ASSUME NEW w \in Nat
  PROVE  Reach(w) \in Nat /\ Reach(w) >= w /\ w + 1 .. Reach(w) \subseteq SeqsOf(heap)
PROOF
  <1> DEFINE S == {d \in w .. w + MaxSeq : w + 1 .. d \subseteq SeqsOf(heap)}
  <1>1. MaxSeq \in Nat
    BY ProcessorAssumption
  <1>2. w + 1 .. w = {}
    OBVIOUS
  <1>3. w \in S /\ S \subseteq Nat /\ \A x \in S : x <= w + MaxSeq /\ x >= w
    BY <1>1, <1>2
  <1>4. w + MaxSeq \in Nat
    BY <1>1
  <1>5. Max(S) \in S
    <2> HIDE DEF S
    <2> QED BY <1>3, <1>4, MaxOfSome
  <1> QED BY <1>3, <1>5 DEF Reach

\* The watermark is not lowered by what is too old.
LEMMA ForcedMarkGrows ==
  ASSUME BufferTypes
  PROVE  ForcedMark \in Nat /\ ForcedMark >= delivered
PROOF
  <1> DEFINE S == {delivered} \cup SeqsOf(SubSeq(heap, 1, old))
  <1>1. MaxSeq \in Nat /\ delivered \in Nat /\ heap \in Seq(Match) /\ old \in 0 .. Len(heap)
    BY ProcessorAssumption DEF BufferTypes
  <1>2. SubSeq(heap, 1, old) \in Seq(Match)
    BY <1>1
  <1>3. ASSUME NEW x \in SeqsOf(SubSeq(heap, 1, old)) PROVE x \in 1 .. MaxSeq
    <2>1. PICK i \in 1 .. Len(SubSeq(heap, 1, old)) : x = SubSeq(heap, 1, old)[i].seq
      BY DEF SeqsOf
    <2>2. SubSeq(heap, 1, old)[i] \in Match
      BY <1>2, <2>1, ElementOfSeq
    <2> QED BY <2>1, <2>2 DEF Match
  <1>4. S \subseteq Nat /\ delivered \in S /\ \A x \in S : x <= delivered + MaxSeq
    BY <1>1, <1>3
  <1>5. delivered + MaxSeq \in Nat
    BY <1>1
  <1>6. Max(S) \in S /\ \A x \in S : Max(S) >= x
    <2> HIDE DEF S
    <2> QED BY <1>4, <1>5, MaxOfSome
  <1> QED BY <1>4, <1>6 DEF ForcedMark

\* Unless the watermark was forced past a gap, everything up to the new one is in
\* the buffer or was delivered.
LEMMA MarkFilled ==
  ASSUME BufferTypes
  PROVE  /\ Mark \in Nat /\ Mark >= delivered
         /\ ~(ForcedMark > Reach(delivered)) => delivered + 1 .. Mark \subseteq SeqsOf(heap)
PROOF
  <1>1. delivered \in Nat /\ ForcedMark \in Nat /\ ForcedMark >= delivered
    BY ForcedMarkGrows DEF BufferTypes
  <1>2. Mark \in Nat /\ Mark >= ForcedMark /\ ForcedMark + 1 .. Mark \subseteq SeqsOf(heap)
    BY <1>1, ReachFilled DEF Mark
  <1>3. Reach(delivered) \in Nat /\ delivered + 1 .. Reach(delivered) \subseteq SeqsOf(heap)
    BY <1>1, ReachFilled
  <1>4. ASSUME ~(ForcedMark > Reach(delivered)), NEW n \in delivered + 1 .. Mark PROVE n \in SeqsOf(heap)
    <2>1. n \in delivered + 1 .. Reach(delivered) \/ n \in ForcedMark + 1 .. Mark
      BY <1>1, <1>2, <1>3, <1>4
    <2> QED BY <2>1, <1>2, <1>3
  <1> QED BY <1>1, <1>2, <1>4

-----------------------------------------------------------------------------
(* What a round releases and what it keeps                                  *)

In(m, s) == \E i \in 1 .. Len(s) : s[i] = m

\* r has the matches of the buffer up to w, sorted by number.
SortedUpto(r, w) ==
  /\ r \in Seq(Match)
  /\ \A i \in 1 .. Len(heap) : heap[i].seq <= w => In(heap[i], r)
  /\ \A k \in 1 .. Len(r) : r[k].seq <= w
  /\ \A k, l \in 1 .. Len(r) : r[k].seq < r[l].seq => k < l

\* Some places of the buffer are finitely many numbers.
LEMMA PlacesFinite ==
  ASSUME BufferTypes, NEW I, I \subseteq 1 .. Len(heap)
  PROVE  /\ IsFiniteSet(I) /\ I \subseteq Nat /\ Cardinality(I) \in Nat
         /\ \A i \in 1 .. Len(heap) : heap[i] \in Match /\ heap[i].seq \in Nat
PROOF
  <1>1. heap \in Seq(Match) /\ Len(heap) \in Nat /\ 1 \in Int /\ Len(heap) \in Int /\ MaxSeq \in Nat
    BY ProcessorAssumption DEF BufferTypes
  <1>2. IsFiniteSet(1 .. Len(heap))
    BY <1>1, FS_Interval
  <1>3. IsFiniteSet(I)
    BY <1>2, FS_Subset
  <1>4. Cardinality(I) \in Nat
    BY <1>3, FS_CardinalityType
  <1>5. ASSUME NEW i \in 1 .. Len(heap) PROVE heap[i] \in Match /\ heap[i].seq \in Nat
    <2>1. heap[i] \in Match
      BY <1>1, ElementOfSeq
    <2> QED BY <2>1, <1>1 DEF Match
  <1> QED BY <1>1, <1>3, <1>4, <1>5

\* What a round releases is what the buffer has up to the mark, sorted.
LEMMA ReadySorted ==
  ASSUME BufferTypes, NEW w \in Nat
  PROVE  SortedUpto(Ready(w), w)
PROOF
  <1> DEFINE I == Upto(w)
             K == 1 .. Len(heap)
             n == Cardinality(I)
             r == Ready(w)
  <1>1. I \subseteq K /\ \A i \in K : heap[i].seq <= w <=> i \in I
    BY DEF Upto
  <1>2. /\ IsFiniteSet(I) /\ I \subseteq Nat /\ n \in Nat
        /\ \A i \in K : heap[i] \in Match /\ heap[i].seq \in Nat
    BY <1>1, PlacesFinite
  <1>3. BySeq \in [K -> Nat] /\ \A i \in K : BySeq[i] = heap[i].seq
    BY <1>2 DEF BySeq
  <1>4. r = Listed(heap, I, BySeq)
    BY DEF Ready
  <1> HIDE DEF I, K, r
  <1>a. PICK g \in [1 .. n -> I] : Placed(heap, I, BySeq, g)
    BY <1>1, <1>2, <1>3, ListedSorts
  <1>5. /\ r = [k \in 1 .. n |-> heap[g[k]]]
        /\ \A i \in I : \E k \in 1 .. n : g[k] = i
        /\ \A k, l \in 1 .. n : BySeq[g[k]] < BySeq[g[l]] => k < l
    BY <1>4, <1>a DEF Placed
  <1> HIDE DEF n
  <1>6. \A k \in 1 .. n : g[k] \in K /\ g[k] \in I /\ heap[g[k]] \in Match /\ BySeq[g[k]] = heap[g[k]].seq
    BY <1>1, <1>2, <1>3
  <1>7. r \in [1 .. n -> Match]
    BY <1>5, <1>6
  <1>8. r \in Seq(Match) /\ Len(r) = n
    BY <1>2, <1>7
  <1>9. \A k \in 1 .. n : r[k] = heap[g[k]]
    BY <1>5
  <1>10. ASSUME NEW i \in 1 .. Len(heap), heap[i].seq <= w PROVE In(heap[i], r)
    <2>1. i \in I
      BY <1>1, <1>10 DEF K
    <2>2. PICK k \in 1 .. n : g[k] = i
      BY <1>5, <2>1
    <2> QED BY <1>8, <1>9, <2>2 DEF In
  <1>11. ASSUME NEW k \in 1 .. Len(r) PROVE r[k].seq <= w
    BY <1>1, <1>6, <1>8, <1>9
  <1>12. ASSUME NEW k \in 1 .. Len(r), NEW l \in 1 .. Len(r), r[k].seq < r[l].seq PROVE k < l
    <2>1. k \in 1 .. n /\ l \in 1 .. n
      BY <1>8
    <2>2. BySeq[g[k]] < BySeq[g[l]]
      BY <2>1, <1>6, <1>9, <1>12
    <2> QED BY <2>1, <2>2, <1>5
  <1> QED BY <1>8, <1>10, <1>11, <1>12 DEF SortedUpto, r

\* What it keeps is the rest.
LEMMA KeptStays ==
  ASSUME BufferTypes, NEW w \in Nat,
         NEW s, s = Listed(heap, Beyond(w), [i \in 1 .. Len(heap) |-> i])
  PROVE  s \in Seq(Match) /\ \A i \in 1 .. Len(heap) : heap[i].seq > w => In(heap[i], s)
PROOF
  <1> DEFINE I == Beyond(w)
             K == 1 .. Len(heap)
             n == Cardinality(I)
             key == [i \in K |-> i]
  <1>1. I \subseteq K /\ \A i \in K : heap[i].seq > w <=> i \in I
    BY DEF Beyond
  <1>2. /\ IsFiniteSet(I) /\ I \subseteq Nat /\ n \in Nat
        /\ \A i \in K : heap[i] \in Match /\ heap[i].seq \in Nat
    BY <1>1, PlacesFinite
  <1>3. key \in [K -> Nat]
    OBVIOUS
  <1>4. s = Listed(heap, I, key)
    OBVIOUS
  <1> HIDE DEF I, K, key
  <1>a. PICK g \in [1 .. n -> I] : Placed(heap, I, key, g)
    BY <1>1, <1>2, <1>3, ListedSorts
  <1>5. /\ s = [k \in 1 .. n |-> heap[g[k]]]
        /\ \A i \in I : \E k \in 1 .. n : g[k] = i
    BY <1>4, <1>a DEF Placed
  <1> HIDE DEF n
  <1>6. s \in [1 .. n -> Match]
    BY <1>1, <1>2, <1>5
  <1>7. s \in Seq(Match) /\ Len(s) = n
    BY <1>2, <1>6
  <1>8. ASSUME NEW i \in 1 .. Len(heap), heap[i].seq > w PROVE In(heap[i], s)
    <2>1. i \in I
      BY <1>1, <1>8 DEF K
    <2>2. PICK k \in 1 .. n : g[k] = i
      BY <1>5, <2>1
    <2> QED BY <1>5, <1>7, <2>2 DEF In
  <1> QED BY <1>7, <1>8

-----------------------------------------------------------------------------
(* The reorder buffer                                                       *)

Held(m) == In(m, queue) \/ In(m, heap) \/ In(m, done)

\* How many records of its partition the thread has put into the queue.
Got(p) == stream[p].pos + IF stream[p].pc = "save" THEN 1 ELSE 0

ReceivedHeld ==
  \A p \in Part : /\ Got(p) <= Len(log[p])
                  /\ \A i \in first[p] + 1 .. Got(p) : Held(log[p][i])

\* Everything up to the watermark was aggregated, unless a gap was given up.
Delivered == ~jumped => \A n \in 1 .. delivered : \E j \in 1 .. Len(done) : done[j].seq = n

PipelineInv == FlushInv /\ BufferTypes /\ ReceivedHeld /\ Delivered /\ CausalOrder

\* Facts about one thread and its partition.
LEMMA GotFacts ==
  ASSUME FlushInv, NEW p \in Part
  PROVE  /\ stream[p] \in Stream /\ stream[p].pos \in Nat /\ Got(p) \in Nat /\ stream[p].pos <= Got(p)
         /\ saved[p] \in Nat /\ saved[p] <= stream[p].pos /\ AtSaved(p) \in Stream
         /\ log[p] \in Seq(Match) /\ Len(log[p]) \in Nat
         /\ \A i \in 1 .. Len(log[p]) : log[p][i] \in Match
PROOF
  <1>1. OffsetInv /\ MatchTypes
    BY DEF FlushInv
  <1>2. /\ stream[p] \in Stream /\ stream[p].pos \in Nat /\ stream[p].lastSaved \in Nat /\ saved[p] \in Nat
        /\ Position(stream[p], saved[p])
    BY <1>1, ThreadFacts
  <1>3. saved[p] <= stream[p].pos
    BY <1>2 DEF Position
  <1>4. Got(p) \in Nat /\ stream[p].pos <= Got(p)
    BY <1>2 DEF Got
  <1>5. AtSaved(p) \in Stream
    BY <1>1, AtSavedPosition
  <1>6. log[p] \in Seq(Match)
    BY <1>1 DEF MatchTypes
  <1>7. Len(log[p]) \in Nat /\ \A i \in 1 .. Len(log[p]) : log[p][i] \in Match
    BY <1>6, ElementOfSeq, LenProperties
  <1> QED BY <1>2, <1>3, <1>4, <1>5, <1>6, <1>7

\* A step that loses nothing, and after which a thread has received what it had, less,
\* or something that is held.
LEMMA ReceivedMoves ==
  ASSUME FlushInv, BufferTypes, ReceivedHeld, log' = log, \A m \in Match : Held(m) => Held(m)',
         \A q \in Part : Got(q)' <= Len(log[q]),
         \A q \in Part : \A i \in first'[q] + 1 .. Got(q)' :
            i \in first[q] + 1 .. Got(q) \/ Held(log[q][i])'
  PROVE  ReceivedHeld'
PROOF
  <1>1. ASSUME NEW q \in Part, NEW i \in first'[q] + 1 .. Got(q)' PROVE Held(log[q][i])'
    <2>1. CASE i \in first[q] + 1 .. Got(q)
      <3>1. Held(log[q][i]) /\ Got(q) <= Len(log[q]) /\ first[q] \in Nat /\ Got(q) \in Nat /\ Len(log[q]) \in Nat
        BY <2>1, GotFacts DEF ReceivedHeld, BufferTypes
      <3>2. i \in 1 .. Len(log[q])
        BY <3>1, <2>1
      <3>3. log[q][i] \in Match
        BY <3>2, GotFacts
      <3>4. PICK m \in Match : m = log[q][i]
        BY <3>3
      <3>5. Held(m)'
        BY <3>1, <3>4
      <3> QED BY <3>4, <3>5 DEF Held, In
    <2> QED BY <1>1, <2>1
  <1>2. ASSUME NEW q \in Part PROVE Got(q)' <= Len(log'[q])
    OBVIOUS
  <1> QED BY <1>1, <1>2 DEF ReceivedHeld

\* Where the elements of a longer sequence come from.
LEMMA InAppend ==
  ASSUME NEW s \in Seq(Match), NEW e \in Match
  PROVE  /\ Append(s, e) \in Seq(Match) /\ In(e, Append(s, e))
         /\ \A m : In(m, s) => In(m, Append(s, e))
PROOF
  <1>1. /\ Append(s, e) \in Seq(Match) /\ Len(s) \in Nat /\ Len(Append(s, e)) = Len(s) + 1
        /\ Append(s, e)[Len(s) + 1] = e /\ \A i \in 1 .. Len(s) : Append(s, e)[i] = s[i]
    OBVIOUS
  <1> QED BY <1>1 DEF In

LEMMA InTail ==
  ASSUME NEW s \in Seq(Match), s # <<>>
  PROVE  /\ Head(s) \in Match /\ Tail(s) \in Seq(Match)
         /\ \A m : In(m, s) => m = Head(s) \/ In(m, Tail(s))
PROOF
  <1>1. /\ Head(s) \in Match /\ Tail(s) \in Seq(Match) /\ Len(Tail(s)) = Len(s) - 1 /\ Head(s) = s[1]
        /\ \A i \in 1 .. Len(Tail(s)) : Tail(s)[i] = s[i + 1]
    BY HeadTailProperties
  <1>2. Len(s) \in Nat
    OBVIOUS
  <1>3. ASSUME NEW i \in 1 .. Len(s), i # 1 PROVE In(s[i], Tail(s))
    <2>1. i - 1 \in 1 .. Len(Tail(s)) /\ (i - 1) + 1 = i
      BY <1>1, <1>2, <1>3
    <2>2. Tail(s)[i - 1] = s[i]
      BY <1>1, <2>1
    <2> QED BY <2>1, <2>2 DEF In
  <1> QED BY <1>1, <1>3 DEF In

LEMMA InConcat ==
  ASSUME NEW s \in Seq(Match), NEW t \in Seq(Match)
  PROVE  \A m : In(m, s) \/ In(m, t) => In(m, s \o t)
PROOF
  <1>1. /\ Len(s) \in Nat /\ Len(t) \in Nat /\ Len(s \o t) = Len(s) + Len(t)
        /\ \A i \in 1 .. Len(s) + Len(t) : (s \o t)[i] = IF i <= Len(s) THEN s[i] ELSE t[i - Len(s)]
    BY ConcatProperties
  <1>2. ASSUME NEW i \in 1 .. Len(s) PROVE In(s[i], s \o t)
    <2>1. i \in 1 .. Len(s \o t) /\ (s \o t)[i] = s[i]
      BY <1>1
    <2> QED BY <2>1 DEF In
  <1>3. ASSUME NEW i \in 1 .. Len(t) PROVE In(t[i], s \o t)
    <2>1. i + Len(s) \in 1 .. Len(s \o t) /\ (s \o t)[i + Len(s)] = t[i + Len(s) - Len(s)] /\ i + Len(s) - Len(s) = i
      BY <1>1
    <2> QED BY <2>1 DEF In
  <1> QED BY <1>2, <1>3 DEF In

\* pop_ready loses nothing.
LEMMA PopKeeps ==
  ASSUME BufferTypes, NEW mark, mark = Mark, PopReady(mark), first' = first, queue' = queue
  PROVE  BufferTypes' /\ \A m \in Match : Held(m) => Held(m)'
PROOF
  <1> DEFINE r == Ready(mark)
             kept == Listed(heap, Beyond(mark), [i \in 1 .. Len(heap) |-> i])
  <1>1. mark \in Nat /\ heap \in Seq(Match) /\ done \in Seq(Match)
    BY MarkFilled DEF BufferTypes
  <1>2. SortedUpto(r, mark)
    BY <1>1, ReadySorted
  <1>3. kept \in Seq(Match) /\ \A i \in 1 .. Len(heap) : heap[i].seq > mark => In(heap[i], kept)
    BY <1>1, KeptStays
  <1>4. heap' = kept /\ old' = 0 /\ delivered' = mark /\ done' = done \o r
    BY DEF PopReady
  <1>5. jumped' \in BOOLEAN
    BY DEF PopReady
  <1> HIDE DEF r, kept
  <1>6. r \in Seq(Match) /\ \A i \in 1 .. Len(heap) : heap[i].seq <= mark => In(heap[i], r)
    BY <1>2 DEF SortedUpto
  <1>7. BufferTypes'
    <2>1. done' \in Seq(Match) /\ heap' \in Seq(Match) /\ old' \in 0 .. Len(heap')
      BY <1>1, <1>3, <1>4, <1>6
    <2> QED BY <1>1, <1>4, <1>5, <2>1 DEF BufferTypes
  <1>8. ASSUME NEW m, In(m, heap) PROVE In(m, heap') \/ In(m, done')
    <2>1. PICK i \in 1 .. Len(heap) : heap[i] = m
      BY <1>8 DEF In
    <2>2. heap[i].seq \in Nat
      <3>1. 1 .. Len(heap) \subseteq 1 .. Len(heap)
        OBVIOUS
      <3> QED BY <3>1, PlacesFinite
    <2>3. In(m, kept) \/ In(m, r)
      BY <1>1, <1>3, <1>6, <2>1, <2>2
    <2> QED BY <1>1, <1>4, <1>6, <2>3, InConcat
  <1>9. ASSUME NEW m, In(m, done) PROVE In(m, done')
    BY <1>1, <1>4, <1>6, <1>9, InConcat
  <1>10. ASSUME NEW m \in Match, Held(m) PROVE Held(m)'
    <2>1. In(m, queue') \/ In(m, heap') \/ In(m, done')
      BY <1>8, <1>9, <1>10 DEF Held
    <2> QED BY <2>1 DEF Held, In
  <1> QED BY <1>7, <1>10

\* pop_ready releases in the order of the numbers, and what is missing below them was
\* released before.
LEMMA PopOrders ==
  ASSUME BufferTypes, Delivered, CausalOrder, NEW mark, mark = Mark, PopReady(mark)
  PROVE  Delivered' /\ CausalOrder'
PROOF
  <1> DEFINE r == Ready(mark)
             d == done \o r
  <1>1. /\ mark \in Nat /\ mark >= delivered /\ heap \in Seq(Match) /\ done \in Seq(Match) /\ delivered \in Nat
        /\ ~(ForcedMark > Reach(delivered)) => delivered + 1 .. mark \subseteq SeqsOf(heap)
    BY MarkFilled DEF BufferTypes
  <1>2. SortedUpto(r, mark)
    BY <1>1, ReadySorted
  <1>3. delivered' = mark /\ done' = d /\ jumped' = (jumped \/ ForcedMark > Reach(delivered))
    BY DEF PopReady
  <1> HIDE DEF r
  <1>4. /\ r \in Seq(Match) /\ Len(r) \in Nat
        /\ \A i \in 1 .. Len(heap) : heap[i].seq <= mark => In(heap[i], r)
        /\ \A k \in 1 .. Len(r) : r[k].seq <= mark
        /\ \A k, l \in 1 .. Len(r) : r[k].seq < r[l].seq => k < l
    BY <1>2 DEF SortedUpto
  <1>5. /\ Len(done) \in Nat /\ Len(d) = Len(done) + Len(r)
        /\ \A i \in 1 .. Len(done) + Len(r) : d[i] = IF i <= Len(done) THEN done[i] ELSE r[i - Len(done)]
    BY <1>1, <1>4, ConcatProperties
  <1> HIDE DEF d
  <1>6. CASE jumped'
    BY <1>6 DEF Delivered, CausalOrder
  <1>7. CASE ~jumped'
    <2>1. ~jumped /\ delivered + 1 .. mark \subseteq SeqsOf(heap)
      BY <1>1, <1>3, <1>7
    <2>2. \A n \in 1 .. delivered : \E j \in 1 .. Len(done) : done[j].seq = n
      BY <2>1 DEF Delivered
    <2>3. ASSUME NEW n \in delivered + 1 .. mark
          PROVE  \E k \in 1 .. Len(r) : r[k].seq = n
      <3>1. PICK i \in 1 .. Len(heap) : heap[i].seq = n
        BY <2>1 DEF SeqsOf
      <3> QED BY <1>1, <1>4, <3>1 DEF In
    <2>4. ASSUME NEW n \in 1 .. mark
          PROVE  \/ \E j \in 1 .. Len(done) : d[j].seq = n
                 \/ \E k \in 1 .. Len(r) : d[Len(done) + k].seq = n /\ r[k].seq = n
      <3>1. CASE n <= delivered
        <4>1. PICK j \in 1 .. Len(done) : done[j].seq = n
          BY <1>1, <2>2, <3>1
        <4>2. d[j] = done[j]
          BY <1>4, <1>5
        <4> QED BY <4>1, <4>2
      <3>2. CASE ~(n <= delivered)
        <4>1. PICK k \in 1 .. Len(r) : r[k].seq = n
          BY <1>1, <2>3, <3>2
        <4>2. /\ Len(done) + k \in 1 .. Len(done) + Len(r) /\ ~(Len(done) + k <= Len(done))
              /\ Len(done) + k - Len(done) = k
          BY <1>4, <1>5
        <4>3. d[Len(done) + k] = r[k]
          BY <1>5, <4>2
        <4> QED BY <4>1, <4>3
      <3> QED BY <3>1, <3>2
    <2>5. ASSUME NEW n \in 1 .. mark PROVE \E j \in 1 .. Len(d) : d[j].seq = n
      <3>1. \A j \in 1 .. Len(done) : j \in 1 .. Len(d)
        BY <1>4, <1>5
      <3>2. \A k \in 1 .. Len(r) : Len(done) + k \in 1 .. Len(d)
        BY <1>4, <1>5
      <3> QED BY <2>4, <3>1, <3>2
    <2>6. Delivered'
      BY <1>3, <2>5 DEF Delivered
    <2>7. ASSUME NEW i \in 1 .. Len(d), NEW s \in 1 .. d[i].seq - 1
          PROVE  \E j \in 1 .. i - 1 : d[j].seq = s
      <3>1. CASE i <= Len(done)
        <4>1. i \in 1 .. Len(done) /\ d[i] = done[i]
          BY <1>4, <1>5, <3>1
        <4>2. PICK j \in 1 .. i - 1 : done[j].seq = s
          BY <2>1, <4>1 DEF CausalOrder
        <4>3. d[j] = done[j]
          BY <1>4, <1>5, <4>1
        <4> QED BY <4>2, <4>3
      <3>2. CASE ~(i <= Len(done))
        <4> DEFINE l == i - Len(done)
        <4>1. l \in 1 .. Len(r) /\ d[i] = r[l]
          BY <1>4, <1>5, <3>2
        <4>2. r[l] \in Match
          BY <1>4, <4>1, ElementOfSeq
        <4>3. r[l].seq \in Nat /\ r[l].seq <= mark
          BY <1>4, <4>1, <4>2, ProcessorAssumption DEF Match
        <4>4. s \in 1 .. mark /\ s < r[l].seq
          BY <1>1, <4>1, <4>3
        <4>5. CASE \E j \in 1 .. Len(done) : d[j].seq = s
          BY <1>5, <3>2, <4>5
        <4>6. ASSUME NEW k \in 1 .. Len(r), d[Len(done) + k].seq = s, r[k].seq = s
              PROVE  Len(done) + k \in 1 .. i - 1
          <5>1. k < l
            BY <1>4, <4>1, <4>4, <4>6
          <5> QED BY <5>1, <1>5
        <4> QED BY <2>4, <4>4, <4>5, <4>6
      <3> QED BY <3>1, <3>2
    <2> QED BY <1>3, <2>6, <2>7 DEF CausalOrder
  <1> QED BY <1>6, <1>7

\* Every variable of the buffer keeps its type, and what was received is held.
LEMMA ReceivedStep ==
  ASSUME FlushInv, BufferTypes, ReceivedHeld, [Next]_vars
  PROVE  BufferTypes' /\ ReceivedHeld'
PROOF
  <1>0. /\ queue \in Seq(Match) /\ heap \in Seq(Match) /\ done \in Seq(Match) /\ delivered \in Nat
        /\ first \in [Part -> Nat] /\ stream \in [Part -> Stream] /\ saved \in [Part -> Nat]
        /\ log \in [Part -> Seq(Match)]
    BY DEF FlushInv, MatchTypes, BufferTypes, OffsetInv
  <1>1. ASSUME UNCHANGED <<stream, queue, bufVars, first>>, log' = log PROVE BufferTypes' /\ ReceivedHeld'
    BY <1>1 DEF BufferTypes, ReceivedHeld, Held, In, Got, bufVars
  <1>2. CASE \E p \in Part : Number(p) \/ PublishFail(p)
    BY <1>1, <1>2 DEF Number, PublishFail, subVars
  <1>3. ASSUME NEW p \in Part, Publish(p) PROVE BufferTypes' /\ ReceivedHeld'
    <2> DEFINE e == [seq |-> flying[p], part |-> p]
    <2>1. log' = [log EXCEPT ![p] = Append(@, e)] /\ UNCHANGED <<stream, queue, bufVars, first>>
      BY <1>3 DEF Publish, subVars
    <2> HIDE DEF e
    <2>2. BufferTypes'
      BY <2>1 DEF BufferTypes, bufVars
    <2>3. ASSUME NEW q \in Part PROVE Len(log'[q]) >= Len(log[q]) /\ \A i \in 1 .. Len(log[q]) : log'[q][i] = log[q][i]
      <3>1. log[q] \in Seq(Match) /\ (log'[q] = log[q] \/ log'[q] = Append(log[q], e))
        BY <1>0, <2>1
      <3> QED BY <3>1
    <2>4. ASSUME NEW q \in Part
          PROVE  Got(q)' <= Len(log'[q]) /\ \A i \in first'[q] + 1 .. Got(q)' : Held(log[q][i])'
      <3>1. Got(q)' = Got(q) /\ first' = first
        BY <2>1 DEF Got
      <3>2. Got(q) <= Len(log[q]) /\ Got(q) \in Nat /\ Len(log[q]) \in Nat /\ first[q] \in Nat /\ Len(log'[q]) \in Int
        <4>1. log'[q] \in Seq(Match) \/ log'[q] = log[q] \/ log'[q] = Append(log[q], e)
          BY <1>0, <2>1
        <4> QED BY <1>0, <4>1, GotFacts DEF ReceivedHeld
      <3>3. Got(q)' <= Len(log'[q])
        BY <2>3, <3>1, <3>2
      <3>4. ASSUME NEW i \in first[q] + 1 .. Got(q) PROVE Held(log[q][i])'
        <4>1. i \in 1 .. Len(log[q])
          BY <3>2
        <4>2. log'[q][i] = log[q][i] /\ Held(log[q][i])
          BY <2>3, <4>1 DEF ReceivedHeld
        <4> QED BY <2>1, <4>2 DEF Held, In, bufVars
      <3> QED BY <3>1, <3>3, <3>4
    <2>5. ReceivedHeld'
      BY <2>4 DEF ReceivedHeld
    <2> QED BY <2>2, <2>5
  <1>4. ASSUME NEW p \in Part, Receive(p) PROVE BufferTypes' /\ ReceivedHeld'
    <2> DEFINE s == stream[p]
               a == IF Due(s) THEN "save" ELSE "recv"
               b == IF Due(s) THEN s.pos ELSE s.pos + 1
               t == [s EXCEPT !.pc = a, !.pos = b]
    <2>1. /\ s.pc = "recv" /\ s.pos < Len(log[p]) /\ queue' = Append(queue, log[p][s.pos + 1])
          /\ UNCHANGED <<inVars, bufVars, first>>
      BY <1>4 DEF Receive
    <2>2. stream' = [stream EXCEPT ![p] = t]
      BY <1>4 DEF Receive
    <2>3. s \in Stream /\ s.pos \in Nat /\ Len(log[p]) \in Nat /\ \A i \in 1 .. Len(log[p]) : log[p][i] \in Match
      BY GotFacts
    <2>4. b + (IF a = "save" THEN 1 ELSE 0) = s.pos + 1
      BY <2>3
    <2> HIDE DEF a, b
    <2>5. t.pc = a /\ t.pos = b
      BY <2>3 DEF Stream
    <2>6. PICK m \in Match : m = log[p][s.pos + 1]
      BY <2>1, <2>3
    <2>7. In(m, queue') /\ \A x : In(x, queue) => In(x, queue')
      BY <1>0, <2>1, <2>6, InAppend
    <2> HIDE DEF t
    <2>8. Got(p)' = s.pos + 1 /\ Got(p) = s.pos
      <3>1. stream'[p] = t
        BY <1>0, <2>2
      <3>2. Got(p)' = b + IF a = "save" THEN 1 ELSE 0
        BY <2>5, <3>1 DEF Got
      <3>3. Got(p) = s.pos
        BY <2>1, <2>3 DEF Got
      <3> QED BY <2>4, <3>2, <3>3
    <2>9. \A q \in Part : q # p => Got(q)' = Got(q)
      BY <1>0, <2>2 DEF Got
    <2>10. log' = log /\ first' = first /\ heap' = heap /\ done' = done
      BY <2>1 DEF inVars, bufVars
    <2>11. BufferTypes'
      BY <2>1 DEF BufferTypes, bufVars
    <2>12. ASSUME NEW x \in Match, Held(x) PROVE Held(x)'
      BY <2>7, <2>10, <2>12 DEF Held, In
    <2>13. Held(m)'
      BY <2>7 DEF Held, In
    <2>14. ASSUME NEW q \in Part
           PROVE  /\ Got(q)' <= Len(log[q])
                  /\ \A i \in first'[q] + 1 .. Got(q)' : i \in first[q] + 1 .. Got(q) \/ Held(log[q][i])'
      <3>1. Got(q) <= Len(log[q]) /\ first[q] \in Nat
        BY <1>0 DEF ReceivedHeld
      <3>2. CASE q # p
        BY <2>9, <2>10, <3>1, <3>2
      <3>3. CASE q = p
        <4>1. Got(q)' <= Len(log[q])
          BY <2>1, <2>3, <2>8, <3>3
        <4>2. ASSUME NEW i \in first'[q] + 1 .. Got(q)', ~(i \in first[q] + 1 .. Got(q)) PROVE Held(log[q][i])'
          <5>1. i = s.pos + 1
            BY <2>3, <2>8, <2>10, <3>1, <3>3, <4>2
          <5>2. log[q][i] = m
            BY <2>6, <3>3, <5>1
          <5>3. log'[q][i] = m
            BY <2>10, <5>2
          <5> QED BY <2>7, <5>3, <5>2, <2>10 DEF Held, In
        <4> QED BY <4>1, <4>2
      <3> QED BY <3>2, <3>3
    <2>15. ReceivedHeld'
      BY <2>10, <2>12, <2>14, ReceivedMoves
    <2> QED BY <2>11, <2>15
  <1>5. ASSUME NEW p \in Part, Save(p) PROVE BufferTypes' /\ ReceivedHeld'
    <2> DEFINE t == [pc |-> "recv", pos |-> stream[p].pos + 1, lastSaved |-> stream[p].pos]
    <2>1. /\ stream[p].pc = "save" /\ stream' = [stream EXCEPT ![p] = t]
          /\ UNCHANGED <<inVars, queue, bufVars, first>>
      BY <1>5 DEF Save
    <2>2. log' = log /\ first' = first /\ queue' = queue /\ heap' = heap /\ done' = done
      BY <2>1 DEF inVars, bufVars
    <2>3. BufferTypes'
      BY <2>1 DEF BufferTypes, bufVars
    <2>4. t.pc = "recv" /\ t.pos = stream[p].pos + 1
      OBVIOUS
    <2> HIDE DEF t
    <2>5. ASSUME NEW q \in Part PROVE Got(q)' = Got(q)
      <3>1. CASE q = p
        <4>1. stream'[q] = t
          BY <1>0, <2>1, <3>1
        <4>2. stream[p].pos \in Nat
          BY GotFacts
        <4> QED BY <2>1, <2>4, <3>1, <4>1, <4>2 DEF Got
      <3>2. CASE q # p
        BY <1>0, <2>1, <3>2 DEF Got
      <3> QED BY <3>1, <3>2
    <2>6. ReceivedHeld'
      BY <2>2, <2>5 DEF ReceivedHeld, Held, In
    <2> QED BY <2>3, <2>6
  <1>6. ASSUME log' = log, queue' = queue, heap' = heap, done' = done, first' = first, BufferTypes',
               \A p \in Part : stream'[p] = stream[p] \/ stream'[p] = AtSaved(p)
        PROVE  ReceivedHeld'
    <2>1. ASSUME NEW q \in Part PROVE Got(q)' \in Nat /\ Got(q)' <= Got(q)
      <3>1. CASE stream'[q] = stream[q]
        BY <3>1, GotFacts DEF Got
      <3>2. CASE stream'[q] = AtSaved(q)
        <4>1. Got(q)' = saved[q]
          <5>1. AtSaved(q).pc = "recv" /\ AtSaved(q).pos = saved[q] /\ saved[q] \in Nat
            BY GotFacts DEF AtSaved
          <5> QED BY <3>2, <5>1 DEF Got
        <4> QED BY <4>1, GotFacts
      <3> QED BY <1>6, <3>1, <3>2
    <2>2. ASSUME NEW q \in Part
          PROVE  /\ Got(q)' <= Len(log[q])
                 /\ \A i \in first'[q] + 1 .. Got(q)' : i \in first[q] + 1 .. Got(q)
      <3>1. Got(q) \in Nat /\ Got(q) <= Len(log[q]) /\ Len(log[q]) \in Nat /\ first[q] \in Nat
        BY <1>0, GotFacts DEF ReceivedHeld
      <3> QED BY <1>6, <2>1, <3>1
    <2>3. ASSUME NEW x \in Match, Held(x) PROVE Held(x)'
      BY <1>6, <2>3 DEF Held, In
    <2> QED BY <1>6, <2>2, <2>3, ReceivedMoves
  <1>7. ASSUME NEW p \in Part, Break(p) PROVE BufferTypes' /\ ReceivedHeld'
    <2>1. stream' = [stream EXCEPT ![p] = AtSaved(p)] /\ UNCHANGED <<inVars, queue, bufVars, first>>
      BY <1>7 DEF Break
    <2>2. \A q \in Part : stream'[q] = stream[q] \/ stream'[q] = AtSaved(q)
      BY <1>0, <2>1
    <2>3. BufferTypes'
      BY <2>1 DEF BufferTypes, bufVars
    <2> QED BY <1>6, <2>1, <2>2, <2>3 DEF inVars, bufVars
  <1>8. CASE Drain
    <2>1. /\ queue # <<>> /\ queue' = Tail(queue) /\ heap' = Append(heap, Head(queue))
          /\ UNCHANGED <<inVars, subVars, old, delivered, done, jumped, first>>
      BY <1>8 DEF Drain
    <2>2. Head(queue) \in Match /\ \A x : In(x, queue) => x = Head(queue) \/ In(x, queue')
      BY <1>0, <2>1, InTail
    <2>3. heap' \in Seq(Match) /\ In(Head(queue), heap') /\ \A x : In(x, heap) => In(x, heap')
      BY <1>0, <2>1, <2>2, InAppend
    <2>4. ASSUME NEW x \in Match, Held(x) PROVE Held(x)'
      <3>1. In(x, queue') \/ In(x, heap') \/ In(x, done')
        BY <2>1, <2>2, <2>3, <2>4 DEF Held
      <3> QED BY <3>1 DEF Held, In
    <2>5. Len(heap') = Len(heap) + 1 /\ Len(heap) \in Nat
      BY <1>0, <2>1, <2>2
    <2>6. BufferTypes'
      BY <2>1, <2>3, <2>5 DEF BufferTypes
    <2>7. log' = log /\ first' = first /\ \A q \in Part : Got(q)' = Got(q)
      BY <2>1 DEF inVars, subVars, Got
    <2>8. ASSUME NEW q \in Part
          PROVE  /\ Got(q)' <= Len(log[q])
                 /\ \A i \in first'[q] + 1 .. Got(q)' : i \in first[q] + 1 .. Got(q)
      BY <2>7 DEF ReceivedHeld
    <2> QED BY <2>4, <2>6, <2>7, <2>8, ReceivedMoves
  <1>9. CASE Expire
    <2>1. UNCHANGED <<inVars, subVars, queue, heap, delivered, done, jumped, first>> /\ old' \in 0 .. Len(heap)
      BY <1>0, <1>9 DEF Expire, BufferTypes
    <2>2. BufferTypes'
      BY <2>1 DEF BufferTypes
    <2>3. ReceivedHeld'
      BY <2>1 DEF ReceivedHeld, Held, In, Got, inVars, subVars
    <2> QED BY <2>2, <2>3
  <1>10. ASSUME NEW mark, mark = Mark, Collect(mark) PROVE BufferTypes' /\ ReceivedHeld'
    <2>1. PopReady(mark) /\ UNCHANGED <<inVars, subVars, queue, first>>
      BY <1>10 DEF Collect
    <2>2. BufferTypes' /\ \A m \in Match : Held(m) => Held(m)'
      BY <1>10, <2>1, PopKeeps
    <2>3. log' = log /\ first' = first /\ \A q \in Part : Got(q)' = Got(q)
      BY <2>1 DEF inVars, subVars, Got
    <2>4. ASSUME NEW q \in Part
          PROVE  /\ Got(q)' <= Len(log[q])
                 /\ \A i \in first'[q] + 1 .. Got(q)' : i \in first[q] + 1 .. Got(q)
      BY <2>3 DEF ReceivedHeld
    <2> QED BY <2>2, <2>3, <2>4, ReceivedMoves
  <1>11. CASE Round \/ RoundFlush
    <2>1. PICK mark \in {Mark} : Collect(mark)
      BY <1>11 DEF Round, RoundFlush
    <2> QED BY <1>10, <2>1
  <1>12. CASE \E k \in Part : FlushWrite(k) \/ FlushError(k)
    BY <1>1, <1>12 DEF FlushWrite, FlushError, inVars, subVars
  <1>13. CASE Restart
    <2>1. /\ stream' = [p \in Part |-> AtSaved(p)] /\ first' = saved /\ heap' = <<>> /\ old' = 0 /\ delivered' = 0
          /\ done' = <<>> /\ jumped' = FALSE /\ log' = log
      BY <1>13 DEF Restart, inVars
    <2>2. BufferTypes'
      <3>1. <<>> \in Seq(Match) /\ Len(<<>>) = 0
        OBVIOUS
      <3>2. heap' \in Seq(Match) /\ done' \in Seq(Match) /\ Len(heap') = 0
        BY <2>1, <3>1
      <3>3. first' \in [Part -> Nat] /\ old' \in 0 .. Len(heap')
        BY <1>0, <2>1, <3>2
      <3> QED BY <2>1, <3>2, <3>3 DEF BufferTypes
    <2>3. ASSUME NEW q \in Part PROVE Got(q)' <= Len(log'[q]) /\ first'[q] + 1 .. Got(q)' = {}
      <3>1. Got(q)' = saved[q]
        <4>1. AtSaved(q).pc = "recv" /\ AtSaved(q).pos = saved[q] /\ saved[q] \in Nat
          BY GotFacts DEF AtSaved
        <4> QED BY <2>1, <4>1 DEF Got
      <3>2. Got(q) <= Len(log[q]) /\ saved[q] <= Got(q) /\ saved[q] \in Nat /\ Got(q) \in Nat /\ Len(log[q]) \in Nat
        BY GotFacts DEF ReceivedHeld
      <3> QED BY <2>1, <3>1, <3>2
    <2>4. ReceivedHeld'
      BY <2>3 DEF ReceivedHeld
    <2> QED BY <2>2, <2>4
  <1>14. CASE UNCHANGED vars
    BY <1>1, <1>14 DEF vars, inVars, subVars
  <1> QED BY <1>2, <1>3, <1>4, <1>5, <1>7, <1>8, <1>9, <1>11, <1>12, <1>13, <1>14
          DEF Next, Threads, MainLoop, Subscriber

\* What was aggregated is in order, and complete up to the watermark.
LEMMA OrderStep ==
  ASSUME BufferTypes, Delivered, CausalOrder, [Next]_vars
  PROVE  Delivered' /\ CausalOrder'
PROOF
  <1>1. ASSUME UNCHANGED <<delivered, done, jumped>> PROVE Delivered' /\ CausalOrder'
    BY <1>1 DEF Delivered, CausalOrder
  <1>2. CASE Round \/ RoundFlush
    <2>1. PICK mark \in {Mark} : PopReady(mark)
      BY <1>2 DEF Round, RoundFlush, Collect
    <2> QED BY <2>1, PopOrders
  <1>3. CASE Restart
    <2>1. delivered' = 0 /\ done' = <<>> /\ Len(<<>>) = 0
      BY <1>3 DEF Restart
    <2>2. 1 .. delivered' = {} /\ 1 .. Len(done') = {}
      BY <2>1
    <2> QED BY <2>2 DEF Delivered, CausalOrder
  <1>4. CASE \E p \in Part : Number(p) \/ Publish(p) \/ PublishFail(p) \/ Break(p) \/ Subscriber(p)
    BY <1>1, <1>4 DEF Number, Publish, PublishFail, Break, Subscriber, Receive, Save, bufVars
  <1>5. CASE Drain \/ Expire \/ \E k \in Part : FlushWrite(k) \/ FlushError(k)
    BY <1>1, <1>5 DEF Drain, Expire, FlushWrite, FlushError, bufVars
  <1>6. CASE UNCHANGED vars
    BY <1>1, <1>6 DEF vars, bufVars
  <1> QED BY <1>2, <1>3, <1>4, <1>5, <1>6 DEF Next, Threads, MainLoop

\* The invariant holds at the start.
LEMMA PipelineInit == Init => BufferTypes /\ ReceivedHeld /\ Delivered /\ CausalOrder
PROOF
  <1> SUFFICES ASSUME Init PROVE BufferTypes /\ ReceivedHeld /\ Delivered /\ CausalOrder
    OBVIOUS
  <1>1. /\ stream = [p \in Part |-> [pc |-> "recv", pos |-> 0, lastSaved |-> 0]] /\ log = [p \in Part |-> <<>>]
        /\ heap = <<>> /\ old = 0 /\ delivered = 0 /\ done = <<>> /\ jumped = FALSE /\ first = [p \in Part |-> 0]
    BY DEF Init
  <1>2. <<>> \in Seq(Match) /\ Len(<<>>) = 0 /\ 1 .. 0 = {}
    OBVIOUS
  <1>3. BufferTypes
    <2>1. heap \in Seq(Match) /\ done \in Seq(Match) /\ Len(heap) = 0
      BY <1>1, <1>2
    <2>2. old \in 0 .. Len(heap) /\ delivered \in Nat /\ first \in [Part -> Nat]
      BY <1>1, <2>1
    <2>3. jumped \in BOOLEAN
      BY <1>1, Zenon
    <2> QED BY <2>1, <2>2, <2>3 DEF BufferTypes
  <1>4. ASSUME NEW p \in Part PROVE Got(p) = 0 /\ Len(log[p]) = 0 /\ first[p] + 1 .. Got(p) = {}
    <2>1. Got(p) = 0 /\ Len(log[p]) = 0 /\ first[p] = 0
      BY <1>1, <1>2 DEF Got
    <2> QED BY <2>1
  <1>5. ReceivedHeld
    BY <1>4 DEF ReceivedHeld
  <1>6. Delivered /\ CausalOrder
    BY <1>1, <1>2 DEF Delivered, CausalOrder
  <1> QED BY <1>3, <1>5, <1>6

\* PipelineInv is an invariant: each of its parts needs the types of the others.
LEMMA PipelineInvariant == Spec => []PipelineInv
PROOF
  <1>1. Init => PipelineInv
    BY FlushInit, PipelineInit DEF PipelineInv
  <1>2. PipelineInv /\ [Next]_vars => PipelineInv'
    <2> SUFFICES ASSUME PipelineInv, [Next]_vars PROVE PipelineInv'
      OBVIOUS
    <2>1. FlushInv'
      BY FlushStep DEF PipelineInv
    <2>2. BufferTypes' /\ ReceivedHeld'
      BY ReceivedStep DEF PipelineInv
    <2>3. Delivered' /\ CausalOrder'
      BY OrderStep DEF PipelineInv
    <2> QED BY <2>1, <2>2, <2>3 DEF PipelineInv
  <1> QED BY <1>1, <1>2, PTL DEF Spec

\* Whatever a subscriber received since the processor started is in the queue, in the
\* reorder buffer or aggregated: no broken stream, no round and no release by age
\* loses a match.
THEOREM NothingDropped == Spec => []NoneDropped
PROOF
  <1>1. PipelineInv => NoneDropped
    <2> SUFFICES ASSUME PipelineInv, NEW p \in Part, NEW i \in first[p] + 1 .. stream[p].pos
                 PROVE  log[p][i] \in ToSet(queue) \cup ToSet(heap) \cup ToSet(done)
      BY DEF NoneDropped
    <2>1. FlushInv /\ BufferTypes /\ ReceivedHeld /\ queue \in Seq(Match) /\ first[p] \in Nat
      BY DEF PipelineInv, FlushInv, MatchTypes, BufferTypes
    <2>2. i \in first[p] + 1 .. Got(p)
      BY <2>1, GotFacts
    <2>3. Held(log[p][i])
      BY <2>1, <2>2 DEF ReceivedHeld
    <2>4. ASSUME NEW m, NEW s \in Seq(Match), In(m, s) PROVE m \in ToSet(s)
      BY <2>4 DEF In, ToSet
    <2> QED BY <2>1, <2>3, <2>4 DEF Held, BufferTypes
  <1> QED BY <1>1, PipelineInvariant, PTL

\* Unless a gap was given up after 30 s, matches are aggregated in the order of their
\* numbers with none missing before them, whatever order the partitions deliver them
\* in and whatever is delivered twice.
THEOREM OrderKept == Spec => []CausalOrder
PROOF
  <1>1. PipelineInv => CausalOrder
    BY DEF PipelineInv
  <1> QED BY <1>1, PipelineInvariant, PTL

=============================================================================
