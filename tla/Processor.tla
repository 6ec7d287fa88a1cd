----------------------------- MODULE Processor -----------------------------
(***************************************************************************)
(* The pipeline from ingestion to the metastore: ingestion/main.py (the    *)
(* numbering and publishing of matches), processor/main.py (subscriber     *)
(* threads and main loop), processor/reorder.py and the reset behaviour of *)
(* processor/aggregator.py.                                                *)
(*                                                                         *)
(* One ingestion node numbers the matches; the clock of a match is its     *)
(* number.  The broker is what module AppendLog promises, without          *)
(* retention, and the metastore keeps what pickNewer leaves (VClock).  An  *)
(* aggregate is the number of matches in it.  A partition region/tier is   *)
(* also the key its statistics are stored under.                           *)
(***************************************************************************)
EXTENDS Integers, SequencesExt

CONSTANTS Part,
          SaveEvery,    \* messages between two savings of an offset
          QueueMax,     \* maxsize of self.incoming
          DrainMax,     \* events taken from it in one round of the main loop
          FlushAt,      \* FLUSH_MATCH_THRESHOLD
          Nil,          \* no entry in the metastore
          MaxSeq,       \* bound: matches numbered
          MaxFaults     \* bound: streams that break and restarts of the processor

ASSUME ProcessorAssumption ==
  /\ {SaveEvery, QueueMax, DrainMax, FlushAt} \subseteq Nat \ {0}
  /\ {MaxSeq, MaxFaults} \subseteq Nat

Match == [seq : 1 .. MaxSeq, part : Part]
Stream == [pc : {"recv", "save"}, pos : Nat, lastSaved : Nat]
StatEntry == [ingest : Nat, flush : Nat, sample : Nat]

VARIABLES seq,        \* SeqCounter
          flying,     \* flying[p]: the match being published to p, 0 if none
          log,        \* log[p]: the broker's partition
          saved,      \* saved[p]: the offset file of p
          stream,     \* the subscriber threads
          queue,      \* self.incoming
          heap,       \* the reorder buffer, in the order of arrival
          old,        \* so many of them arrived 30 s ago or more
          delivered,  \* the watermark
          drained,    \* events drained in this round
          agg,        \* agg[k]: matches aggregated since the last flush
          pend,       \* pend[k]: sample size of the entry still to be written
          clock,      \* merged_clock
          flushSeq,   \* flush_seq
          store,      \* the metastore
          first,      \* history: offsets this process began at
          done,       \* history: matches this process aggregated, in order
          counted,    \* history: matches aggregated by any process
          jumped,     \* history: the watermark was forced past a gap
          last,       \* history: number of the last flush acknowledged, per key
          breaks, restarts

inVars == <<seq, flying, log>>
subVars == <<saved, stream>>
bufVars == <<heap, old, delivered, done, counted, jumped>>
flushVars == <<agg, pend, flushSeq, store, last>>
vars == <<inVars, subVars, queue, bufVars, drained, flushVars, clock, first,
          breaks, restarts>>

Init ==
  /\ seq = 0 /\ flying = [p \in Part |-> 0] /\ log = [p \in Part |-> <<>>]
  /\ saved = [p \in Part |-> 0]
  /\ stream = [p \in Part |-> [pc |-> "recv", pos |-> 0, lastSaved |-> 0]]
  /\ queue = <<>> /\ heap = <<>> /\ old = 0 /\ delivered = 0
  /\ drained = 0
  /\ agg = [p \in Part |-> 0] /\ pend = [p \in Part |-> 0]
  /\ clock = 0 /\ flushSeq = 0
  /\ store = [p \in Part |-> Nil]
  /\ first = [p \in Part |-> 0] /\ done = <<>> /\ counted = {} /\ jumped = FALSE
  /\ last = [p \in Part |-> 0]
  /\ breaks = 0 /\ restarts = 0

-----------------------------------------------------------------------------
(* Ingestion.  A round queues one task per partition and waits for all, so  *)
(* at most one worker publishes to a partition at a time.                   *)

Number(p) ==
  /\ flying[p] = 0 /\ seq < MaxSeq
  /\ seq' = seq + 1
  /\ flying' = [flying EXCEPT ![p] = seq']
  /\ UNCHANGED <<log, subVars, queue, bufVars, drained, flushVars, clock, first, breaks, restarts>>

Publish(p) ==
  /\ flying[p] # 0
  /\ flying' = [flying EXCEPT ![p] = 0]
  /\ log' = [log EXCEPT ![p] = Append(@, [seq |-> flying[p], part |-> p])]
  /\ UNCHANGED <<seq, subVars, queue, bufVars, drained, flushVars, clock, first, breaks, restarts>>

\* The broker does not take it, or normalize finds no match in the answer:
\* the number is used up.
PublishFail(p) ==
  /\ flying[p] # 0
  /\ flying' = [flying EXCEPT ![p] = 0]
  /\ UNCHANGED <<seq, log, subVars, queue, bufVars, drained, flushVars, clock, first, breaks, restarts>>

-----------------------------------------------------------------------------
(* A subscriber thread                                                      *)

\* The distance counts from the start, then from the last record saved.
Due(s) == s.pos - s.lastSaved >= SaveEvery

\* The next record goes into the queue, which blocks the thread when full.
Receive(p) ==
  LET s == stream[p]
  IN  /\ s.pc = "recv" /\ s.pos < Len(log[p]) /\ Len(queue) < QueueMax
      /\ queue' = Append(queue, log[p][s.pos + 1])
      /\ stream' = [stream EXCEPT ![p].pc = IF Due(s) THEN "save" ELSE "recv",
                                  ![p].pos = IF Due(s) THEN @ ELSE @ + 1]
      /\ UNCHANGED <<inVars, saved, bufVars, drained, flushVars, clock, first, breaks, restarts>>

\* Mutant of Save: the offset saved is one too far.
SaveAhead(p) ==
  LET s == stream[p]
  IN  /\ s.pc = "save"
      /\ saved' = [saved EXCEPT ![p] = s.pos + 2]
      /\ stream' = [stream EXCEPT ![p] = [pc |-> "recv", pos |-> s.pos + 1, lastSaved |-> s.pos]]
      /\ UNCHANGED <<inVars, queue, bufVars, drained, flushVars, clock, first, breaks, restarts>>

\* offsets.save, by writing a second file and renaming it.
Save(p) ==
  LET s == stream[p]
  IN  /\ s.pc = "save"
      /\ saved' = [saved EXCEPT ![p] = s.pos + 1]
      /\ stream' = [stream EXCEPT ![p] = [pc |-> "recv", pos |-> s.pos + 1, lastSaved |-> s.pos]]
      /\ UNCHANGED <<inVars, queue, bufVars, drained, flushVars, clock, first, breaks, restarts>>

AtSaved(p) == [pc |-> "recv", pos |-> saved[p], lastSaved |-> saved[p]]

\* An exception in the loop: the thread subscribes again from the offset saved.
Break(p) ==
  /\ breaks + restarts < MaxFaults
  /\ breaks' = breaks + 1
  /\ stream' = [stream EXCEPT ![p] = AtSaved(p)]
  /\ UNCHANGED <<inVars, saved, queue, bufVars, drained, flushVars, clock, first, restarts>>

-----------------------------------------------------------------------------
(* The main loop                                                            *)

\* _flush is not through its entries.
Flushing == SumFunction(pend) > 0

\* Mutant of MergeClock: the clock of the last match is taken.
MergeClockLast(c, m) == m.seq
MergeClock(c, m) == IF m.seq > c THEN m.seq ELSE c

Drain ==
  /\ ~Flushing /\ queue # <<>> /\ drained < DrainMax
  /\ queue' = Tail(queue)
  /\ heap' = Append(heap, Head(queue))
  /\ clock' = MergeClock(clock, Head(queue))
  /\ drained' = drained + 1
  /\ UNCHANGED <<inVars, subVars, old, delivered, done, counted, jumped, flushVars, first, breaks, restarts>>

\* Time passes: what has arrived so far is 30 s old.
Expire ==
  /\ old < Len(heap)
  /\ \E n \in old + 1 .. Len(heap) : old' = n
  /\ UNCHANGED <<inVars, subVars, queue, heap, delivered, done, counted, jumped, drained,
                 flushVars, clock, first, breaks, restarts>>

SeqsOf(ms) == {ms[i].seq : i \in 1 .. Len(ms)}

\* Mutant of Reach: a match is ready although one predecessor is missing.
ReachAhead(w) ==
  Max({d \in {w} \cup SeqsOf(heap) : d >= w /\ \A s \in w + 1 .. d - 1 : {s, s + 1} \cap SeqsOf(heap) # {}})

\* How far the watermark gets from w with what is in the buffer: _is_ready
\* and _deliver, scanned until nothing moves.
Reach(w) == Max({d \in w .. w + MaxSeq : w + 1 .. d \subseteq SeqsOf(heap)})

\* Mutant of ForcedMark: nothing is released by age.
ForcedMarkNever == delivered

\* The watermark after the matches that are too old were released as they are.
ForcedMark == Max({delivered} \cup SeqsOf(SubSeq(heap, 1, old)))

\* pop_ready.  A scan releases what is ready or too old and raises the
\* watermark; scans repeat while one releases something.  The watermark only
\* grows, so that in whatever order the heap is scanned what goes is everything
\* up to the highest mark that can be reached.
Mark == Reach(ForcedMark)

\* Which places of the buffer go, in front of the mark, and which stay.
Upto(w) == {i \in 1 .. Len(heap) : heap[i].seq <= w}
Beyond(w) == {i \in 1 .. Len(heap) : heap[i].seq > w}

\* The elements of s at the places I, sorted by key, equal keys by place.
Ahead(key, i, j) == key[i] < key[j] \/ (key[i] = key[j] /\ i < j)
Rank(I, key, i) == Cardinality({j \in I : Ahead(key, j, i)})
Listed(s, I, key) ==
  [k \in 1 .. Cardinality(I) |-> s[CHOOSE i \in I : Rank(I, key, i) = k - 1]]

\* out.sort(key=_vc_sum).  Equal numbers are copies of one match.
BySeq == [i \in 1 .. Len(heap) |-> heap[i].seq]

\* Mutant of Ready: what is released by age is thrown away.
ReadyUnforced(mark) == Listed(heap, Upto(Reach(delivered)), BySeq)
Ready(mark) == Listed(heap, Upto(mark), BySeq)

\* What pop_ready keeps stays in the order of arrival.
PopReady(mark) ==
  /\ heap' = Listed(heap, Beyond(mark), [i \in 1 .. Len(heap) |-> i])
  /\ old' = 0
  /\ delivered' = mark
  /\ done' = done \o Ready(mark)
  /\ counted' = counted \cup ToSet(Ready(mark))
  /\ jumped' = (jumped \/ ForcedMark > Reach(delivered))

\* process_batch: the counts per key after the batch.
Batch(mark) ==
  [k \in Part |-> agg[k] + Cardinality({i \in Upto(mark) : heap[i].part = k})]

\* One round of the loop: the queue was empty for half a second, or enough was
\* drained; then pop_ready and process_batch ...
Collect(mark) ==
  /\ ~Flushing /\ (queue = <<>> \/ drained = DrainMax)
  /\ PopReady(mark)
  /\ drained' = 0
  /\ UNCHANGED <<inVars, subVars, queue, store, last, clock, first, breaks, restarts>>

Round ==
  \E mark \in {Mark} :
    /\ Collect(mark)
    /\ SumFunction(Batch(mark)) < FlushAt
    /\ agg' = Batch(mark)
    /\ UNCHANGED <<pend, flushSeq>>

\* ... and, when 60 s have passed or the aggregate is large, _flush: it is
\* turned into entries and is empty from here on.
RoundFlush ==
  \E mark \in {Mark} :
    /\ Collect(mark)
    /\ SumFunction(Batch(mark)) > 0
    /\ pend' = Batch(mark)
    /\ agg' = [k \in Part |-> 0]
    /\ flushSeq' = flushSeq + 1

\* pickNewer in the metastore.
Dominates(a, b) == a.ingest >= b.ingest /\ a.flush >= b.flush
PickNewer(a, b) ==
  IF a = Nil THEN b
  ELSE LET x == a.ingest + a.flush
           y == b.ingest + b.flush
       IN  CASE Dominates(a, b) /\ ~Dominates(b, a) -> a
             [] Dominates(b, a) /\ ~Dominates(a, b) -> b
             [] Dominates(a, b) = Dominates(b, a) /\ x # y -> IF x > y THEN a ELSE b
             [] OTHER -> IF a.sample >= b.sample THEN a ELSE b

Stored(k) ==
  [store EXCEPT ![k] = PickNewer(@, [ingest |-> clock, flush |-> flushSeq, sample |-> pend[k]])]

FlushWrite(k) ==
  /\ pend[k] > 0
  /\ pend' = [pend EXCEPT ![k] = 0]
  /\ store' = Stored(k)
  /\ last' = [last EXCEPT ![k] = flushSeq]
  /\ UNCHANGED <<inVars, subVars, queue, bufVars, drained, agg, flushSeq, clock, first, breaks, restarts>>

\* The write fails, for this entry, with or without effect: it is not repeated.
FlushError(k) ==
  /\ pend[k] > 0
  /\ pend' = [pend EXCEPT ![k] = 0]
  /\ store' \in {store, Stored(k)}
  /\ UNCHANGED <<inVars, subVars, queue, bufVars, drained, agg, flushSeq, last, clock, first, breaks, restarts>>

\* The processor ends, at any point, and starts again with the offset files.
Restart ==
  /\ breaks + restarts < MaxFaults
  /\ restarts' = restarts + 1
  /\ stream' = [p \in Part |-> AtSaved(p)]
  /\ first' = saved
  /\ queue' = <<>> /\ heap' = <<>> /\ old' = 0 /\ delivered' = 0
  /\ drained' = 0
  /\ agg' = [p \in Part |-> 0] /\ pend' = [p \in Part |-> 0]
  /\ clock' = 0 /\ flushSeq' = 0
  /\ done' = <<>> /\ jumped' = FALSE
  /\ UNCHANGED <<inVars, saved, store, counted, last, breaks>>

MainLoop == Drain \/ Round \/ RoundFlush \/ \E k \in Part : FlushWrite(k) \/ FlushError(k)
Subscriber(p) == Receive(p) \/ Save(p)

Threads == MainLoop \/ Expire \/ \E p \in Part : Subscriber(p)

Next == \/ \E p \in Part : Number(p) \/ Publish(p) \/ PublishFail(p) \/ Break(p)
        \/ Threads \/ Restart

Spec == Init /\ [][Next]_vars

\* The threads do not all stop while one can go on, and time passes: with so
\* many matches as the bounds allow each of them has only so much to do.  That
\* matches come, or that writes succeed, is not assumed.
FairSpec == Spec /\ WF_vars(Threads)

-----------------------------------------------------------------------------
(* Properties                                                               *)

\* Every variable keeps its type.
TypeOK ==
  /\ seq \in 0 .. MaxSeq /\ flying \in [Part -> 0 .. MaxSeq]
  /\ log \in [Part -> Seq(Match)]
  /\ saved \in [Part -> Nat] /\ first \in [Part -> Nat]
  /\ stream \in [Part -> Stream]
  /\ queue \in Seq(Match) /\ Len(queue) <= QueueMax
  /\ heap \in Seq(Match) /\ old \in 0 .. Len(heap)
  /\ delivered \in 0 .. MaxSeq /\ clock \in 0 .. MaxSeq
  /\ drained \in 0 .. DrainMax
  /\ agg \in [Part -> Nat] /\ pend \in [Part -> Nat] /\ last \in [Part -> Nat]
  /\ flushSeq \in Nat
  /\ store \in [Part -> StatEntry \cup {Nil}]
  /\ done \in Seq(Match) /\ counted \subseteq Match /\ jumped \in BOOLEAN
  /\ breaks \in Nat /\ restarts \in Nat

\* What this process received is in the queue, in the reorder buffer or
\* aggregated, however often its streams broke and whatever was released by
\* age: between the threads and the two buffers nothing falls out.
NoneDropped ==
  \A p \in Part : \A i \in first[p] + 1 .. stream[p].pos :
    log[p][i] \in ToSet(queue) \cup ToSet(heap) \cup ToSet(done)

\* README.md:148: "the processor enforces causal order via a reorder buffer".
\* Unless a gap was given up after 30 s, no match is aggregated before all
\* with lower numbers are, whatever order the partitions deliver them in.
CausalOrder ==
  ~jumped => \A i \in 1 .. Len(done) : \A s \in 1 .. done[i].seq - 1 :
               \E j \in 1 .. i - 1 : done[j].seq = s

\* A broken stream, or a restart, repeats at most the messages between two
\* savings, and the one at which the saving was due.
RepeatBound ==
  \A p \in Part : LET s == stream[p]
                      received == s.pos + IF s.pc = "save" THEN 1 ELSE 0
                  IN  received - saved[p] \in 0 .. SaveEvery + 1

\* A flush is never hidden by an earlier one: while the processor was not
\* restarted, the metastore has for every key the last flush acknowledged or a
\* later one, although matches reach merged_clock out of order.
LatestFlushServed ==
  restarts = 0 => \A k \in Part : last[k] > 0 => store[k].flush >= last[k]

\* reorder.py:7: "a permanently missing predecessor cannot stall the stream".
\* Every match published is aggregated, or a restart began behind it: what is
\* lost is what the saved offsets had passed.
EveryMatchCounted ==
  \A n \in 1 .. MaxSeq :
    (\E p \in Part : n \in SeqsOf(log[p])) ~>
       \/ \E m \in counted : m.seq = n
       \/ \E p \in Part : n \in SeqsOf(SubSeq(log[p], 1, first[p]))

=============================================================================
