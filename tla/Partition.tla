----------------------------- MODULE Partition -----------------------------
(***************************************************************************)
(* One partition of a broker node: broker/partition.go, and the streams    *)
(* Broker.Subscribe (broker/broker.go) runs over it.                       *)
(*                                                                         *)
(* The log file is a sequence of records; a byte position is the number of *)
(* a record.  A write that did not complete leaves a fragment: "stub" has  *)
(* the whole header but not the whole payload, "junk" not even the header. *)
(* A payload is identified by the number of the Publish that sent it.      *)
(***************************************************************************)
EXTENDS Integers, Sequences, FiniteSets

CONSTANTS Sub,          \* subscribers
          MaxRecords,   \* maxRecords, the retention cap; 0 is unbounded
          Tears,        \* may a write to the log be cut short?
          PowerLoss,    \* may a restart lose records that were not fsynced?
          TrimFaults,   \* may rename or reopen in trimLocked fail?
          SaveEvery,    \* consumers save their offset every so many records (50)
          MaxPublish,   \* bound: calls of Append
          MaxRestarts,  \* bound: restarts of the node
          MaxDrops      \* bound: streams that break

ASSUME PartitionAssumption ==
  /\ {MaxRecords, SaveEvery, MaxPublish, MaxRestarts, MaxDrops} \subseteq Nat
  /\ {Tears, PowerLoss, TrimFaults} \subseteq BOOLEAN
  /\ Tears /\ MaxRestarts > 0 => MaxRecords = 0   \* cutting the file at a misparsed header is left out

Payload == 1 .. MaxPublish
Record == [off : Nat, id : Payload, kind : {"rec", "stub", "junk"}]

\* What ReadAt can return besides a payload.
Garbage == MaxPublish + 1   \* bytes that are no record's payload
EOF == 0
Closed == MaxPublish + 2

VARIABLES file,      \* the records of <key>.log, from the start of the file
          synced,    \* how many of them an fsync has covered
          index,     \* p.index: positions in file; 0 is a misparsed header
          base,      \* p.baseOffset
          next,      \* p.offset
          open,      \* p.logFile is open
          notify,    \* the one-slot channel p.notify holds a token
          sub,       \* the streams
          acked,     \* history: <<offset, payload>> of every Append that succeeded
          calls, restarts, drops

logVars == <<file, synced, index, base, next, open>>
vars == <<logVars, notify, sub, acked, calls, restarts, drops>>

\* A stream: pc, the variable offset, the payload read, and of its consumer
\* the offset it saved.  History: the offset the stream was asked from, what
\* it has sent, and what all streams of this consumer have sent.
Message == Nat \X (Payload \cup {Garbage})
SubState == [pc : {"top", "next", "wait", "read", "send", "gone"}, off : Nat,
             buf : Payload \cup {Garbage, EOF}, saved : Nat,
             from : Nat, sent : Seq(Message), got : SUBSET Message]

Init ==
  /\ file = <<>> /\ synced = 0 /\ index = <<>>
  /\ base = 0 /\ next = 0 /\ open = TRUE /\ notify = FALSE
  /\ sub = [s \in Sub |-> [pc |-> "top", off |-> 0, buf |-> EOF, saved |-> 0,
                          from |-> 0, sent |-> <<>>, got |-> {}]]
  /\ acked = {}
  /\ calls = 0 /\ restarts = 0 /\ drops = 0

-----------------------------------------------------------------------------
(* Append and trimLocked                                                    *)

NewRecord(kind) == [off |-> next, id |-> calls + 1, kind |-> kind]

\* Retention: down to 90% of the cap, in whole records.
Excess(n) == IF MaxRecords > 0 /\ n > MaxRecords
             THEN n - (MaxRecords - MaxRecords \div 10) ELSE 0

\* Mutant of Trim: the base offset is one behind what was dropped.
TrimBaseBehind(drop, f, ix) ==
  IF drop <= 0 \/ drop >= Len(ix)
  THEN file' = f /\ index' = ix /\ UNCHANGED <<base, synced, open>>
  ELSE LET start == ix[drop + 1]
       IN  /\ file' = SubSeq(f, start, Len(f))
           /\ index' = [i \in 1 .. Len(ix) - drop |-> ix[drop + i] - (start - 1)]
           /\ base' = base + drop - 1
           /\ synced' = Len(file')
           /\ UNCHANGED open

\* trimLocked drops nothing, or copies the file from the first retained
\* record on, replaces it and rebases the index.
Trim(drop, f, ix) ==
  IF drop <= 0 \/ drop >= Len(ix)
  THEN file' = f /\ index' = ix /\ UNCHANGED <<base, synced, open>>
  ELSE LET start == ix[drop + 1]
       IN  /\ file' = SubSeq(f, start, Len(f))
           /\ index' = [i \in 1 .. Len(ix) - drop |-> ix[drop + i] - (start - 1)]
           /\ base' = base + drop
           /\ synced' = Len(file')
           /\ UNCHANGED open

\* trimLocked fails and Append ignores it: before the rename nothing has
\* changed; at the rename or the reopening logFile is already closed.
TrimFail(drop, f, ix) ==
  /\ TrimFaults /\ drop > 0 /\ drop < Len(ix)
  /\ index' = ix /\ UNCHANGED base
  /\ \/ file' = f /\ open' \in BOOLEAN /\ UNCHANGED synced
     \/ file' = SubSeq(f, ix[drop + 1], Len(f)) /\ open' = FALSE /\ synced' = Len(file')

\* Mutant of Append_: the position is counted, not asked of the file.
AppendPosCounted ==
  /\ open /\ calls < MaxPublish
  /\ LET f == Append(file, NewRecord("rec"))
         ix == Append(index, Len(index) + 1)
     IN  Trim(Excess(Len(ix)), f, ix) \/ TrimFail(Excess(Len(ix)), f, ix)
  /\ next' = next + 1
  /\ notify' = TRUE
  /\ acked' = acked \cup {<<next, calls + 1>>}
  /\ calls' = calls + 1
  /\ UNCHANGED <<sub, restarts, drops>>

Append_ ==
  /\ open /\ calls < MaxPublish
  /\ LET f == Append(file, NewRecord("rec"))
         ix == Append(index, Len(file) + 1)
     IN  Trim(Excess(Len(ix)), f, ix) \/ TrimFail(Excess(Len(ix)), f, ix)
  /\ next' = next + 1
  /\ notify' = TRUE
  /\ acked' = acked \cup {<<next, calls + 1>>}
  /\ calls' = calls + 1
  /\ UNCHANGED <<sub, restarts, drops>>

\* Write fails, possibly with some bytes in the file: Append returns the error.
AppendFail ==
  /\ Tears /\ open /\ calls < MaxPublish
  /\ \E kind \in {"stub", "junk"} : file' = Append(file, NewRecord(kind))
  /\ calls' = calls + 1
  /\ UNCHANGED <<synced, index, base, next, open, notify, sub, acked, restarts, drops>>

-----------------------------------------------------------------------------
(* Restart: the node ends, at any point, and openPartition runs recover.    *)

\* How many leading records of f are whole.
Whole(f) == Cardinality({i \in 1 .. Len(f) : \A j \in 1 .. i : f[j].kind = "rec"})

\* recover walks header to header, skipping payloads with Seek, which does
\* not fail beyond the end of the file.  A stub at the end therefore counts
\* as a record; junk at the end does not.  Behind a fragment the walk is out
\* of step: it reads a header out of other bytes, whose length leads past the
\* end of the file.
RecoverIndex(f) ==
  LET w == Whole(f)
      whole == [i \in 1 .. w |-> i]
      last == w + 1 = Len(f)
  IN  CASE w = Len(f)                          -> whole
        [] w < Len(f) /\ f[w + 1].kind = "stub" -> whole \o IF last THEN <<w + 1>> ELSE <<w + 1, 0>>
        [] OTHER                               -> whole \o IF last THEN <<>> ELSE <<0>>

\* The offset stored in the first header recover reads.
FirstOffset(f, ix) == IF ix = <<>> THEN {0}
                      ELSE IF ix[1] = 0 THEN 0 .. MaxPublish ELSE {f[1].off}

\* What is left of the file: all of it after the process was killed; after a
\* power failure the fsynced records and any number of the later ones, with
\* some bytes of the next.
Surviving ==
  {file} \cup
  (IF PowerLoss THEN {SubSeq(file, 1, n) : n \in synced .. Len(file)} ELSE {}) \cup
  (IF PowerLoss /\ Tears
   THEN {Append(SubSeq(file, 1, n - 1), [file[n] EXCEPT !.kind = kind]) :
           n \in synced + 1 .. Len(file), kind \in {"stub", "junk"}}
   ELSE {})

Restart ==
  /\ restarts < MaxRestarts
  /\ file' \in Surviving
  /\ synced' = IF synced < Len(file') THEN synced ELSE Len(file')
  /\ index' = RecoverIndex(file')
  /\ base' \in FirstOffset(file', index')
  /\ next' = base' + Len(index')
  /\ open' = TRUE /\ notify' = FALSE
  /\ sub' = [s \in Sub |-> [sub[s] EXCEPT !.pc = "gone", !.buf = EOF]]
  /\ restarts' = restarts + 1
  /\ UNCHANGED <<acked, calls, drops>>

-----------------------------------------------------------------------------
(* Subscribe: the loop of one stream                                        *)

\* ReadAt: EOF outside the window, and when the payload ends behind the file;
\* another error when the file is closed.
InWindow(off) == off >= base /\ off < next
ReadAt(off) ==
  IF ~InWindow(off) THEN EOF
  ELSE IF ~open THEN Closed
  ELSE LET pos == index[off - base + 1]
       IN  CASE pos = 0                                          -> EOF
             [] pos > 0 /\ file[pos].kind = "rec"                -> file[pos].id
             [] pos > 0 /\ file[pos].kind # "rec" /\ pos = Len(file) -> EOF
             [] pos > 0 /\ file[pos].kind # "rec" /\ pos < Len(file) -> Garbage

\* Mutant of SubTop: a consumer behind is moved to the end of the log.
SubTopLatest(s) ==
  /\ sub[s].pc = "top"
  /\ sub' = [sub EXCEPT ![s].pc = "next",
                        ![s].off = IF @ < base THEN next ELSE @]
  /\ UNCHANGED <<logVars, notify, acked, calls, restarts, drops>>

\* A consumer behind the retained window is moved to its start.
SubTop(s) ==
  /\ sub[s].pc = "top"
  /\ sub' = [sub EXCEPT ![s].pc = "next",
                        ![s].off = IF @ < base THEN base ELSE @]
  /\ UNCHANGED <<logVars, notify, acked, calls, restarts, drops>>

SubNext(s) ==
  /\ sub[s].pc = "next"
  /\ sub' = [sub EXCEPT ![s].pc = IF sub[s].off >= next THEN "wait" ELSE "read"]
  /\ UNCHANGED <<logVars, notify, acked, calls, restarts, drops>>

\* Woken by the token in p.notify, which one stream takes for all of them ...
SubNotified(s) ==
  /\ sub[s].pc = "wait" /\ notify
  /\ notify' = FALSE
  /\ sub' = [sub EXCEPT ![s].pc = "top"]
  /\ UNCHANGED <<logVars, acked, calls, restarts, drops>>

\* Mutant of SubTimeout: streams wait for the notification alone.
SubTimeoutNever(s) == FALSE /\ UNCHANGED vars

\* ... or after half a second.
SubTimeout(s) ==
  /\ sub[s].pc = "wait"
  /\ sub' = [sub EXCEPT ![s].pc = "top"]
  /\ UNCHANGED <<logVars, notify, acked, calls, restarts, drops>>

\* EOF (trimmed meanwhile) starts the loop over, another error ends the stream.
SubRead(s) ==
  /\ sub[s].pc = "read"
  /\ LET p == ReadAt(sub[s].off)
     IN  \/ p = EOF /\ sub' = [sub EXCEPT ![s].pc = "top"]
         \/ p = Closed /\ sub' = [sub EXCEPT ![s].pc = "gone"]
         \/ p \notin {EOF, Closed} /\ sub' = [sub EXCEPT ![s].pc = "send", ![s].buf = p]
  /\ UNCHANGED <<logVars, notify, acked, calls, restarts, drops>>

\* The consumer saves its position once it is SaveEvery past where its stream
\* began or, after that, past the record it saved behind last.
LastSaved(t) == IF t.saved > t.from THEN t.saved - 1 ELSE t.from
Saved(t) == IF t.off - LastSaved(t) >= SaveEvery THEN t.off + 1 ELSE t.saved

SubSend(s) ==
  /\ sub[s].pc = "send"
  /\ LET m == <<sub[s].off, sub[s].buf>>
     IN  sub' = [sub EXCEPT ![s].pc = "top", ![s].off = @ + 1, ![s].buf = EOF,
                            ![s].sent = Append(@, m), ![s].got = @ \cup {m},
                            ![s].saved = Saved(sub[s])]
  /\ UNCHANGED <<logVars, notify, acked, calls, restarts, drops>>

\* Send fails or the client cancels: the stream ends.
SubDrop(s) ==
  /\ sub[s].pc \in {"top", "wait", "send"} /\ drops < MaxDrops
  /\ sub' = [sub EXCEPT ![s].pc = "gone", ![s].buf = EOF]
  /\ drops' = drops + 1
  /\ UNCHANGED <<logVars, notify, acked, calls, restarts>>

\* The client subscribes again, from the offset it saved, or from 0 when it
\* saves none: what lies between that and the last it received comes again.
Resubscribe(s) ==
  /\ sub[s].pc = "gone"
  /\ sub' = [sub EXCEPT ![s].pc = "top", ![s].off = sub[s].saved,
                        ![s].from = sub[s].saved, ![s].sent = <<>>]
  /\ UNCHANGED <<logVars, notify, acked, calls, restarts, drops>>

Stream(s) == SubTop(s) \/ SubNext(s) \/ SubNotified(s) \/ SubTimeout(s)
               \/ SubRead(s) \/ SubSend(s)

Next == Append_ \/ AppendFail \/ Restart
          \/ \E s \in Sub : Stream(s) \/ SubDrop(s) \/ Resubscribe(s)

Spec == Init /\ [][Next]_vars

\* Streams are goroutines the runtime keeps scheduling; publishing, failures
\* and clients that come back are not promised.
Fairness == \A s \in Sub : WF_vars(Stream(s))
FairSpec == Spec /\ Fairness

-----------------------------------------------------------------------------
(* Properties                                                               *)

\* Every variable keeps its type.
TypeOK ==
  /\ file \in Seq(Record) /\ synced \in 0 .. Len(file)
  /\ index \in Seq(Nat)
  /\ base \in Nat /\ next = base + Len(index)
  /\ open \in BOOLEAN /\ notify \in BOOLEAN
  /\ sub \in [Sub -> SubState]
  /\ acked \subseteq Nat \X Payload
  /\ {calls, restarts, drops} \subseteq Nat

\* What reading the partition would give: through the index, or, once the
\* file is closed after a failed trim, through the index of the next start.
view == LET ix == IF open THEN index ELSE RecoverIndex(file)
            lo == IF open \/ file = <<>> THEN base ELSE file[1].off
        IN  [lo |-> lo, hi |-> lo + Len(ix),
             rec |-> [o \in lo .. lo + Len(ix) - 1 |-> file[ix[o - lo + 1]].id]]

Log == INSTANCE AppendLog WITH lo <- view.lo, hi <- view.hi, rec <- view.rec

\* The index, the file and the two offsets, through appends, trims that
\* succeed or fail and restarts, implement an append-only log in which a
\* record keeps its offset and payload until it leaves at the head.
IsAppendLog == Log!LogSpec

\* The payload a stream sends under an offset is the one whose publisher was
\* given that offset, however trims and restarts moved it in the file.
SentAsPublished == \A s \in Sub : sub[s].got \subseteq acked

\* One stream sends offsets in order, none twice, from the one it was asked
\* for on, and leaves out only what retention had removed.  A consumer whose
\* stream ends gets records again, back to the offset it saved, but over all
\* its streams it, too, misses only what retention had removed.
SentInOrder ==
  \A s \in Sub :
    /\ \A i, j \in 1 .. Len(sub[s].sent) : i < j => sub[s].sent[i][1] < sub[s].sent[j][1]
    /\ \A m \in acked : m[1] < sub[s].off /\ m[1] >= base =>
         /\ m \in sub[s].got
         /\ m[1] >= sub[s].from => \E i \in 1 .. Len(sub[s].sent) : sub[s].sent[i] = m

\* A stream that stays up passes every offset assigned: with one token in
\* p.notify for all of them, the half-second poll is what wakes the others.
StreamsCatchUp ==
  \A s \in Sub, o \in 0 .. MaxPublish :
    next > o ~> (sub[s].off > o \/ sub[s].pc = "gone" \/ next <= o)

=============================================================================
