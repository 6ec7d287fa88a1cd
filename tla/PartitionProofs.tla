--------------------------- MODULE PartitionProofs ---------------------------
(***************************************************************************)
(* Proofs about Partition: what streams send, and that the file, the index *)
(* and the offsets are an append-only log (AppendLog).  They are about     *)
(* nodes whose writes survive: no power fails, and where a write can be    *)
(* cut short the node does not start again and trims succeed.  What goes   *)
(* wrong otherwise is in the README.                                       *)
(***************************************************************************)
EXTENDS Partition, FiniteSetTheorems, SequenceTheorems, TLAPS

\* No power failure; and a node whose writes can be cut short is not started
\* again and does not fail to trim.
WritesSurvive == ~PowerLoss /\ (Tears => MaxRestarts = 0 /\ ~TrimFaults)

-----------------------------------------------------------------------------
(* The log                                                                  *)

\* The records that can be read, now or after the next start, and where the
\* i-th of them is in the file.
Count == IF open THEN Len(index) ELSE Len(file)
Pos(i) == IF open THEN index[i] ELSE i

LogTypes ==
  /\ file \in Seq(Record) /\ synced \in 0 .. Len(file) /\ index \in Seq(Nat)
  /\ base \in Nat /\ next = base + Len(index) /\ open \in BOOLEAN
  /\ acked \subseteq Nat \X Payload /\ calls \in Nat

\* Every position in the index is that of a whole record, the one with the offset
\* the index has it under, and its publisher was told so.
Indexed ==
  /\ \A i \in 1 .. Count :
       /\ Pos(i) \in 1 .. Len(file) /\ file[Pos(i)].kind = "rec"
       /\ file[Pos(i)].off = next - Count + i - 1
       /\ <<file[Pos(i)].off, file[Pos(i)].id>> \in acked
  /\ \A i, j \in 1 .. Count : i < j => Pos(i) < Pos(j)

\* A file without fragments is what recover makes of it.
Recoverable ==
  /\ ~Tears => /\ \A i \in 1 .. Len(file) : file[i].kind = "rec"
               /\ open => Len(index) = Len(file) /\ \A i \in 1 .. Len(index) : index[i] = i
  /\ ~open => ~Tears /\ Len(file) > 0
  /\ base <= next - Count
  /\ ~Tears /\ Len(file) = 0 => next = 0

\* An offset was given to one payload only.
Assigned ==
  /\ \A m \in acked : m[1] < next
  /\ \A m, n \in acked : m[1] = n[1] => m = n

LogInv == LogTypes /\ Indexed /\ Recoverable /\ Assigned

-----------------------------------------------------------------------------
(* The streams                                                              *)

StreamTypes == sub \in [Sub -> SubState] /\ notify \in BOOLEAN /\ {restarts, drops} \subseteq Nat

\* A stream is never past the log nor its consumer's saved offset past the
\* stream, what it is about to send is what was published under its offset,
\* and everything it sent came before.
Sound(t) ==
  /\ t.off <= next /\ t.from <= t.off /\ t.saved <= t.off
  /\ t.pc = "send" => <<t.off, t.buf>> \in acked
  /\ t.got \subseteq acked
  /\ \A i \in 1 .. Len(t.sent) : t.sent[i] \in acked /\ t.sent[i][1] < t.off
StreamsSound == \A s \in Sub : Sound(sub[s])

\* The consumer has the record, and from this stream if it asked for it.
Covered(t, m) ==
  m \in t.got /\ (m[1] >= t.from => \E i \in 1 .. Len(t.sent) : t.sent[i] = m)

\* What SentInOrder says of a stream.
InOrder(t) ==
  /\ \A i, j \in 1 .. Len(t.sent) : i < j => t.sent[i][1] < t.sent[j][1]
  /\ \A m \in acked : m[1] < t.off /\ m[1] >= base => Covered(t, m)

\* Two states of a stream that differ in what it is about to do only.
SameStream(t, u) == t.sent = u.sent /\ t.from = u.from /\ t.saved = u.saved /\ t.got = u.got

PartitionInv == LogInv /\ StreamTypes /\ StreamsSound /\ SentInOrder

-----------------------------------------------------------------------------
(* Append and trimLocked                                                    *)

\* The end of a sequence, from place a on.
LEMMA Tail_ ==
  ASSUME NEW S, NEW s \in Seq(S), NEW a \in 1 .. Len(s)
  PROVE  /\ SubSeq(s, a, Len(s)) \in Seq(S) /\ Len(SubSeq(s, a, Len(s))) = Len(s) - a + 1
         /\ \A k \in 1 .. Len(s) - a + 1 : SubSeq(s, a, Len(s))[k] = s[a + k - 1]
PROOF
  <1>1. Len(s) \in Nat /\ a \in Int /\ a <= Len(s) /\ \A i \in a .. Len(s) : s[i] \in S
    OBVIOUS
  <1> QED BY <1>1, SubSeqProperties

\* One more than before.
LEMMA UpTo ==
  ASSUME NEW n \in Nat, NEW i \in 1 .. n + 1
  PROVE  i \in 1 .. n \/ i = n + 1
OBVIOUS

\* The file and the index with the new record behind them.
NewFile == Append(file, NewRecord("rec"))
NewIndex == Append(index, Len(file) + 1)

\* The new record is at the end of the file, under the next offset.
LEMMA Appended ==
  ASSUME LogInv, open, calls < MaxPublish
  PROVE  /\ NewFile \in Seq(Record) /\ Len(NewFile) = Len(file) + 1 /\ Len(file) \in Nat
         /\ NewIndex \in Seq(Nat) /\ Len(NewIndex) = Len(index) + 1 /\ Len(index) \in Nat
         /\ \A i \in 1 .. Len(index) + 1 : NewIndex[i] \in 1 .. Len(file) + 1
         /\ \A i \in 1 .. Len(index) : /\ NewFile[NewIndex[i]] = file[index[i]] /\ NewIndex[i] = index[i]
         /\ NewFile[NewIndex[Len(index) + 1]] = NewRecord("rec")
         /\ \A i, j \in 1 .. Len(index) + 1 : i < j => NewIndex[i] < NewIndex[j]
         /\ ~Tears => /\ \A i \in 1 .. Len(file) + 1 : NewFile[i].kind = "rec"
                      /\ Len(index) = Len(file) /\ \A i \in 1 .. Len(index) + 1 : NewIndex[i] = i
PROOF
  <1>1. /\ file \in Seq(Record) /\ index \in Seq(Nat) /\ Len(file) \in Nat /\ Len(index) \in Nat
        /\ next \in Nat /\ calls \in Nat /\ MaxPublish \in Nat
    BY PartitionAssumption DEF LogInv, LogTypes
  <1>2. NewRecord("rec") \in Record /\ NewRecord("rec").kind = "rec"
    BY <1>1 DEF NewRecord, Record, Payload
  <1>3. /\ NewFile \in Seq(Record) /\ Len(NewFile) = Len(file) + 1 /\ NewFile[Len(file) + 1] = NewRecord("rec")
        /\ \A k \in 1 .. Len(file) : NewFile[k] = file[k]
    BY <1>1, <1>2 DEF NewFile
  <1>4. /\ NewIndex \in Seq(Nat) /\ Len(NewIndex) = Len(index) + 1 /\ NewIndex[Len(index) + 1] = Len(file) + 1
        /\ \A k \in 1 .. Len(index) : NewIndex[k] = index[k]
    BY <1>1 DEF NewIndex
  <1>5. /\ \A k \in 1 .. Len(index) : index[k] \in 1 .. Len(file)
        /\ \A k, j \in 1 .. Len(index) : k < j => index[k] < index[j]
    BY DEF LogInv, Indexed, Count, Pos
  <1>6. ASSUME NEW i \in 1 .. Len(index) + 1 PROVE NewIndex[i] \in 1 .. Len(file) + 1
    <2>1. CASE i \in 1 .. Len(index)
      <3>1. NewIndex[i] \in 1 .. Len(file)
        BY <1>4, <1>5, <2>1
      <3> QED BY <1>1, <3>1
    <2>2. CASE i = Len(index) + 1
      BY <1>1, <1>4, <2>2
    <2> QED BY <1>1, <2>1, <2>2, UpTo
  <1>7. \A i \in 1 .. Len(index) : NewFile[NewIndex[i]] = file[index[i]] /\ NewIndex[i] = index[i]
    BY <1>3, <1>4, <1>5
  <1>8. NewFile[NewIndex[Len(index) + 1]] = NewRecord("rec")
    BY <1>3, <1>4
  <1>9. ASSUME NEW i \in 1 .. Len(index) + 1, NEW j \in 1 .. Len(index) + 1, i < j PROVE NewIndex[i] < NewIndex[j]
    <2>1. i \in 1 .. Len(index)
      BY <1>1, <1>9
    <2>2. CASE j = Len(index) + 1
      BY <1>1, <1>4, <1>5, <2>1, <2>2
    <2>3. CASE j \in 1 .. Len(index)
      BY <1>4, <1>5, <1>9, <2>1, <2>3
    <2> QED BY <1>1, <2>2, <2>3, UpTo
  <1>10. ASSUME ~Tears
         PROVE  /\ \A i \in 1 .. Len(file) + 1 : NewFile[i].kind = "rec"
                /\ Len(index) = Len(file) /\ \A i \in 1 .. Len(index) + 1 : NewIndex[i] = i
    <2>1. /\ \A k \in 1 .. Len(file) : file[k].kind = "rec"
          /\ Len(index) = Len(file) /\ \A k \in 1 .. Len(index) : index[k] = k
      BY <1>10 DEF LogInv, Recoverable
    <2>2. \A i \in 1 .. Len(file) + 1 : NewFile[i].kind = "rec"
      BY <1>1, <1>2, <1>3, <2>1, UpTo
    <2>3. \A i \in 1 .. Len(index) + 1 : NewIndex[i] = i
      BY <1>1, <1>4, <2>1, UpTo
    <2> QED BY <2>1, <2>2, <2>3
  <1> QED BY <1>1, <1>3, <1>4, <1>6, <1>7, <1>8, <1>9, <1>10

\* At most d offsets leave, and not the new one.
Moved(d) == Len(file') > 0 /\ base <= base' /\ base' <= base + d

\* What is left after dropping d records: the others, in the same order.
Shape(d) ==
  /\ Count' = Len(index) + 1 - d
  /\ \A i \in 1 .. Len(index) + 1 - d : /\ Pos(i)' \in 1 .. Len(file')
                                        /\ file'[Pos(i)'] = NewFile[NewIndex[d + i]]
  /\ \A i, j \in 1 .. Len(index) + 1 - d : i < j => Pos(i)' < Pos(j)'
  /\ file' \in Seq(Record) /\ index' \in Seq(Nat) /\ base' \in Nat /\ synced' \in 0 .. Len(file')
  /\ open' \in BOOLEAN /\ base' + Len(index') = base + Len(index) + 1
  /\ ~Tears => /\ \A i \in 1 .. Len(file') : file'[i].kind = "rec"
               /\ open' => Len(index') = Len(file') /\ \A i \in 1 .. Len(index') : index'[i] = i
  /\ ~open' => ~Tears
  /\ Moved(d)

\* Nothing is dropped.
LEMMA NothingTrimmed ==
  ASSUME WritesSurvive, LogInv, open, calls < MaxPublish,
         file' = NewFile, index' = NewIndex, base' = base, synced' = synced, open' \in BOOLEAN, ~open' => TrimFaults
  PROVE  Shape(0)
PROOF
  <1>1. ~open' => ~Tears
    BY DEF WritesSurvive
  <1>2. base \in Nat /\ synced \in 0 .. Len(file)
    BY DEF LogInv, LogTypes
  <1> DEFINE n == Len(index)
             m == Len(file)
  <1>3. /\ NewFile \in Seq(Record) /\ Len(NewFile) = m + 1 /\ m \in Nat
        /\ NewIndex \in Seq(Nat) /\ Len(NewIndex) = n + 1 /\ n \in Nat
        /\ \A i \in 1 .. n + 1 : NewIndex[i] \in 1 .. m + 1
        /\ \A i, j \in 1 .. n + 1 : i < j => NewIndex[i] < NewIndex[j]
        /\ ~Tears => /\ \A i \in 1 .. m + 1 : NewFile[i].kind = "rec"
                     /\ n = m /\ \A i \in 1 .. n + 1 : NewIndex[i] = i
    BY Appended
  <1> HIDE DEF m, n
  <1>4. n + 1 - 0 = n + 1 /\ m + 1 > 0 /\ base <= base /\ base <= base + 0 /\ base + (n + 1) = base + n + 1
        /\ \A i \in 1 .. n + 1 : 0 + i = i
    BY <1>2, <1>3
  <1>5. synced' \in 0 .. Len(file')
    BY <1>2, <1>3 DEF m
  <1>6. CASE open'
    <2>1. Count' = n + 1 /\ \A i : Pos(i)' = NewIndex[i]
      BY <1>3, <1>6 DEF Count, Pos
    <2> QED BY <1>2, <1>3, <1>4, <1>5, <1>6, <2>1 DEF Shape, Moved, n
  <1>7. CASE ~open'
    <2>1. ~Tears
      BY <1>1, <1>7
    <2>2. Count' = n + 1 /\ \A i : Pos(i)' = i
      BY <1>3, <1>7, <2>1 DEF Count, Pos
    <2>3. \A i \in 1 .. n + 1 : Pos(i)' \in 1 .. Len(file') /\ file'[Pos(i)'] = NewFile[NewIndex[0 + i]]
      BY <1>3, <1>4, <2>1, <2>2
    <2>4. \A i, j \in 1 .. n + 1 : i < j => Pos(i)' < Pos(j)'
      BY <2>2
    <2>5. /\ file' \in Seq(Record) /\ index' \in Seq(Nat) /\ base' \in Nat
          /\ base' + Len(index') = base + n + 1 /\ Moved(0)
      BY <1>2, <1>3, <1>4 DEF Moved
    <2>6. ~Tears => \A i \in 1 .. Len(file') : file'[i].kind = "rec"
      BY <1>3
    <2> QED BY <1>4, <1>5, <1>7, <2>1, <2>2, <2>3, <2>4, <2>5, <2>6 DEF Shape, n
  <1> QED BY <1>6, <1>7

\* What trimLocked does to the file, and to the index.
CutFile(d) == file' = SubSeq(NewFile, NewIndex[d + 1], Len(NewFile)) /\ synced' = Len(file')
CutIndex(d) ==
  /\ index' = [i \in 1 .. Len(NewIndex) - d |-> NewIndex[d + i] - (NewIndex[d + 1] - 1)]
  /\ base' = base + d

\* The file is cut and replaced, and the index is rebased.
LEMMA Trimmed ==
  ASSUME WritesSurvive, LogInv, open, calls < MaxPublish, NEW d \in 1 .. Len(index), open' = TRUE, CutFile(d), CutIndex(d)
  PROVE  Shape(d)
PROOF
  <1> DEFINE n == Len(index) + 1
             start == NewIndex[d + 1]
             m == Len(file) + 1
  <1>1. n \in Nat /\ m \in Nat /\ base \in Nat /\ d \in Nat /\ d + 1 \in 1 .. n
        /\ Len(NewFile) = m /\ Len(NewIndex) = n
    BY Appended DEF LogInv, LogTypes
  <1>2. start \in 1 .. m
    BY <1>1, Appended
  <1>3. /\ file' \in Seq(Record) /\ Len(file') = m - start + 1
        /\ \A k \in 1 .. m - start + 1 : file'[k] = NewFile[start + k - 1]
    <2>1. NewFile \in Seq(Record) /\ start \in 1 .. Len(NewFile)
      BY <1>1, <1>2, Appended
    <2> HIDE DEF start, m
    <2>2. /\ SubSeq(NewFile, start, Len(NewFile)) \in Seq(Record)
          /\ Len(SubSeq(NewFile, start, Len(NewFile))) = Len(NewFile) - start + 1
          /\ \A k \in 1 .. Len(NewFile) - start + 1 : SubSeq(NewFile, start, Len(NewFile))[k] = NewFile[start + k - 1]
      BY <2>1, Tail_
    <2>3. file' = SubSeq(NewFile, start, Len(NewFile))
      BY DEF start, CutFile
    <2> QED BY <1>1, <2>2, <2>3
  <1>4. ASSUME NEW i \in 1 .. n - d
        PROVE  /\ d + i \in 1 .. n /\ NewIndex[d + i] \in start .. m
               /\ index'[i] = NewIndex[d + i] - (start - 1) /\ index'[i] \in 1 .. Len(file')
               /\ file'[index'[i]] = NewFile[NewIndex[d + i]]
    <2>1. d + i \in 1 .. n
      BY <1>1
    <2>2. NewIndex[d + i] \in 1 .. m
      BY <2>1, Appended
    <2>3. NewIndex[d + i] >= start
      <3>1. CASE i = 1
        BY <1>2, <3>1
      <3>2. CASE i # 1
        <4>1. d + 1 < d + i
          BY <1>1, <3>2
        <4>2. start < NewIndex[d + i]
          BY <1>1, <2>1, <4>1, Appended
        <4> QED BY <1>2, <2>2, <4>2
      <3> QED BY <3>1, <3>2
    <2>4. index'[i] = NewIndex[d + i] - (start - 1)
      BY <1>1 DEF CutIndex
    <2> HIDE DEF start, m, n
    <2>5. NewIndex[d + i] \in start .. m /\ index'[i] \in 1 .. m - start + 1 /\ start + index'[i] - 1 = NewIndex[d + i]
      BY <1>1, <1>2, <2>2, <2>3, <2>4
    <2> QED BY <1>3, <2>1, <2>4, <2>5
  <1>5. index' \in Seq(Nat) /\ Len(index') = n - d
    <2>1. \A i \in 1 .. n - d : NewIndex[d + i] - (start - 1) \in Nat
      <3>1. SUFFICES ASSUME NEW i \in 1 .. n - d PROVE NewIndex[d + i] - (start - 1) \in Nat
        OBVIOUS
      <3>2. NewIndex[d + i] \in start .. m
        BY <1>4
      <3> HIDE DEF start, m, n
      <3> QED BY <1>1, <1>2, <3>2
    <2>2. index' = [i \in 1 .. n - d |-> NewIndex[d + i] - (start - 1)] /\ n - d \in Nat
      BY <1>1 DEF CutIndex
    <2> DEFINE k == n - d
               g(i) == NewIndex[d + i] - (start - 1)
    <2>3. k \in Nat /\ index' = [i \in 1 .. k |-> g(i)] /\ \A i \in 1 .. k : g(i) \in Nat
      BY <2>1, <2>2
    <2> HIDE DEF g, k
    <2>4. index' \in Seq(Nat) /\ Len(index') = k
      BY <2>3
    <2> QED BY <2>4 DEF k
  <1>6. ASSUME NEW i \in 1 .. n - d, NEW j \in 1 .. n - d, i < j PROVE index'[i] < index'[j]
    <2>1. d + i \in 1 .. n /\ d + j \in 1 .. n /\ d + i < d + j
      BY <1>1, <1>6
    <2>2. NewIndex[d + i] < NewIndex[d + j] /\ NewIndex[d + i] \in Int /\ NewIndex[d + j] \in Int
      BY <2>1, Appended
    <2>3. index'[i] = NewIndex[d + i] - (start - 1) /\ index'[j] = NewIndex[d + j] - (start - 1)
      BY <1>4
    <2> HIDE DEF start
    <2> QED BY <1>2, <2>2, <2>3
  <1>7. ASSUME ~Tears
        PROVE  /\ \A i \in 1 .. Len(file') : file'[i].kind = "rec"
               /\ Len(index') = Len(file') /\ \A i \in 1 .. Len(index') : index'[i] = i
    <2>1. /\ \A k \in 1 .. m : NewFile[k].kind = "rec"
          /\ m = n /\ \A k \in 1 .. n : NewIndex[k] = k
      BY <1>7, Appended
    <2>2. start = d + 1
      BY <1>1, <2>1
    <2> HIDE DEF start, m, n
    <2>3. \A k \in 1 .. m - start + 1 : start + k - 1 \in 1 .. m
      BY <1>1, <1>2
    <2>4. ASSUME NEW k \in 1 .. Len(file') PROVE file'[k].kind = "rec"
      <3>1. k \in 1 .. m - start + 1
        BY <1>3
      <3>2. start + k - 1 \in 1 .. m /\ file'[k] = NewFile[start + k - 1]
        BY <1>3, <2>3, <3>1
      <3> QED BY <2>1, <3>2
    <2>5. Len(index') = Len(file')
      BY <1>1, <1>3, <1>5, <2>1, <2>2
    <2>6. \A k \in 1 .. n - d : index'[k] = k
      BY <1>1, <1>4, <2>1, <2>2
    <2> QED BY <1>5, <2>4, <2>5, <2>6
  <1>8. Len(file') > 0 /\ Len(file') \in Nat
    <2> HIDE DEF start, m
    <2> QED BY <1>1, <1>2, <1>3
  <1>9. base' \in Nat /\ base' + Len(index') = base + Len(index) + 1 /\ base <= base' /\ base' <= base + d
    BY <1>1, <1>5 DEF CutIndex
  <1>10. Count' = n - d /\ \A i : Pos(i)' = index'[i]
    BY <1>5 DEF Count, Pos
  <1>11. synced' \in 0 .. Len(file')
    <2>1. synced' = Len(file')
      BY DEF CutFile
    <2> QED BY <1>8, <2>1
  <1> HIDE DEF start, m, n
  <1>12. /\ \A i \in 1 .. n - d : Pos(i)' \in 1 .. Len(file') /\ file'[Pos(i)'] = NewFile[NewIndex[d + i]]
         /\ \A i, j \in 1 .. n - d : i < j => Pos(i)' < Pos(j)'
    BY <1>4, <1>6, <1>10
  <1>13. Moved(d)
    BY <1>8, <1>9 DEF Moved
  <1>14. base' \in Nat /\ base' + Len(index') = base + Len(index) + 1
    BY <1>9
  <1> QED BY <1>3, <1>5, <1>7, <1>10, <1>11, <1>12, <1>13, <1>14 DEF Shape, n

\* The file is cut and cannot be opened again: the index is out of date, until
\* the node starts again.
LEMMA TrimmedAndClosed ==
  ASSUME WritesSurvive, LogInv, open, calls < MaxPublish, NEW d \in 1 .. Len(index), open' = FALSE, TrimFaults,
         CutFile(d), index' = NewIndex, base' = base
  PROVE  Shape(d)
PROOF
  <1> DEFINE n == Len(index) + 1
  <1>0. ~Tears
    BY DEF WritesSurvive
  <1>1. n \in Nat /\ base \in Nat /\ d \in Nat /\ d + 1 \in 1 .. n /\ Len(NewFile) = n /\ Len(NewIndex) = n
        /\ NewFile \in Seq(Record) /\ NewIndex \in Seq(Nat)
        /\ \A i \in 1 .. n : NewIndex[i] = i /\ NewFile[i].kind = "rec"
    <2>1. base \in Nat /\ Len(index) \in Nat /\ Len(index) = Len(file)
      BY <1>0, Appended DEF LogInv, LogTypes
    <2>2. n \in Nat /\ d \in Nat /\ d + 1 \in 1 .. n
      BY <2>1
    <2>3. Len(NewFile) = n /\ Len(NewIndex) = n /\ NewFile \in Seq(Record) /\ NewIndex \in Seq(Nat)
      BY <2>1, Appended
    <2>4. \A i \in 1 .. n : NewIndex[i] = i /\ NewFile[i].kind = "rec"
      BY <1>0, <2>1, Appended
    <2> QED BY <2>1, <2>2, <2>3, <2>4
  <1> HIDE DEF n
  <1>2. /\ file' \in Seq(Record) /\ Len(file') = n - (d + 1) + 1
        /\ \A k \in 1 .. n - (d + 1) + 1 : file'[k] = NewFile[(d + 1) + k - 1]
    <2> DEFINE a == d + 1
    <2>1. NewFile \in Seq(Record) /\ a \in 1 .. Len(NewFile) /\ file' = SubSeq(NewFile, a, Len(NewFile))
      BY <1>1 DEF CutFile
    <2> HIDE DEF a
    <2>2. /\ SubSeq(NewFile, a, Len(NewFile)) \in Seq(Record)
          /\ Len(SubSeq(NewFile, a, Len(NewFile))) = Len(NewFile) - a + 1
          /\ \A k \in 1 .. Len(NewFile) - a + 1 : SubSeq(NewFile, a, Len(NewFile))[k] = NewFile[a + k - 1]
      BY <2>1, Tail_
    <2> QED BY <1>1, <2>1, <2>2 DEF a
  <1>3. Len(file') = n - d /\ Len(file') \in Nat /\ Len(file') > 0
    BY <1>1, <1>2
  <1>4. \A k \in 1 .. n - d : k \in 1 .. n - (d + 1) + 1 /\ (d + 1) + k - 1 = d + k /\ d + k \in 1 .. n
    BY <1>1
  <1>5. ASSUME NEW k \in 1 .. n - d PROVE file'[k] = NewFile[NewIndex[d + k]] /\ file'[k].kind = "rec"
    <2>1. k \in 1 .. n - (d + 1) + 1 /\ (d + 1) + k - 1 = d + k /\ d + k \in 1 .. n
      BY <1>4
    <2>2. file'[k] = NewFile[d + k]
      BY <1>2, <2>1
    <2>3. NewIndex[d + k] = d + k /\ NewFile[d + k].kind = "rec"
      BY <1>1, <2>1
    <2> QED BY <2>2, <2>3
  <1>6. base' + Len(index') = base + Len(index) + 1
    BY <1>1 DEF n
  <1>7. Count' = n - d /\ \A i : Pos(i)' = i
    BY <1>3 DEF Count, Pos
  <1>8. /\ \A i \in 1 .. n - d : Pos(i)' \in 1 .. Len(file') /\ file'[Pos(i)'] = NewFile[NewIndex[d + i]]
        /\ \A i, j \in 1 .. n - d : i < j => Pos(i)' < Pos(j)'
    BY <1>3, <1>5, <1>7
  <1>9. synced' \in 0 .. Len(file') /\ base <= base' /\ base' <= base + d /\ \A i \in 1 .. Len(file') : file'[i].kind = "rec"
    <2>1. synced' = Len(file')
      BY DEF CutFile
    <2> QED BY <1>1, <1>3, <1>5, <2>1
  <1>10. file' \in Seq(Record) /\ index' \in Seq(Nat) /\ base' \in Nat /\ open' \in BOOLEAN /\ ~open'
    BY <1>1, <1>2
  <1>11. Count' = Len(index) + 1 - d
    BY <1>7 DEF n
  <1>12. Moved(d)
    BY <1>3, <1>9 DEF Moved
  <1>13. synced' \in 0 .. Len(file') /\ \A i \in 1 .. Len(file') : file'[i].kind = "rec"
    BY <1>9
  <1>14. /\ \A i \in 1 .. Len(index) + 1 - d : /\ Pos(i)' \in 1 .. Len(file')
                                              /\ file'[Pos(i)'] = NewFile[NewIndex[d + i]]
         /\ \A i, j \in 1 .. Len(index) + 1 - d : i < j => Pos(i)' < Pos(j)'
    BY <1>8 DEF n
  <1>15. ~open' /\ ~Tears /\ base' + Len(index') = base + Len(index) + 1
    BY <1>0, <1>6
  <1> HIDE DEF NewFile, NewIndex
  <1> QED BY <1>10, <1>11, <1>12, <1>13, <1>14, <1>15 DEF Shape

\* Append, whatever trimLocked does after it.
LEMMA AppendShape ==
  ASSUME WritesSurvive, LogInv, Append_
  PROVE  \E d \in 0 .. Len(index) : Shape(d)
PROOF
  <1> DEFINE drop == Excess(Len(NewIndex))
  <1>1. open /\ calls < MaxPublish /\ (Trim(drop, NewFile, NewIndex) \/ TrimFail(drop, NewFile, NewIndex))
    BY DEF Append_, NewFile, NewIndex
  <1>2. Len(index) \in Nat /\ Len(NewIndex) = Len(index) + 1
    BY <1>1, Appended
  <1>3. drop \in Int
    BY <1>2, PartitionAssumption DEF Excess
  <1> HIDE DEF drop
  <1>4. drop > 0 /\ drop < Len(NewIndex) => drop \in 1 .. Len(index) /\ drop \in 0 .. Len(index)
    BY <1>2, <1>3
  <1>5. CASE Trim(drop, NewFile, NewIndex) /\ (drop <= 0 \/ drop >= Len(NewIndex))
    <2>1. file' = NewFile /\ index' = NewIndex /\ base' = base /\ synced' = synced /\ open' = TRUE
      BY <1>1, <1>5 DEF Trim, LogInv, LogTypes
    <2>2. Shape(0)
      BY <1>1, <2>1, NothingTrimmed
    <2> QED BY <1>2, <2>2
  <1>6. CASE Trim(drop, NewFile, NewIndex) /\ ~(drop <= 0 \/ drop >= Len(NewIndex))
    <2>1. drop \in 1 .. Len(index) /\ drop \in 0 .. Len(index)
      BY <1>2, <1>3, <1>4, <1>6
    <2>2. CutFile(drop) /\ CutIndex(drop) /\ open' = TRUE
      BY <1>1, <1>6 DEF Trim, LogInv, LogTypes, CutFile, CutIndex
    <2>3. Shape(drop)
      BY <1>1, <2>1, <2>2, Trimmed
    <2> QED BY <2>1, <2>3
  <1>7. CASE TrimFail(drop, NewFile, NewIndex)
    <2>1. TrimFaults /\ drop \in 1 .. Len(index) /\ drop \in 0 .. Len(index) /\ index' = NewIndex /\ base' = base
      BY <1>4, <1>7 DEF TrimFail
    <2>2. CASE file' = NewFile /\ open' \in BOOLEAN /\ UNCHANGED synced
      <3>1. Shape(0)
        BY <1>1, <2>1, <2>2, NothingTrimmed
      <3> QED BY <1>2, <3>1
    <2>3. CASE file' = SubSeq(NewFile, NewIndex[drop + 1], Len(NewFile)) /\ open' = FALSE /\ synced' = Len(file')
      <3>1. CutFile(drop)
        BY <2>3 DEF CutFile
      <3>2. Shape(drop)
        BY <1>1, <2>1, <2>3, <3>1, TrimmedAndClosed
      <3> QED BY <2>1, <3>2
    <2> QED BY <1>7, <2>2, <2>3 DEF TrimFail
  <1> QED BY <1>1, <1>5, <1>6, <1>7

\* The lowest offset that can be read, now or after the next start, and what is
\* read under an offset.
Low == next - Count
At(o) == file[Pos(o - Low + 1)].id

\* Append: one record more, some less.
LEMMA AppendEffect ==
  ASSUME WritesSurvive, LogInv, Append_
  PROVE  /\ LogInv' /\ next' = next + 1 /\ base <= base'
         /\ Low' \in Low .. next
         /\ \A o \in Low' .. next : At(o)' = IF o = next THEN calls + 1 ELSE At(o)
PROOF
  <1> DEFINE n == Len(index)
  <1>1. PICK d \in 0 .. n : Shape(d)
    BY AppendShape
  <1>2. /\ open /\ calls < MaxPublish /\ next' = next + 1 /\ calls' = calls + 1
        /\ acked' = acked \cup {<<next, calls + 1>>}
    BY DEF Append_
  <1>3. /\ n \in Nat /\ base \in Nat /\ next = base + n /\ next \in Nat /\ calls \in Nat /\ d \in Nat
        /\ acked \subseteq Nat \X Payload /\ Count = n /\ Low = base /\ MaxPublish \in Nat
    BY <1>2, PartitionAssumption DEF LogInv, LogTypes, Count, Low
  <1>4. LogTypes'
    <2>1. <<next, calls + 1>> \in Nat \X Payload
      BY <1>2, <1>3 DEF Payload
    <2>2. /\ file' \in Seq(Record) /\ index' \in Seq(Nat) /\ base' \in Nat /\ synced' \in 0 .. Len(file')
          /\ open' \in BOOLEAN /\ base' + Len(index') = base + n + 1
      BY <1>1 DEF Shape
    <2>3. acked' \subseteq Nat \X Payload /\ calls' \in Nat /\ next' = base' + Len(index')
      BY <1>2, <1>3, <2>1, <2>2
    <2> QED BY <2>2, <2>3 DEF LogTypes
  <1>5. Count' = n + 1 - d /\ Low' = base + d
    BY <1>1, <1>2, <1>3 DEF Shape, Low
  <1>6. NewRecord("rec") = [off |-> next, id |-> calls + 1, kind |-> "rec"]
    BY DEF NewRecord
  <1> DEFINE r(i) == NewFile[NewIndex[d + i]]
  <1>7. \A i \in 1 .. n + 1 - d : Pos(i)' \in 1 .. Len(file') /\ file'[Pos(i)'] = r(i)
    BY <1>1 DEF Shape
  <1>8. ASSUME NEW i \in 1 .. n + 1 - d
        PROVE  /\ r(i).kind = "rec" /\ r(i).off = base + d + i - 1 /\ <<r(i).off, r(i).id>> \in acked'
               /\ i = n + 1 - d => r(i).id = calls + 1
               /\ i # n + 1 - d => d + i \in 1 .. n /\ r(i) = file[index[d + i]]
    <2>1. CASE i = n + 1 - d
      <3>1. d + i = n + 1
        BY <1>3, <2>1
      <3>2. r(i) = NewRecord("rec")
        BY <1>2, <3>1, Appended
      <3>3. r(i).kind = "rec" /\ r(i).off = next /\ r(i).id = calls + 1
        BY <1>6, <3>2
      <3>4. base + d + i - 1 = next
        BY <1>3, <2>1
      <3> QED BY <1>2, <2>1, <3>3, <3>4
    <2>2. CASE i # n + 1 - d
      <3>1. d + i \in 1 .. n
        BY <1>3, <2>2
      <3>2. r(i) = file[index[d + i]]
        BY <1>2, <3>1, Appended
      <3>3. /\ file[index[d + i]].kind = "rec" /\ file[index[d + i]].off = next - n + (d + i) - 1
            /\ <<file[index[d + i]].off, file[index[d + i]].id>> \in acked
        BY <1>2, <1>3, <3>1 DEF LogInv, Indexed, Count, Pos
      <3>4. next - n + (d + i) - 1 = base + d + i - 1
        BY <1>3
      <3> HIDE DEF r, n
      <3> QED BY <1>2, <2>2, <3>1, <3>2, <3>3, <3>4
    <2> QED BY <2>1, <2>2
  <1> HIDE DEF r
  <1>9. Indexed'
    <2>1. ASSUME NEW i \in 1 .. Count'
          PROVE  /\ Pos(i)' \in 1 .. Len(file') /\ file'[Pos(i)'].kind = "rec"
                 /\ file'[Pos(i)'].off = next' - Count' + i - 1
                 /\ <<file'[Pos(i)'].off, file'[Pos(i)'].id>> \in acked'
      <3>1. i \in 1 .. n + 1 - d /\ next' - Count' + i - 1 = base + d + i - 1
        BY <1>2, <1>3, <1>5
      <3> QED BY <1>7, <1>8, <3>1
    <2>2. \A i, j \in 1 .. Count' : i < j => Pos(i)' < Pos(j)'
      BY <1>1 DEF Shape
    <2> QED BY <2>1, <2>2 DEF Indexed
  <1>10. Recoverable'
    <2>1. base' <= next' - Count' /\ Len(file') > 0
      BY <1>1, <1>2, <1>3, <1>5 DEF Shape, Moved
    <2> QED BY <1>1, <2>1 DEF Shape, Recoverable
  <1>11. Assigned'
    <2>1. /\ \A m \in acked : m[1] < next /\ m[1] \in Nat
          /\ \A m, k \in acked : m[1] = k[1] => m = k
      BY <1>3 DEF LogInv, Assigned
    <2>2. <<next, calls + 1>>[1] = next
      OBVIOUS
    <2>3. \A m \in acked' : m[1] < next'
      BY <1>2, <1>3, <2>1
    <2>4. ASSUME NEW m \in acked', NEW k \in acked', m[1] = k[1] PROVE m = k
      <3>1. CASE m \in acked /\ k \in acked
        BY <2>1, <2>4, <3>1
      <3>2. CASE m = <<next, calls + 1>> \/ k = <<next, calls + 1>>
        BY <1>2, <1>3, <2>1, <2>2, <2>4, <3>2
      <3> QED BY <1>2, <3>1, <3>2
    <2> QED BY <2>3, <2>4 DEF Assigned
  <1>12. Low' \in Low .. next
    BY <1>3, <1>5
  <1>13. ASSUME NEW o \in Low' .. next PROVE At(o)' = IF o = next THEN calls + 1 ELSE At(o)
    <2>0. PICK i \in Int : i = o - (base + d) + 1
      BY <1>3, <1>5
    <2>1. i \in 1 .. n + 1 - d /\ (o = next <=> i = n + 1 - d) /\ d + i = o - base + 1 /\ o \in Int
      BY <1>3, <1>5, <2>0
    <2>2. At(o)' = file'[Pos(i)'].id
      <3>1. o - Low' + 1 = i
        BY <1>5, <2>0
      <3>2. At(o)' = file'[Pos(o - Low + 1)'].id
        BY DEF At
      <3>3. Pos(o - Low + 1)' = Pos(i)'
        BY <3>1 DEF Pos
      <3> QED BY <3>2, <3>3
    <2>3. At(o) = file[index[d + i]].id
      <3>1. At(o) = file[index[o - base + 1]].id
        BY <1>2, <1>3 DEF At, Pos
      <3> QED BY <2>1, <3>1
    <2>4. At(o)' = r(i).id
      BY <1>7, <2>1, <2>2
    <2>5. CASE o = next
      BY <1>8, <2>1, <2>4, <2>5
    <2>6. CASE o # next
      BY <1>8, <2>1, <2>3, <2>4, <2>6
    <2> QED BY <2>5, <2>6
  <1>14. base <= base'
    BY <1>1 DEF Shape, Moved
  <1> QED BY <1>2, <1>4, <1>9, <1>10, <1>11, <1>12, <1>13, <1>14 DEF LogInv

-----------------------------------------------------------------------------
(* The other steps on the log                                               *)

\* A write that fails leaves bytes behind the records that are there.
LEMMA AppendFailEffect ==
  ASSUME WritesSurvive, LogInv, AppendFail
  PROVE  LogInv' /\ next' = next /\ Low' = Low /\ base <= base' /\ \A o \in Low .. next - 1 : At(o)' = At(o)
PROOF
  <1>1. PICK kind \in {"stub", "junk"} : file' = Append(file, NewRecord(kind))
    BY DEF AppendFail
  <1>2. /\ Tears /\ open /\ calls < MaxPublish /\ calls' = calls + 1
        /\ synced' = synced /\ index' = index /\ base' = base /\ next' = next /\ open' = open /\ acked' = acked
    BY DEF AppendFail
  <1>3. /\ file \in Seq(Record) /\ Len(file) \in Nat /\ index \in Seq(Nat) /\ Len(index) \in Nat
        /\ next \in Nat /\ base \in Nat /\ calls \in Nat /\ MaxPublish \in Nat /\ synced \in 0 .. Len(file)
        /\ next = base + Len(index)
    BY PartitionAssumption DEF LogInv, LogTypes
  <1>4. NewRecord(kind) \in Record
    BY <1>2, <1>3 DEF NewRecord, Record, Payload
  <1>5. /\ file' \in Seq(Record) /\ Len(file') = Len(file) + 1
        /\ \A k \in 1 .. Len(file) : file'[k] = file[k]
    BY <1>1, <1>3, <1>4
  <1>6. Count' = Count /\ Count = Len(index) /\ \A i : Pos(i)' = Pos(i) /\ Pos(i) = index[i]
    BY <1>2 DEF Count, Pos
  <1>7. LogTypes'
    BY <1>2, <1>3, <1>5 DEF LogInv, LogTypes
  <1>8. \A i \in 1 .. Count : Pos(i) \in 1 .. Len(file) /\ file'[Pos(i)] = file[Pos(i)]
    BY <1>5 DEF LogInv, Indexed
  <1>9. \A i \in 1 .. Count : Pos(i) \in 1 .. Len(file')
    BY <1>3, <1>5, <1>8
  <1>10. Indexed'
    <2>1. ASSUME NEW i \in 1 .. Count'
          PROVE  /\ Pos(i)' \in 1 .. Len(file') /\ file'[Pos(i)'].kind = "rec"
                 /\ file'[Pos(i)'].off = next' - Count' + i - 1
                 /\ <<file'[Pos(i)'].off, file'[Pos(i)'].id>> \in acked'
      BY <1>2, <1>6, <1>8, <1>9 DEF LogInv, Indexed
    <2>2. \A i, j \in 1 .. Count' : i < j => Pos(i)' < Pos(j)'
      BY <1>6 DEF LogInv, Indexed
    <2> QED BY <2>1, <2>2 DEF Indexed
  <1>11. Recoverable' /\ Assigned'
    BY <1>2, <1>6 DEF LogInv, Recoverable, Assigned
  <1>12. Low' = Low /\ Low = base
    BY <1>2, <1>3, <1>6 DEF Low
  <1>13. ASSUME NEW o \in Low .. next - 1 PROVE At(o)' = At(o)
    <2>1. PICK i \in Int : i = o - Low + 1
      BY <1>3, <1>12
    <2>2. i \in 1 .. Count
      BY <1>3, <1>6, <1>12, <2>1
    <2>3. At(o)' = file'[Pos(i)'].id /\ At(o) = file[Pos(i)].id
      BY <1>12, <2>1 DEF At, Pos
    <2> QED BY <1>6, <1>8, <2>2, <2>3
  <1> QED BY <1>2, <1>3, <1>7, <1>10, <1>11, <1>12, <1>13 DEF LogInv

\* recover finds every record of a file without fragments.
LEMMA RecoverAll ==
  ASSUME NEW f \in Seq(Record), \A i \in 1 .. Len(f) : f[i].kind = "rec"
  PROVE  RecoverIndex(f) = [i \in 1 .. Len(f) |-> i] /\ RecoverIndex(f) \in Seq(Nat) /\ Len(RecoverIndex(f)) = Len(f)
PROOF
  <1>1. Len(f) \in Nat
    OBVIOUS
  <1>2. {i \in 1 .. Len(f) : \A j \in 1 .. i : f[j].kind = "rec"} = 1 .. Len(f)
    BY <1>1
  <1>3. Whole(f) = Cardinality(1 .. Len(f))
    BY <1>2 DEF Whole
  <1>4. Cardinality(1 .. Len(f)) = Len(f)
    BY <1>1, FS_Interval
  <1>5. RecoverIndex(f) = [i \in 1 .. Len(f) |-> i]
    <2>1. Whole(f) = Len(f)
      BY <1>3, <1>4
    <2> DEFINE w == Whole(f)
    <2>2. RecoverIndex(f) = IF w = Len(f) THEN [i \in 1 .. w |-> i] ELSE RecoverIndex(f)
      BY <2>1 DEF RecoverIndex
    <2> QED BY <2>1, <2>2
  <1> DEFINE n == Len(f)
  <1>6. n \in Nat /\ RecoverIndex(f) = [i \in 1 .. n |-> i]
    BY <1>1, <1>5
  <1> HIDE DEF n
  <1>7. RecoverIndex(f) \in Seq(Nat) /\ Len(RecoverIndex(f)) = n
    BY <1>6
  <1> QED BY <1>5, <1>7 DEF n

\* A start finds in the file what could be read before, or could not be read any
\* more because a trim had failed.
LEMMA RestartEffect ==
  ASSUME WritesSurvive, LogInv, restarts \in Nat, Restart
  PROVE  LogInv' /\ next' = next /\ Low' = Low /\ base <= base' /\ \A o \in Low .. next - 1 : At(o)' = At(o)
PROOF
  <1>1. ~Tears /\ ~PowerLoss
    <2>1. restarts < MaxRestarts
      BY DEF Restart
    <2> QED BY <2>1, PartitionAssumption DEF WritesSurvive
  <1>2. file' = file /\ open' = TRUE /\ acked' = acked /\ calls' = calls /\ index' = RecoverIndex(file)
        /\ synced' = (IF synced < Len(file) THEN synced ELSE Len(file))
        /\ base' \in FirstOffset(file, RecoverIndex(file)) /\ next' = base' + Len(RecoverIndex(file))
    <2>1. file' \in Surviving
      BY DEF Restart
    <2>2. file' = file
      BY <1>1, <2>1 DEF Surviving
    <2>3. open' = TRUE /\ acked' = acked /\ calls' = calls /\ index' = RecoverIndex(file')
        /\ synced' = (IF synced < Len(file') THEN synced ELSE Len(file'))
        /\ base' \in FirstOffset(file', index') /\ next' = base' + Len(index')
      BY DEF Restart
    <2> QED BY <2>2, <2>3
  <1> DEFINE n == Len(file)
  <1>3. /\ file \in Seq(Record) /\ n \in Nat /\ index \in Seq(Nat) /\ Len(index) \in Nat /\ next \in Nat /\ base \in Nat
        /\ synced \in 0 .. n /\ next = base + Len(index) /\ \A i \in 1 .. n : file[i].kind = "rec"
    BY <1>1 DEF LogInv, LogTypes, Recoverable
  <1>4. /\ index' \in Seq(Nat) /\ Len(index') = n /\ \A i \in 1 .. n : index'[i] = i
        /\ index' = [i \in 1 .. n |-> i]
    BY <1>2, <1>3, RecoverAll
  <1>5. Count = n /\ \A i \in 1 .. n : Pos(i) = i
    BY <1>1 DEF LogInv, Recoverable, Count, Pos
  <1>6. Count' = n /\ \A i \in 1 .. n : Pos(i)' = i
    BY <1>2, <1>4 DEF Count, Pos
  <1>7. base' = next - n /\ base' \in Nat /\ base <= base'
    <2>1. base <= next - n
      BY <1>5 DEF LogInv, Recoverable
    <2>2. CASE n = 0
      <3>1. index' = <<>> /\ next = 0
        BY <1>1, <1>3, <1>4, <2>2 DEF LogInv, Recoverable
      <3>2. base' = 0
        BY <1>2, <3>1 DEF FirstOffset
      <3> QED BY <1>3, <2>1, <2>2, <3>1, <3>2
    <2>3. CASE n # 0
      <3>1. index'[1] = 1 /\ index' # <<>>
        BY <1>3, <1>4, <2>3
      <3>2. base' = file[1].off
        BY <1>2, <3>1 DEF FirstOffset
      <3>3. 1 \in 1 .. n
        BY <1>3, <2>3
      <3>4. file[1].off = next - n + 1 - 1
        BY <1>5, <3>3 DEF LogInv, Indexed
      <3> QED BY <1>3, <2>1, <3>2, <3>4
    <2> QED BY <2>2, <2>3
  <1>8. next' = next
    BY <1>2, <1>3, <1>4, <1>7
  <1>9. LogTypes'
    BY <1>2, <1>3, <1>4, <1>7 DEF LogInv, LogTypes
  <1>10. Indexed'
    <2>1. ASSUME NEW i \in 1 .. n
          PROVE  /\ Pos(i)' \in 1 .. Len(file') /\ file'[Pos(i)'].kind = "rec"
                 /\ file'[Pos(i)'].off = next' - Count' + i - 1
                 /\ <<file'[Pos(i)'].off, file'[Pos(i)'].id>> \in acked'
      BY <1>2, <1>5, <1>6, <1>8 DEF LogInv, Indexed
    <2>2. \A i, j \in 1 .. n : i < j => Pos(i)' < Pos(j)'
      BY <1>6
    <2> QED BY <1>6, <2>1, <2>2 DEF Indexed
  <1>11. Recoverable'
    <2>1. base' <= next' - Count'
      BY <1>3, <1>6, <1>7, <1>8
    <2>2. ~Tears /\ Len(file) = 0 => next' = 0
      BY <1>8 DEF LogInv, Recoverable
    <2> QED BY <1>2, <1>3, <1>4, <2>1, <2>2 DEF Recoverable
  <1>12. Assigned'
    BY <1>2, <1>8 DEF LogInv, Assigned
  <1>13. Low' = Low /\ Low = next - n
    BY <1>5, <1>6, <1>8 DEF Low
  <1>14. ASSUME NEW o \in Low .. next - 1 PROVE At(o)' = At(o)
    <2>0. Low \in Int /\ o \in Int
      BY <1>3, <1>13
    <2>1. PICK i \in Int : i = o - Low + 1
      BY <2>0
    <2>2. i \in 1 .. n
      BY <1>3, <1>13, <2>1
    <2>3. At(o)' = file'[Pos(i)'].id /\ At(o) = file[Pos(i)].id
      BY <1>13, <2>1 DEF At, Pos
    <2> QED BY <1>2, <1>5, <1>6, <2>2, <2>3
  <1> QED BY <1>7, <1>8, <1>9, <1>10, <1>11, <1>12, <1>13, <1>14 DEF LogInv

-----------------------------------------------------------------------------
(* Streams                                                                  *)

\* Facts every step starts from.
LEMMA Streams ==
  ASSUME PartitionInv, NEW s \in Sub
  PROVE  /\ sub \in [Sub -> SubState] /\ sub[s] \in SubState /\ Sound(sub[s]) /\ InOrder(sub[s])
         /\ sub[s].off \in Nat /\ sub[s].from \in Nat /\ sub[s].saved \in Nat /\ Len(sub[s].sent) \in Nat
         /\ sub[s].sent \in Seq(Message)
         /\ next \in Nat /\ base \in Nat /\ base <= next /\ restarts \in Nat /\ drops \in Nat
         /\ acked \subseteq Nat \X Payload
PROOF
  <1>1. sub \in [Sub -> SubState] /\ sub[s] \in SubState /\ restarts \in Nat /\ drops \in Nat
    BY DEF PartitionInv, StreamTypes
  <1>2. /\ sub[s].off \in Nat /\ sub[s].from \in Nat /\ sub[s].saved \in Nat /\ sub[s].sent \in Seq(Message)
    BY <1>1 DEF SubState
  <1>3. Sound(sub[s]) /\ InOrder(sub[s])
    BY DEF PartitionInv, StreamsSound, SentInOrder, InOrder, Covered
  <1>4. next \in Nat /\ base \in Nat /\ base <= next /\ acked \subseteq Nat \X Payload
    BY DEF PartitionInv, LogInv, LogTypes
  <1> QED BY <1>1, <1>2, <1>3, <1>4

\* A step of one stream.
LEMMA StreamStep ==
  ASSUME PartitionInv, NEW s \in Sub, NEW t \in SubState, Sound(t), InOrder(t),
         sub' = [sub EXCEPT ![s] = t], UNCHANGED <<logVars, acked, calls, restarts>>,
         notify' \in BOOLEAN, drops' \in Nat
  PROVE  PartitionInv'
PROOF
  <1>1. /\ file' = file /\ synced' = synced /\ index' = index /\ base' = base /\ next' = next /\ open' = open
        /\ acked' = acked /\ calls' = calls /\ restarts' = restarts
    BY DEF logVars
  <1>2. sub' \in [Sub -> SubState] /\ sub'[s] = t /\ \A u \in Sub \ {s} : sub'[u] = sub[u]
    BY Streams
  <1>3. LogInv'
    BY <1>1 DEF PartitionInv, LogInv, LogTypes, Indexed, Recoverable, Assigned, Count, Pos
  <1>4. StreamTypes'
    BY <1>1, <1>2 DEF PartitionInv, StreamTypes
  <1>5. ASSUME NEW u \in Sub PROVE Sound(sub'[u]) /\ InOrder(sub'[u])
    BY <1>2, Streams
  <1>6. StreamsSound'
    BY <1>1, <1>5 DEF StreamsSound, Sound
  <1>7. SentInOrder'
    BY <1>1, <1>5 DEF SentInOrder, InOrder, Covered
  <1> QED BY <1>3, <1>4, <1>6, <1>7 DEF PartitionInv

\* The streams while the log changes: nothing that was acknowledged is taken
\* back, and what is new is not behind a stream.
LEMMA LogStep ==
  ASSUME PartitionInv, LogInv', sub' \in [Sub -> SubState],
         \A s \in Sub : sub'[s].off = sub[s].off /\ SameStream(sub'[s], sub[s])
                        /\ (sub'[s].pc = "send" => sub[s].pc = "send" /\ sub'[s].buf = sub[s].buf),
         acked \subseteq acked', \A m \in acked' : m \in acked \/ m[1] = next,
         next' \in {next, next + 1}, base <= base',
         notify' \in BOOLEAN, drops' \in Nat, restarts' \in Nat
  PROVE  PartitionInv'
PROOF
  <1>1. StreamTypes'
    BY DEF StreamTypes
  <1>2. ASSUME NEW s \in Sub PROVE Sound(sub[s])' /\ InOrder(sub[s])'
    <2>1. sub'[s].off = sub[s].off /\ SameStream(sub'[s], sub[s])
          /\ (sub'[s].pc = "send" => sub[s].pc = "send" /\ sub'[s].buf = sub[s].buf)
      OBVIOUS
    <2>2. /\ Sound(sub[s]) /\ InOrder(sub[s]) /\ sub[s].off \in Nat /\ next \in Nat /\ base \in Nat
          /\ acked \subseteq Nat \X Payload
      BY Streams
    <2>3. base' \in Nat
      BY DEF LogInv, LogTypes
    <2>4. Sound(sub[s])'
      <3>1. /\ sub[s].off <= next' /\ Len(sub[s].sent) \in Nat /\ sub[s].got \subseteq acked'
            /\ sub[s].from <= sub[s].off /\ sub[s].saved <= sub[s].off
        BY <2>2, Streams DEF Sound
      <3>2. sub'[s].pc = "send" => <<sub'[s].off, sub'[s].buf>> \in acked'
        BY <2>1, <2>2 DEF Sound
      <3>3. \A i \in 1 .. Len(sub[s].sent) : sub[s].sent[i] \in acked' /\ sub[s].sent[i][1] < sub[s].off
        BY <2>2 DEF Sound
      <3> QED BY <2>1, <3>1, <3>2, <3>3 DEF Sound, SameStream
    <2>5. ASSUME NEW m \in acked', m[1] < sub[s].off, m[1] >= base'
          PROVE  Covered(sub[s], m)
      <3>1. m \in acked /\ m[1] \in Nat
        BY <2>2, <2>5 DEF Sound
      <3>2. m[1] >= base
        BY <2>2, <2>3, <2>5, <3>1
      <3> QED BY <2>2, <2>5, <3>1, <3>2 DEF InOrder
    <2>6. InOrder(sub[s])'
      BY <2>1, <2>2, <2>5 DEF InOrder, SameStream, Covered
    <2> QED BY <2>4, <2>6
  <1>3. StreamsSound' /\ SentInOrder'
    BY <1>2 DEF StreamsSound, SentInOrder, InOrder, Covered
  <1> QED BY <1>1, <1>3 DEF PartitionInv

\* What a stream can hold.
LEMMA Values ==
  /\ EOF \notin Payload /\ Garbage \notin Payload /\ Closed \notin Payload
  /\ EOF # Garbage /\ EOF # Closed /\ Garbage # Closed
BY PartitionAssumption DEF EOF, Garbage, Closed, Payload

\* A stream that only moves on in the loop.
LEMMA StreamMoves ==
  ASSUME PartitionInv, NEW s \in Sub, NEW pc \in {"top", "next", "wait", "read", "gone"},
         sub' = [sub EXCEPT ![s].pc = pc], UNCHANGED <<logVars, acked, calls, restarts>>,
         notify' \in BOOLEAN, drops' \in Nat
  PROVE  PartitionInv'
PROOF
  <1>1. PICK t \in SubState : /\ t = [sub[s] EXCEPT !.pc = pc] /\ t.pc = pc
                              /\ t.off = sub[s].off /\ t.buf = sub[s].buf /\ SameStream(t, sub[s])
    <2> DEFINE t == [sub[s] EXCEPT !.pc = pc]
    <2>1. sub[s] \in SubState
      BY Streams
    <2>2. t \in SubState
      BY <2>1 DEF SubState
    <2>3. t.pc = pc /\ t.off = sub[s].off /\ t.buf = sub[s].buf /\ SameStream(t, sub[s])
      BY <2>1 DEF SubState, SameStream
    <2>4. t = [sub[s] EXCEPT !.pc = pc]
      OBVIOUS
    <2> HIDE DEF t
    <2> QED BY <2>2, <2>3, <2>4
  <1>2. sub' = [sub EXCEPT ![s] = t]
    BY <1>1
  <1>3. Sound(t) /\ InOrder(t)
    BY <1>1, Streams DEF Sound, InOrder, SameStream, Covered
  <1> QED BY <1>2, <1>3, StreamStep

\* A consumer moved to the start of the window misses what left the log.
LEMMA TopStep ==
  ASSUME PartitionInv, NEW s \in Sub, SubTop(s)
  PROVE  PartitionInv'
PROOF
  <1> DEFINE o == IF sub[s].off < base THEN base ELSE sub[s].off
  <1>1. PICK t \in SubState : /\ t = [sub[s] EXCEPT !.pc = "next", !.off = o] /\ t.pc = "next"
                              /\ t.off = o /\ SameStream(t, sub[s])
    <2>1. sub[s] \in SubState /\ o \in Nat
      BY Streams
    <2> HIDE DEF o
    <2> DEFINE t == [sub[s] EXCEPT !.pc = "next", !.off = o]
    <2>2. t \in SubState
      BY <2>1 DEF SubState
    <2>3. t.pc = "next" /\ t.off = o /\ SameStream(t, sub[s])
      BY <2>1 DEF SubState, SameStream
    <2>4. t = [sub[s] EXCEPT !.pc = "next", !.off = o]
      OBVIOUS
    <2> HIDE DEF t
    <2> QED BY <2>2, <2>3, <2>4
  <1>2. sub' = [sub EXCEPT ![s] = t]
    BY <1>1 DEF SubTop
  <1>3. /\ Sound(sub[s]) /\ InOrder(sub[s]) /\ sub[s].off \in Nat /\ base \in Nat /\ next \in Nat /\ base <= next
        /\ acked \subseteq Nat \X Payload
    BY Streams
  <1>4. o \in Nat /\ o <= next /\ sub[s].off <= o /\ \A k \in Nat : k < o => k < base \/ k < sub[s].off
    BY <1>3 DEF Sound
  <1> HIDE DEF o
  <1>5. Sound(t)
    <2>1. ASSUME NEW i \in 1 .. Len(sub[s].sent) PROVE sub[s].sent[i] \in acked /\ sub[s].sent[i][1] < o
      <3>1. sub[s].sent[i] \in acked /\ sub[s].sent[i][1] < sub[s].off
        BY <1>3 DEF Sound
      <3>2. sub[s].sent[i][1] \in Nat
        BY <1>3, <3>1
      <3> QED BY <1>3, <1>4, <3>1, <3>2
    <2>2. sub[s].from <= o /\ sub[s].saved <= o
      BY <1>3, <1>4, Streams DEF Sound
    <2> QED BY <1>1, <1>3, <1>4, <2>1, <2>2 DEF Sound, SameStream
  <1>6. InOrder(t)
    <2>1. ASSUME NEW m \in acked, m[1] < o, m[1] >= base
          PROVE  Covered(sub[s], m)
      <3>1. m[1] \in Nat
        BY <1>3
      <3>2. m[1] < sub[s].off
        BY <1>3, <1>4, <2>1, <3>1
      <3> QED BY <1>3, <2>1, <3>2 DEF InOrder
    <2> QED BY <1>1, <1>3, <2>1 DEF InOrder, SameStream, Covered
  <1>7. UNCHANGED <<logVars, acked, calls, restarts>> /\ notify' = notify /\ drops' = drops
    BY DEF SubTop
  <1>8. notify \in BOOLEAN /\ drops \in Nat
    BY DEF PartitionInv, StreamTypes
  <1> QED BY <1>2, <1>5, <1>6, <1>7, <1>8, StreamStep

\* What ReadAt gives a stream besides the two errors is what was published
\* under the offset.
LEMMA ReadStep ==
  ASSUME PartitionInv, NEW s \in Sub, SubRead(s)
  PROVE  PartitionInv'
PROOF
  <1> DEFINE off == sub[s].off
             p == ReadAt(off)
  <1>1. UNCHANGED <<logVars, acked, calls, restarts>> /\ notify' = notify /\ drops' = drops
    BY DEF SubRead
  <1>2. notify' \in BOOLEAN /\ drops' \in Nat
    BY <1>1 DEF PartitionInv, StreamTypes
  <1>3. \/ sub' = [sub EXCEPT ![s].pc = "top"]
        \/ sub' = [sub EXCEPT ![s].pc = "gone"]
        \/ p \notin {EOF, Closed} /\ sub' = [sub EXCEPT ![s].pc = "send", ![s].buf = p]
    BY DEF SubRead
  <1>4. CASE sub' = [sub EXCEPT ![s].pc = "top"]
    BY <1>1, <1>2, <1>4, StreamMoves
  <1>5. CASE sub' = [sub EXCEPT ![s].pc = "gone"]
    BY <1>1, <1>2, <1>5, StreamMoves
  <1>6. CASE p \notin {EOF, Closed} /\ sub' = [sub EXCEPT ![s].pc = "send", ![s].buf = p]
    <2>1. /\ off \in Nat /\ next \in Nat /\ base \in Nat /\ next = base + Len(index) /\ Len(index) \in Nat
          /\ acked \subseteq Nat \X Payload /\ Sound(sub[s]) /\ InOrder(sub[s]) /\ sub[s] \in SubState
      BY Streams DEF PartitionInv, LogInv, LogTypes
    <2>2. InWindow(off) /\ open
      BY <1>6 DEF ReadAt
    <2> DEFINE i == off - base + 1
               pos == index[i]
    <2>3. i \in 1 .. Len(index) /\ next - Len(index) + i - 1 = off
      BY <2>1, <2>2 DEF InWindow
    <2> HIDE DEF i
    <2>4. /\ pos \in 1 .. Len(file) /\ file[pos].kind = "rec" /\ file[pos].off = off
          /\ <<off, file[pos].id>> \in acked
      BY <2>2, <2>3 DEF PartitionInv, LogInv, Indexed, Count, Pos
    <2>5. p = file[pos].id
      <3>1. pos > 0 /\ pos # 0
        BY <2>4
      <3> HIDE DEF off
      <3> QED BY <2>2, <2>4, <3>1 DEF ReadAt, i
    <2>6. p \in Payload /\ <<off, p>> \in acked
      BY <2>1, <2>4, <2>5
    <2> HIDE DEF p
    <2>7. PICK t \in SubState : /\ t = [sub[s] EXCEPT !.pc = "send", !.buf = p] /\ t.pc = "send"
                                /\ t.off = off /\ t.buf = p /\ SameStream(t, sub[s])
      <3> DEFINE t == [sub[s] EXCEPT !.pc = "send", !.buf = p]
      <3>1. t \in SubState
        BY <2>1, <2>6 DEF SubState
      <3>2. t.pc = "send" /\ t.off = off /\ t.buf = p /\ SameStream(t, sub[s])
        BY <2>1 DEF SubState, SameStream
      <3>3. t = [sub[s] EXCEPT !.pc = "send", !.buf = p]
        OBVIOUS
      <3> HIDE DEF t
      <3> QED BY <3>1, <3>2, <3>3
    <2>8. sub' = [sub EXCEPT ![s] = t]
      BY <1>6, <2>7
    <2>9. Sound(t) /\ InOrder(t)
      BY <2>1, <2>6, <2>7 DEF Sound, InOrder, SameStream, Covered
    <2> QED BY <1>1, <1>2, <2>8, <2>9, StreamStep
  <1> QED BY <1>3, <1>4, <1>5, <1>6

\* A stream sends what it read under its offset, and goes on with the next.
LEMMA SendStep ==
  ASSUME PartitionInv, NEW s \in Sub, SubSend(s)
  PROVE  PartitionInv'
PROOF
  <1> DEFINE o == sub[s].off
             m == <<o, sub[s].buf>>
             q == Append(sub[s].sent, m)
             g == sub[s].got \cup {m}
             v == Saved(sub[s])
             n == Len(sub[s].sent)
  <1>1. UNCHANGED <<logVars, acked, calls, restarts>> /\ notify' = notify /\ drops' = drops /\ sub[s].pc = "send"
        /\ sub' = [sub EXCEPT ![s].pc = "top", ![s].off = o + 1, ![s].buf = EOF, ![s].sent = q,
                             ![s].got = g, ![s].saved = v]
    BY DEF SubSend
  <1>2. notify' \in BOOLEAN /\ drops' \in Nat
    BY <1>1 DEF PartitionInv, StreamTypes
  <1>3. /\ o \in Nat /\ n \in Nat /\ next \in Nat /\ Sound(sub[s]) /\ InOrder(sub[s]) /\ sub[s] \in SubState
        /\ acked \subseteq Nat \X Payload /\ sub[s].sent \in Seq(Message)
    BY Streams
  <1>31. v \in Nat /\ v <= o + 1 /\ sub[s].from <= o + 1 /\ g \subseteq acked \cup {m} /\ sub[s].got \subseteq Message
    BY <1>3, Streams DEF Sound, Saved, SubState
  <1>4. m \in acked /\ m[1] = o /\ o < next /\ sub[s].buf \in Payload
    BY <1>1, <1>3 DEF Sound, PartitionInv, LogInv, Assigned
  <1>5. \A k \in acked : k[1] = o => k = m
    BY <1>4 DEF PartitionInv, LogInv, Assigned
  <1>6. /\ q \in Seq(Message) /\ Len(q) = n + 1 /\ q[n + 1] = m
        /\ \A k \in 1 .. n : q[k] = sub[s].sent[k]
    <2>1. m \in Message
      BY <1>3, <1>4 DEF Message
    <2> QED BY <1>3, <2>1
  <1>7. \A i \in 1 .. n : q[i] \in acked /\ q[i][1] < o /\ q[i][1] \in Nat
    BY <1>3, <1>6 DEF Sound
  <1>8. \A i \in 1 .. n + 1 : q[i] \in acked /\ q[i][1] < o + 1
    <2> HIDE DEF o, m, q, n, g, v
    <2> QED BY <1>3, <1>4, <1>6, <1>7, UpTo
  <1>9. ASSUME NEW i \in 1 .. n + 1, NEW j \in 1 .. n + 1, i < j PROVE q[i][1] < q[j][1]
    <2> HIDE DEF o, m, q, n, g, v
    <2>1. i \in 1 .. n
      BY <1>3, <1>9
    <2>2. CASE j = n + 1
      BY <1>4, <1>6, <1>7, <2>1, <2>2
    <2>3. CASE j \in 1 .. n
      BY <1>3, <1>6, <1>9, <2>1, <2>3 DEF InOrder, n
    <2> QED BY <1>3, <2>2, <2>3, UpTo
  <1>10. ASSUME NEW k \in acked, k[1] < o + 1, k[1] >= base
         PROVE  k \in g /\ (k[1] >= sub[s].from => \E i \in 1 .. n + 1 : q[i] = k)
    <2> HIDE DEF o, m, q, n, g, v
    <2>1. k[1] \in Nat
      BY <1>3
    <2>2. CASE k[1] = o
      <3>1. n + 1 \in 1 .. n + 1 /\ q[n + 1] = k
        BY <1>3, <1>5, <1>6, <2>2
      <3>2. k \in g
        BY <1>5, <2>2 DEF g
      <3> QED BY <3>1, <3>2
    <2>3. CASE k[1] < o
      <3>1. Covered(sub[s], k)
        BY <1>3, <1>10, <2>3 DEF InOrder, o
      <3>2. k \in g /\ (k[1] >= sub[s].from => \E i \in 1 .. n : q[i] = k)
        BY <1>6, <3>1 DEF Covered, g, n
      <3> QED BY <1>3, <3>2
    <2> QED BY <1>3, <1>10, <2>1, <2>2, <2>3
  <1>11. PICK t \in SubState : /\ t = [sub[s] EXCEPT !.pc = "top", !.off = o + 1, !.buf = EOF, !.sent = q, !.got = g, !.saved = v]
                               /\ t.pc = "top" /\ t.off = o + 1 /\ t.sent = q /\ t.got = g
                               /\ t.saved = v /\ t.from = sub[s].from
    <2> HIDE DEF o, m, q, n, g, v
    <2> DEFINE t == [sub[s] EXCEPT !.pc = "top", !.off = o + 1, !.buf = EOF, !.sent = q, !.got = g, !.saved = v]
    <2>1. o + 1 \in Nat
      BY <1>3
    <2>2. t \in SubState
      <3>1. m \in Message
        BY <1>3, <1>4 DEF Message, m, o
      <3>2. g \subseteq Message
        BY <1>31, <3>1 DEF g
      <3> QED BY <1>3, <1>31, <1>6, <2>1, <3>2 DEF SubState
    <2>3. t.pc = "top" /\ t.off = o + 1 /\ t.sent = q /\ t.got = g /\ t.saved = v /\ t.from = sub[s].from
      BY <1>3 DEF SubState
    <2>4. t = [sub[s] EXCEPT !.pc = "top", !.off = o + 1, !.buf = EOF, !.sent = q, !.got = g, !.saved = v]
      OBVIOUS
    <2> HIDE DEF t
    <2> QED BY <2>2, <2>3, <2>4
  <1>12. sub' = [sub EXCEPT ![s] = t]
    <2> HIDE DEF o, m, q, n, g, v
    <2> QED BY <1>1, <1>11
  <1> HIDE DEF o, m, q, n, g, v
  <1>13. Sound(t)
    <2>1. o + 1 <= next
      BY <1>3, <1>4
    <2>2. g \subseteq acked
      BY <1>31, <1>4
    <2> QED BY <1>31, <1>6, <1>8, <1>11, <2>1, <2>2 DEF Sound
  <1>14. InOrder(t)
    BY <1>6, <1>9, <1>10, <1>11 DEF InOrder, Covered
  <1> QED BY <1>1, <1>2, <1>12, <1>13, <1>14, StreamStep

\* A stream that ends forgets what it read.
LEMMA DropStep ==
  ASSUME PartitionInv, NEW s \in Sub, SubDrop(s)
  PROVE  PartitionInv'
PROOF
  <1>1. /\ UNCHANGED <<logVars, acked, calls, restarts>> /\ notify' = notify /\ drops' = drops + 1
        /\ sub' = [sub EXCEPT ![s].pc = "gone", ![s].buf = EOF]
    BY DEF SubDrop
  <1>2. notify' \in BOOLEAN /\ drops' \in Nat
    BY <1>1 DEF PartitionInv, StreamTypes
  <1>3. PICK t \in SubState : /\ t = [sub[s] EXCEPT !.pc = "gone", !.buf = EOF] /\ t.pc = "gone"
                              /\ t.off = sub[s].off /\ SameStream(t, sub[s])
    <2> DEFINE t == [sub[s] EXCEPT !.pc = "gone", !.buf = EOF]
    <2>1. sub[s] \in SubState
      BY Streams
    <2>2. t \in SubState
      BY <2>1 DEF SubState
    <2>3. t.pc = "gone" /\ t.off = sub[s].off /\ SameStream(t, sub[s])
      BY <2>1 DEF SubState, SameStream
    <2>4. t = [sub[s] EXCEPT !.pc = "gone", !.buf = EOF]
      OBVIOUS
    <2> HIDE DEF t
    <2> QED BY <2>2, <2>3, <2>4
  <1>4. sub' = [sub EXCEPT ![s] = t]
    BY <1>1, <1>3
  <1>5. Sound(t) /\ InOrder(t)
    <2>1. Sound(sub[s]) /\ InOrder(sub[s])
      BY Streams
    <2>2. t.pc # "send"
      BY <1>3
    <2> QED BY <1>3, <2>1, <2>2 DEF Sound, InOrder, SameStream, Covered
  <1> QED BY <1>1, <1>2, <1>4, <1>5, StreamStep

\* A consumer that comes back has what lies below the offset it saved.
LEMMA ResubscribeStep ==
  ASSUME PartitionInv, NEW s \in Sub, Resubscribe(s)
  PROVE  PartitionInv'
PROOF
  <1> DEFINE o == sub[s].saved
  <1>1. /\ UNCHANGED <<logVars, acked, calls, restarts>> /\ notify' = notify /\ drops' = drops
        /\ sub' = [sub EXCEPT ![s].pc = "top", ![s].off = o, ![s].from = o, ![s].sent = <<>>]
    BY DEF Resubscribe
  <1>2. notify' \in BOOLEAN /\ drops' \in Nat
    BY <1>1 DEF PartitionInv, StreamTypes
  <1>3. /\ o \in Nat /\ sub[s].off \in Nat /\ o <= sub[s].off /\ sub[s].off <= next /\ next \in Nat
        /\ sub[s].got \subseteq acked /\ InOrder(sub[s]) /\ sub[s] \in SubState /\ acked \subseteq Nat \X Payload
    BY Streams DEF Sound
  <1>4. PICK t \in SubState : /\ t = [sub[s] EXCEPT !.pc = "top", !.off = o, !.from = o, !.sent = <<>>]
                              /\ t.pc = "top" /\ t.off = o /\ t.from = o /\ t.saved = o /\ t.sent = <<>>
                              /\ t.got = sub[s].got
    <2> DEFINE t == [sub[s] EXCEPT !.pc = "top", !.off = o, !.from = o, !.sent = <<>>]
    <2>1. <<>> \in Seq(Message)
      BY EmptySeq
    <2>2. t \in SubState
      BY <1>3, <2>1 DEF SubState
    <2>3. t.pc = "top" /\ t.off = o /\ t.from = o /\ t.saved = o /\ t.sent = <<>> /\ t.got = sub[s].got
      BY <1>3 DEF SubState
    <2>4. t = [sub[s] EXCEPT !.pc = "top", !.off = o, !.from = o, !.sent = <<>>]
      OBVIOUS
    <2> HIDE DEF t
    <2> QED BY <2>2, <2>3, <2>4
  <1>5. sub' = [sub EXCEPT ![s] = t]
    BY <1>1, <1>4
  <1> HIDE DEF o
  <1>6. \A i \in 1 .. Len(t.sent) : FALSE
    BY <1>4
  <1>7. Sound(t)
    BY <1>3, <1>4, <1>6 DEF Sound
  <1>8. InOrder(t)
    <2>1. ASSUME NEW m \in acked, m[1] < t.off, m[1] >= base PROVE Covered(t, m)
      <3>1. m[1] \in Nat /\ m[1] < sub[s].off /\ ~(m[1] >= t.from)
        BY <1>3, <1>4, <2>1
      <3>2. Covered(sub[s], m)
        BY <1>3, <2>1, <3>1 DEF InOrder
      <3> QED BY <1>4, <3>1, <3>2 DEF Covered
    <2> QED BY <1>6, <2>1 DEF InOrder
  <1> QED BY <1>1, <1>2, <1>5, <1>7, <1>8, StreamStep

-----------------------------------------------------------------------------
(* Every step                                                               *)

LEMMA InitStep ==
  ASSUME Init
  PROVE  PartitionInv
PROOF
  <1>1. /\ file = <<>> /\ synced = 0 /\ index = <<>> /\ base = 0 /\ next = 0 /\ open = TRUE /\ notify = FALSE
        /\ acked = {} /\ calls = 0 /\ restarts = 0 /\ drops = 0
        /\ sub = [s \in Sub |-> [pc |-> "top", off |-> 0, buf |-> EOF, saved |-> 0, from |-> 0, sent |-> <<>>, got |-> {}]]
    BY DEF Init
  <1>2. Len(file) = 0 /\ Len(index) = 0 /\ Count = 0
    BY <1>1 DEF Count
  <1>3. LogTypes /\ Recoverable /\ Assigned
    BY <1>1, <1>2 DEF LogTypes, Recoverable, Assigned
  <1>4. Indexed
    <2>1. \A i \in 1 .. Count : FALSE
      BY <1>2
    <2> QED BY <2>1 DEF Indexed
  <1>5. StreamTypes
    <2> DEFINE t == [pc |-> "top", off |-> 0, buf |-> EOF, saved |-> 0, from |-> 0, sent |-> <<>>, got |-> {}]
    <2>1. <<>> \in Seq(Message)
      BY EmptySeq
    <2>2. t \in SubState
      BY <2>1 DEF SubState
    <2>3. sub = [s \in Sub |-> t]
      BY <1>1
    <2> HIDE DEF t
    <2>4. sub \in [Sub -> SubState]
      BY <2>2, <2>3
    <2>5. notify \in BOOLEAN /\ restarts \in Nat /\ drops \in Nat
      BY <1>1
    <2> QED BY <2>4, <2>5 DEF StreamTypes
  <1>6. ASSUME NEW s \in Sub PROVE Sound(sub[s]) /\ InOrder(sub[s])
    <2>1. /\ sub[s].off = 0 /\ sub[s].pc = "top" /\ sub[s].sent = <<>> /\ sub[s].from = 0 /\ sub[s].saved = 0
          /\ sub[s].got = {}
      BY <1>1
    <2>2. \A i \in 1 .. Len(sub[s].sent) : FALSE
      BY <2>1
    <2> QED BY <1>1, <2>1, <2>2 DEF Sound, InOrder, Covered
  <1>7. StreamsSound /\ SentInOrder
    BY <1>6 DEF StreamsSound, SentInOrder, InOrder, Covered
  <1> QED BY <1>3, <1>4, <1>5, <1>7 DEF PartitionInv, LogInv

\* Steps on the log keep what the streams rely on.
LEMMA LogSteps ==
  ASSUME WritesSurvive, PartitionInv, Append_ \/ AppendFail \/ Restart
  PROVE  PartitionInv'
PROOF
  <1>1. sub \in [Sub -> SubState] /\ notify \in BOOLEAN /\ restarts \in Nat /\ drops \in Nat /\ LogInv
    BY DEF PartitionInv, StreamTypes
  <1>2. CASE Append_
    <2>1. LogInv' /\ next' = next + 1 /\ base <= base'
      BY <1>1, <1>2, AppendEffect
    <2>2. sub' = sub /\ acked' = acked \cup {<<next, calls + 1>>} /\ notify' = TRUE /\ restarts' = restarts /\ drops' = drops
      BY <1>2 DEF Append_
    <2>3. <<next, calls + 1>>[1] = next
      OBVIOUS
    <2>4. acked \subseteq acked' /\ \A m \in acked' : m \in acked \/ m[1] = next
      BY <2>2, <2>3
    <2> QED BY <1>1, <2>1, <2>2, <2>4, LogStep DEF SameStream
  <1>3. CASE AppendFail
    <2>1. LogInv' /\ next' = next /\ base <= base'
      BY <1>1, <1>3, AppendFailEffect
    <2>2. sub' = sub /\ acked' = acked /\ notify' = notify /\ restarts' = restarts /\ drops' = drops
      BY <1>3 DEF AppendFail
    <2> QED BY <1>1, <2>1, <2>2, LogStep DEF SameStream
  <1>4. CASE Restart
    <2>1. LogInv' /\ next' = next /\ base <= base'
      BY <1>1, <1>4, RestartEffect
    <2>2. /\ sub' = [s \in Sub |-> [sub[s] EXCEPT !.pc = "gone", !.buf = EOF]] /\ acked' = acked /\ notify' = FALSE
          /\ restarts' = restarts + 1 /\ drops' = drops
      BY <1>4 DEF Restart
    <2>3. ASSUME NEW s \in Sub
          PROVE  sub'[s] \in SubState /\ sub'[s].pc = "gone" /\ sub'[s].off = sub[s].off /\ SameStream(sub'[s], sub[s])
      <3>0. sub[s] \in SubState
        BY <1>1
      <3>1. sub[s] \in SubState /\ sub'[s] = [sub[s] EXCEPT !.pc = "gone", !.buf = EOF]
        BY <2>2, <3>0
      <3>2. sub'[s] \in SubState
        BY <3>1 DEF SubState
      <3>3. sub'[s].pc = "gone" /\ sub'[s].off = sub[s].off /\ SameStream(sub'[s], sub[s])
        BY <3>1 DEF SubState, SameStream
      <3> QED BY <3>2, <3>3
    <2>4. sub' \in [Sub -> SubState]
      BY <2>2, <2>3
    <2>5. restarts' = restarts + 1 /\ drops' = drops /\ acked' = acked /\ notify' = FALSE
      BY <1>4 DEF Restart
    <2>6. restarts' \in Nat
      BY <1>1, <2>5
    <2> QED BY <1>1, <2>1, <2>3, <2>4, <2>5, <2>6, LogStep
  <1> QED BY <1>2, <1>3, <1>4

\* So do the steps of the streams.
LEMMA StreamSteps ==
  ASSUME PartitionInv, NEW s \in Sub, Stream(s) \/ SubDrop(s) \/ Resubscribe(s)
  PROVE  PartitionInv' /\ UNCHANGED <<logVars, acked, calls, restarts>>
PROOF
  <1>1. notify \in BOOLEAN /\ drops \in Nat
    BY DEF PartitionInv, StreamTypes
  <1>2. CASE SubTop(s)
    BY <1>2, TopStep DEF SubTop
  <1>3. CASE SubNext(s)
    <2> DEFINE pc == IF sub[s].off >= next THEN "wait" ELSE "read"
    <2>1. pc \in {"top", "next", "wait", "read", "gone"} /\ sub' = [sub EXCEPT ![s].pc = pc]
          /\ UNCHANGED <<logVars, acked, calls, restarts>> /\ notify' = notify /\ drops' = drops
      BY <1>3 DEF SubNext
    <2> HIDE DEF pc
    <2> QED BY <1>1, <2>1, StreamMoves
  <1>4. CASE SubNotified(s) \/ SubTimeout(s)
    <2>1. /\ sub' = [sub EXCEPT ![s].pc = "top"] /\ UNCHANGED <<logVars, acked, calls, restarts>>
          /\ notify' \in BOOLEAN /\ drops' = drops
      BY <1>1, <1>4 DEF SubNotified, SubTimeout
    <2> QED BY <1>1, <2>1, StreamMoves
  <1>5. CASE SubRead(s)
    BY <1>5, ReadStep DEF SubRead
  <1>6. CASE SubSend(s)
    BY <1>6, SendStep DEF SubSend
  <1>7. CASE SubDrop(s)
    BY <1>7, DropStep DEF SubDrop
  <1>8. CASE Resubscribe(s)
    BY <1>8, ResubscribeStep DEF Resubscribe
  <1> QED BY <1>2, <1>3, <1>4, <1>5, <1>6, <1>7, <1>8 DEF Stream

\* A step that changes nothing.
LEMMA NoStep ==
  ASSUME PartitionInv, UNCHANGED vars
  PROVE  PartitionInv'
BY DEF PartitionInv, LogInv, LogTypes, Indexed, Recoverable, Assigned, Count, Pos, StreamTypes, StreamsSound, Sound,
       SentInOrder, vars, logVars

\* PartitionInv holds throughout, where writes survive.
LEMMA PartitionHolds ==
  ASSUME WritesSurvive
  PROVE  Spec => []PartitionInv
PROOF
  <1>1. Init => PartitionInv
    BY InitStep
  <1>2. PartitionInv /\ [Next]_vars => PartitionInv'
    BY LogSteps, StreamSteps, NoStep DEF Next
  <1> QED BY <1>1, <1>2, PTL DEF Spec

\* Where writes survive, every variable of the partition and its streams keeps
\* its type; the next offset is the base plus the length of the index.
THEOREM PartitionTypes ==
  ASSUME WritesSurvive
  PROVE  Spec => []TypeOK
PROOF
  <1>1. PartitionInv => TypeOK
    BY DEF PartitionInv, LogInv, LogTypes, StreamTypes, TypeOK
  <1> QED BY <1>1, PartitionHolds, PTL

\* Where writes survive, what Subscribe sends under an offset is what the publisher
\* who was given that offset had published, through trims, failed trims, restarts
\* and streams that break.
THEOREM WhatIsSentWasPublished ==
  ASSUME WritesSurvive
  PROVE  Spec => []SentAsPublished
PROOF
  <1>1. PartitionInv => SentAsPublished
    BY DEF PartitionInv, StreamsSound, Sound, SentAsPublished
  <1> QED BY <1>1, PartitionHolds, PTL

\* Where writes survive, each stream of Subscribe sends offsets in order and none
\* twice from where it was asked to begin, and a consumer that comes back with the
\* offset it saved gets some records again but misses only what trimLocked had
\* removed.
THEOREM SentInOrderWithoutGaps ==
  ASSUME WritesSurvive
  PROVE  Spec => []SentInOrder
PROOF
  <1>1. PartitionInv => SentInOrder
    BY DEF PartitionInv
  <1> QED BY <1>1, PartitionHolds, PTL

-----------------------------------------------------------------------------
(* The append-only log                                                      *)

\* The log as the abstraction sees it.
Seen == [lo |-> Low, hi |-> next, rec |-> [o \in Low .. next - 1 |-> At(o)]]
Faithful == view = Seen

\* Through the index or through the one recover would build, the same is read.
LEMMA ViewIsSeen ==
  LogInv => Faithful
PROOF
  <1> SUFFICES ASSUME LogInv PROVE Faithful
    OBVIOUS
  <1> DEFINE ix == IF open THEN index ELSE RecoverIndex(file)
             low == IF open \/ file = <<>> THEN base ELSE file[1].off
  <1>1. view = [lo |-> low, hi |-> low + Len(ix),
                rec |-> [o \in low .. low + Len(ix) - 1 |-> file[ix[o - low + 1]].id]]
    BY DEF view
  <1>2. /\ file \in Seq(Record) /\ index \in Seq(Nat) /\ Len(index) \in Nat /\ Len(file) \in Nat
        /\ base \in Nat /\ next \in Nat /\ next = base + Len(index)
    BY DEF LogInv, LogTypes
  <1>3. low = Low /\ low + Len(ix) = next /\ Len(ix) = Count /\ \A i \in 1 .. Count : ix[i] = Pos(i)
    <2>1. CASE open
      BY <1>2, <2>1 DEF Low, Count, Pos
    <2>2. CASE ~open
      <3>1. ~Tears /\ Len(file) > 0 /\ \A i \in 1 .. Len(file) : file[i].kind = "rec"
        BY <2>2 DEF LogInv, Recoverable
      <3>2. ix = [i \in 1 .. Len(file) |-> i] /\ Len(ix) = Len(file)
        BY <1>2, <2>2, <3>1, RecoverAll
      <3>3. Count = Len(file) /\ \A i : Pos(i) = i
        BY <2>2 DEF Count, Pos
      <3>4. file # <<>> /\ 1 \in 1 .. Count
        BY <1>2, <3>1, <3>3
      <3>5. low = file[1].off
        BY <2>2, <3>4
      <3>6. file[1].off = next - Count + 1 - 1
        BY <3>3, <3>4 DEF LogInv, Indexed
      <3> HIDE DEF ix, low
      <3> QED BY <1>2, <3>2, <3>3, <3>5, <3>6 DEF Low
    <2> QED BY <2>1, <2>2
  <1> HIDE DEF ix, low
  <1>4. Count \in Nat /\ Low \in Int
    BY <1>2 DEF Count, Low
  <1>5. ASSUME NEW o \in Low .. next - 1 PROVE file[ix[o - Low + 1]].id = At(o)
    <2>1. o - Low + 1 \in 1 .. Count
      BY <1>2, <1>4 DEF Low
    <2> QED BY <1>3, <2>1 DEF At
  <1>6. [o \in low .. low + Len(ix) - 1 |-> file[ix[o - low + 1]].id] = [o \in Low .. next - 1 |-> At(o)]
    <2>0. low + Len(ix) = next /\ low = Low
      BY <1>3
    <2> DEFINE n == Len(ix)
    <2>1. low .. low + n - 1 = Low .. next - 1 /\ low = Low
      <3>1. low + n = next /\ n \in Nat /\ low \in Int
        BY <1>3, <1>4
      <3> HIDE DEF n
      <3> QED BY <1>2, <2>0, <3>1
    <2>2. [o \in Low .. next - 1 |-> file[ix[o - Low + 1]].id] = [o \in Low .. next - 1 |-> At(o)]
      BY <1>5
    <2> QED BY <2>1, <2>2
  <1> QED BY <1>1, <1>3, <1>6 DEF Seen, Faithful

\* One step on the log is one step of the abstraction, or none.
LEMMA LogImplements ==
  ASSUME WritesSurvive, LogInv, LogInv', Faithful, Faithful', restarts \in Nat, [Next]_vars
  PROVE  [Log!LogNext]_(Log!logVars)
PROOF
  <1>0. /\ view.lo = Low /\ view.hi = next /\ view.rec = [o \in Low .. next - 1 |-> At(o)]
        /\ view.lo' = Low' /\ view.hi' = next' /\ view.rec' = [o \in Low' .. next' - 1 |-> At(o)']
    BY DEF Faithful, Seen
  <1>1. next \in Nat /\ Low \in Int /\ Low <= next /\ calls \in Nat /\ base \in Nat
    <2>1. next \in Nat /\ base \in Nat /\ calls \in Nat /\ Len(index) \in Nat /\ Len(file) \in Nat
      BY DEF LogInv, LogTypes
    <2>2. Count \in Nat
      BY <2>1 DEF Count
    <2> QED BY <2>1, <2>2 DEF Low
  <1>2. ASSUME next' = next, Low' = Low, \A o \in Low .. next - 1 : At(o)' = At(o)
        PROVE  UNCHANGED Log!logVars
    <2>1. [o \in Low' .. next' - 1 |-> At(o)'] = [o \in Low .. next - 1 |-> At(o)]
      BY <1>2
    <2> QED BY <1>0, <1>2, <2>1 DEF Log!logVars
  <1>3. CASE Append_
    <2>1. /\ next' = next + 1 /\ Low' \in Low .. next
          /\ \A o \in Low' .. next : At(o)' = IF o = next THEN calls + 1 ELSE At(o)
      BY <1>3, AppendEffect
    <2>2. calls + 1 \in Payload
      BY <1>1, <1>3, PartitionAssumption DEF Append_, Payload
    <2>3. [o \in Low' .. next' - 1 |-> At(o)']
            = [o \in Low' .. next |-> IF o = next THEN calls + 1 ELSE [k \in Low .. next - 1 |-> At(k)][o]]
      <3>1. next' - 1 = next
        BY <1>1, <2>1
      <3>2. ASSUME NEW o \in Low' .. next
            PROVE  At(o)' = IF o = next THEN calls + 1 ELSE [k \in Low .. next - 1 |-> At(k)][o]
        <4>1. o # next => o \in Low .. next - 1
          BY <1>1, <2>1
        <4> QED BY <2>1, <4>1
      <3> QED BY <3>1, <3>2
    <2>4. Log!Publish(calls + 1)
      BY <1>0, <2>1, <2>3 DEF Log!Publish
    <2> QED BY <2>2, <2>4 DEF Log!LogNext
  <1>4. CASE AppendFail
    BY <1>2, <1>4, AppendFailEffect
  <1>5. CASE Restart
    BY <1>2, <1>5, RestartEffect
  <1>6. ASSUME UNCHANGED logVars PROVE UNCHANGED Log!logVars
    <2>1. next' = next /\ Low' = Low /\ \A o : At(o)' = At(o)
      BY <1>6 DEF logVars, Low, At, Count, Pos
    <2> QED BY <1>2, <2>1
  <1>7. CASE \E s \in Sub : Stream(s) \/ SubDrop(s) \/ Resubscribe(s)
    <2>1. UNCHANGED logVars
      BY <1>7 DEF Stream, SubTop, SubNext, SubNotified, SubTimeout, SubRead, SubSend, SubDrop, Resubscribe
    <2> QED BY <1>6, <2>1
  <1>8. CASE UNCHANGED vars
    BY <1>6, <1>8 DEF vars
  <1> QED BY <1>3, <1>4, <1>5, <1>7, <1>8 DEF Next

\* Where writes survive, the file, the index and the offsets of partition.go,
\* through appends, trims that succeed or fail and restarts, implement an
\* append-only log in which a record keeps its offset and payload until it leaves
\* at the head.
THEOREM PartitionIsAppendLog ==
  ASSUME WritesSurvive
  PROVE  Spec => IsAppendLog
PROOF
  <1>1. PartitionInv => LogInv /\ restarts \in Nat
    BY DEF PartitionInv, StreamTypes
  <1>2. PartitionInv => Faithful
    BY <1>1, ViewIsSeen
  <1>3. PartitionInv' => Faithful'
    BY <1>2, PTL
  <1>4. PartitionInv /\ PartitionInv' /\ [Next]_vars => [Log!LogNext]_(Log!logVars)
    <2>1. PartitionInv' => LogInv'
      BY DEF PartitionInv
    <2> QED BY <1>1, <1>2, <1>3, <2>1, LogImplements
  <1>5. Init => Log!LogInit
    <2>1. Init => Faithful
      BY <1>2, InitStep
    <2>2. Init => Low = 0 /\ next = 0
      <3>1. Init => index = <<>> /\ open = TRUE /\ next = 0
        BY DEF Init
      <3>2. Init => Count = 0
        BY <3>1 DEF Count
      <3> QED BY <3>1, <3>2 DEF Low
    <2>3. Init => [o \in Low .. next - 1 |-> At(o)] = [o \in 0 .. -1 |-> 0]
      <3>1. \A o \in 0 .. -1 : FALSE
        OBVIOUS
      <3> QED BY <2>2, <3>1
    <2> QED BY <2>1, <2>2, <2>3 DEF Log!LogInit, Faithful, Seen
  <1> QED BY <1>4, <1>5, PartitionHolds, PTL DEF Spec, IsAppendLog, Log!LogSpec

=============================================================================
