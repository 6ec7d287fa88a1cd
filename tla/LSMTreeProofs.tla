--------------------------- MODULE LSMTreeProofs ---------------------------
(***************************************************************************)
(* Proofs about LSMTree, for every set of keys and readers and every bound. *)
(***************************************************************************)
EXTENDS LSMTree, TLAPS, WellFoundedInduction

\* A nonempty set of naturals with an upper bound has a largest element.
LEMMA MaxExists ==
  ASSUME NEW n \in Nat, NEW S, S \subseteq 0 .. n, S # {}
  PROVE  \E x \in S : \A y \in S : x >= y
PROOF
  <1> DEFINE T == {t \in 0 .. n : n - t \in S}
  <1>1. T \subseteq Nat /\ T # {}
    <2>1. PICK x \in S : TRUE
      OBVIOUS
    <2>2. n - x \in T
      <3>1. n - (n - x) = x /\ n - x \in 0 .. n
        OBVIOUS
      <3> QED BY <3>1
    <2>3. T \subseteq Nat
      OBVIOUS
    <2>4. T # {}
      BY <2>2, Zenon
    <2> QED BY <2>3, <2>4
  <1>2. PICK t \in T : \A u \in T : ~ (<<u, t>> \in OpToRel(<, Nat))
    <2> HIDE DEF T
    <2> QED BY <1>1, WFMin, NatLessThanWellFounded
  <1>3. \A u \in T : ~ (u < t)
    <2> HIDE DEF T
    <2> QED BY <1>1, <1>2 DEF OpToRel
  <1>4. n - t \in S /\ t \in 0 .. n
    OBVIOUS
  <1>5. ASSUME NEW y \in S PROVE n - t >= y
    <2>1. n - y \in T
      <3>1. n - (n - y) = y /\ n - y \in 0 .. n
        OBVIOUS
      <3> QED BY <3>1
    <2>2. ~ (n - y < t)
      BY <1>3, <2>1
    <2> QED BY <1>4, <2>2
  <1> QED BY <1>4, <1>5

\* Newest is the maximum of a nonempty set of versions.
LEMMA NewestIsMax ==
  ASSUME NEW S, S \subseteq Version, S # {}
  PROVE  Newest(S) \in S /\ Newest(S) \in Version /\ \A w \in S : Newest(S) >= w
PROOF
  <1>1. \E v \in S : \A w \in S : v >= w
    BY MaxExists, LSMAssumption DEF Version
  <1> QED BY <1>1 DEF Newest

-----------------------------------------------------------------------------
(* Types                                                                    *)

\* MemTable.Put and an empty memtable are tables.
LEMMA PutType ==
  ASSUME NEW t \in Table, NEW k \in Key, NEW v \in Version
  PROVE  Put(t, k, v) \in Table /\ Empty \in Table
BY LSMAssumption DEF Put, PickNewer, Table, Version, Empty

\* compactLocked makes a table that covers each of its sources.
LEMMA MergedType ==
  ASSUME NEW S, S \subseteq File, S # {}
  PROVE  /\ Merged(S) \in Table
         /\ \A f \in S, k \in Key : Merged(S)[k] >= f.data[k]
PROOF
  <1>1. ASSUME NEW k \in Key
        PROVE  /\ Newest({f.data[k] : f \in S}) \in Version
               /\ \A g \in S : Newest({f.data[k] : f \in S}) >= g.data[k]
    <2>1. {f.data[k] : f \in S} \subseteq Version
      BY DEF File, Table
    <2>2. {f.data[k] : f \in S} # {}
      OBVIOUS
    <2> QED BY <2>1, <2>2, NewestIsMax
  <1> QED BY <1>1 DEF Merged, Table

\* Replay rebuilds a table that has at least every readable record.
LEMMA ReplayedType ==
  ASSUME wal \in Seq(WalRecord)
  PROVE  /\ Replayed \in Table
         /\ \A i \in Readable : wal[i].kind = "put" =>
                                   Replayed[wal[i].key] >= wal[i].version
PROOF
  <1>1. ASSUME NEW k \in Key
        PROVE  /\ Newest({0} \cup Logged(k)) \in Version
               /\ \A w \in Logged(k) : Newest({0} \cup Logged(k)) >= w
    <2>1. \A i \in 1 .. Len(wal) : wal[i] \in WalRecord
      OBVIOUS
    <2>2. {0} \cup Logged(k) \subseteq Version
      BY <2>1, LSMAssumption DEF Logged, Readable, WalRecord, Version
    <2> QED BY <2>2, NewestIsMax
  <1>2. Replayed \in Table
    BY <1>1 DEF Replayed, Table
  <1>3. ASSUME NEW i \in Readable, wal[i].kind = "put"
        PROVE  Replayed[wal[i].key] >= wal[i].version
    <2>1. wal[i].key \in Key
      <3>1. i \in 1 .. Len(wal)
        BY DEF Readable
      <3>2. wal[i] \in WalRecord
        BY <3>1
      <3> QED BY <3>2 DEF WalRecord
    <2>2. wal[i].version \in Logged(wal[i].key)
      BY <1>3 DEF Logged
    <2> QED BY <1>1, <2>1, <2>2 DEF Replayed
  <1> QED BY <1>2, <1>3

\* What Read and Scan find is a version; Scan misses nothing it could find.
LEMMA ViewType ==
  ASSUME TypeOK, NEW k \in Key
  PROVE  /\ ReadView(k) \in Version
         /\ ScanView(k) \in Version
         /\ ScanView(k) >= memtable[k] /\ ScanView(k) >= immutable[k]
         /\ \A f \in l0 \cup l1 : ScanView(k) >= f.data[k]
PROOF
  <1>1. L1Hit(k) \subseteq Version /\ {f.data[k] : f \in l0 \cup l1} \subseteq Version
          /\ {f.data[k] : f \in l0} \subseteq Version
    BY DEF L1Hit, TypeOK, File, Table
  <1>2. {0, memtable[k], immutable[k]} \subseteq Version
    BY LSMAssumption DEF TypeOK, Table, Version
  <1> DEFINE R == {0, memtable[k], immutable[k]} \cup {f.data[k] : f \in l0} \cup L1Hit(k)
             S == {0, memtable[k], immutable[k]} \cup {f.data[k] : f \in l0 \cup l1}
  <1>3. R \subseteq Version /\ R # {} /\ S \subseteq Version /\ S # {}
    BY <1>1, <1>2
  <1>4. Newest(R) \in Version /\ Newest(S) \in Version /\ \A w \in S : Newest(S) >= w
    BY <1>3, NewestIsMax
  <1> QED BY <1>4 DEF ReadView, ScanView

\* Every step of every operation keeps the types.
LEMMA TypeStep == TypeOK /\ [Next]_vars => TypeOK'
PROOF
  <1> SUFFICES ASSUME TypeOK, [Next]_vars PROVE TypeOK'
    OBVIOUS
  <1> USE LSMAssumption
  <1>1. ASSUME NEW k \in Key, NEW v \in Version \ {0}, WriteAppend(k, v) PROVE TypeOK'
    BY <1>1 DEF WriteAppend, TypeOK, memVars, PcState, WalRecord
  <1>2. CASE WriteShort
    BY <1>2 DEF WriteShort, Mark, TypeOK, memVars, PcState, WalRecord, Version
  <1>3. CASE WalSync
    BY <1>3 DEF WalSync, TypeOK, memVars, count, PcState
  <1>4. CASE WalSyncFail
    BY <1>4 DEF WalSyncFail, TypeOK, memVars, diskVars, count, PcState
  <1>5. CASE MemPut
    BY <1>5, PutType DEF MemPut, TypeOK, diskVars, count, PcState
  <1>6. CASE CommitInvalidate
    <2>1. PICK m \in CommitMarker : wal' = Append(wal, m)
      BY <1>6 DEF CommitInvalidate
    <2>2. m \in WalRecord
      BY <2>1 DEF CommitMarker, Mark, WalRecord, TypeOK, Version
    <2>3. wal' \in Seq(WalRecord) /\ Len(wal') = Len(wal) + 1
      BY <2>1, <2>2 DEF TypeOK
    <2>4. cache' \in Table
      BY <1>6 DEF CommitInvalidate, TypeOK, Table, Version
    <2> QED BY <1>6, <2>3, <2>4 DEF CommitInvalidate, TypeOK, count, PcState
  <1>7. CASE Ack
    BY <1>7, PutType DEF Ack, TypeOK, memVars, diskVars, count, PcState
  <1>8. CASE Flush
    BY <1>8 DEF Flush, TypeOK, memVars, diskVars, count, PcState, Version
  <1>9. CASE FlushSwap
    BY <1>9, PutType DEF FlushSwap, TypeOK, diskVars, count, PcState
  <1>10. CASE FlushWrite
    BY <1>10 DEF FlushWrite, NewFile, TypeOK, memVars, PcState, File
  <1>11. CASE FlushFail
    BY <1>11, PutType DEF FlushFail, TypeOK, diskVars, count, PcState
  <1>12. CASE FlushInstall
    BY <1>12, PutType DEF FlushInstall, TypeOK, diskVars, count, PcState
  <1>13. CASE Rotate
    BY <1>13 DEF Rotate, TypeOK, memVars, count, PcState
  <1>14. CASE RotateFail
    <2>1. wal' \in Seq(WalRecord) /\ synced' \in 0 .. Len(wal')
      <3>1. CASE UNCHANGED <<wal, synced>>
        BY <3>1 DEF TypeOK
      <3>2. CASE wal' = <<>> /\ synced' = 0
        BY <3>2
      <3> QED BY <1>14, <3>1, <3>2 DEF RotateFail
    <2> QED BY <1>14, <2>1 DEF RotateFail, TypeOK, memVars, count, PcState
  <1>15. CASE CompactWrite
    <2>1. Merged(l0 \cup l1) \in Table
      BY <1>15, MergedType DEF CompactWrite, TypeOK
    <2>2. new' \in File
      BY <1>15, <2>1 DEF CompactWrite, NewFile, TypeOK, File
    <2> QED BY <1>15, <2>2 DEF CompactWrite, TypeOK, memVars, PcState
  <1>16. CASE CompactFail
    BY <1>16 DEF CompactFail, TypeOK, memVars, diskVars, count, PcState
  <1>17. CASE CompactRemove
    BY <1>17 DEF CompactRemove, NextSource, TypeOK, memVars, count, PcState
  <1>18. CASE CompactSwap
    BY <1>18 DEF CompactSwap, TypeOK, diskVars, count, PcState
  <1>19. ASSUME NEW r \in Reader, Read(r) PROVE TypeOK'
    <2>1. ASSUME NEW k \in Key, ReadBegin(r, k) PROVE TypeOK'
      BY <2>1 DEF ReadBegin, TypeOK, memVars, diskVars, count, RdState, Table
    <2>2. CASE ReadLocked(r)
      BY <2>2, ViewType DEF ReadLocked, TypeOK, memVars, diskVars, count, RdState
    <2>3. CASE ReadFill(r)
      <3>1. CachePut(rd[r].key, rd[r].val) \subseteq Table
        <4>1. rd[r].key \in Key /\ rd[r].val \in Version /\ cache \in [Key -> Version]
          BY DEF TypeOK, RdState, Table
        <4>2. [cache EXCEPT ![rd[r].key] = rd[r].val] \in [Key -> Version]
          BY <4>1
        <4>3. 0 \in Version
          BY DEF Version
        <4> QED BY <4>2, <4>3 DEF CachePut, Table
      <3> QED BY <2>3, <3>1 DEF ReadFill, TypeOK, diskVars, count, RdState
    <2>4. CASE ReadReturn(r)
      <3>1. rd' \in [Reader -> RdState]
        <4>1. 0 \in Version
          BY DEF Version
        <4>2. rd \in [Reader -> RdState]
          BY DEF TypeOK
        <4>3. rd[r] \in RdState
          BY <4>2
        <4>4. [rd[r] EXCEPT !.pc = "idle", !.floor = 0, !.val = 0] \in RdState
          BY <4>1, <4>3 DEF RdState
        <4>5. rd' = [rd EXCEPT ![r] = [rd[r] EXCEPT !.pc = "idle", !.floor = 0, !.val = 0]]
          BY <2>4, <4>2, <4>3 DEF ReadReturn, RdState
        <4> QED BY <4>2, <4>4, <4>5
      <3> QED BY <2>4, <3>1 DEF ReadReturn, TypeOK, memVars, diskVars, count
    <2> QED BY <1>19, <2>1, <2>2, <2>3, <2>4 DEF Read
  <1>20. ASSUME LoseMemory, wal' \in Seq(WalRecord), synced' \in 0 .. Len(wal') PROVE TypeOK'
    <2>1. 0 \in Version
      BY DEF Version
    <2>2. ASSUME NEW r \in Reader
          PROVE  [rd[r] EXCEPT !.pc = "idle", !.floor = 0, !.val = 0] \in RdState
      BY <2>1 DEF TypeOK, RdState
    <2>3. rd' \in [Reader -> RdState]
      BY <1>20, <2>2 DEF LoseMemory
    <2>4. Empty \in Table
      BY <2>1 DEF Empty, Table
    <2>5. up' = FALSE /\ pc' = "idle" /\ l0' = {} /\ l1' = {} /\ rem' = {}
      BY <1>20 DEF LoseMemory
    <2>7. /\ cur' \in [key : Key, version : Version]
          /\ disk' \subseteq File /\ new' \in File /\ acked' \in Table
      BY <1>20 DEF LoseMemory, TypeOK
    <2>8. now' \in Nat /\ writes' \in Nat /\ crashes' \in Nat
      <3>1. now \in Nat /\ writes \in Nat /\ crashes \in Nat
        BY DEF TypeOK
      <3>2. now' = now /\ writes' = writes /\ crashes' = crashes + 1
        BY <1>20 DEF LoseMemory
      <3> QED BY <3>1, <3>2
    <2>6. memtable' \in Table /\ immutable' \in Table /\ cache' \in Table
      BY <1>20, <2>4 DEF LoseMemory
    <2> QED BY <1>20, <2>3, <2>5, <2>6, <2>7, <2>8 DEF TypeOK, PcState
  <1>21. CASE Stop
    BY <1>20, <1>21 DEF Stop, TypeOK
  <1>22. CASE Crash
    <2>1. wal' \in Seq(WalRecord)
      <3>1. Mark("torn") \in WalRecord
        BY DEF Mark, WalRecord, TypeOK, Version
      <3>2. PICK n \in synced .. Len(wal) : wal' \in Surviving(n)
        BY <1>22 DEF Crash
      <3>3. SubSeq(wal, 1, n) \in Seq(WalRecord)
        BY DEF TypeOK
      <3>4. Append(SubSeq(wal, 1, n), Mark("torn")) \in Seq(WalRecord)
        BY <3>1, <3>3
      <3>5. wal' = SubSeq(wal, 1, n) \/ wal' = Append(SubSeq(wal, 1, n), Mark("torn"))
        BY <3>2 DEF Surviving
      <3> QED BY <3>3, <3>4, <3>5
    <2> QED BY <1>20, <1>22, <2>1 DEF Crash
  <1>23. CASE Recover
    BY <1>23, ReplayedType DEF Recover, TypeOK, diskVars, count
  <1>24. CASE UNCHANGED vars
    BY <1>24 DEF TypeOK, vars, memVars, diskVars, count
  <1> QED
    BY <1>1, <1>2, <1>3, <1>4, <1>5, <1>6, <1>7, <1>8, <1>9, <1>10, <1>11, <1>12, <1>13,
       <1>14, <1>15, <1>16, <1>17, <1>18, <1>19, <1>21, <1>22, <1>23, <1>24
    DEF Next, Writer, Flusher, Compactor

\* Type correctness, for every action of Write, Flush, compaction, Read, crash
\* and recovery.
THEOREM TypeCorrect == Spec => []TypeOK
PROOF
  <1>1. Init => TypeOK
    BY LSMAssumption DEF Init, TypeOK, Empty, Table, Version, File, PcState, RdState, WalRecord
  <1>2. TypeOK /\ [Next]_vars => TypeOK'
    BY TypeStep
  <1> QED BY <1>1, <1>2, PTL DEF Spec

-----------------------------------------------------------------------------
(* Durability.                                                              *)

\* Replay reads a WAL without half-written records to its end.
LEMMA UntornReadable ==
  ASSUME Untorn PROVE Readable = 1 .. Len(wal)
BY DEF Untorn, Readable

\* Durable survives every step that keeps the fsynced records and the files.
LEMMA DurableKept ==
  ASSUME TypeOK, TypeOK', Untorn, Untorn',
         disk \subseteq disk', synced <= synced',
         \A i \in 1 .. synced : wal'[i] = wal[i],
         NEW k, NEW v, Durable(k, v)
  PROVE  Durable(k, v)'
PROOF
  <1>1. Readable = 1 .. Len(wal) /\ Readable' = 1 .. Len(wal')
    BY UntornReadable DEF Untorn, Readable
  <1>2. synced \in 0 .. Len(wal) /\ synced' \in 0 .. Len(wal') /\ Len(wal) \in Nat /\ Len(wal') \in Nat
    BY DEF TypeOK
  <1>3. CASE v = 0 \/ \E f \in disk : f.data[k] >= v
    BY <1>3 DEF Durable
  <1>4. ASSUME NEW i \in Readable, i <= synced, wal[i].kind = "put", wal[i].key = k, wal[i].version >= v
        PROVE  Durable(k, v)'
    <2>1. i \in 1 .. synced /\ i \in Readable' /\ i <= synced'
      BY <1>1, <1>2, <1>4
    <2>2. wal'[i] = wal[i]
      BY <2>1
    <2> QED BY <1>4, <2>1, <2>2 DEF Durable
  <1> QED BY <1>3, <1>4 DEF Durable

\* A step that touches nothing of the storage keeps the invariant.
LEMMA StorageQuiet ==
  ASSUME StorageInv,
         UNCHANGED <<up, pc, cur, memtable, immutable, l0, l1, new, rem, disk, wal, synced, acked, now>>
  PROVE  StorageInv'
BY DEF StorageInv, Untorn, CurInv, FlushInv, LevelInv, AckedDurable, Durable, Held, Readable

\* What Write does: the entry is logged, fsynced, put in the memtable and
\* acknowledged.
LEMMA StorageWriter ==
  ASSUME ~CrashTears, ~ShortWrites, TypeOK, TypeOK', StorageInv, Writer
  PROVE  StorageInv'
PROOF
  <1> USE LSMAssumption
  <1>1. ASSUME NEW k \in Key, NEW v \in Version \ {0}, WriteAppend(k, v) PROVE StorageInv'
    <2>1. /\ up /\ pc = "idle" /\ pc' = "append"
          /\ cur' = [key |-> k, version |-> v]
          /\ wal' = Append(wal, [kind |-> "put", key |-> k, version |-> v])
          /\ UNCHANGED <<up, memtable, immutable, l0, l1, new, rem, disk, synced, acked, now>>
      BY <1>1 DEF WriteAppend, CanLock, Unlocked, memVars
    <2>2. wal \in Seq(WalRecord) /\ synced \in 0 .. Len(wal)
      BY DEF TypeOK
    <2>3. /\ Len(wal') = Len(wal) + 1
          /\ wal'[Len(wal) + 1] = [kind |-> "put", key |-> k, version |-> v]
          /\ \A i \in 1 .. Len(wal) : wal'[i] = wal[i]
      BY <2>1, <2>2
    <2>4. Untorn'
      BY <2>2, <2>3 DEF Untorn, StorageInv
    <2>5. AckedDurable'
      <3> SUFFICES ASSUME NEW j \in Key PROVE Durable(j, acked[j])'
        BY DEF AckedDurable
      <3>1. Durable(j, acked[j])
        BY DEF StorageInv, AckedDurable
      <3>2. \A i \in 1 .. synced : wal'[i] = wal[i]
        BY <2>2, <2>3
      <3>3. Untorn /\ disk \subseteq disk' /\ synced <= synced' /\ acked'[j] = acked[j]
        BY <2>1, <2>2 DEF StorageInv
      <3> QED BY <3>1, <3>2, <3>3, <2>4, DurableKept DEF Durable
    <2>6. CurInv'
      BY <2>1, <2>2, <2>3 DEF CurInv
    <2>7. FlushInv' /\ LevelInv'
      BY <2>1 DEF StorageInv, FlushInv, LevelInv
    <2>8. (\A j \in Key : Held(j, acked[j]))' /\ (~up => pc = "idle")'
      BY <2>1 DEF StorageInv, Held
    <2> QED BY <2>4, <2>5, <2>6, <2>7, <2>8 DEF StorageInv
  <1>2. CASE WriteShort
    BY <1>2 DEF WriteShort
  <1>3. CASE WalSync
    <2>1. /\ pc = "append" /\ pc' = "put" /\ synced' = Len(wal)
          /\ UNCHANGED <<up, cur, memtable, immutable, l0, l1, new, rem, disk, wal, acked, now>>
      BY <1>3 DEF WalSync, memVars, count
    <2>2. Untorn /\ Untorn'
      BY <2>1 DEF Untorn, StorageInv
    <2>3. synced \in 0 .. Len(wal) /\ wal \in Seq(WalRecord)
      BY DEF TypeOK
    <2>7. ASSUME NEW j, NEW v, Durable(j, v) PROVE Durable(j, v)'
      BY <2>1, <2>2, <2>3, <2>7, DurableKept
    <2>4. AckedDurable'
      BY <2>1, <2>7 DEF StorageInv, AckedDurable
    <2>5. Durable(cur.key, cur.version)'
      <3>1. Len(wal) \in Readable' /\ Len(wal) <= synced'
        BY <2>1, <2>2, <2>3, UntornReadable DEF StorageInv, CurInv, Readable
      <3>2. wal'[Len(wal)] = [kind |-> "put", key |-> cur'.key, version |-> cur'.version]
        BY <2>1 DEF StorageInv, CurInv
      <3>3. cur'.version \in Nat
        BY DEF TypeOK, Version
      <3> QED BY <3>1, <3>2, <3>3 DEF Durable
    <2>6. CurInv'
      BY <2>1, <2>5 DEF CurInv
    <2> QED BY <2>1, <2>2, <2>4, <2>6 DEF StorageInv, FlushInv, LevelInv, AckedDurable, Held
  <1>4. CASE WalSyncFail
    BY <1>4 DEF WalSyncFail, memVars, diskVars, count,
       StorageInv, Untorn, CurInv, FlushInv, LevelInv, AckedDurable, Durable, Held, Readable
  <1>5. CASE MemPut
    <2>1. /\ pc = "put" /\ pc' = "commit"
          /\ memtable' = Put(memtable, cur.key, cur.version)
          /\ UNCHANGED <<up, cur, immutable, l0, l1, new, rem, disk, wal, synced, acked, now>>
      BY <1>5 DEF MemPut, diskVars, count
    <2>2. /\ \A k \in Key : memtable'[k] >= memtable[k] /\ memtable'[k] \in Nat /\ memtable[k] \in Nat
          /\ memtable'[cur.key] >= cur.version
      <3>1. /\ memtable \in [Key -> Version] /\ memtable' \in [Key -> Version]
            /\ cur.key \in Key /\ cur.version \in Version
        BY DEF TypeOK, Table
      <3>2. memtable' = [memtable EXCEPT ![cur.key] = PickNewer(@, cur.version)]
        BY <2>1 DEF Put
      <3> QED BY <3>1, <3>2 DEF PickNewer, Version
    <2>3. ASSUME NEW k \in Key, NEW v \in Version, Held(k, v) PROVE Held(k, v)'
      BY <2>1, <2>2, <2>3 DEF Held, Version
    <2>4. Held(cur.key, cur.version)'
      BY <2>1, <2>2 DEF Held
    <2>5. CurInv'
      BY <2>1, <2>4 DEF StorageInv, CurInv, Durable, Readable
    <2>6. \A k \in Key : up => Held(k, acked[k])'
      BY <2>1, <2>3 DEF StorageInv, TypeOK, Table, Held
    <2> QED BY <2>1, <2>5, <2>6
        DEF StorageInv, Untorn, FlushInv, LevelInv, AckedDurable, Durable, Readable
  <1>6. CASE CommitInvalidate
    <2>1. /\ pc = "commit" /\ pc' \in {"flush", "ack"}
          /\ wal' = Append(wal, Mark("commit"))
          /\ UNCHANGED <<up, cur, memtable, immutable, l0, l1, new, rem, disk, synced, acked, now>>
      BY <1>6 DEF CommitInvalidate, CommitMarker, count
    <2>2. wal \in Seq(WalRecord) /\ synced \in 0 .. Len(wal)
      BY DEF TypeOK
    <2>3. /\ Len(wal') = Len(wal) + 1
          /\ wal'[Len(wal) + 1] = Mark("commit")
          /\ \A i \in 1 .. Len(wal) : wal'[i] = wal[i]
      BY <2>1, <2>2
    <2>4. Untorn /\ Untorn'
      BY <2>2, <2>3 DEF Untorn, StorageInv, Mark
    <2>5. \A i \in 1 .. synced : wal'[i] = wal[i]
      BY <2>2, <2>3
    <2>6. ASSUME NEW j, NEW v, Durable(j, v) PROVE Durable(j, v)'
      BY <2>1, <2>2, <2>4, <2>5, <2>6, DurableKept
    <2>7. AckedDurable'
      BY <2>1, <2>6 DEF StorageInv, AckedDurable
    <2>8. Durable(cur.key, cur.version)' /\ Held(cur.key, cur.version)'
      BY <2>1, <2>6 DEF StorageInv, CurInv, Held
    <2>9. CurInv'
      BY <2>1, <2>8 DEF CurInv
    <2> QED BY <2>1, <2>4, <2>7, <2>9 DEF StorageInv, FlushInv, LevelInv, Held
  <1>7. CASE Ack
    <2>1. /\ pc = "ack" /\ pc' = "idle" /\ acked' = Put(acked, cur.key, cur.version)
          /\ UNCHANGED <<up, cur, memtable, immutable, l0, l1, new, rem, disk, wal, synced, now>>
      BY <1>7 DEF Ack, memVars, diskVars, count
    <2>2. \A k \in Key : acked'[k] = acked[k] \/ (k = cur.key /\ acked'[k] = cur.version)
      BY <2>1 DEF Put, PickNewer, TypeOK, Table
    <2>3. AckedDurable'
      BY <2>1, <2>2 DEF StorageInv, AckedDurable, CurInv, Durable, Readable
    <2>4. up => \A k \in Key : Held(k, acked[k])'
      BY <2>1, <2>2 DEF StorageInv, CurInv, Held
    <2> QED BY <2>1, <2>3, <2>4 DEF StorageInv, Untorn, CurInv, FlushInv, LevelInv
  <1> QED BY <1>1, <1>2, <1>3, <1>4, <1>5, <1>6, <1>7 DEF Writer

\* What flushLocked does: the memtable becomes a table before the WAL that
\* held it is cut.
LEMMA StorageFlusher ==
  ASSUME TypeOK, TypeOK', StorageInv, Flusher
  PROVE  StorageInv'
PROOF
  <1> USE LSMAssumption
  <1>0. /\ memtable \in [Key -> Version] /\ immutable \in [Key -> Version]
        /\ acked \in [Key -> Version] /\ cur.key \in Key /\ cur.version \in Version
        /\ wal \in Seq(WalRecord) /\ synced \in 0 .. Len(wal) /\ now \in Nat
        /\ disk \subseteq File /\ Untorn
    BY DEF TypeOK, Table, StorageInv
  <1>1. CASE Flush
    <2>1. /\ pc = "idle" /\ pc' = "flush" /\ cur' = [cur EXCEPT !.version = 0] /\ up
          /\ UNCHANGED <<up, memtable, immutable, l0, l1, new, rem, disk, wal, synced, acked, now>>
      BY <1>1 DEF Flush, CanLock, Unlocked, memVars, diskVars, count
    <2>2. cur'.version = 0
      BY <2>1 DEF TypeOK
    <2>3. CurInv'
      BY <2>1, <2>2 DEF CurInv, Durable, Held
    <2> QED BY <2>1, <2>3
        DEF StorageInv, Untorn, FlushInv, LevelInv, AckedDurable, Durable, Held, Readable
  <1>2. CASE FlushSwap
    <2>1. /\ pc = "flush" /\ pc' = "table" /\ immutable' = memtable /\ memtable' = Empty
          /\ UNCHANGED <<up, cur, l0, l1, new, rem, disk, wal, synced, acked, now>>
      BY <1>2 DEF FlushSwap, diskVars, count
    <2>2. immutable = Empty
      BY <2>1 DEF StorageInv, FlushInv
    <2>3. ASSUME NEW k \in Key, NEW v \in Version, Held(k, v) PROVE Held(k, v)'
      BY <2>1, <2>2, <2>3 DEF Held, Empty, Version
    <2>4. CurInv'
      <3>1. Durable(cur.key, cur.version)'
        BY <2>1 DEF StorageInv, CurInv, Durable, Readable
      <3>2. Held(cur.key, cur.version)'
        BY <1>0, <2>1, <2>3 DEF StorageInv, CurInv
      <3> QED BY <2>1, <3>1, <3>2 DEF CurInv
    <2>5. up => \A k \in Key : Held(k, acked[k])'
      BY <1>0, <2>1, <2>3 DEF StorageInv
    <2>6. FlushInv'
      BY <2>1 DEF FlushInv
    <2> QED BY <2>1, <2>4, <2>5, <2>6 DEF StorageInv, Untorn, LevelInv, AckedDurable, Durable, Readable
  <1>3. CASE FlushWrite
    <2>1. /\ pc = "table" /\ pc' = "install" /\ new' = NewFile(0, immutable)
          /\ disk' = disk \cup {new'} /\ now' = now + 1
          /\ UNCHANGED <<up, cur, memtable, immutable, l0, l1, rem, wal, synced, acked>>
      BY <1>3 DEF FlushWrite, memVars
    <2>2. new'.data = immutable /\ new'.stamp = now + 1
      BY <2>1 DEF NewFile
    <2>3. ASSUME NEW j, NEW v, Durable(j, v) PROVE Durable(j, v)'
      BY <2>1, <2>3 DEF Durable, Readable
    <2>4. AckedDurable'
      BY <2>1, <2>3 DEF StorageInv, AckedDurable
    <2>5. CurInv'
      <3>1. Durable(cur.key, cur.version)' /\ Held(cur.key, cur.version)'
        BY <2>1, <2>3 DEF StorageInv, CurInv, Held
      <3> QED BY <2>1, <3>1 DEF CurInv
    <2>6. FlushInv'
      BY <2>1, <2>2 DEF StorageInv, FlushInv
    <2>7. LevelInv'
      <3>1. \A f \in disk \cup l0 \cup l1 : f.stamp \in Nat /\ f.stamp <= now
        BY DEF StorageInv, LevelInv, TypeOK, File
      <3> QED BY <1>0, <2>1, <2>2, <3>1 DEF StorageInv, LevelInv
    <2> QED BY <2>1, <2>4, <2>5, <2>6, <2>7 DEF StorageInv, Untorn, Held
  <1>4. CASE FlushFail
    <2>1. /\ pc \in {"table", "install"} /\ pc' = "idle"
          /\ memtable' = immutable /\ immutable' = Empty
          /\ UNCHANGED <<up, cur, l0, l1, new, rem, disk, wal, synced, acked, now>>
      BY <1>4 DEF FlushFail, diskVars, count
    <2>2. memtable = Empty
      BY <2>1 DEF StorageInv, FlushInv
    <2>3. ASSUME NEW k \in Key, NEW v \in Version, Held(k, v) PROVE Held(k, v)'
      BY <2>1, <2>2, <2>3 DEF Held, Empty, Version
    <2>4. up => \A k \in Key : Held(k, acked[k])'
      BY <1>0, <2>1, <2>3 DEF StorageInv
    <2> QED BY <2>1, <2>4
        DEF StorageInv, Untorn, CurInv, FlushInv, LevelInv, AckedDurable, Durable, Readable
  <1>5. CASE FlushInstall
    <2>1. /\ pc = "install" /\ pc' = "rotate" /\ l0' = l0 \cup {new} /\ immutable' = Empty
          /\ UNCHANGED <<up, cur, memtable, l1, new, rem, disk, wal, synced, acked, now>>
      BY <1>5 DEF FlushInstall, diskVars, count
    <2>2. new \in disk /\ new.data = immutable
      BY <2>1 DEF StorageInv, FlushInv
    <2>3. ASSUME NEW k \in Key, NEW v \in Version, Held(k, v) PROVE Held(k, v)'
      BY <2>1, <2>2, <2>3 DEF Held
    <2>4. CurInv'
      <3>1. Durable(cur.key, cur.version)'
        BY <2>1 DEF StorageInv, CurInv, Durable, Readable
      <3>2. Held(cur.key, cur.version)'
        BY <1>0, <2>1, <2>3 DEF StorageInv, CurInv
      <3> QED BY <2>1, <3>1, <3>2 DEF CurInv
    <2>5. up => \A k \in Key : Held(k, acked[k])'
      BY <1>0, <2>1, <2>3 DEF StorageInv
    <2>6. FlushInv' /\ LevelInv'
      BY <2>1, <2>2 DEF StorageInv, FlushInv, LevelInv
    <2> QED BY <2>1, <2>4, <2>5, <2>6 DEF StorageInv, Untorn, AckedDurable, Durable, Readable
  <1>6. ASSUME pc = "rotate", pc' \in {"compact", "ack", "idle"}, wal' = <<>>,
               UNCHANGED <<up, cur, memtable, immutable, l0, l1, new, rem, disk, acked, now>>
        PROVE  StorageInv'
    <2>1. up /\ memtable = Empty /\ immutable = Empty /\ l0 \cup l1 \subseteq disk
      BY <1>6 DEF StorageInv, FlushInv, LevelInv
    <2>2. ASSUME NEW k \in Key, NEW v \in Version, Held(k, v) PROVE Durable(k, v)' /\ Held(k, v)'
      <3>1. v = 0 \/ \E f \in disk : f.data[k] >= v
        BY <2>1, <2>2 DEF Held, Empty, Version
      <3> QED BY <1>6, <2>2, <3>1 DEF Durable, Held
    <2>3. AckedDurable' /\ (\A k \in Key : Held(k, acked[k]))'
      BY <1>0, <1>6, <2>1, <2>2 DEF StorageInv, AckedDurable
    <2>4. CurInv'
      <3>1. Durable(cur.key, cur.version)' /\ Held(cur.key, cur.version)'
        BY <1>0, <1>6, <2>2 DEF StorageInv, CurInv
      <3> QED BY <1>6, <3>1 DEF CurInv
    <2>5. Untorn'
      BY <1>6 DEF Untorn
    <2> QED BY <1>6, <2>1, <2>3, <2>4, <2>5 DEF StorageInv, FlushInv, LevelInv
  <1>7. CASE Rotate
    BY <1>6, <1>7 DEF Rotate, memVars, count
  <1>8. CASE RotateFail
    <2>1. CASE wal' = <<>> /\ synced' = 0
      BY <1>6, <1>8, <2>1 DEF RotateFail, memVars, count
    <2>2. CASE UNCHANGED <<wal, synced>>
      BY <1>8, <2>2 DEF RotateFail, memVars, count,
         StorageInv, Untorn, CurInv, FlushInv, LevelInv, AckedDurable, Durable, Held, Readable
    <2> QED BY <1>8, <2>1, <2>2 DEF RotateFail
  <1> QED BY <1>1, <1>2, <1>3, <1>4, <1>5, <1>7, <1>8 DEF Flusher

\* What compactLocked does: no source goes before the merged table, which
\* covers it, is complete.
LEMMA StorageCompactor ==
  ASSUME TypeOK, TypeOK', StorageInv, Compactor
  PROVE  StorageInv'
PROOF
  <1> USE LSMAssumption
  <1>0. /\ acked \in [Key -> Version] /\ cur.key \in Key /\ cur.version \in Version
        /\ wal \in Seq(WalRecord) /\ synced \in 0 .. Len(wal) /\ now \in Nat
        /\ disk \subseteq File /\ l0 \subseteq File /\ l1 \subseteq File /\ new \in File
    BY DEF TypeOK, Table
  <1>1. CASE CompactWrite
    <2>1. /\ pc = "compact" /\ pc' = "merged" /\ new' = NewFile(1, Merged(l0 \cup l1))
          /\ disk' = disk \cup {new'} /\ now' = now + 1 /\ rem' = l0 \cup l1
          /\ UNCHANGED <<up, cur, memtable, immutable, l0, l1, wal, synced, acked>>
          /\ l0 \cup l1 # {}
      BY <1>1 DEF CompactWrite, memVars
    <2>2. new'.data = Merged(l0 \cup l1) /\ new'.stamp = now + 1
      BY <2>1 DEF NewFile
    <2>3. ASSUME NEW j, NEW v, Durable(j, v) PROVE Durable(j, v)'
      BY <2>1, <2>3 DEF Durable, Readable
    <2>4. AckedDurable'
      BY <2>1, <2>3 DEF StorageInv, AckedDurable
    <2>5. CurInv'
      <3>1. Durable(cur.key, cur.version)' /\ Held(cur.key, cur.version)'
        BY <2>1, <2>3 DEF StorageInv, CurInv, Held
      <3> QED BY <2>1, <3>1 DEF CurInv
    <2>6. LevelInv'
      <3>1. \A f \in disk \cup l0 \cup l1 : f.stamp \in Nat /\ f.stamp <= now
        BY DEF StorageInv, LevelInv, TypeOK, File
      <3>2. \A f \in l0 \cup l1, k \in Key : new'.data[k] >= f.data[k]
        BY <1>0, <2>1, <2>2, MergedType
      <3>3. new' \notin l0 \cup l1
        BY <1>0, <2>2, <3>1
      <3>4. \A f \in disk' \cup l0' \cup l1' : f.stamp <= now'
        BY <1>0, <2>1, <2>2, <3>1
      <3>5. l0' \cup l1' \subseteq disk'
        BY <2>1 DEF StorageInv, LevelInv
      <3> QED BY <2>1, <3>2, <3>3, <3>4, <3>5 DEF LevelInv
    <2> QED BY <2>1, <2>4, <2>5, <2>6 DEF StorageInv, Untorn, FlushInv, Held
  <1>2. CASE CompactFail
    BY <1>2 DEF CompactFail, memVars, diskVars, count,
       StorageInv, Untorn, CurInv, FlushInv, LevelInv, AckedDurable, Durable, Held, Readable
  <1>3. CASE CompactRemove
    <2>1. /\ pc \in {"merged", "remove"} /\ pc' = "remove"
          /\ UNCHANGED <<up, cur, memtable, immutable, l0, l1, new, wal, synced, acked, now>>
      BY <1>3 DEF CompactRemove, memVars, count
    <2>2. PICK f \in rem : rem' = rem \ {f} /\ disk' \in {disk, disk \ {f}}
      BY <1>3 DEF CompactRemove, NextSource
    <2>3. /\ f \in l0 \cup l1 /\ new \in disk /\ new # f
          /\ \A k \in Key : new.data[k] >= f.data[k]
          /\ rem \subseteq l0 \cup l1
      BY <2>1 DEF StorageInv, LevelInv
    <2>4. new \in disk'
      BY <2>2, <2>3
    <2>5. ASSUME NEW k \in Key, NEW v \in Version, Durable(k, v) PROVE Durable(k, v)'
      <3>1. CASE \E g \in disk : g.data[k] >= v
        <4>1. PICK g \in disk : g.data[k] >= v
          BY <3>1
        <4>2. CASE g = f
          <5>1. new.data[k] \in Version /\ f.data[k] \in Version /\ new.data[k] >= f.data[k]
            BY <1>0, <2>3 DEF File, Table
          <5>2. new'.data[k] >= v
            BY <2>1, <4>1, <4>2, <5>1 DEF Version
          <5> QED BY <2>1, <2>4, <5>2 DEF Durable
        <4>3. CASE g # f
          BY <2>2, <4>1, <4>3 DEF Durable
        <4> QED BY <4>2, <4>3
      <3> QED BY <2>1, <2>5, <3>1 DEF Durable, Readable
    <2>6. AckedDurable'
      BY <1>0, <2>1, <2>5 DEF StorageInv, AckedDurable
    <2>7. CurInv'
      <3>1. Durable(cur.key, cur.version)' /\ Held(cur.key, cur.version)'
        BY <1>0, <2>1, <2>5 DEF StorageInv, CurInv, Held
      <3> QED BY <2>1, <3>1 DEF CurInv
    <2>8. LevelInv'
      BY <2>1, <2>2, <2>3, <2>4 DEF StorageInv, LevelInv
    <2> QED BY <2>1, <2>6, <2>7, <2>8 DEF StorageInv, Untorn, FlushInv, Held
  <1>4. CASE CompactSwap
    <2>1. /\ pc = "remove" /\ pc' = "ack" /\ l0' = {} /\ l1' = {new}
          /\ UNCHANGED <<up, cur, memtable, immutable, new, rem, disk, wal, synced, acked, now>>
      BY <1>4 DEF CompactSwap, diskVars, count
    <2>2. new \in disk /\ \A f \in l0 \cup l1, k \in Key : new.data[k] >= f.data[k]
      BY <2>1 DEF StorageInv, LevelInv
    <2>3. ASSUME NEW k \in Key, NEW v \in Version, Held(k, v) PROVE Held(k, v)'
      <3>1. ASSUME NEW f \in l0 \cup l1, f.data[k] >= v PROVE new.data[k] >= v
        <4>1. f.data[k] \in Version /\ new.data[k] \in Version
          BY <1>0 DEF File, Table
        <4> QED BY <2>2, <3>1, <4>1 DEF Version
      <3> QED BY <2>1, <2>3, <3>1 DEF Held
    <2>4. CurInv'
      <3>1. Durable(cur.key, cur.version)'
        BY <2>1 DEF StorageInv, CurInv, Durable, Readable
      <3>2. Held(cur.key, cur.version)'
        BY <1>0, <2>1, <2>3 DEF StorageInv, CurInv
      <3> QED BY <2>1, <3>1, <3>2 DEF CurInv
    <2>5. up => \A k \in Key : Held(k, acked[k])'
      BY <1>0, <2>1, <2>3 DEF StorageInv
    <2>6. LevelInv'
      BY <2>1, <2>2 DEF StorageInv, LevelInv
    <2> QED BY <2>1, <2>4, <2>5, <2>6 DEF StorageInv, Untorn, FlushInv, AckedDurable, Durable, Readable
  <1> QED BY <1>1, <1>2, <1>3, <1>4 DEF Compactor

\* A stop or a crash keeps every fsynced record, and recovery reads it back.
LEMMA StorageRestart ==
  ASSUME ~CrashTears, TypeOK, TypeOK', StorageInv, Stop \/ Crash \/ Recover
  PROVE  StorageInv'
PROOF
  <1> USE LSMAssumption
  <1>0. /\ acked \in [Key -> Version] /\ wal \in Seq(WalRecord) /\ Len(wal) \in Nat
        /\ synced \in 0 .. Len(wal) /\ disk \subseteq File /\ Untorn
    BY DEF TypeOK, Table, StorageInv
  <1>1. ASSUME LoseMemory, Untorn', synced <= synced', \A i \in 1 .. synced : wal'[i] = wal[i]
        PROVE  StorageInv'
    <2>1. /\ up' = FALSE /\ pc' = "idle" /\ memtable' = Empty /\ immutable' = Empty
          /\ l0' = {} /\ l1' = {}
          /\ UNCHANGED <<cur, new, disk, acked, now>>
      BY <1>1 DEF LoseMemory
    <2>2. ASSUME NEW j, NEW v, Durable(j, v) PROVE Durable(j, v)'
      BY <1>0, <1>1, <2>1, <2>2, DurableKept
    <2>3. AckedDurable'
      BY <2>1, <2>2 DEF StorageInv, AckedDurable
    <2>4. CurInv' /\ FlushInv' /\ LevelInv'
      BY <2>1 DEF StorageInv, CurInv, FlushInv, LevelInv
    <2> QED BY <1>1, <2>1, <2>3, <2>4 DEF StorageInv
  <1>2. CASE Stop
    <2>1. LoseMemory /\ wal' = wal /\ synced' = synced
      BY <1>2 DEF Stop
    <2> QED BY <1>0, <1>1, <2>1 DEF Untorn
  <1>3. CASE Crash
    <2>1. PICK n \in synced .. Len(wal) : wal' \in Surviving(n)
      BY <1>3 DEF Crash
    <2>2. wal' = SubSeq(wal, 1, n)
      BY <2>1 DEF Surviving
    <2>3. n \in Nat /\ Len(wal') = n /\ \A i \in 1 .. n : wal'[i] = wal[i]
      BY <1>0, <2>1, <2>2
    <2>4. Untorn' /\ synced <= synced' /\ \A i \in 1 .. synced : wal'[i] = wal[i]
      <3>1. \A i \in 1 .. n : wal'[i].kind # "torn"
        BY <1>0, <2>1, <2>3 DEF Untorn
      <3>2. synced' = n /\ synced <= n
        BY <1>0, <1>3, <2>1, <2>3 DEF Crash
      <3>3. Untorn'
        BY <2>3, <3>1 DEF Untorn
      <3> QED BY <1>0, <2>3, <3>2, <3>3
    <2> QED BY <1>1, <1>3, <2>4 DEF Crash
  <1>4. CASE Recover
    <2>1. /\ ~up /\ up' = TRUE
          /\ l0' = {f \in disk : f.level = 0} /\ l1' = {f \in disk : f.level = 1}
          /\ memtable' = Replayed
          /\ UNCHANGED <<pc, cur, immutable, new, rem, disk, wal, synced, acked, now>>
      BY <1>4 DEF Recover, diskVars, count
    <2>2. pc = "idle" /\ pc' = "idle"
      BY <2>1 DEF StorageInv
    <2>3. l0' \cup l1' = disk
      BY <1>0, <2>1 DEF File
    <2>4. ASSUME NEW k \in Key, NEW v \in Version, Durable(k, v) PROVE Held(k, v)'
      <3>1. CASE v = 0 \/ \E f \in disk : f.data[k] >= v
        BY <2>3, <3>1 DEF Held
      <3>2. ASSUME NEW i \in Readable, wal[i].kind = "put", wal[i].key = k, wal[i].version >= v
            PROVE  Held(k, v)'
        <4>1. Replayed \in [Key -> Version] /\ Replayed[k] >= wal[i].version
          BY <1>0, <3>2, ReplayedType DEF Table
        <4>2. wal[i].version \in Version
          <5>1. i \in 1 .. Len(wal)
            BY DEF Readable
          <5>2. wal[i] \in WalRecord
            BY <1>0, <5>1
          <5> QED BY <5>2 DEF WalRecord
        <4>3. memtable'[k] >= v
          BY <2>1, <3>2, <4>1, <4>2 DEF Version
        <4> QED BY <4>3 DEF Held
      <3> QED BY <2>4, <3>1, <3>2 DEF Durable
    <2>5. (\A k \in Key : Held(k, acked[k]))'
      BY <1>0, <2>1, <2>4 DEF StorageInv, AckedDurable
    <2>6. LevelInv'
      BY <2>1, <2>2, <2>3 DEF StorageInv, LevelInv
    <2> QED BY <2>1, <2>2, <2>5, <2>6
        DEF StorageInv, Untorn, CurInv, FlushInv, AckedDurable, Durable, Readable
  <1> QED BY <1>2, <1>3, <1>4

\* StorageInv is inductive as long as no WAL record is half-written.
LEMMA StorageInductive ==
  ASSUME ~CrashTears, ~ShortWrites
  PROVE  Spec => [](TypeOK /\ StorageInv)
PROOF
  <1>1. Init => StorageInv
    <2> SUFFICES ASSUME Init PROVE StorageInv
      OBVIOUS
    <2>1. /\ up = TRUE /\ pc = "idle" /\ immutable = Empty /\ wal = <<>> /\ acked = Empty
          /\ l0 = {} /\ l1 = {} /\ disk = {}
      BY DEF Init
    <2>2. Untorn
      BY <2>1 DEF Untorn
    <2>3. \A k \in Key : Held(k, acked[k]) /\ Durable(k, acked[k])
      BY <2>1 DEF Held, Durable, Empty
    <2>4. CurInv /\ FlushInv /\ LevelInv
      BY <2>1 DEF CurInv, FlushInv, LevelInv
    <2> QED BY <2>1, <2>2, <2>3, <2>4 DEF StorageInv, AckedDurable
  <1>2. TypeOK /\ TypeOK' /\ StorageInv /\ [Next]_vars => StorageInv'
    <2> SUFFICES ASSUME TypeOK, TypeOK', StorageInv, [Next]_vars PROVE StorageInv'
      OBVIOUS
    <2>1. CASE Writer
      BY <2>1, StorageWriter
    <2>2. CASE Flusher
      BY <2>2, StorageFlusher
    <2>3. CASE Compactor
      BY <2>3, StorageCompactor
    <2>4. CASE Stop \/ Crash \/ Recover
      BY <2>4, StorageRestart
    <2>5. ASSUME NEW r \in Reader, Read(r) PROVE StorageInv'
      <3>1. UNCHANGED <<up, pc, cur, memtable, immutable, l0, l1, new, rem, disk, wal, synced, acked, now>>
        BY <2>5 DEF Read, ReadBegin, ReadLocked, ReadFill, ReadReturn, memVars, diskVars, count
      <3> QED BY <3>1, StorageQuiet
    <2>6. CASE UNCHANGED vars
      BY <2>6, StorageQuiet DEF vars, memVars, diskVars, count
    <2> QED BY <2>1, <2>2, <2>3, <2>4, <2>5, <2>6 DEF Next
  <1> QED BY <1>1, <1>2, TypeCorrect, PTL DEF Spec

\* Write's promise (lsm.go:113, "durably records an entry"): whatever the
\* interleaving of writes, flushes, compactions, their failures, power
\* failures and restarts, an acknowledged entry or a newer one of its key is
\* on disk, if no WAL record is ever half-written.
THEOREM AckedAreDurable ==
  ASSUME ~CrashTears, ~ShortWrites
  PROVE  Spec => []AckedDurable
PROOF
  <1>1. StorageInv => AckedDurable
    BY DEF StorageInv
  <1> QED BY <1>1, StorageInductive, PTL

\* Under the same condition a running tree serves every acknowledged entry,
\* or a newer one of its key: loadLevels and replayWAL find it again.
THEOREM AckedAreServed ==
  ASSUME ~CrashTears, ~ShortWrites
  PROVE  Spec => []AckedServed
PROOF
  <1>1. TypeOK /\ StorageInv => AckedServed
    <2> SUFFICES ASSUME TypeOK, StorageInv, up, NEW k \in Key PROVE ScanView(k) >= acked[k]
      BY DEF AckedServed
    <2>1. Held(k, acked[k])
      BY DEF StorageInv
    <2>2. /\ ScanView(k) \in Version /\ acked[k] \in Version
          /\ memtable[k] \in Version /\ immutable[k] \in Version
          /\ \A f \in l0 \cup l1 : f.data[k] \in Version
      BY ViewType DEF TypeOK, Table, File
    <2> QED BY <2>1, <2>2, ViewType DEF Held, Version
  <1> QED BY <1>1, StorageInductive, PTL

-----------------------------------------------------------------------------
(* Reading.  Nothing here depends on the WAL.                               *)

\* The tables of level 1, in memory or on disk.
Level1 == {f \in disk \cup l1 : f.level = 1}

\* A file of level 1 with a later name is at least as new for every key.
Ordered == \A f, g \in Level1 : f.stamp < g.stamp => \A k \in Key : g.data[k] >= f.data[k]

\* A file of level 1 that is on disk and not in memory, because compactLocked failed
\* after writing it or could not remove it, has nothing the tables in memory have not.
Covered == up => \A g \in Level1, k \in Key : \E f \in l0 \cup l1 : f.data[k] >= g.data[k]

\* The merged table has the newest entry of every key, and no other.
MergeInv ==
  pc \in {"merged", "remove"} =>
    /\ new \in disk \ (l0 \cup l1) /\ new.level = 1 /\ rem \subseteq l0 \cup l1
    /\ \A k \in Key : /\ \A f \in l0 \cup l1 : new.data[k] >= f.data[k]
                      /\ \E f \in l0 \cup l1 : new.data[k] = f.data[k]

TablesInv ==
  /\ ~up => pc = "idle"
  /\ pc \in {"table", "install", "rotate"} => memtable = Empty
  /\ pc \notin {"table", "install"} => immutable = Empty
  /\ pc = "install" => new.data = immutable
  /\ \A f \in disk \cup l0 \cup l1 \cup {new} : f.stamp <= now
  /\ \A f \in l1 : f.level = 1
  /\ MergeInv /\ Ordered /\ Covered

\* What a Write put in the memtable is found, and an entry of the cache is the
\* newest, but while the Write that makes it out of date is before Remove.
CacheInv ==
  /\ pc \notin {"idle", "append", "put"} => ScanView(cur.key) >= cur.version
  /\ \A k \in Key : \/ cache[k] = 0
                    \/ /\ cache[k] >= acked[k]
                       /\ cache[k] = ScanView(k) \/ (pc = "commit" /\ cur.key = k)

\* A reader in Read: what it holds under RLock is still the newest.
ReaderInv(t) ==
  /\ t.pc # "idle" => up /\ t.floor <= acked[t.key]
  /\ t.pc = "locked" => pc = "idle" /\ t.val = ScanView(t.key)
  /\ t.pc \in {"locked", "done"} => t.val >= t.floor

\* Nothing is cached while the process is down.
DownInv == ~up => \A k \in Key : cache[k] = 0

ReadInv == AckedServed /\ CacheInv /\ DownInv /\ \A r \in Reader : ReaderInv(rd[r])

\* A step that leaves the tables alone.
LEMMA TablesQuiet ==
  ASSUME TablesInv, UNCHANGED <<up, pc, memtable, immutable, l0, l1, new, rem, disk, now>>
  PROVE  TablesInv'
BY DEF TablesInv, MergeInv, Ordered, Covered, Level1

\* A step of Write, or one that ends a flush or a compaction.
LEMMA TablesMove ==
  ASSUME TablesInv, UNCHANGED <<up, immutable, l0, l1, new, disk, now>>, up,
         pc \notin {"table", "install"}, pc' \notin {"table", "install", "rotate", "merged", "remove"}
  PROVE  TablesInv'
BY DEF TablesInv, MergeInv, Ordered, Covered, Level1

\* A step of flushLocked.
LEMMA TablesFlusher ==
  ASSUME TypeOK, TypeOK', TablesInv, Flusher
  PROVE  TablesInv'
PROOF
  <1>1. CASE Flush
    BY <1>1, TablesMove DEF Flush, CanLock, Unlocked, memVars, diskVars, count
  <1>2. CASE FlushSwap
    <2>1. /\ pc = "flush" /\ pc' = "table" /\ memtable' = Empty
          /\ UNCHANGED <<up, l0, l1, new, disk, now>>
      BY <1>2 DEF FlushSwap, diskVars, count
    <2> QED BY <2>1 DEF TablesInv, MergeInv, Ordered, Covered, Level1
  <1>3. CASE FlushWrite
    <2>1. /\ pc = "table" /\ pc' = "install" /\ new' = NewFile(0, immutable) /\ disk' = disk \cup {new'} /\ now' = now + 1
          /\ UNCHANGED <<up, memtable, immutable, l0, l1>>
      BY <1>3 DEF FlushWrite, memVars
    <2>2. now \in Nat /\ \A f \in disk \cup l0 \cup l1 : f.stamp \in Nat
      BY DEF TypeOK, File
    <2>3. new'.stamp = now + 1 /\ new'.level = 0 /\ new'.data = immutable
      BY <2>1 DEF NewFile
    <2>4. Level1' = Level1
      BY <2>1, <2>3 DEF Level1
    <2>5. \A f \in disk' \cup l0' \cup l1' \cup {new'} : f.stamp <= now'
      BY <2>1, <2>2, <2>3 DEF TablesInv
    <2>6. up' => pc' # "idle"
      BY <2>1
    <2>7. Ordered' /\ Covered'
      BY <2>1, <2>4 DEF TablesInv, Ordered, Covered
    <2> QED BY <2>1, <2>3, <2>5, <2>7 DEF TablesInv, MergeInv
  <1>4. CASE FlushFail
    <2>1. /\ pc \in {"table", "install"} /\ pc' = "idle" /\ immutable' = Empty
          /\ UNCHANGED <<up, l0, l1, new, disk, now>>
      BY <1>4 DEF FlushFail, diskVars, count
    <2> QED BY <2>1 DEF TablesInv, MergeInv, Ordered, Covered, Level1
  <1>5. CASE FlushInstall
    <2>1. /\ pc = "install" /\ pc' = "rotate" /\ immutable' = Empty /\ l0' = l0 \cup {new}
          /\ UNCHANGED <<up, memtable, l1, new, disk, now>>
      BY <1>5 DEF FlushInstall, diskVars, count
    <2> QED BY <2>1 DEF TablesInv, MergeInv, Ordered, Covered, Level1
  <1>6. CASE Rotate \/ RotateFail
    <2>1. /\ pc = "rotate" /\ pc' \in {"compact", "ack", "idle"} /\ UNCHANGED <<up, immutable, l0, l1, new, disk, now>>
      BY <1>6 DEF Rotate, RotateFail, memVars, count
    <2>2. up
      BY <2>1 DEF TablesInv
    <2> QED BY <2>1, <2>2, TablesMove
  <1> QED BY <1>1, <1>2, <1>3, <1>4, <1>5, <1>6 DEF Flusher

\* The merged table has the newest entry of every key of its sources.
LEMMA MergedIsMax ==
  ASSUME NEW S, S \subseteq File, S # {}, NEW k \in Key
  PROVE  \E f \in S : Merged(S)[k] = f.data[k]
PROOF
  <1>1. {f.data[k] : f \in S} \subseteq Version
    BY DEF File, Table
  <1>2. {f.data[k] : f \in S} # {}
    OBVIOUS
  <1>3. Newest({f.data[k] : f \in S}) \in {f.data[k] : f \in S}
    BY <1>1, <1>2, NewestIsMax
  <1> QED BY <1>3 DEF Merged

\* A step of compactLocked.
LEMMA TablesCompactor ==
  ASSUME TypeOK, TypeOK', TablesInv, Compactor
  PROVE  TablesInv'
PROOF
  <1>0. /\ now \in Nat /\ \A f \in disk \cup l0 \cup l1 \cup {new} : f.stamp \in Nat /\ f.data \in Table
        /\ l0 \cup l1 \subseteq File
    BY DEF TypeOK, File
  <1>1. CASE CompactWrite
    <2>1. /\ pc = "compact" /\ pc' = "merged" /\ l0 \cup l1 # {} /\ new' = NewFile(1, Merged(l0 \cup l1))
          /\ disk' = disk \cup {new'} /\ now' = now + 1 /\ rem' = l0 \cup l1
          /\ UNCHANGED <<up, memtable, immutable, l0, l1>>
      BY <1>1 DEF CompactWrite, memVars
    <2>2. new'.stamp = now + 1 /\ new'.level = 1 /\ new'.data = Merged(l0 \cup l1)
      BY <2>1 DEF NewFile
    <2>3. \A f \in disk \cup l0 \cup l1 : f.stamp <= now
      BY DEF TablesInv
    <2>4. \A f \in disk' \cup l0' \cup l1' \cup {new'} : f.stamp <= now'
      BY <1>0, <2>1, <2>2, <2>3
    <2>5. \A k \in Key : /\ \A f \in l0 \cup l1 : new'.data[k] >= f.data[k]
                         /\ \E f \in l0 \cup l1 : new'.data[k] = f.data[k]
      BY <1>0, <2>1, <2>2, MergedType, MergedIsMax
    <2>6. new' \notin l0 \cup l1
      BY <1>0, <2>2, <2>3
    <2>7. MergeInv'
      BY <2>1, <2>2, <2>5, <2>6 DEF MergeInv
    <2>8. Level1' = Level1 \cup {new'}
      BY <2>1, <2>2 DEF Level1
    <2>9. up
      BY <2>1 DEF TablesInv
    <2>10. ASSUME NEW g \in Level1, NEW k \in Key PROVE new'.data[k] >= g.data[k]
      <3>1. PICK f \in l0 \cup l1 : f.data[k] >= g.data[k]
        BY <2>9 DEF TablesInv, Covered
      <3>2. f.data \in Table /\ g.data \in Table /\ new'.data \in Table
        BY <1>0 DEF TypeOK, File, Level1
      <3>3. f.data[k] \in Nat /\ g.data[k] \in Nat /\ new'.data[k] \in Nat
        BY <3>2 DEF Table, Version
      <3> QED BY <2>5, <3>1, <3>3
    <2>11. Ordered'
      <3>1. ASSUME NEW f \in Level1', NEW g \in Level1', f.stamp < g.stamp, NEW k \in Key PROVE g.data[k] >= f.data[k]
        <4>1. CASE f \in Level1 /\ g \in Level1
          BY <3>1, <4>1 DEF TablesInv, Ordered
        <4>2. CASE f \in Level1 /\ g = new'
          BY <2>10, <4>2
        <4>3. CASE f = new'
          <5>1. g.stamp <= now + 1 /\ g.stamp \in Nat
            BY <2>1, <2>4 DEF Level1, TypeOK, File
          <5> QED BY <1>0, <2>2, <3>1, <4>3, <5>1
        <4> QED BY <2>8, <4>1, <4>2, <4>3
      <3> QED BY <3>1 DEF Ordered
    <2>12. Covered'
      <3>1. ASSUME NEW g \in Level1', NEW k \in Key PROVE \E f \in l0 \cup l1 : f.data[k] >= g.data[k]
        <4>1. CASE g \in Level1
          BY <2>9, <4>1 DEF TablesInv, Covered
        <4>2. CASE g = new'
          <5>1. PICK f \in l0 \cup l1 : new'.data[k] = f.data[k]
            BY <2>5
          <5>2. f.data[k] \in Nat
            BY <1>0 DEF Table, Version
          <5> QED BY <4>2, <5>1, <5>2
        <4> QED BY <2>8, <4>1, <4>2
      <3> QED BY <2>1, <3>1 DEF Covered
    <2> QED BY <2>1, <2>4, <2>7, <2>9, <2>11, <2>12 DEF TablesInv
  <1>2. CASE CompactFail
    <2>1. pc \in {"compact", "merged"} /\ pc' = "idle" /\ UNCHANGED <<up, immutable, l0, l1, new, disk, now>>
      BY <1>2 DEF CompactFail, memVars, diskVars, count
    <2>2. up
      BY <2>1 DEF TablesInv
    <2> QED BY <2>1, <2>2, TablesMove
  <1>3. CASE CompactRemove
    <2>1. PICK f \in NextSource : rem' = rem \ {f} /\ disk' \in {disk, disk \ {f}}
      BY <1>3 DEF CompactRemove
    <2>2. /\ pc \in {"merged", "remove"} /\ pc' = "remove" /\ UNCHANGED <<up, memtable, immutable, l0, l1, new, now>>
      BY <1>3 DEF CompactRemove, memVars, count
    <2>3. f \in rem /\ rem \subseteq l0 \cup l1 /\ new \in disk \ (l0 \cup l1)
      BY <2>1, <2>2 DEF NextSource, TablesInv, MergeInv
    <2>4. disk' \subseteq disk /\ new \in disk' /\ rem' \subseteq l0 \cup l1 /\ Level1' \subseteq Level1
      BY <2>1, <2>2, <2>3 DEF Level1
    <2>5. MergeInv'
      BY <2>2, <2>3, <2>4 DEF TablesInv, MergeInv
    <2>6. Ordered' /\ Covered'
      BY <2>2, <2>4 DEF TablesInv, Ordered, Covered
    <2>7. \A g \in disk' \cup l0' \cup l1' \cup {new'} : g.stamp <= now'
      BY <2>2, <2>4 DEF TablesInv
    <2> QED BY <2>2, <2>5, <2>6, <2>7 DEF TablesInv
  <1>4. CASE CompactSwap
    <2>1. /\ pc = "remove" /\ pc' = "ack" /\ l0' = {} /\ l1' = {new} /\ UNCHANGED <<up, memtable, immutable, new, disk, now>>
      BY <1>4 DEF CompactSwap, diskVars, count
    <2>2. new \in disk /\ new.level = 1 /\ \A k \in Key : \A f \in l0 \cup l1 : new.data[k] >= f.data[k]
      BY <2>1 DEF TablesInv, MergeInv
    <2>3. Level1' \subseteq Level1
      BY <2>1, <2>2 DEF Level1
    <2>4. up
      BY <2>1 DEF TablesInv
    <2>5. ASSUME NEW g \in Level1', NEW k \in Key PROVE new.data[k] >= g.data[k]
      <3>1. PICK f \in l0 \cup l1 : f.data[k] >= g.data[k]
        BY <2>3, <2>4 DEF TablesInv, Covered
      <3>2. g \in Level1
        BY <2>3
      <3>3. f.data \in Table /\ g.data \in Table /\ new.data \in Table
        BY <1>0, <3>2 DEF TypeOK, File, Level1
      <3>4. f.data[k] \in Nat /\ g.data[k] \in Nat /\ new.data[k] \in Nat
        BY <3>3 DEF Table, Version
      <3> QED BY <2>2, <3>1, <3>4
    <2>6. Ordered' /\ Covered'
      BY <2>1, <2>3, <2>5 DEF TablesInv, Ordered, Covered
    <2>7. \A g \in disk' \cup l0' \cup l1' \cup {new'} : g.stamp <= now'
      BY <2>1, <2>2 DEF TablesInv
    <2> QED BY <2>1, <2>2, <2>4, <2>6, <2>7 DEF TablesInv, MergeInv
  <1> QED BY <1>1, <1>2, <1>3, <1>4 DEF Compactor

\* The end of the process, and the next start.
LEMMA TablesRestart ==
  ASSUME TypeOK, TypeOK', TablesInv, Stop \/ Crash \/ Recover
  PROVE  TablesInv'
PROOF
  <1>1. CASE Stop \/ Crash
    <2>1. /\ up' = FALSE /\ pc' = "idle" /\ immutable' = Empty /\ l0' = {} /\ l1' = {} /\ UNCHANGED <<new, disk, now>>
      BY <1>1 DEF Stop, Crash, LoseMemory
    <2>2. Level1' \subseteq Level1
      BY <2>1 DEF Level1
    <2> QED BY <2>1, <2>2 DEF TablesInv, MergeInv, Ordered, Covered
  <1>2. CASE Recover
    <2>1. /\ ~up /\ up' = TRUE /\ l0' = {f \in disk : f.level = 0} /\ l1' = {f \in disk : f.level = 1}
          /\ UNCHANGED <<pc, immutable, new, disk, now>>
      BY <1>2 DEF Recover, diskVars, count
    <2>2. pc = "idle" /\ disk \subseteq File
      BY <2>1 DEF TablesInv, TypeOK
    <2>3. Level1' \subseteq Level1 /\ Level1' = l1'
      BY <2>1 DEF Level1
    <2>4. Ordered'
      BY <2>3 DEF TablesInv, Ordered
    <2>5. \A f \in l1', k \in Key : f.data[k] \in Nat
      BY DEF TypeOK, File, Table, Version
    <2>6. Covered'
      BY <2>3, <2>5 DEF Covered
    <2> QED BY <2>1, <2>2, <2>4, <2>6 DEF TablesInv, MergeInv
  <1> QED BY <1>1, <1>2

\* TablesInv holds throughout, whatever becomes of the WAL.
LEMMA TablesHold ==
  Spec => [](TypeOK /\ TablesInv)
PROOF
  <1>1. Init => TablesInv
    <2> SUFFICES ASSUME Init PROVE TablesInv
      OBVIOUS
    <2>1. /\ up = TRUE /\ pc = "idle" /\ immutable = Empty /\ l0 = {} /\ l1 = {} /\ disk = {} /\ now = 0
          /\ new.stamp = 0
      BY DEF Init
    <2>2. Level1 = {}
      BY <2>1 DEF Level1
    <2> QED BY <2>1, <2>2 DEF TablesInv, MergeInv, Ordered, Covered
  <1>2. TypeOK /\ TypeOK' /\ TablesInv /\ [Next]_vars => TablesInv'
    <2> SUFFICES ASSUME TypeOK, TypeOK', TablesInv, [Next]_vars PROVE TablesInv'
      OBVIOUS
    <2>1. CASE Writer
      <3>1. CASE WriteShort
        BY <3>1, TablesQuiet DEF WriteShort, memVars
      <3>2. ASSUME NEW k \in Key, NEW v \in Version \ {0}, WriteAppend(k, v) PROVE TablesInv'
        BY <3>2, TablesMove DEF WriteAppend, CanLock, Unlocked, memVars
      <3>3. CASE WalSync \/ WalSyncFail \/ MemPut \/ CommitInvalidate \/ Ack
        <4>1. /\ pc \in {"append", "put", "commit", "ack"} /\ pc' \in {"put", "idle", "commit", "flush", "ack"}
              /\ UNCHANGED <<up, immutable, l0, l1, new, disk, now>>
          BY <3>3 DEF WalSync, WalSyncFail, MemPut, CommitInvalidate, Ack, memVars, diskVars, count
        <4>2. up
          BY <4>1 DEF TablesInv
        <4> QED BY <4>1, <4>2, TablesMove
      <3> QED BY <2>1, <3>1, <3>2, <3>3 DEF Writer
    <2>2. CASE Flusher
      BY <2>2, TablesFlusher
    <2>3. CASE Compactor
      BY <2>3, TablesCompactor
    <2>4. CASE Stop \/ Crash \/ Recover
      BY <2>4, TablesRestart
    <2>5. ASSUME NEW r \in Reader, Read(r) PROVE TablesInv'
      <3>1. UNCHANGED <<up, pc, memtable, immutable, l0, l1, new, rem, disk, now>>
        BY <2>5 DEF Read, ReadBegin, ReadLocked, ReadFill, ReadReturn, memVars, diskVars, count
      <3> QED BY <3>1, TablesQuiet
    <2>6. CASE UNCHANGED vars
      BY <2>6, TablesQuiet DEF vars, memVars, diskVars, count
    <2> QED BY <2>1, <2>2, <2>3, <2>4, <2>5, <2>6 DEF Next
  <1> QED BY <1>1, <1>2, TypeCorrect, PTL DEF Spec

-----------------------------------------------------------------------------
(* What Scan and Read find                                                  *)

\* The entries Scan finds for a key.
Found(k) == {0, memtable[k], immutable[k]} \cup {f.data[k] : f \in l0 \cup l1}

IsScanView(k, v) == v = Newest(Found(k)) /\ v \in Found(k) /\ \A w \in Found(k) : v >= w
ScanMax == \A k \in Key : Found(k) \subseteq Version /\ ScanView(k) \in Version /\ IsScanView(k, ScanView(k))

\* ScanView is the largest of them.
LEMMA ScanIsMax == TypeOK => ScanMax
PROOF
  <1> SUFFICES ASSUME TypeOK, NEW k \in Key
               PROVE  Found(k) \subseteq Version /\ ScanView(k) \in Version /\ IsScanView(k, ScanView(k))
    BY DEF ScanMax
  <1>1. {f.data[k] : f \in l0 \cup l1} \subseteq Version
    BY DEF TypeOK, File, Table
  <1>2. {0, memtable[k], immutable[k]} \subseteq Version
    BY LSMAssumption DEF TypeOK, Table, Version
  <1>3. Found(k) \subseteq Version /\ Found(k) # {}
    BY <1>1, <1>2 DEF Found
  <1>4. ScanView(k) = Newest(Found(k))
    BY DEF ScanView, Found
  <1> QED BY <1>3, <1>4, NewestIsMax DEF IsScanView

\* Two sets with the same largest element.
LEMMA SameMax ==
  ASSUME NEW S, NEW T, S \subseteq Version, T \subseteq Version, S # {}, T # {},
         \A x \in S : \E y \in T : y >= x, \A y \in T : \E x \in S : x >= y
  PROVE  Newest(S) = Newest(T)
PROOF
  <1>1. /\ Newest(S) \in S /\ Newest(S) \in Version /\ \A w \in S : Newest(S) >= w
        /\ Newest(T) \in T /\ Newest(T) \in Version /\ \A w \in T : Newest(T) >= w
    BY NewestIsMax
  <1>2. S \subseteq Nat /\ T \subseteq Nat /\ Newest(S) \in Nat /\ Newest(T) \in Nat
    BY <1>1 DEF Version
  <1>3. Newest(T) >= Newest(S)
    <2>1. PICK y \in T : y >= Newest(S)
      BY <1>1
    <2>2. Newest(T) >= y /\ y \in Nat
      BY <1>1, <1>2
    <2> QED BY <1>2, <2>1, <2>2
  <1>4. Newest(S) >= Newest(T)
    <2>1. PICK x \in S : x >= Newest(T)
      BY <1>1
    <2>2. Newest(S) >= x /\ x \in Nat
      BY <1>1, <1>2
    <2> QED BY <1>2, <2>1, <2>2
  <1> QED BY <1>2, <1>3, <1>4

\* While the process runs only MemPut changes what Scan finds, and only for the
\* better: the swap, its rollback, the installation of a table and a compaction
\* move entries from one table to another.
LEMMA ViewStep ==
  ASSUME TypeOK, TypeOK', TablesInv, [Next]_vars, up, up', NEW k \in Key
  PROVE  /\ ScanView(k)' >= ScanView(k)
         /\ (MemPut /\ cur.key = k) \/ ScanView(k)' = ScanView(k)
PROOF
  <1>1. /\ Found(k) \subseteq Version /\ ScanView(k) = Newest(Found(k)) /\ ScanView(k) \in Version
        /\ ScanView(k) \in Found(k) /\ Found(k) # {}
    BY ScanIsMax DEF ScanMax, IsScanView
  <1>2. /\ Found(k)' \subseteq Version /\ ScanView(k)' = Newest(Found(k)') /\ ScanView(k)' \in Version
        /\ Found(k)' # {} /\ \A w \in Found(k)' : ScanView(k)' >= w
    <2>1. TypeOK' => ScanMax'
      BY ScanIsMax, PTL
    <2> QED BY <2>1 DEF ScanMax, IsScanView, Newest
  <1>3. ASSUME Found(k)' = Found(k) PROVE ScanView(k)' >= ScanView(k) /\ ScanView(k)' = ScanView(k)
    BY <1>1, <1>2, <1>3 DEF Version
  <1>4. CASE UNCHANGED <<memtable, immutable, l0, l1>>
    BY <1>3, <1>4 DEF Found
  <1>5. CASE MemPut
    <2>1. memtable' = Put(memtable, cur.key, cur.version) /\ UNCHANGED <<immutable, l0, l1>>
      BY <1>5 DEF MemPut
    <2>2. memtable \in Table /\ cur.version \in Version /\ memtable[k] \in Version /\ cur.key \in Key
      BY DEF TypeOK, Table
    <2>3. k # cur.key => memtable'[k] = memtable[k]
      BY <2>1, <2>2 DEF Put, Table
    <2>4. memtable'[k] >= memtable[k]
      <3>1. memtable'[k] \in {memtable[k], PickNewer(memtable[k], cur.version)}
        BY <2>1, <2>2 DEF Put, Table
      <3> QED BY <2>2, <3>1 DEF PickNewer, Version
    <2>5. CASE k # cur.key
      BY <1>3, <2>1, <2>3, <2>5 DEF Found
    <2>6. CASE k = cur.key
      <3>1. \E w \in Found(k)' : w >= ScanView(k)
        <4>1. CASE ScanView(k) = memtable[k]
          BY <2>4, <4>1 DEF Found
        <4>2. CASE ScanView(k) # memtable[k]
          <5>1. ScanView(k) \in Found(k)'
            BY <1>1, <2>1, <4>2 DEF Found
          <5> QED BY <1>1, <5>1 DEF Version
        <4> QED BY <4>1, <4>2
      <3>2. PICK w \in Found(k)' : w >= ScanView(k)
        BY <3>1
      <3>3. ScanView(k)' >= w /\ w \in Version
        BY <1>2
      <3> QED BY <1>1, <1>2, <1>5, <2>6, <3>2, <3>3 DEF Version
    <2> QED BY <2>5, <2>6
  <1>6. CASE FlushSwap
    <2>1. memtable' = Empty /\ immutable' = memtable /\ immutable = Empty /\ UNCHANGED <<l0, l1>> /\ Empty[k] = 0
      BY <1>6 DEF FlushSwap, TablesInv, Empty
    <2> QED BY <1>3, <2>1 DEF Found
  <1>7. CASE FlushFail
    <2>1. memtable = Empty /\ memtable' = immutable /\ immutable' = Empty /\ UNCHANGED <<l0, l1>> /\ Empty[k] = 0
      BY <1>7 DEF FlushFail, TablesInv, Empty
    <2> QED BY <1>3, <2>1 DEF Found
  <1>8. CASE FlushInstall
    <2>1. /\ memtable' = memtable /\ immutable' = Empty /\ l0' = l0 \cup {new} /\ l1' = l1 /\ Empty[k] = 0
          /\ new.data = immutable
      BY <1>8 DEF FlushInstall, TablesInv, Empty
    <2>2. memtable = Empty
      BY <1>8 DEF FlushInstall, TablesInv
    <2>3. Found(k)' = Found(k)
      BY <2>1, <2>2 DEF Found
    <2> QED BY <1>3, <2>3
  <1>9. CASE CompactSwap
    <2>1. /\ memtable' = memtable /\ immutable' = immutable /\ l0' = {} /\ l1' = {new}
          /\ \A f \in l0 \cup l1 : new.data[k] >= f.data[k]
          /\ \E f \in l0 \cup l1 : new.data[k] = f.data[k]
      BY <1>9 DEF CompactSwap, TablesInv, MergeInv
    <2>2. Found(k)' = {0, memtable[k], immutable[k], new.data[k]}
      BY <2>1 DEF Found
    <2>3. new.data[k] \in Found(k)
      BY <2>1 DEF Found
    <2>4. Found(k)' \subseteq Found(k)
      BY <2>2, <2>3 DEF Found
    <2>5. \A y \in Found(k)' : \E x \in Found(k) : x >= y
      BY <1>2, <2>4 DEF Version
    <2>6. ASSUME NEW x \in Found(k) PROVE \E y \in Found(k)' : y >= x
      <3>1. x \in Found(k)' \/ \E f \in l0 \cup l1 : x = f.data[k]
        BY <2>2 DEF Found
      <3>2. x \in Nat
        BY <1>1 DEF Version
      <3> QED BY <2>1, <2>2, <3>1, <3>2
    <2>7. Newest(Found(k)) = Newest(Found(k)')
      BY <1>1, <1>2, <2>5, <2>6, SameMax
    <2> QED BY <1>1, <1>2, <2>7 DEF Version
  <1>10. ASSUME NEW r \in Reader, Read(r) PROVE UNCHANGED <<memtable, immutable, l0, l1>>
    BY <1>10 DEF Read, ReadBegin, ReadLocked, ReadFill, ReadReturn, memVars
  <1>11. Writer => MemPut \/ UNCHANGED <<memtable, immutable, l0, l1>>
    BY DEF Writer, WriteAppend, WriteShort, WalSync, WalSyncFail, CommitInvalidate, Ack, memVars
  <1>12. Flusher => FlushSwap \/ FlushFail \/ FlushInstall \/ UNCHANGED <<memtable, immutable, l0, l1>>
    BY DEF Flusher, Flush, FlushWrite, Rotate, RotateFail, memVars
  <1>13. Compactor => CompactSwap \/ UNCHANGED <<memtable, immutable, l0, l1>>
    BY DEF Compactor, CompactWrite, CompactFail, CompactRemove, memVars
  <1>14. ~Stop /\ ~Crash /\ ~Recover
    BY DEF Stop, Crash, Recover, LoseMemory
  <1>15. UNCHANGED vars => UNCHANGED <<memtable, immutable, l0, l1>>
    BY DEF vars, memVars
  <1> QED BY <1>4, <1>5, <1>6, <1>7, <1>8, <1>9, <1>10, <1>11, <1>12, <1>13, <1>14, <1>15 DEF Next

\* While the process runs no step makes the tree forget: not the memtable swap or
\* its rollback in flushLocked, the installation of a table or a compaction.
THEOREM ViewNeverShrinks == Spec => ViewMonotone
PROOF
  <1>1. (TypeOK /\ TablesInv) /\ (TypeOK /\ TablesInv)' /\ [Next]_vars
          => [up /\ up' => \A k \in Key : ScanView(k)' >= ScanView(k)]_vars
    <2> SUFFICES ASSUME TypeOK, TablesInv, TypeOK', [Next]_vars, up, up', NEW k \in Key
                 PROVE  ScanView(k)' >= ScanView(k)
      OBVIOUS
    <2> QED BY ViewStep
  <1> QED BY <1>1, TablesHold, PTL DEF Spec, ViewMonotone

\* In L1 the newest name has the newest entry.
LEMMA FirstHit == TypeOK /\ TablesInv => FirstHitSuffices
PROOF
  <1> SUFFICES ASSUME TypeOK, TablesInv, NEW k \in Key PROVE ReadView(k) = ScanView(k)
    BY DEF FirstHitSuffices
  <1> DEFINE R == {0, memtable[k], immutable[k]} \cup {f.data[k] : f \in l0} \cup L1Hit(k)
             hits == {f \in l1 : f.data[k] # 0}
  <1>1. R \subseteq Found(k)
    BY DEF L1Hit, Found
  <1>2. Found(k) \subseteq Version /\ R # {}
    BY ScanIsMax DEF ScanMax
  <1>3. now \in Nat /\ \A f \in l1 : f.stamp \in 0 .. now /\ f.data[k] \in Nat /\ f \in Level1
    <2>1. now \in Nat /\ \A f \in l1 : f.stamp \in Nat /\ f.data \in Table /\ f.stamp <= now /\ f.level = 1
      BY DEF TypeOK, File, TablesInv
    <2> QED BY <2>1 DEF Level1, Table, Version
  <1>4. ASSUME NEW f \in l1 PROVE \E y \in R : y >= f.data[k]
    <2>1. CASE f.data[k] = 0
      BY <2>1
    <2>2. CASE f.data[k] # 0
      <3> DEFINE S == {g.stamp : g \in hits}
      <3>1. S \subseteq 0 .. now /\ S # {}
        BY <1>3, <2>2
      <3>2. PICK x \in S : \A y \in S : x >= y
        BY <1>3, <3>1, MaxExists
      <3>3. PICK g \in hits : g.stamp = x
        BY <3>2
      <3>4. g.data[k] \in L1Hit(k)
        BY <3>2, <3>3 DEF L1Hit
      <3>5. f.stamp <= g.stamp
        BY <1>3, <2>2, <3>2, <3>3
      <3>6. CASE f.stamp < g.stamp
        <4>1. g.data[k] >= f.data[k]
          BY <1>3, <3>3, <3>6 DEF TablesInv, Ordered
        <4> QED BY <3>4, <4>1
      <3>7. CASE f.stamp = g.stamp
        <4>1. f.data[k] \in L1Hit(k)
          BY <2>2, <3>2, <3>3, <3>7 DEF L1Hit
        <4> QED BY <1>3, <4>1
      <3> QED BY <1>3, <3>3, <3>5, <3>6, <3>7
    <2> QED BY <2>1, <2>2
  <1> HIDE DEF hits
  <1>5. ASSUME NEW x \in Found(k) PROVE \E y \in R : y >= x
    <2>1. x \in R \/ \E f \in l1 : x = f.data[k]
      BY DEF Found
    <2>2. x \in Nat
      BY <1>2 DEF Version
    <2> QED BY <1>4, <2>1, <2>2
  <1>6. \A y \in R : \E x \in Found(k) : x >= y
    BY <1>1, <1>2 DEF Version
  <1>7. ReadView(k) = Newest(R)
    BY DEF ReadView
  <1>8. ScanView(k) = Newest(Found(k)) /\ Found(k) # {}
    BY ScanIsMax DEF ScanMax, IsScanView
  <1> HIDE DEF R
  <1> QED BY <1>1, <1>2, <1>5, <1>6, <1>7, <1>8, SameMax

\* Read, which takes the first L1 table that has the key, newest name first, finds
\* what Scan finds in all of them, also after compactions that failed, were cut
\* short by a crash, or left a source behind.
THEOREM FirstHitIsNewest == Spec => []FirstHitSuffices
PROOF
  <1> QED BY FirstHit, TablesHold, PTL

-----------------------------------------------------------------------------
(* Read and its cache                                                       *)

\* Steps that neither write an entry nor read one.
LEMMA ReadQuiet ==
  ASSUME TypeOK, ReadInv, UNCHANGED <<up, cur, cache, acked, rd>>,
         \A k \in Key : ScanView(k)' = ScanView(k),
         pc \in {"idle", "append", "put"} => pc' \in {"idle", "append", "put"},
         pc = "commit" => pc' = "commit", pc = "idle" => pc' = "idle"
  PROVE  ReadInv'
PROOF
  <1>1. cur.key \in Key /\ \A r \in Reader : rd[r].key \in Key
    BY DEF TypeOK, RdState
  <1>2. AckedServed'
    BY DEF ReadInv, AckedServed
  <1>3. CacheInv'
    BY <1>1 DEF ReadInv, CacheInv
  <1>4. \A r \in Reader : ReaderInv(rd[r])'
    BY <1>1 DEF ReadInv, ReaderInv
  <1> QED BY <1>2, <1>3, <1>4 DEF ReadInv, DownInv

\* Types the steps below rest on.
LEMMA ReadTypes ==
  ASSUME TypeOK
  PROVE  /\ cur.key \in Key /\ cur.version \in Nat /\ \A k \in Key : ScanView(k) \in Nat /\ cache[k] \in Nat /\ acked[k] \in Nat
         /\ \A r \in Reader : rd[r] \in RdState /\ rd[r].key \in Key /\ rd[r].floor \in Nat /\ rd[r].val \in Nat
PROOF
  <1>1. cur.key \in Key /\ cur.version \in Version /\ \A k \in Key : ScanView(k) \in Version
    BY ViewType DEF TypeOK
  <1>2. \A k \in Key : cache[k] \in Version /\ acked[k] \in Version
    BY DEF TypeOK, Table
  <1>3. \A r \in Reader : rd[r] \in RdState /\ rd[r].key \in Key /\ rd[r].floor \in Version /\ rd[r].val \in Version
    BY DEF TypeOK, RdState
  <1> QED BY <1>1, <1>2, <1>3 DEF Version

\* Write: from the WAL to the memtable, out of the cache, acknowledged.
LEMMA ReadWriter ==
  ASSUME TypeOK, TypeOK', TablesInv, ReadInv, [Next]_vars, up, Writer
  PROVE  ReadInv'
PROOF
  <1>0. UNCHANGED <<up, rd>>
    BY DEF Writer, WriteAppend, WriteShort, WalSync, WalSyncFail, MemPut, CommitInvalidate, Ack
  <1>1. up' /\ \A k \in Key : /\ ScanView(k)' >= ScanView(k)
                              /\ (MemPut /\ cur.key = k) \/ ScanView(k)' = ScanView(k)
    BY <1>0, ViewStep
  <1>2. /\ cur.key \in Key /\ cur.version \in Nat /\ \A k \in Key : ScanView(k) \in Nat /\ cache[k] \in Nat /\ acked[k] \in Nat
        /\ \A r \in Reader : rd[r] \in RdState /\ rd[r].key \in Key /\ rd[r].floor \in Nat /\ rd[r].val \in Nat
    BY ReadTypes
  <1>3. \A k \in Key : ScanView(k)' \in Nat
    <2>1. TypeOK' => ScanMax'
      BY ScanIsMax, PTL
    <2> QED BY <2>1 DEF ScanMax, Version
  <1>4. CASE WriteShort \/ WalSync \/ WalSyncFail
    <2>1. /\ UNCHANGED <<up, cur, cache, acked, rd>> /\ ~MemPut
          /\ pc \in {"idle", "append"} /\ pc' \in {"idle", "append", "put"} /\ (pc = "idle" => pc' = "idle")
      BY <1>4 DEF WriteShort, WalSync, WalSyncFail, MemPut, CanLock, Unlocked, memVars
    <2> QED BY <1>1, <2>1, ReadQuiet
  <1>5. ASSUME NEW k \in Key, NEW v \in Version \ {0}, WriteAppend(k, v) PROVE ReadInv'
    <2>1. /\ pc = "idle" /\ pc' = "append" /\ UNCHANGED <<cache, acked>> /\ ~MemPut
          /\ \A r \in Reader : rd[r].pc # "locked"
      BY <1>5 DEF WriteAppend, MemPut, CanLock, Unlocked, memVars
    <2>2. \A j \in Key : ScanView(j)' = ScanView(j)
      BY <1>1, <2>1
    <2>3. AckedServed' /\ CacheInv'
      BY <1>0, <1>2, <2>1, <2>2 DEF ReadInv, AckedServed, CacheInv
    <2>4. \A r \in Reader : ReaderInv(rd[r])'
      BY <1>0, <1>2, <2>1, <2>2 DEF ReadInv, ReaderInv
    <2> QED BY <1>0, <2>3, <2>4 DEF ReadInv, DownInv
  <1>6. CASE MemPut
    <2>1. /\ pc = "put" /\ pc' = "commit" /\ UNCHANGED <<cache, acked, cur>>
          /\ memtable' = Put(memtable, cur.key, cur.version)
      BY <1>6 DEF MemPut
    <2>2. AckedServed'
      BY <1>0, <1>1, <1>2, <1>3, <2>1 DEF ReadInv, AckedServed
    <2>3. ASSUME NEW k \in Key, k = cur.key PROVE ScanView(k)' >= cur.version
      <3>1. memtable'[k] = PickNewer(memtable[k], cur.version) /\ memtable[k] \in Nat
        BY <1>2, <2>1, <2>3 DEF Put, TypeOK, Table, Version
      <3>2. memtable'[k] >= cur.version /\ memtable'[k] \in Nat
        BY <1>2, <3>1 DEF PickNewer
      <3>3. ScanView(k)' >= memtable'[k]
        <4>1. TypeOK' => ScanMax'
          BY ScanIsMax, PTL
        <4> QED BY <4>1 DEF ScanMax, IsScanView, Found
      <3> QED BY <1>2, <1>3, <3>2, <3>3
    <2>4. CacheInv'
      BY <1>1, <1>2, <2>1, <2>3 DEF ReadInv, CacheInv
    <2>5. \A r \in Reader : ReaderInv(rd[r])'
      BY <1>0, <2>1 DEF ReadInv, ReaderInv
    <2> QED BY <1>0, <2>2, <2>4, <2>5 DEF ReadInv, DownInv
  <1>7. CASE CommitInvalidate
    <2>1. /\ pc = "commit" /\ pc' \in {"flush", "ack"} /\ UNCHANGED <<acked, cur>> /\ ~MemPut
          /\ cache' = [cache EXCEPT ![cur.key] = 0]
      BY <1>7 DEF CommitInvalidate, MemPut
    <2>2. \A j \in Key : ScanView(j)' = ScanView(j)
      BY <1>1, <2>1
    <2>3. \A j \in Key : cache'[j] = IF j = cur.key THEN 0 ELSE cache[j]
      BY <1>2, <2>1 DEF TypeOK, Table
    <2>4. AckedServed'
      BY <1>0, <2>1, <2>2 DEF ReadInv, AckedServed
    <2>5. CacheInv'
      BY <1>2, <2>1, <2>2, <2>3 DEF ReadInv, CacheInv
    <2>6. \A r \in Reader : ReaderInv(rd[r])'
      BY <1>0, <1>2, <2>1, <2>2 DEF ReadInv, ReaderInv
    <2> QED BY <1>0, <2>4, <2>5, <2>6 DEF ReadInv, DownInv
  <1>8. CASE Ack
    <2>1. /\ pc = "ack" /\ pc' = "idle" /\ UNCHANGED <<cache, cur>> /\ ~MemPut /\ acked' = Put(acked, cur.key, cur.version)
      BY <1>8 DEF Ack, MemPut, memVars
    <2>2. \A j \in Key : ScanView(j)' = ScanView(j)
      BY <1>1, <2>1
    <2>3. \A j \in Key : acked'[j] = IF j = cur.key THEN PickNewer(acked[j], cur.version) ELSE acked[j]
      BY <1>2, <2>1 DEF Put, TypeOK, Table
    <2>4. ScanView(cur.key) >= cur.version /\ \A j \in Key : ScanView(j) >= acked[j]
      BY <2>1 DEF ReadInv, CacheInv, AckedServed
    <2>5. \A j \in Key : ScanView(j) >= acked'[j] /\ acked'[j] >= acked[j] /\ acked'[j] \in Nat
      BY <1>2, <2>3, <2>4 DEF PickNewer
    <2>6. AckedServed'
      BY <2>2, <2>5 DEF AckedServed
    <2>7. CacheInv'
      BY <2>1, <2>2, <2>5 DEF ReadInv, CacheInv
    <2>8. ASSUME NEW r \in Reader PROVE ReaderInv(rd[r])'
      <3>1. ReaderInv(rd[r])
        BY DEF ReadInv
      <3>2. rd[r].pc # "locked" /\ rd[r].key \in Key
        BY <1>2, <2>1, <3>1 DEF ReaderInv
      <3>3. rd[r].floor <= acked[rd[r].key] => rd[r].floor <= acked'[rd[r].key]
        BY <1>2, <2>5, <3>2
      <3> QED BY <1>0, <3>1, <3>2, <3>3 DEF ReaderInv
    <2> QED BY <1>0, <2>6, <2>7, <2>8 DEF ReadInv, DownInv
  <1> QED BY <1>4, <1>5, <1>6, <1>7, <1>8 DEF Writer

\* The readers themselves.
LEMMA ReadReader ==
  ASSUME TypeOK, TypeOK', TablesInv, ReadInv, NEW r \in Reader, Read(r)
  PROVE  ReadInv'
PROOF
  <1>0. UNCHANGED <<up, pc, cur, memtable, immutable, l0, l1, acked>>
    BY DEF Read, ReadBegin, ReadLocked, ReadFill, ReadReturn, memVars
  <1>1. \A k \in Key : ScanView(k)' = ScanView(k)
    BY <1>0 DEF ScanView, Newest
  <1>2. /\ cur.key \in Key /\ \A k \in Key : ScanView(k) \in Nat /\ cache[k] \in Nat /\ acked[k] \in Nat
        /\ \A q \in Reader : rd[q] \in RdState /\ rd[q].key \in Key /\ rd[q].floor \in Nat /\ rd[q].val \in Nat
    BY ReadTypes
  <1>3. AckedServed'
    BY <1>0, <1>1 DEF ReadInv, AckedServed
  <1>4. ASSUME NEW q \in Reader, rd'[q] = rd[q] PROVE ReaderInv(rd[q])'
    BY <1>0, <1>1, <1>2, <1>4 DEF ReadInv, ReaderInv
  <1>5. (\A q \in Reader \ {r} : rd'[q] = rd[q]) /\ rd \in [Reader -> RdState]
    BY DEF Read, ReadBegin, ReadLocked, ReadFill, ReadReturn, TypeOK
  <1>6. UNCHANGED cache => CacheInv'
    BY <1>0, <1>1, <1>2 DEF ReadInv, CacheInv
  <1>7. up
    BY DEF Read, ReadBegin, ReadLocked, ReadFill, ReadReturn, Unlocked, ReadInv, ReaderInv
  <1>8. ASSUME NEW k \in Key, ReadBegin(r, k) PROVE ReadInv'
    <2>1. /\ up /\ UNCHANGED cache
          /\ rd'[r].pc = IF cache[k] # 0 THEN "done" ELSE "miss"
          /\ rd'[r].key = k /\ rd'[r].floor = acked[k] /\ rd'[r].val = cache[k]
      BY <1>5, <1>8 DEF ReadBegin, memVars
    <2>2. cache[k] # 0 => cache[k] >= acked[k]
      BY DEF ReadInv, CacheInv
    <2>3. ReaderInv(rd[r])'
      BY <1>0, <1>2, <2>1, <2>2 DEF ReaderInv
    <2> QED BY <1>0, <1>7, <1>3, <1>4, <1>5, <1>6, <2>1, <2>3 DEF ReadInv, DownInv
  <1>9. CASE ReadLocked(r)
    <2> DEFINE k == rd[r].key
               v == ReadView(k)
    <2>1. /\ up /\ pc = "idle" /\ rd[r].pc = "miss" /\ UNCHANGED cache
          /\ rd' = [rd EXCEPT ![r].val = v, ![r].pc = IF v = 0 THEN "done" ELSE "locked"]
      BY <1>9 DEF ReadLocked, Unlocked, memVars
    <2>2. v = ScanView(k) /\ k \in Key
      BY <1>2, <2>1, FirstHit DEF FirstHitSuffices
    <2>3. ScanView(k) >= acked[k] /\ rd[r].floor <= acked[k]
      BY <1>2, <2>1 DEF ReadInv, AckedServed, ReaderInv
    <2> HIDE DEF v
    <2>4. /\ rd'[r].pc = IF v = 0 THEN "done" ELSE "locked"
          /\ rd'[r].key = k /\ rd'[r].floor = rd[r].floor /\ rd'[r].val = v
      BY <1>5, <2>1 DEF RdState
    <2>5. ReaderInv(rd[r])'
      <3>1. v >= rd[r].floor
        BY <1>2, <2>2, <2>3
      <3> QED BY <1>0, <1>1, <2>1, <2>2, <2>3, <2>4, <3>1 DEF ReaderInv
    <2> QED BY <1>0, <1>7, <1>3, <1>4, <1>5, <1>6, <2>1, <2>5 DEF ReadInv, DownInv
  <1>10. CASE ReadFill(r)
    <2> DEFINE k == rd[r].key
               v == rd[r].val
    <2>1. rd[r].pc = "locked" /\ cache' \in CachePut(k, v) /\ rd' = [rd EXCEPT ![r].pc = "done"]
      BY <1>10 DEF ReadFill
    <2>2. up /\ v = ScanView(k) /\ k \in Key /\ v >= rd[r].floor /\ rd[r].floor <= acked[k]
      BY <1>2, <2>1 DEF ReadInv, ReaderInv
    <2>3. v >= acked[k]
      BY <2>2 DEF ReadInv, AckedServed
    <2>4. rd'[r].pc = "done" /\ rd'[r].key = k /\ rd'[r].floor = rd[r].floor /\ rd'[r].val = v
      BY <1>5, <2>1 DEF RdState
    <2>5. ReaderInv(rd[r])'
      BY <1>0, <2>2, <2>4 DEF ReaderInv
    <2>6. \A j \in Key : cache'[j] \in {0, cache[j]} \/ (j = k /\ cache'[j] = v)
      <3> DEFINE full == [cache EXCEPT ![k] = v]
      <3>1. cache \in [Key -> Version]
        BY DEF TypeOK, Table
      <3>2. full \in [Key -> Version \cup {v}] /\ \A j \in Key : full[j] = IF j = k THEN v ELSE cache[j]
        BY <3>1
      <3>3. cache' = full \/ \E i \in Key \ {k} : cache' = [full EXCEPT ![i] = 0]
        BY <2>1 DEF CachePut
      <3> HIDE DEF full
      <3> QED BY <3>2, <3>3
    <2> HIDE DEF k, v
    <2>7. CacheInv'
      BY <1>0, <1>1, <1>2, <2>2, <2>3, <2>6 DEF ReadInv, CacheInv
    <2> QED BY <1>0, <1>7, <1>3, <1>4, <1>5, <2>5, <2>7 DEF ReadInv, DownInv
  <1>11. CASE ReadReturn(r)
    <2>1. UNCHANGED cache /\ rd' = [rd EXCEPT ![r].pc = "idle", ![r].floor = 0, ![r].val = 0]
      BY <1>11 DEF ReadReturn, memVars
    <2>2. rd'[r].pc = "idle"
      BY <1>5, <2>1 DEF RdState
    <2>3. ReaderInv(rd[r])'
      BY <2>2 DEF ReaderInv
    <2> QED BY <1>0, <1>7, <1>3, <1>4, <1>5, <1>6, <2>1, <2>3 DEF ReadInv, DownInv
  <1> QED BY <1>8, <1>9, <1>10, <1>11 DEF Read

\* ReadInv is kept, if the next start finds what was acknowledged.
LEMMA ReadStep ==
  ASSUME TypeOK, TypeOK', TablesInv, ReadInv, [Next]_vars, Recover => AckedServed'
  PROVE  ReadInv'
PROOF
  <1>1. CASE Stop \/ Crash
    <2>1. /\ up' = FALSE /\ pc' = "idle" /\ cache' = Empty
          /\ rd' = [r \in Reader |-> [rd[r] EXCEPT !.pc = "idle", !.floor = 0, !.val = 0]]
      BY <1>1 DEF Stop, Crash, LoseMemory
    <2>2. \A r \in Reader : rd'[r].pc = "idle"
      <3>1. \A r \in Reader : rd[r] \in RdState
        BY DEF TypeOK
      <3> QED BY <2>1, <3>1 DEF RdState
    <2>3. \A r \in Reader : ReaderInv(rd[r])'
      BY <2>2 DEF ReaderInv
    <2>4. AckedServed' /\ CacheInv' /\ DownInv'
      BY <2>1 DEF AckedServed, CacheInv, DownInv, Empty
    <2> QED BY <2>3, <2>4 DEF ReadInv
  <1>2. CASE Recover
    <2>1. ~up /\ UNCHANGED <<pc, cache, rd>> /\ AckedServed'
      BY <1>2 DEF Recover
    <2>2. pc = "idle" /\ \A r \in Reader : rd[r].pc = "idle"
      BY <2>1 DEF TablesInv, ReadInv, ReaderInv
    <2>3. \A k \in Key : cache[k] = 0
      BY <2>1 DEF ReadInv, DownInv
    <2>4. CacheInv'
      BY <2>1, <2>2, <2>3 DEF CacheInv
    <2>5. \A r \in Reader : ReaderInv(rd[r])'
      BY <2>1, <2>2 DEF ReaderInv
    <2> QED BY <1>2, <2>1, <2>4, <2>5 DEF ReadInv, DownInv, Recover
  <1>3. CASE up /\ Writer
    BY <1>3, ReadWriter
  <1>4. ASSUME NEW r \in Reader, Read(r) PROVE ReadInv'
    BY <1>4, ReadReader
  <1>5. CASE up /\ (Flusher \/ Compactor)
    <2>0. UNCHANGED <<up, cache, acked, rd>> /\ ~MemPut
      BY <1>5 DEF Flusher, Compactor, Flush, FlushSwap, FlushWrite, FlushFail, FlushInstall, Rotate, RotateFail,
                  CompactWrite, CompactFail, CompactRemove, CompactSwap, MemPut, CanLock, Unlocked, memVars
    <2>1. \A k \in Key : ScanView(k)' = ScanView(k)
      BY <1>5, <2>0, ViewStep
    <2>2. CASE Flush
      <3>1. /\ pc = "idle" /\ pc' = "flush" /\ cur' = [cur EXCEPT !.version = 0]
            /\ \A r \in Reader : rd[r].pc # "locked"
        BY <2>2 DEF Flush, CanLock, Unlocked
      <3>2. cur'.version = 0 /\ cur'.key = cur.key
        BY <3>1 DEF TypeOK
      <3>3. cur.key \in Key /\ \A k \in Key : ScanView(k) \in Nat
        BY ReadTypes
      <3>4. AckedServed'
        BY <2>0, <2>1 DEF ReadInv, AckedServed
      <3>5. CacheInv'
        BY <2>0, <2>1, <3>1, <3>2, <3>3 DEF ReadInv, CacheInv
      <3>6. \A r \in Reader : ReaderInv(rd[r])'
        BY <2>0, <3>1 DEF ReadInv, ReaderInv
      <3> QED BY <1>5, <2>0, <3>4, <3>5, <3>6 DEF ReadInv, DownInv
    <2>3. CASE ~Flush
      <3>1. UNCHANGED cur /\ pc \notin {"idle", "append", "put", "commit"}
        BY <1>5, <2>3 DEF Flusher, Compactor, FlushSwap, FlushWrite, FlushFail, FlushInstall, Rotate, RotateFail,
                  CompactWrite, CompactFail, CompactRemove, CompactSwap
      <3> QED BY <2>0, <2>1, <3>1, ReadQuiet
    <2> QED BY <2>2, <2>3
  <1>6. CASE UNCHANGED vars
    <2>1. UNCHANGED <<up, pc, cur, memtable, immutable, l0, l1, cache, acked, rd>>
      BY <1>6 DEF vars, memVars
    <2>2. \A k \in Key : ScanView(k)' = ScanView(k)
      BY <2>1 DEF ScanView, Newest
    <2> QED BY <2>1, <2>2, ReadQuiet
  <1>7. Writer \/ Flusher \/ Compactor => up
    <2>1. Writer \/ Flusher \/ Compactor => up \/ pc # "idle"
      BY DEF Writer, WriteAppend, WriteShort, WalSync, WalSyncFail, MemPut, CommitInvalidate, Ack,
             Flusher, Compactor, Flush, FlushSwap, FlushWrite, FlushFail, FlushInstall, Rotate, RotateFail,
             CompactWrite, CompactFail, CompactRemove, CompactSwap, CanLock, Unlocked
    <2> QED BY <2>1 DEF TablesInv
  <1> QED BY <1>1, <1>2, <1>3, <1>4, <1>5, <1>6, <1>7 DEF Next

\* ReadInv holds throughout.
LEMMA ReadsHold ==
  ASSUME (~CrashTears /\ ~ShortWrites) \/ MaxCrashes = 0
  PROVE  Spec => []ReadInv
PROOF
  <1>1. Init => ReadInv
    <2> SUFFICES ASSUME Init PROVE ReadInv
      OBVIOUS
    <2>1. Init => TypeOK
      BY LSMAssumption DEF Init, TypeOK, Empty, Table, Version, File, PcState, RdState, WalRecord
    <2>2. cache = Empty /\ acked = Empty /\ pc = "idle" /\ \A r \in Reader : rd[r].pc = "idle"
      BY DEF Init
    <2>3. \A k \in Key : ScanView(k) \in Nat
      BY <2>1, ReadTypes
    <2> QED BY <2>2, <2>3 DEF ReadInv, AckedServed, CacheInv, DownInv, ReaderInv, Empty
  <1>2. CASE ~CrashTears /\ ~ShortWrites
    <2>1. Spec => []AckedServed
      BY <1>2, AckedAreServed
    <2>2. (TypeOK /\ TablesInv) /\ (TypeOK /\ TablesInv)' /\ AckedServed' /\ ReadInv /\ [Next]_vars => ReadInv'
      BY ReadStep
    <2> QED BY <1>1, <2>1, <2>2, TablesHold, PTL DEF Spec
  <1>3. CASE MaxCrashes = 0
    <2>1. Init => up
      BY DEF Init
    <2>2. TypeOK /\ up /\ [Next]_vars => up'
      <3>1. TypeOK => ~Stop /\ ~Crash
        BY <1>3 DEF TypeOK, Stop, Crash
      <3> QED BY <3>1 DEF Next, Writer, WriteAppend, WriteShort, WalSync, WalSyncFail, MemPut, CommitInvalidate, Ack,
             Flusher, Compactor, Flush, FlushSwap, FlushWrite, FlushFail, FlushInstall, Rotate, RotateFail,
             CompactWrite, CompactFail, CompactRemove, CompactSwap, Read, ReadBegin, ReadLocked, ReadFill,
             ReadReturn, Recover, vars
    <2>3. (TypeOK /\ TablesInv) /\ (TypeOK /\ TablesInv)' /\ up /\ ReadInv /\ [Next]_vars => ReadInv'
      BY ReadStep DEF Recover
    <2> QED BY <1>1, <2>1, <2>2, <2>3, TablesHold, PTL DEF Spec
  <1> QED BY <1>2, <1>3

\* Read (cache first, then the tables under RLock) returns an entry at least as new
\* as every one acknowledged before it began, whatever Writes, flushes, compactions
\* and other readers do meanwhile.  A restart must find the WAL whole, or there is
\* none: half-written records alone do no harm while the process runs.
THEOREM ReadsSeeAcked ==
  ASSUME (~CrashTears /\ ~ShortWrites) \/ MaxCrashes = 0
  PROVE  Spec => []ReadSeesAcked
PROOF
  <1>1. ReadInv => ReadSeesAcked
    BY DEF ReadInv, ReaderInv, ReadSeesAcked
  <1> QED BY <1>1, ReadsHold, PTL

\* Under the same condition the block cache never outlives a write: it holds what
\* the tables hold, but for the key of a Write that is before blockCache.Remove.
THEOREM CacheNeverStale ==
  ASSUME (~CrashTears /\ ~ShortWrites) \/ MaxCrashes = 0
  PROVE  Spec => []CacheCoherent
PROOF
  <1>1. ReadInv => CacheCoherent
    BY DEF ReadInv, CacheInv, CacheCoherent
  <1> QED BY <1>1, ReadsHold, PTL

=============================================================================
