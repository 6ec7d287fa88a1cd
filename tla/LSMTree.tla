------------------------------ MODULE LSMTree ------------------------------
(***************************************************************************)
(* The storage engine of one metastore node: metastore/lsm.go with wal.go, *)
(* memtable.go, sstable.go and lru.go.                                     *)
(*                                                                         *)
(* A StatEntry is abstracted to its place in the order pickNewer decides   *)
(* entries of one key by: a version, larger is newer, 0 is "no entry".     *)
(* Module VClock states that order (Rank) and shows that applying          *)
(* pickNewer keeps the highest of it.  A memtable or an SSTable is then    *)
(* a function from keys to versions.                                       *)
(*                                                                         *)
(* l.mu is held exclusively exactly while pc # "idle", and shared by every *)
(* reader whose pc is "locked".                                            *)
(***************************************************************************)
EXTENDS Integers, Sequences, FiniteSets

CONSTANTS Key,          \* primary keys "entity:patch:tier:region"
          MaxVersion,   \* versions written are 1 .. MaxVersion
          Reader,       \* goroutines inside Read
          MemMax,       \* maxMemBytes, counted in entries
          L0Threshold,  \* level0CompactThreshold
          CacheCap,     \* blockCacheEntries
          CrashTears,   \* may a crash leave a half-written WAL record?
          ShortWrites,  \* may writing a WAL record fail half-way?
          MaxWrites,    \* bound: calls of Write
          MaxTables,    \* bound: SSTable files written
          MaxCrashes    \* bound: stops and crashes

ASSUME LSMAssumption ==
  /\ MaxVersion \in Nat \ {0}
  /\ L0Threshold \in Nat
  /\ CacheCap \in Nat \ {0}
  /\ {MemMax, MaxWrites, MaxTables, MaxCrashes} \subseteq Nat
  /\ {CrashTears, ShortWrites} \subseteq BOOLEAN
  /\ Key # {}

Version == 0 .. MaxVersion
Table == [Key -> Version]

\* An SSTable file that openSSTable accepts.  A file whose footer was never
\* written is refused by it and read by nothing, so it is not represented.
\* The stamp is the UnixNano part of the name, which orders a level's files.
File == [stamp : Nat, level : {0, 1}, data : Table]

WalRecord == [kind : {"put", "commit", "torn"}, key : Key, version : Version]

PcState == {"idle", "append", "put", "commit", "flush", "table", "install",
            "rotate", "compact", "merged", "remove", "ack"}

VARIABLES up,         \* is the process running?
          pc,         \* where the holder of l.mu is
          cur,        \* the entry being written: [key, version]
          memtable, immutable,
          l0, l1,     \* l.levels[0] and l.levels[1]
          new,        \* the SSTable being flushed or compacted
          rem,        \* compaction sources still to be removed
          disk,       \* the SSTable files in l.dir
          wal,        \* wal.log
          synced,     \* records of wal.log that an fsync has covered
          cache,      \* l.blockCache
          rd,         \* the readers
          acked,      \* history: newest version Write returned nil for
          now,        \* history: files named so far
          writes, crashes

memVars == <<memtable, immutable, l0, l1, cache>>
diskVars == <<disk, wal, synced>>
count == <<now, writes, crashes>>
vars == <<up, pc, cur, memVars, new, rem, diskVars, rd, acked, count>>

-----------------------------------------------------------------------------

Empty == [k \in Key |-> 0]
PickNewer(a, b) == IF a >= b THEN a ELSE b

\* What repeated pickNewer leaves of the entries found for one key.
Newest(S) == CHOOSE v \in S : \A w \in S : v >= w

\* Mutant of Put: the last write wins.
PutLastWins(table, k, v) == [table EXCEPT ![k] = v]
Put(table, k, v) == [table EXCEPT ![k] = PickNewer(@, v)]
Size(table) == Cardinality({k \in Key : table[k] # 0})

\* A record that holds no entry: a commit marker, or bytes that do not parse.
Mark(kind) == [kind |-> kind, key |-> cur.key, version |-> 0]

NewFile(level, data) == [stamp |-> now + 1, level |-> level, data |-> data]

\* compactLocked: the newest entry of every key among the sources.
Merged(files) == [k \in Key |-> Newest({f.data[k] : f \in files})]

\* Replay returns the records before the first one that does not parse.
Readable == {i \in 1 .. Len(wal) : \A j \in 1 .. i : wal[j].kind # "torn"}
Logged(k) == {wal[i].version : i \in {j \in Readable :
                                        wal[j].kind = "put" /\ wal[j].key = k}}
Replayed == [k \in Key |-> Newest({0} \cup Logged(k))]

\* Mutant of L1Hit: the level is searched oldest first.
L1HitOldest(k) == LET hits == {f \in l1 : f.data[k] # 0}
                  IN  {f.data[k] : f \in {g \in hits : \A h \in hits : g.stamp <= h.stamp}}

\* Within L1 Read takes the first hit, newest file name first.
L1Hit(k) == LET hits == {f \in l1 : f.data[k] # 0}
            IN  {f.data[k] : f \in {g \in hits : \A h \in hits : g.stamp >= h.stamp}}

ReadView(k) == Newest({0, memtable[k], immutable[k]}
                        \cup {f.data[k] : f \in l0} \cup L1Hit(k))
ScanView(k) == Newest({0, memtable[k], immutable[k]}
                        \cup {f.data[k] : f \in l0 \cup l1})

RdState == [pc : {"idle", "miss", "locked", "done"}, key : Key,
            floor : Version, val : Version]

Unlocked == up /\ pc = "idle"
\* Mutant of CanLock: Read releases RLock before it fills the cache.
CanLockEarly == Unlocked
CanLock == Unlocked /\ \A r \in Reader : rd[r].pc # "locked"

Init ==
  /\ up = TRUE /\ pc = "idle"
  /\ cur \in [key : Key, version : {0}]
  /\ memtable = Empty /\ immutable = Empty
  /\ l0 = {} /\ l1 = {} /\ rem = {} /\ disk = {}
  /\ new = [stamp |-> 0, level |-> 0, data |-> Empty]
  /\ wal = <<>> /\ synced = 0
  /\ cache = Empty
  /\ rd \in [Reader -> [pc : {"idle"}, key : Key, floor : {0}, val : {0}]]
  /\ acked = Empty
  /\ now = 0 /\ writes = 0 /\ crashes = 0

-----------------------------------------------------------------------------
(* Write: l.mu is taken, then WAL append, fsync, memtable, commit marker.   *)

WriteAppend(k, v) ==
  /\ CanLock /\ writes < MaxWrites
  /\ pc' = "append"
  /\ cur' = [key |-> k, version |-> v]
  /\ wal' = Append(wal, [kind |-> "put", key |-> k, version |-> v])
  /\ writes' = writes + 1
  /\ UNCHANGED <<up, memVars, new, rem, disk, synced, rd, acked, now, crashes>>

\* writeRecord fails after some of its bytes are in the file; Write returns
\* the error, nobody cuts the file back.
WriteShort ==
  /\ ShortWrites /\ CanLock /\ writes < MaxWrites
  /\ wal' = Append(wal, Mark("torn"))
  /\ writes' = writes + 1
  /\ UNCHANGED <<up, pc, cur, memVars, new, rem, disk, synced, rd, acked, now, crashes>>

WalSync ==
  /\ pc = "append"
  /\ synced' = Len(wal)
  /\ pc' = "put"
  /\ UNCHANGED <<up, cur, memVars, new, rem, disk, wal, rd, acked, count>>

\* Sync fails: Write returns the error and the record stays in the file.
WalSyncFail ==
  /\ pc = "append"
  /\ pc' = "idle"
  /\ UNCHANGED <<up, cur, memVars, new, rem, diskVars, rd, acked, count>>

MemPut ==
  /\ pc = "put"
  /\ memtable' = Put(memtable, cur.key, cur.version)
  /\ pc' = "commit"
  /\ UNCHANGED <<up, cur, immutable, l0, l1, cache, new, rem, diskVars, rd, acked, count>>

\* The commit marker is not fsynced and its errors are ignored.
CommitMarker ==
  {Mark("commit")} \cup IF ShortWrites THEN {Mark("torn")} ELSE {}

CommitInvalidate ==
  /\ pc = "commit"
  /\ \E m \in CommitMarker : wal' = Append(wal, m)
  /\ cache' = [cache EXCEPT ![cur.key] = 0]
  /\ pc' = IF Size(memtable) > MemMax THEN "flush" ELSE "ack"
  /\ UNCHANGED <<up, cur, memtable, immutable, l0, l1, new, rem, disk, synced, rd, acked, count>>

\* Write returns nil and releases l.mu (so does Flush, which wrote nothing:
\* its cur is the entry of an earlier Write made version 0).
Ack ==
  /\ pc = "ack"
  /\ acked' = Put(acked, cur.key, cur.version)
  /\ pc' = "idle"
  /\ UNCHANGED <<up, cur, memVars, new, rem, diskVars, rd, count>>

-----------------------------------------------------------------------------
(* flushLocked                                                              *)

\* The exported Flush: takes l.mu and flushes a memtable that is not empty.
Flush ==
  /\ CanLock /\ memtable # Empty /\ now < MaxTables
  /\ cur' = [cur EXCEPT !.version = 0]
  /\ pc' = "flush"
  /\ UNCHANGED <<up, memVars, new, rem, diskVars, rd, acked, count>>

\* Mutant of FlushSwap: the WAL is rotated with the swap, before the table.
FlushSwapRotate ==
  /\ pc = "flush"
  /\ immutable' = memtable
  /\ memtable' = Empty
  /\ wal' = <<>> /\ synced' = 0
  /\ pc' = "table"
  /\ UNCHANGED <<up, cur, l0, l1, cache, new, rem, disk, rd, acked, count>>

FlushSwap ==
  /\ pc = "flush"
  /\ immutable' = memtable
  /\ memtable' = Empty
  /\ pc' = "table"
  /\ UNCHANGED <<up, cur, l0, l1, cache, new, rem, diskVars, rd, acked, count>>

\* writeSSTable has written the footer.
FlushWrite ==
  /\ pc = "table" /\ now < MaxTables
  /\ new' = NewFile(0, immutable)
  /\ disk' = disk \cup {new'}
  /\ now' = now + 1
  /\ pc' = "install"
  /\ UNCHANGED <<up, cur, memVars, rem, wal, synced, rd, acked, writes, crashes>>

\* Mutant of FlushFail: the memtable is not put back.
FlushFailDrop ==
  /\ pc \in {"table", "install"}
  /\ immutable' = Empty
  /\ pc' = "idle"
  /\ UNCHANGED <<up, cur, memtable, l0, l1, cache, new, rem, diskVars, rd, acked, count>>

\* writeSSTable fails, before the footer or at Sync or reopening after it:
\* the swap is rolled back, the file stays where it is.
FlushFail ==
  /\ pc \in {"table", "install"}
  /\ memtable' = immutable
  /\ immutable' = Empty
  /\ pc' = "idle"
  /\ UNCHANGED <<up, cur, l0, l1, cache, new, rem, diskVars, rd, acked, count>>

FlushInstall ==
  /\ pc = "install"
  /\ l0' = l0 \cup {new}
  /\ immutable' = Empty
  /\ pc' = "rotate"
  /\ UNCHANGED <<up, cur, memtable, l1, cache, new, rem, diskVars, rd, acked, count>>

Rotate ==
  /\ pc = "rotate"
  /\ wal' = <<>> /\ synced' = 0
  /\ pc' = IF Cardinality(l0) > L0Threshold THEN "compact" ELSE "ack"
  /\ UNCHANGED <<up, cur, memVars, new, rem, disk, rd, acked, count>>

\* Truncate fails, or the Sync after it: the error is returned.
RotateFail ==
  /\ pc = "rotate"
  /\ \/ UNCHANGED <<wal, synced>>
     \/ wal' = <<>> /\ synced' = 0
  /\ pc' = "idle"
  /\ UNCHANGED <<up, cur, memVars, new, rem, disk, rd, acked, count>>

-----------------------------------------------------------------------------
(* compactLocked(0).  It leaves one table in L1, so the recursive call for  *)
(* level 1 is never made and no level is deeper than L1.                    *)

CompactWrite ==
  /\ pc = "compact" /\ now < MaxTables
  /\ l0 \cup l1 # {}
  /\ new' = NewFile(1, Merged(l0 \cup l1))
  /\ disk' = disk \cup {new'}
  /\ now' = now + 1
  /\ rem' = l0 \cup l1
  /\ pc' = "merged"
  /\ UNCHANGED <<up, cur, memVars, wal, synced, rd, acked, writes, crashes>>

CompactFail ==
  /\ pc \in {"compact", "merged"}
  /\ rem' = {}
  /\ pc' = "idle"
  /\ UNCHANGED <<up, cur, memVars, new, diskVars, rd, acked, count>>

\* Sources go in the order of the list: L0 before L1, by name in a level.
Before(f, g) == f.level < g.level \/ (f.level = g.level /\ f.stamp < g.stamp)
NextSource == {f \in rem : \A g \in rem \ {f} : Before(f, g)}

\* os.Remove of one source; its error is ignored and leaves the file.
CompactRemove ==
  /\ pc \in {"merged", "remove"}
  /\ \E f \in NextSource :
       /\ rem' = rem \ {f}
       /\ disk' \in {disk, disk \ {f}}
  /\ pc' = "remove"
  /\ UNCHANGED <<up, cur, memVars, new, wal, synced, rd, acked, count>>

CompactSwap ==
  /\ pc = "remove" /\ rem = {}
  /\ l0' = {} /\ l1' = {new}
  /\ pc' = "ack"
  /\ UNCHANGED <<up, cur, memtable, immutable, cache, new, rem, diskVars, rd, acked, count>>

-----------------------------------------------------------------------------
(* Read                                                                     *)

\* blockCache.Get, before any lock of the tree is taken.
ReadBegin(r, k) ==
  /\ up /\ rd[r].pc = "idle"
  /\ rd' = [rd EXCEPT ![r] = [pc    |-> IF cache[k] # 0 THEN "done" ELSE "miss",
                              key   |-> k,
                              floor |-> acked[k],
                              val   |-> cache[k]]]
  /\ UNCHANGED <<up, pc, cur, memVars, new, rem, diskVars, acked, count>>

\* The lookup under RLock; an absent key returns at once.
ReadLocked(r) ==
  /\ Unlocked /\ rd[r].pc = "miss"
  /\ LET v == ReadView(rd[r].key)
     IN  rd' = [rd EXCEPT ![r].val = v,
                          ![r].pc = IF v = 0 THEN "done" ELSE "locked"]
  /\ UNCHANGED <<up, pc, cur, memVars, new, rem, diskVars, acked, count>>

\* LRUCache.Put evicts when a new key makes it too large.  Which other key
\* goes is left open: the least recently used one is among the choices.
CachePut(k, v) ==
  LET full == [cache EXCEPT ![k] = v]
  IN  IF Size(full) <= CacheCap THEN {full}
      ELSE {[full EXCEPT ![j] = 0] : j \in {i \in Key \ {k} : cache[i] # 0}}

\* blockCache.Put while RLock is still held, then RUnlock.
ReadFill(r) ==
  /\ rd[r].pc = "locked"
  /\ cache' \in CachePut(rd[r].key, rd[r].val)
  /\ rd' = [rd EXCEPT ![r].pc = "done"]
  /\ UNCHANGED <<up, pc, cur, memtable, immutable, l0, l1, new, rem, diskVars, acked, count>>

ReadReturn(r) ==
  /\ rd[r].pc = "done"
  /\ rd' = [rd EXCEPT ![r].pc = "idle", ![r].floor = 0, ![r].val = 0]
  /\ UNCHANGED <<up, pc, cur, memVars, new, rem, diskVars, acked, count>>

-----------------------------------------------------------------------------
(* Shutdown, crash and NewLSMTree                                           *)

\* Everything in memory is gone.
LoseMemory ==
  /\ up' = FALSE /\ pc' = "idle"
  /\ memtable' = Empty /\ immutable' = Empty
  /\ l0' = {} /\ l1' = {} /\ rem' = {} /\ cache' = Empty
  /\ rd' = [r \in Reader |-> [rd[r] EXCEPT !.pc = "idle", !.floor = 0, !.val = 0]]
  /\ crashes' = crashes + 1
  /\ UNCHANGED <<cur, new, disk, acked, now, writes>>

\* The process ends at any point, killed or after Close (whose Flush is the
\* action above); what it wrote to the WAL is still in the system's cache.
Stop ==
  /\ up /\ crashes < MaxCrashes
  /\ LoseMemory
  /\ UNCHANGED <<wal, synced>>

\* What a power failure leaves of the WAL: every record an fsync covered, any number
\* of the later ones, and possibly some bytes of the next.
Surviving(n) ==
  {SubSeq(wal, 1, n)} \cup
    IF CrashTears /\ n < Len(wal) THEN {Append(SubSeq(wal, 1, n), Mark("torn"))} ELSE {}

Crash ==
  /\ up /\ crashes < MaxCrashes
  /\ \E n \in synced .. Len(wal) : wal' \in Surviving(n)
  /\ synced' = Len(wal')
  /\ LoseMemory

\* NewLSMTree: loadLevels by file name, then replayWAL.
Recover ==
  /\ ~up
  /\ up' = TRUE
  /\ l0' = {f \in disk : f.level = 0}
  /\ l1' = {f \in disk : f.level = 1}
  /\ memtable' = Replayed
  /\ UNCHANGED <<pc, cur, immutable, cache, new, rem, diskVars, rd, acked, count>>

-----------------------------------------------------------------------------

Writer == \/ \E k \in Key, v \in Version \ {0} : WriteAppend(k, v)
          \/ WriteShort \/ WalSync \/ WalSyncFail \/ MemPut
          \/ CommitInvalidate \/ Ack

Flusher == Flush \/ FlushSwap \/ FlushWrite \/ FlushFail \/ FlushInstall
             \/ Rotate \/ RotateFail

Compactor == CompactWrite \/ CompactFail \/ CompactRemove \/ CompactSwap

Read(r) == (\E k \in Key : ReadBegin(r, k)) \/ ReadLocked(r) \/ ReadFill(r) \/ ReadReturn(r)

Next == Writer \/ Flusher \/ Compactor \/ (\E r \in Reader : Read(r))
          \/ Stop \/ Crash \/ Recover

Spec == Init /\ [][Next]_vars

-----------------------------------------------------------------------------
(* Properties                                                               *)

\* Every variable keeps its type.
TypeOK ==
  /\ up \in BOOLEAN /\ pc \in PcState
  /\ cur \in [key : Key, version : Version]
  /\ memtable \in Table /\ immutable \in Table /\ cache \in Table /\ acked \in Table
  /\ l0 \subseteq File /\ l1 \subseteq File /\ rem \subseteq File /\ disk \subseteq File
  /\ new \in File
  /\ wal \in Seq(WalRecord) /\ synced \in 0 .. Len(wal)
  /\ rd \in [Reader -> RdState]
  /\ {now, writes, crashes} \subseteq Nat

\* Is a version at least v of k in a table, or in a readable WAL record an
\* fsync has covered?
Durable(k, v) ==
  \/ v = 0
  \/ \E f \in disk : f.data[k] >= v
  \/ \E i \in Readable : /\ i <= synced
                         /\ wal[i].kind = "put" /\ wal[i].key = k /\ wal[i].version >= v

\* Once Write has returned nil, its entry (or a newer one of its key) is on
\* disk at every moment: through WAL rotation, flush rollback, the removal of
\* compaction sources, power failures and restarts.
AckedDurable == \A k \in Key : Durable(k, acked[k])

\* A running tree serves every acknowledged entry or a newer one: what was
\* acknowledged before a restart is found again by loadLevels and replayWAL.
AckedServed == up => \A k \in Key : ScanView(k) >= acked[k]

\* A Read that has looked anything up returns an entry at least as new as the
\* newest one acknowledged before it began, from the cache or from the tables.
ReadSeesAcked == \A r \in Reader : rd[r].pc \in {"locked", "done"} => rd[r].val >= rd[r].floor

\* The cache never outlives a write: what it holds is what the tables hold,
\* but for the key of a Write that has not reached blockCache.Remove.
CacheCoherent ==
  \A k \in Key : \/ cache[k] \in {0, ScanView(k)}
                 \/ pc = "commit" /\ cur.key = k

\* Read, which stops at the first L1 table that has the key, finds what Scan,
\* which reads them all, finds: after a compaction cut short by a crash, or a
\* source file that could not be removed, L1 tables overlap, and the newest
\* file must be at least as new for every key it shares with the others.
FirstHitSuffices == up => \A k \in Key : ReadView(k) = ScanView(k)

\* While the process runs, no step makes the tree forget: not the memtable
\* swap, its rollback, the installation of a table or a compaction.
ViewMonotone == [][up /\ up' => \A k \in Key : ScanView(k)' >= ScanView(k)]_vars

-----------------------------------------------------------------------------
(* The inductive invariant behind AckedDurable and AckedServed, for a WAL   *)
(* no record of which is half-written.                                      *)

Untorn == \A i \in 1 .. Len(wal) : wal[i].kind # "torn"

\* Is a version at least v of k in the tables of the running process?
Held(k, v) ==
  \/ v = 0
  \/ memtable[k] >= v \/ immutable[k] >= v
  \/ \E f \in l0 \cup l1 : f.data[k] >= v

\* The entry of the Write in progress: logged, then durable, then served.
CurInv ==
  /\ pc = "append" => /\ wal # <<>>
                      /\ wal[Len(wal)] = [kind |-> "put", key |-> cur.key, version |-> cur.version]
  /\ pc \notin {"idle", "append"} => Durable(cur.key, cur.version)
  /\ pc \notin {"idle", "append", "put"} => Held(cur.key, cur.version)

\* The flush has its data in the immutable memtable or in the new table.
FlushInv ==
  /\ pc \in {"table", "install", "rotate"} => memtable = Empty
  /\ pc \notin {"table", "install"} => immutable = Empty
  /\ pc = "install" => new \in disk /\ new.data = immutable

\* The tables served are on disk, until a merged table covers them.
LevelInv ==
  /\ \A f \in disk \cup l0 \cup l1 : f.stamp <= now
  /\ pc # "remove" => l0 \cup l1 \subseteq disk
  /\ pc \in {"merged", "remove"} =>
       /\ new \in disk \ (l0 \cup l1)
       /\ rem \subseteq l0 \cup l1
       /\ \A f \in l0 \cup l1, k \in Key : new.data[k] >= f.data[k]

StorageInv ==
  /\ Untorn
  /\ ~up => pc = "idle"
  /\ CurInv /\ FlushInv /\ LevelInv
  /\ AckedDurable
  /\ up => \A k \in Key : Held(k, acked[k])

=============================================================================
