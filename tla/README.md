# TLA+ models of TFT Stats Analytics

This directory holds a verification development of the repository it lies
beside: TLA+ modules translated from the code, TLC configurations that check
them on small instances, and TLAPS proofs. `PROJECT.json` lists components,
runs, the definition-to-source map, hazards and theorems.

Run a model with `tlc -config MCLSMTree_store.cfg MCLSMTree`, check the proofs
with `tlapm LSMTreeProofs.tla` (and the other modules named `...Proofs`).

## 1. Inventory of the system

The system collects ranked match results, aggregates them per unit, item,
augment and trait, stores the statistics in a replicated key-value store and
serves them through an API.

```
ingestion --Publish--> broker x3 --Subscribe--> processor --Write--> metastore x3
                          |  ^                                          ^  |
                     replicate, gossip                     Read/Scan, gossip
anomaly detector --reads metastore, publishes--> broker --> api --> dashboard
```

| Component | State | Operations | Interacts through | What is hard | What makes it correct |
|---|---|---|---|---|---|
| metastore storage engine (`lsm.go`, `wal.go`, `memtable.go`, `sstable.go`, `lru.go`) | WAL, two memtables, SSTable levels, block cache | Write, flush, compact, Read, Scan, Close, recovery | called by the server, files | crash between any two steps, torn records, I/O errors half-way, readers filling a cache while writers invalidate it | acknowledged means durable and served; Read agrees with Scan; nothing goes back in time |
| conflict resolution (`vclock.go`) | none | pickNewer | every merge in the store | a partial order followed by two tie breaks, applied in any order | no cycles; never keeps a dominated entry; same result everywhere |
| metastore server (`server.go`) | ring, patch table, clients | Write, Read, Scan, onPeerDead, patch promotion, decay | gRPC between nodes, gossip, ring | stale liveness, timeouts whose write still lands, rings that differ, quorum that shrinks | the two quorums meet |
| broker partition (`partition.go`) | log file, index, base and next offset, notify channel | Append, trim, recover, ReadAt | called by Publish and Subscribe | retention under a reader, failed trims, restarts, fragments | an append-only log whose offsets never change meaning |
| broker Subscribe (`broker.go`) | position of each stream, offset saved by its client | the stream loop, subscribing again | partition, client | one notification token for many streams; window moving between two calls | each stream in order, no gaps but retention, a stream opened again repeats the same records, none stuck |
| broker replication (`broker.go`) | replica lists | Publish, replicate, onPeerDead, backfill | gRPC, gossip, ring | goroutines overtaking each other; replicas number for themselves | replicas agree on what an offset means |
| gossip (`gossip.go`) | membership view, incarnation | tick, disseminate, merge, Stop | UDP, onDead callback | loss, delay, missed ticks, restart with incarnation 0 | the dead are found in time, the living are not, false deaths heal |
| hash ring (`hashring.go`) | sorted virtual nodes | AddNode, RemoveNode, GetNodes | servers, brokers | colliding virtual nodes, removal | distinct owners, minimal movement |
| bloom filter (`bloom.go`) | bits | add, test, encode | SSTables | off-by-one in the encoding | no false negative |
| token bucket (`tokenbucket.go`) | tokens | allow | Publish | refill by elapsed time | never more than the burst |
| stream processor (`processor/*.py`) | reorder buffers, aggregates, offsets, flush counter | consume, release, flush, save offset | broker, metastore | forced release, crash between offset and flush, failing flush | nothing counted twice or lost silently |
| ingestion (`ingestion/*.py`) | priority queue, tokens, sequence numbers | a round of tasks, workers, Riot calls, publish | Riot, broker | coroutines sharing a limiter; a number used up by a failed publish; a task given up half-way | high tiers first, numbers in order per partition, every round ends |
| aggregation (`processor/aggregator.py`) | aggregates per key | process_match, composition_label, flush | processor | repeated units and items, entities of two types under one name, boards without units | what is flushed is what was played |
| anomaly detector (`anomaly/*.py`) | rolling windows | run_once, check, publish | metastore, broker | windows that mix regions, rounding, a publish failing half-way, a restart | alerts about rare rates only, tags that agree |
| API queries and cache (`service.py`, `cache.py`, `main.py`) | TTL cache | the `/meta` routes | metastore | threads that compute outside the lock, flushes under way, floors asked in different places | endpoints agree, nothing below the floor or older than the TTL |
| API middleware (`security.py`) | two sliding windows, daily cap | admit or refuse a request | every route | window edges, day change, restart | within a process never more than the limit in a window, one cap a day; Retry-After that suffices |
| API player search (`riot.py`) | rank history file | player_analysis, record_rank | Riot, a file | unlocked read-modify-write of a file, midnight, crash | whole files, ordered histories, consistent profiles |
| API anomaly feed (`service.py`) | bounded deque | the subscriber thread, get_anomalies | broker | resubscribing from offset 0 | every alert shown, the newest first |
| dashboard, scripts, common clients, set data, tests | - | - | - | - | not modelled |

`PROJECT.json` "hazards" lists, at their lines, the places where this can go
wrong in ways a test hardly reaches, and which property covers each.

## 2. Modules and how they correspond to the code

**LSMTree** - one metastore node's storage engine, one action per step that
leaves a different state behind if the process ends after it. `pc` is the place
of the goroutine that holds `l.mu`: `append` (record written), `put` (fsynced),
`commit` (in the memtable), `flush`, `table`, `install`, `rotate`, `compact`,
`merged`, `remove`, `ack`. Every I/O error path is an action of its own
(`WriteShort`, `WalSyncFail`, `FlushFail`, `RotateFail`, `CompactFail`).
Readers take three steps (cache lookup, lookup under `RLock`, cache fill);
`CanLock` is the exclusion between them and writers. `Crash` is a power failure
(unsynced WAL records may go, the first of them may be torn), `Stop` is
`Close`, `Recover` is `loadLevels` and `replayWAL`. A `StatEntry` is its place
in the order `pickNewer` decides by; module VClock justifies that.

**LSMTreeProofs**, **ReplicaQuorumProofs**, **PartitionProofs**,
**GossipProofs**, **IngestProofs**, **ProcessorProofs**, **PlayerProofs** (Gate
and Player), **ServiceProofs** - the theorems about the module each is named
after (section 5). ReplicaQuorumProofs extends VClock too, and ServiceProofs
extends Alerts: that is why VClock's and Alerts' `Init`, `Next` and `Spec` are
called `VcInit`, `AlertsInit` and so on.

**VClock** - `vcSum`, `vcDominates`, `pickNewer` on real clocks, applied by
`MemTable.Put` in whatever order the entries reach a replica. `Rank` is the
total order (event count, then sample size) that LSMTree and ReplicaQuorum call
a version: `Newer` of ReplicaQuorum is `pickNewer` on versions, and
`VersionsStandForEntries` proves that the two decide alike.

**AppendLog** - what a partition promises: an append-only log with retention at
its head. **Partition** - `partition.go` and the loop of `Broker.Subscribe`;
positions are record numbers, writes cut short leave a `stub` (header whole) or
`junk`. It is shown to implement AppendLog under the mapping `view`: what
reading through the index would give. A subscriber whose stream breaks opens a
new one at the offset it saved last (`saved`, every `SaveEvery` records, as
the processor does; the feed of the API never saves and begins at 0), so that
records come again; `sent` is what the present stream was sent and `got` what
all of them were.

**Gossip** - `gossip.go` in steps of one gossip interval. Within a second every
running node ticks once unless stalled; packets arrive in any order within it
or are lost. `HeartbeatAt` is an age. `merge` is `Merged` for others and
`Refuted` for ourselves.

**ReplicaQuorum** - `Write`, `Read` and `onPeerDead` of `server.go` for one key. Of
gossip nothing is assumed: `IsAlive` may say anything (an owner skipped is a
forwarded write that is never delivered), `onDead` may fire for anybody. A
coordinator that timed out may still have its write applied later (`Deliver`
after `WriteFail` or `WriteReturn`). Node state is what LSMTree shows a tree to
keep: the highest version, across restarts.

**Processor** - the way of a match from its number (`SeqCounter`) through a
broker partition, a subscriber thread with its offset file, the queue, the
reorder buffer and the aggregate into the metastore. `Receive`, `Save` and
`Break` are a subscriber thread; `Drain`, `Round`, `RoundFlush`, `FlushWrite`
and `FlushError` the main loop; `Expire` is time passing for the buffer.
`pop_ready` scans the heap until nothing moves; because the watermark only
grows the result does not depend on the order of the scan, and `Reach` states
it directly. `Listed` takes matches out of the buffer in the order of a key,
each at the place its number of predecessors says. An aggregate is the number of
matches in it.

**Ingest** - `Ingestor.run`, its workers, `RateLimiter` and `RiotClient` under
one asyncio loop; a step is what happens between two awaits. A task is a pair
of region and tier and also the partition it publishes to. `PutRound` is the
main loop after `queue.join`; `Take`, `Acquire` and the answers of Riot
(`Players`, `MatchIds`, `Normalize`, `NotAMatch`, `TooMany`, `NotOk`) a worker,
`Fail` any exception in it, which gives up the rest of the task. Without a key
(`synthetic`) `Generate` takes the place of the calls.

**Aggregator** - `process_match`, `composition_label` and `flush` as operators
on boards: which samples a board gives, and the entries of a flush.
**Service** - extends Aggregator: the processor flushes its entries one by one
into the metastore while the `/meta` handlers run in threads. `get_or_compute`
is five steps (clock read before the lock, hit, compute outside the lock, put,
failure); the queries (`ListEntities`, `GetEntity`, `TierComparison`,
`RankGap`, `PatchHistory`, `ChampionItemPairs`) are operators on the entries of
a scan, floors, clamps, decay and tie breaks included. What the code leaves to
the order of a dict is a choice here: `Tops` are the selections a sort and a cut
may give, `Answers` what a handler may answer with. Ids say what they are ids of
(`AggregatorAssumption`), as the names of set data do.

**Gate** - `rate_limit_middleware`: two sliding windows and the daily cap, in
the order the code asks them, and the clock; `Since` is the `popleft` loop at
the head of a window. What the process remembers goes with a `Crash`; the
history variable `starts` counts its lives, and `spent` what was let through on
the day in all of them. **Player** - extends Gate: the
routes `/player` and `/players/suggest`, the Riot calls with their errors, the
rank history file and the profile. Files are inodes, so that a thread that
opened the temporary file keeps it when another renames it. Python's sorts are
stable, also in reverse: `Recent` gives each match the place its number of
predecessors (`Ahead`) says. Of Riot is assumed that placements begin at 1 and
that ranks are on the ladder (`MatchAssumption`, `RankAssumption`).

**Alerts** - the detector's passes (`RunOnce` scores a copy of the store key by
key, `Scored`, and tags what it found, `Tagged`; `Publish` one spike at a time, `PublishFails`, `Restart`), the topic, and the
API's feed thread (`Subscribe`, `Deliver`, `Break`) with `get_anomalies`
(`RecentFrom`). A scan's
answer is built from a Go map, so each pass scores in any order (`ScanOrders`),
and the store may hold anything when the detector starts. The z-test is in
integers, multiplied out; the code's is in floating point, so that a rate
exactly at the threshold is found or not (`rounded` of `Spike`), and where the
spread should be 0 a higher rate is found if rounding leaves some. `get_anomalies` is one step here; in the code
an alert arriving during it makes the request fail (a hazard without property).

Composition: Processor sees the broker as the log of AppendLog and the
metastore as a `pickNewer` of entries. ReplicaQuorum takes over from LSMTree
that a version once held is not lost, from VClock that merging is a maximum,
and from Gossip nothing. Partition uses AppendLog as its abstract
specification. `Ingest!PartitionOrder` is what `Processor!Number` assumes of
the numbers in a partition, and `Processor!LatestFlushServed` is why Service
may keep one entry per key, that of the last flush. Player runs behind Gate,
Service is composed with Aggregator; Alerts reads the store as Service does.

Definitions named "Mutant of X" are deliberately wrong variants of X, kept to
show that each property can fail: with X replaced by its mutant, TLC reports
the property violated.

## 3. Runs

| Run | Bounds | Shows |
|---|---|---|
| `store` | 2 keys, 2 versions, 3 writes, 5 tables, 2 crashes or stops; memtable of 1 entry, compaction at 2 L0 tables | acknowledged entries stay durable and served over all failures that leave whole records; L1 tables left overlapping by a crash do not mislead Read; no step makes the tree forget |
| `read` | 2 keys, 2 readers, cache of 1 entry, 2 writes, failing writes | reads are never older than what was acknowledged when they began, from the cache too |
| `log` | retention cap 2, 6 publishes, 2 restarts, failing trims, two broken streams, offset saved every 2 records | the partition implements AppendLog, restarts and failed trims included; each stream is in order and misses only what retention removed; what a later stream repeats is the same record |
| `live` | 2 streams, 4 publishes, writes cut short, retention cap 2 | both streams reach every record although one token wakes one of them; fragments in the file are never delivered |
| `gossip` | 3 nodes, suspect after 3 s, dead after 4 s, 2 losses, 1 missed tick, 2 crashes, 1 restart | whoever is the last to run finds the others dead in time; nobody is suspected without enough silence; a view's incarnation is never ahead of its owner |
| `pipeline` | 2 partitions, 2 matches, queue of 1, offset saved every message, 2 faults (broken streams, restarts), any number of failed publishes and writes | nothing received falls between the threads and the buffers; no match is aggregated before its predecessors unless a gap was given up; a reconnect repeats only what was not saved; a later flush is never hidden by an earlier one; every match is aggregated or lies before the offset a restart began at |
| `resolve` | 3 writers, counts to 2, 3 sample sizes, any 3 entries in any order | `pickNewer` keeps the highest rank, whatever the order |
| `quorum` | 3 nodes, N=3, W=R=2, 2 writes, 1 read, 1 declared death, 1 restart | a read that heard two replicas sees what was acknowledged before it began; acknowledged writes stay held by their quorum |
| `ingest` | 2 tiers, 2 workers, 2 rounds, rate 2 per second of 2 ticks, 1 player, 2 match ids, one 429, any number of failures, with and without a key | no worker is at a low tier while a high one waits; partitions get their numbers in order; any second sees at most twice the rate; every round ends |
| `api` | 2 handlers, 11 queries, 2 batches, 1 flush with 1 failing write, TTL of 1 tick, floor of 2 samples, limit 2 | entries count what was played, repeated items, units and empty boards included; no entry takes another's place; list and single lookup agree; nothing below the floor; nothing older than the TTL |
| `lookup` | 2 requests from 2 addresses, limits 2 and 1 in a window of 2 ticks, 2 ticks a second and a day of 2 ticks, cap of 1 a day, 2 days, 3 ranks, histories of 2, 1 crash, any failing call or save | within a process limits hold in every window and Retry-After, rounded to seconds, suffices; a day has at most one cap for each process; histories stay ordered; a crash or an error never damages the file; profiles are consistent |
| `alerts` | 3 keys (1 entity, 2 tiers, 2 regions), all in the store with any contents to begin with, 3 passes in any scan order, 2 updates, windows of 2 to 3, 1 fault, feed of 2 | an alert's rate is rare among what it was compared with, whichever way the threshold rounds; the alerts of a pass agree on their tag; the front of the feed is what the stream yielded last, and every alert gets there |

No type invariant is a run's property. Those of LSMTree, ReplicaQuorum,
Partition, Gossip, Ingest, Player and Alerts are theorems.

Why the bounds are enough: in `store` one entry fills the memtable and two
tables start a compaction, so that three writes take the tree through several
flushes and a compaction with a crash at every step of it and another during
the recovery's own work. In `log` a cap of 2 trims from the third publish on.
In `gossip` 2 losses and a missed tick make up a suspicion, and two crashes, one
of them possibly of a node that had come back, leave one node to judge.
In `pipeline` two matches in two partitions are enough for a match that
overtakes its predecessor, a predecessor that never comes, one that comes after
the gap was given up, and a repetition of each. In `quorum` one death
and one restart make rings of coordinators differ. In `ingest` two workers and
two tiers put a worker of the old round beside one of the new, and a refill
between two acquisitions. In `api` the batches hold a unit with the same item
twice, a champion twice and three times, a board without units and two patches,
one of which decays; one failing write leaves a flush half visible; one tick
makes a cached scan expire. In `lookup` two requests are enough for threads that
overtake each other in `record_rank`, at midnight, and for a file left by an
earlier process; a history of 2 drops its oldest entry; a second of two ticks
makes the rounding of Retry-After matter. In `alerts` the third pass compares with a
window of two or three, and two updates make two regions of one tier spike together;
the fault is a failed publish, a restart or a broken stream. Keys,
readers, writers and nodes are symmetric where the specification does not
order them (`Symmetry`; for nodes because with N = number of nodes the walk
decides nothing). Runs with liveness use no symmetry.

Fairness. `Partition!Fairness`: each stream is a goroutine in a loop that the
Go runtime schedules, with a half-second timer in its only wait; publishing,
failing and reconnecting are not assumed to happen. `Processor!FairSpec`:
the threads do not all stop while one of them can go on, and time passes, so
that what waits in the reorder buffer gets old. Nothing is assumed about
matches coming in, writes succeeding, crashes and restarts. `Ingest!FairSpec`:
asyncio runs every coroutine that can go on, aiohttp gives up on a request
after its timeout, seconds pass; answers of Riot may all be failures.
`Alerts!Fairness`: the detector's loop publishes what it has found and the feed
thread subscribes again and takes what the stream yields; that passes happen
or that the store changes is not assumed, and faults are bounded, since with
endless breaks no thread would ever catch up.

Deadlock is checked where the system runs on for ever (`read`, `log`, `live`,
`ingest`, `pipeline`, `gossip`) and not where the bounds simply use up what the
environment does (writes in `store` and `quorum`, requests in `api` and
`lookup`, passes in `alerts`).

## 4. Abstractions and known limits of the code

- Byte formats (varints, JSON, protobuf, footer layout) are whole or cut
  records. An SSTable without footer is refused by `openSSTable` and read by
  nothing, so it is not represented.
- Bloom filter and block index of an SSTable do not change what `Get` returns.
- SSTable stamps grow: the wall clock is assumed not to step back.
- File system: after a power failure an fsynced prefix survives, of the rest
  any prefix, with the next record possibly torn.
- In `Partition`, torn files are not combined with retention and a restart at
  the same time (`PartitionAssumption`).
- In `Processor` the partitions are not trimmed, there is one ingestion node,
  and its numbers never start again.
- Gossip time is in whole intervals; suspectAfter and deadAfter are 3 and 4,
  or 2 and 3 in `MCGossip_echo.cfg`, instead of 10 and 20; only their order matters.
- In `Ingest` what a match contains is not represented, and a wait after 429 is
  only the chance of others to run.
- In `Service` a rate is an integer in units of 1/`Scale`, a weighted mean the pair of its
  sum and its total; sorting by other keys than the default, text and icons are
  left out. Validation of parameters is a flag of the query.
- In `Player` the profile's texts are left out, and so is Riot's first 429,
  which only delays a call. The file an earlier process left is assumed to be
  whole and in order, with no date after the first day (`StoreAssumption`).
- In `Alerts` time is counted in passes, `window_hours` too.

The properties are stated for what the code does achieve. Where it falls short
of a comment or a document, a configuration shows it where a property says what
the document says; these end in a violation and are not among the runs:

| What the repository says | What happens | Configuration: property |
|---|---|---|
| "zero data loss" (README.md:177), "every memtable write is durably recorded first" (wal.go:25) | `Replay` stops at a torn WAL tail, which stays in the file; later records go behind it and are lost at the next start. A short write (`ShortWrites = TRUE`) does the same without a torn one | `MCLSMTree_torn.cfg`: AckedDurable |
| `recover` ends at a "torn trailing write" (partition.go:77) | a cut payload is counted because the seek goes past the end; the record after it is delivered as garbage | `MCPartition_torn.cfg`: SentAsPublished |
| "alive -> suspected (10s) -> dead (20s)" (README.md:127) | with three members two survivors refresh each other's heartbeat of a crashed third. DeadToTheLast is what remains: the last one that runs does find the others dead in time | `MCGossip_echo.cfg`: DeadWhenDown |
| "Quorum is always W=2, R=2" (README.md:154) | `Read` answers with fewer replicas than the read quorum | `MCReplicaQuorum_short.cfg`: ReadFresh |
| "Allows up to `rate` acquisitions per second" (rate_limiter.py:8) | the bucket is filled once a second whatever was taken just before: up to twice the rate in one second, which is what SecondBound says | `MCIngest_burst.cfg`: RatePerSecond |
| "Stats with `sample_size < 200` are never served" (README.md:150) | augments are listed and served whatever their sample | `MCService_augments.cfg`: NeverBelowFloor |
| "resets at UTC midnight", "protects the Riot key budget" (security.py:85) | the cap begins again with every process; DailyBudget says one cap for each of them. The sliding windows too are per process (WindowBound) | `MCPlayer_restart.cfg`: CapPerDay |
| `record_rank` keeps a history | two threads in it at once lose one update: RecordedKept holds until `overlap` | - |
| the detector publishes what it finds | a failing publish loses the rest of the pass. TagsAgree is about the tags of what was published only | - |
| the feed shows alerts | after a break the stream begins at offset 0: older alerts are there twice, and while they are replayed newer ones are pushed out. FeedFront is about the front of the feed since the stream began; FeedGetsAll, that all get there some time | - |

## 5. Proofs

A theorem holds for every value of the constants that the named ASSUME of the
module allows: any number of keys, readers, nodes, requests, tasks, any limits
and any bounds. A further condition is in the ASSUME of the theorem, and below.

| Theorem | Property | Condition |
|---|---|---|
| LSMTreeProofs!TypeCorrect | the type invariant (no run's property) | - |
| LSMTreeProofs!AckedAreDurable | AckedDurable | no crash tears a WAL record, no WAL write is short |
| LSMTreeProofs!AckedAreServed | AckedServed | the same |
| LSMTreeProofs!ViewNeverShrinks | ViewMonotone (action property) | - |
| LSMTreeProofs!FirstHitIsNewest | FirstHitSuffices | - |
| LSMTreeProofs!ReadsSeeAcked | ReadSeesAcked | no torn or short WAL records, or no crash |
| LSMTreeProofs!CacheNeverStale | CacheCoherent | the same |
| ReplicaQuorumProofs!TypeCorrect | TypeOK | - |
| ReplicaQuorumProofs!AckedStayHeld | AckedHeld | - |
| ReplicaQuorumProofs!QuorumsMeet | QuorumReadFresh | W + R > number of nodes |
| ReplicaQuorumProofs!VersionsStandForEntries | `pickNewer` on clocks decides as `Newer` on versions | - |
| ReplicaQuorumProofs!HighestRankKept | KeepsHighestRank (VClock) | - |
| PartitionProofs!PartitionTypes | TypeOK | `WritesSurvive` |
| PartitionProofs!WhatIsSentWasPublished | SentAsPublished | `WritesSurvive` |
| PartitionProofs!SentInOrderWithoutGaps | SentInOrder | `WritesSurvive` |
| PartitionProofs!PartitionIsAppendLog | IsAppendLog (refinement) | `WritesSurvive` |
| GossipProofs!GossipTypes | TypeOK | - |
| GossipProofs!NeverAheadOfTheNode | IncarnationsSound | - |
| GossipProofs!NoneFalselySuspected | NoFalseSuspicion | every node is a peer of every other and Fanout reaches them all |
| GossipProofs!LastSeesThemDead | DeadToTheLast | - |
| IngestProofs!IngestTypes | TypeOK | - |
| IngestProofs!HigherTiersFirst | TierPriority | - |
| IngestProofs!PublishedInOrder | PartitionOrder (action property) | - |
| IngestProofs!SecondsBounded | SecondBound | - |
| ProcessorProofs!RepeatsBounded | RepeatBound | - |
| ProcessorProofs!NewFlushesServed | LatestFlushServed | - |
| ProcessorProofs!NothingDropped | NoneDropped | - |
| ProcessorProofs!OrderKept | CausalOrder | - |
| PlayerProofs!PlayerTypes | TypeOK | - |
| PlayerProofs!WindowsKept | WindowBound | - |
| PlayerProofs!RetryAfterSuffices | RetrySuffices | - |
| PlayerProofs!BudgetKept | DailyBudget | - |
| PlayerProofs!HistoriesOrdered | HistoryOrdered | - |
| PlayerProofs!RanksKept | RecordedKept | - |
| PlayerProofs!ProfilesAgree | ProfileAgrees | - |
| ServiceProofs!CacheKeepsTtl | NotStale | - |
| ServiceProofs!TypesKeptApart | TypesApart | - |
| ServiceProofs!NothingBelowFloor | FloorKept | - |
| ServiceProofs!ListAgreesWithGet | ListGetAgree | - |
| ServiceProofs!AlertsTyped | AlertsTypeOK (Alerts) | - |
| ServiceProofs!AlertsAreRare | AlertIsRare (Alerts) | - |
| ServiceProofs!TagsKept | TagsAgree (Alerts) | - |
| ServiceProofs!FeedStartsWithNewest | FeedFront (Alerts) | - |

Every proof has the same plan: an inductive invariant, one lemma per action or
group of actions that keeps it, and a last step that combines them. The
invariants, and why the property alone is not enough:

*LSMTree, durability.* That the memtable may be dropped when the WAL is rotated
depends on the table having been written from the immutable memtable, and that
sources may be removed depends on the merged table covering them. `StorageInv`
adds `CurInv` (the entry being written is logged, then durable, then held, by
the place in Write), `FlushInv` (the immutable memtable and the new table agree
until it is installed), `LevelInv` (tables served are on disk, or covered by
the merged one while it replaces them) and `Untorn`. The condition is
necessary: section 4 says how to see the counterexample.

*LSMTree, reads.* `TablesInv` needs nothing of the WAL. A compaction that ends
between writing the merged table and removing its sources leaves files that
come back at the next start; Read, which stops at the first level-1 table that
has the key, is right because of `Ordered` (a file with a later stamp is at
least as new for every key) and `Covered` (a file on disk that is not served
has nothing the served ones have not). `ReadInv` adds the cache: an entry is
the newest, but between a Write's commit and its `Remove`, and nobody reads
under `RLock` then. A short write is harmless without a crash, so here the
condition is weaker than for durability.

*ReplicaQuorum.* `AcksHold` (who acknowledged holds the version or a newer one)
gives AckedHeld; `HoldersAhead` says that a reader has a version it must see,
or has still as many holders of it ahead as acknowledged it: having heard R
nodes it has fewer than W ahead. Nothing is assumed of liveness views and rings.

*Partition.* `Indexed` says that the index, or the file when it is to be
recovered, has whole records under consecutive offsets that were told their
publishers; `Recoverable` that a file without fragments is what `recover`
makes of it, also after a trim that failed half-way; `Assigned` that an offset
was given once. `StreamsSound` and SentInOrder carry this over to the streams: each is in order
and without gaps from the offset it was asked from, and what a subscriber misses
over all its streams retention had removed.
For the refinement every action is shown to be an AppendLog step or a stutter
under `view`. `WritesSurvive`: no power failure, and where writes may be cut
short there is neither a restart nor a failed trim. Both runs of Partition
satisfy it; what happens otherwise is in section 4.

*Gossip.* `SelfAlive` (nobody doubts itself) makes IncarnationsSound inductive.
For NoFalseSuspicion, `Heard` relates the age of a member in a view to the
packets lost and ticks missed so far: one interval of silence costs at least
one of them where everybody is sent to. With three members
(docker-compose.yml:19) and a fanout of 3 (gossip.go:22) that is the case.
DeadToTheLast needs `Detecting`: where only one node runs (`Lone`) nothing comes
in (`Silent`), so that its view of any other is at least as old as the moment it
was left alone or past DeadAfter, and what is late beyond DeadAfter was paid for
with missed ticks (`Overdue`). It holds for any number of nodes, crashes and
restarts. More is not true: two survivors echo the heartbeat of a dead one to
each other (`MCGossip_echo.cfg`).

*Ingest.* TierPriority needs that a round begins when no worker is busy:
`Counted` (the unfinished tasks are those in the queue and with the workers)
and `OneHolder` (a task is with the queue or one worker) give it. PartitionOrder
needs `SeqAhead` and, in `WorkersSound`, that a number drawn is above what its
partition has. SecondBound needs `Recent`: what was acquired in the last i ticks
is at most what the bucket lacks, and a whole bucket more if it was refilled
since; no span of a second has two refills in it.

*Processor.* `Position` places a thread between the offset last saved and
`SaveEvery` behind it. For LatestFlushServed, `Behind` says that no entry of
the metastore is newer, in either component of its clock, than merged_clock and
flush_seq: then `pickNewer` leaves the entry of this flush, or one with the
same clock (`NewestWins`). A restart sets both back to 0 and the argument ends
there, as the property does. For NoneDropped and CausalOrder, `PipelineInv` has
`ReceivedHeld` (every record received since the last start is in the queue, the
buffer or the aggregate, the one a thread is about to save included) and
`Delivered` (every number up to the watermark was aggregated, unless a gap was
given up). That a release neither loses nor doubles a match, and releases in the
order of the numbers, is `ListedSorts`: ranks in a strict order are all taken,
each once.

*VClock.* `VersionsStandForEntries`: if one clock dominates another its sum is
larger (`DominationSums`), so that asking domination first and sums then decides
as the sums do. Sums are those of the community modules; what is said of them is
proved by taking a set with the fewest elements for which it fails. That
`pickNewer` is the maximum of a total order is what LSMTree and ReplicaQuorum
rely on when they call an entry by its version.

*Gate and Player.* `Windows` says that a window, once pruned, has exactly what
was admitted within it, so that Retry-After, counted from its first entry and
rounded up, outlasts that entry. `Budget` ties `_count` to what this process let
through on the day (`Own`) and gives every process before it a whole cap
(`Earlier`). `RecordInv` has the file: `FilesApart` (the temporary file is never
the live one), `Dates` (what any inode holds is torn or in order, with nothing
from after today, and the same for what a thread loaded) and `Serial` (until
two threads overlap there is one in `record_rank`, and by its place in it the
temporary file has what was kept with the new rank in it). ProfileAgrees needs
`Ranked`: from the snapshot on a thread's history ends with the rank it found,
whether appended, replaced or unchanged, because the end of a history is what is
kept of it. The rest is about the matches: sorting and leaving out permute and
select (`PlacesTaken`), and the counts of the eight slots add up (`CountsAddUp`).

*Service.* An entry of the cache is never stamped later than it was scanned
(`Slot`), because the clock is read before the scan; a thread that got a value
from another's scan compares with that stamp. The other three are about what is
in the entries. `AskInv` says that every entry, wherever it is (flush, store,
scan, cache, thread), has an id of the shape of its type, that the entries of a
flush have different keys, that a scan is finite and has only what its key asks
for, and that an answer is one `Answers` allows. The id then says the type. For
the floor, a route that asks it of every entry before it takes a mean (rank_gap)
is as good as one that asks it of the mean, since a sum of numbers is not below
any of them. For ListGetAgree the rows of a list are those of the single lookup
(`RowsOfId`), and a cut keeps the better ones (`TopsCut`).

*Alerts.* AlertIsRare is Cantelli's inequality (at most one in Z*Z + 1; at the
threshold itself, where rounding decides, the bound is met exactly): the squares of distances from
the mean add up to at least what those that reach the spike contribute
(`SquaresAbove`, over the observations one by one), and a spike is Z or more
deviations away (`FewReach`); `AlertInv` carries it from the pass that finds a spike
through publishing, the topic and the feed. TagsAgree needs `TagInv`: older
alerts have smaller times, so that those of one time are of one pass, and there
the tag is a function of what the pass saw, in whatever order (`PassAgrees`). FeedFront is
`FeedInv`: the i-th of the feed is the i-th from the end of what the stream has
yielded, from the beginning of a stream on, however many older alerts are behind.

Every invariant that a passing run checks is also a theorem, but for those named
here, which are only model-checked:

- liveness (StreamsCatchUp, EveryMatchCounted, RoundsEnd, FeedGetsAll): the
  prover has no rules for fairness;
- FlushedAsPlayed (Service): it compares two ways of counting the same boards,
  one through three levels of flattened sequences; this takes an induction over
  each level that the prover's library does not provide.

## 6. Not modelled

- *Broker replication*: `replicate`, `onPeerDead`, `backfill`. Nobody reads the
  replicas before a node dies, and what they hold then is a matter of which
  goroutine came first; two hazards record it.
- *Token bucket*, *hash ring*, *Bloom filter*: floating-point refill under one
  mutex, and pure functions of hashed names. ReplicaQuorum takes the walk of a
  key as a constant; a filter without false negatives changes no Get.
- *Scan fan-out and patch promotion* of the metastore server: a scan's answer
  is the union Service assumes; the current patch is what Service calls not
  superseded.
- *Dashboard*, *set data tables*, `fetch_set_data.py` (a one-off generator that
  downloads and prints them), metrics (write-only counters), message
  definitions, tests, and the routes that answer from constants (`/health`,
  `/metrics`, `/meta/roster`): user interface, data, or no state.
- How the synthetic generator draws a match, and the names and texts of answers.

## 7. What could follow

1. *Service*: FlushedAsPlayed, from a lemma that the number of places of a
   flattened sequence with some property is the sum over its parts.
2. *Broker replication*: a module beside Partition in which replicas number
   records for themselves, for the two hazards no property covers.
3. *Gossip*: DeadWhenDown for three members, once the code stops passing on
   heartbeats of members it has not heard from itself.
