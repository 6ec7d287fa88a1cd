------------------------------ MODULE Service ------------------------------
(***************************************************************************)
(* The REST API over the metastore: the routes /meta of api/main.py, the   *)
(* queries of api/service.py and the cache of api/cache.py, run by the     *)
(* threads of FastAPI's pool, while the processor flushes statistics       *)
(* (module Aggregator) into the metastore.  What the middleware lets in is *)
(* in module Gate, the routes /player in module Player.                    *)
(*                                                                         *)
(* The metastore is what the other modules show of it: it keeps the entry  *)
(* of the last flush acknowledged for a key (Processor!LatestFlushServed)  *)
(* and a scan sees it.  The order of rows, text and icons are left out; a  *)
(* weighted mean is the pair of its sum and its total.                     *)
(***************************************************************************)
EXTENDS Aggregator

CONSTANTS Request,      \* requests, each with the thread that runs its handler
          Query,        \* Query[r]: what request r may ask for
          NoQuery, NoAnswer,
          Batch,        \* what the processor may aggregate between two flushes
          Ttl,          \* CACHE_TTL_SECS, in ticks
          MinSample,    \* MIN_SAMPLE_SIZE
          HighTier, LowTier,
          Augment,      \* td.AUGMENTS
          Category,     \* _augment_category
          MaxLimit,     \* MAX_LIMIT
          TopChampions, TopItems,
          Superseded,   \* patches older than the current one
          Halving,      \* ticks after which their samples count half
          MaxTime, MaxFlushes, MaxErrors   \* bounds

\* What a route and its parameters ask for.
Queries ==
  [op : {"list", "get", "tiers", "gap", "history", "heatmap"}, type : STRING, id : Seq(STRING),
   patch : STRING, region : STRING, tiers : [given : BOOLEAN, names : SUBSET STRING],
   category : STRING, limit : Int, clean : BOOLEAN]

ASSUME ServiceAssumption ==
  /\ {Ttl, MinSample, MaxLimit, Halving} \subseteq Nat \ {0}
  /\ {TopChampions, TopItems, MaxTime, MaxFlushes, MaxErrors} \subseteq Nat
  /\ HighTier \cap LowTier = {} /\ IsFiniteSet(Augment) /\ Category \in [Augment -> STRING]
  /\ \A r \in Request : Query[r] \subseteq Queries /\ NoQuery \notin Query[r]
  /\ Batch \subseteq Seq(Played)

VARIABLES now,       \* time, in ticks
          flushed,   \* history: the batches flushed so far
          pend,      \* entries of the last flush still to be written
          store,     \* the metastore
          cache,     \* TTLCache._store; at: history, the time of the scan
          thread,    \* thread[r]: the handler of request r
          errors

vars == <<now, flushed, pend, store, cache, thread, errors>>

New == [pc |-> "new", req |-> NoQuery, time |-> 0, got |-> <<>>, at |-> <<>>, ans |-> NoAnswer]

Init ==
  /\ now = 0
  /\ flushed = <<>> /\ pend = <<>> /\ store = {} /\ cache = <<>>
  /\ thread = [r \in Request |-> New]
  /\ errors = 0

-----------------------------------------------------------------------------
(* The processor and the metastore                                          *)

FlushBatch ==
  /\ pend = <<>> /\ Len(flushed) < MaxFlushes
  /\ \E b \in Batch : /\ flushed' = Append(flushed, b)
                      /\ pend' = Flush(b, Len(flushed'))
  /\ UNCHANGED <<now, store, cache, thread, errors>>

WriteEntry ==
  /\ pend # <<>>
  /\ pend' = Tail(pend)
  /\ store' = {e \in store : EntryKey(e) # EntryKey(Head(pend))} \cup {Head(pend)}
  /\ UNCHANGED <<now, flushed, cache, thread, errors>>

\* The write of one entry fails; _flush goes on to the next.
WriteFails ==
  /\ pend # <<>> /\ errors < MaxErrors
  /\ pend' = Tail(pend) /\ errors' = errors + 1
  /\ UNCHANGED <<now, flushed, store, cache, thread>>

\* scanPredicate; "" is any.
Matches(e, key) ==
  /\ key[1] \in {"", e.type} /\ key[2] \in {"", e.place.patch} /\ key[3] \in {"", e.place.region}

\* applyDecay: the sample of an old patch shrinks, down to nothing, its rates stay.
Twofold[k \in 0 .. MaxTime] == IF k = 0 THEN 1 ELSE 2 * Twofold[k - 1]
ApplyDecay(e) == IF e.place.patch \in Superseded THEN [e EXCEPT !.sample = @ \div Twofold[now \div Halving]] ELSE e

Scan(key) == {ApplyDecay(e) : e \in {e \in store : Matches(e, key)}}

-----------------------------------------------------------------------------
(* The queries, on the entries scanned                                      *)

Weighted(es) ==
  [sample |-> SumFunction([e \in es |-> e.sample]),
   win |-> SumFunction([e \in es |-> e.win * e.sample]),
   avg |-> SumFunction([e \in es |-> e.avg * e.sample]),
   play |-> SumFunction([e \in es |-> e.play * e.sample])]

Row(id, es) == [id |-> id, type |-> (CHOOSE e \in es : TRUE).type, stat |-> Weighted(es),
                tiers |-> {e.place.tier : e \in es}, regions |-> {e.place.region : e \in es}]

AggregateByEntity(entries) ==
  {r \in {Row(id, {e \in entries : e.id = id}) : id \in {e.id : e \in entries}} : r.stat.sample # 0}

EmptyReferenceEntry(a) ==
  [id |-> <<a>>, type |-> "augment", stat |-> [sample |-> 0, win |-> 0, avg |-> 8, play |-> 0],
   tiers |-> {}, regions |-> {}]

\* What rows[:limit] of a sorted list may be: the metastore answers in the order
\* of a Go map, so that ties fall either way.
Tops(rows, limit, Before(_, _)) ==
  {S \in SUBSET rows : /\ Cardinality(S) = Min({limit, Cardinality(rows)})
                       /\ \A r \in S, q \in rows \ S : ~Before(q, r)}

Clamp(limit) == Max({1, Min({MaxLimit, limit})})

\* A tier_range that names no tier, such as ",", selects nothing; without one, and
\* without a tier, all are.
SelectTiers(entries, tiers) == {e \in entries : tiers.given => e.place.tier \in tiers.names}

\* Mutant of FloorRows: whatever has data.
FloorRowsAny(rows) == {r \in rows : r.stat.sample > 0}
FloorRows(rows) == {r \in rows : r.stat.sample >= MinSample}

BetterRow(r, q) ==
  \/ r.stat.sample # 0 /\ q.stat.sample = 0
  \/ r.stat.sample # 0 /\ q.stat.sample # 0 /\ r.stat.win * q.stat.sample > q.stat.win * r.stat.sample

CompleteReferenceEntities(rows) ==
  rows \cup {EmptyReferenceEntry(a) : a \in {a \in Augment : <<a>> \notin {r.id : r \in rows}}}

CategoryOf(id) == IF id[1] \in Augment THEN Category[id[1]] ELSE "standard"

ListEntities(q, entries) ==
  LET rows == AggregateByEntity(SelectTiers(entries, q.tiers))
      shown == IF q.type # "augment" THEN FloorRows(rows)
               ELSE {r \in CompleteReferenceEntities(rows) : q.category \in {"", CategoryOf(r.id)}}
  IN  Tops(shown, Clamp(q.limit), BetterRow)

\* Mutant of GetEntity: the floor is asked of every entry.
GetEntityStrict(q, entries) ==
  LET rows == AggregateByEntity({e \in SelectTiers(entries, q.tiers) : e.id = q.id /\ e.sample >= MinSample})
      served == IF q.type = "augment" THEN rows ELSE FloorRows(rows)
  IN  IF served = {} /\ q.type = "augment" /\ q.id[1] \in Augment THEN {EmptyReferenceEntry(q.id[1])} ELSE served

\* {} stands for insufficient_data.
GetEntity(q, entries) ==
  LET rows == AggregateByEntity({e \in SelectTiers(entries, q.tiers) : e.id = q.id})
      served == IF q.type = "augment" THEN rows ELSE FloorRows(rows)
  IN  IF served = {} /\ q.type = "augment" /\ q.id[1] \in Augment THEN {EmptyReferenceEntry(q.id[1])} ELSE served

TierComparison(q, entries) ==
  LET mine == {e \in entries : e.id = q.id}
      series == {[tier |-> t, type |-> {e.type : e \in mine}, stat |-> Weighted({e \in mine : e.place.tier = t})]
                   : t \in {e.place.tier : e \in mine}}
  IN  FloorRows(series)

Enough(e) == e.sample >= MinSample

RankGap(q, entries) ==
  LET of(id, tiers) == {e \in entries : Enough(e) /\ e.id = id /\ e.place.tier \in tiers}
      gap(id) == [id |-> id, high |-> Weighted(of(id, HighTier)), low |-> Weighted(of(id, LowTier))]
      rows == {gap(id) : id \in {id \in {e.id : e \in entries} : of(id, HighTier) # {} /\ of(id, LowTier) # {}}}
      size(r) == LET d == r.high.win * r.low.sample - r.low.win * r.high.sample IN IF d < 0 THEN -d ELSE d
      wider(r, s) == size(r) * s.high.sample * s.low.sample > size(s) * r.high.sample * r.low.sample
  IN  Tops(rows, Clamp(q.limit), wider)

PatchHistory(q, entries) ==
  IF q.id = <<>> THEN {e.place.patch : e \in entries}
  ELSE LET mine == {e \in entries : e.id = q.id}
       IN  FloorRows({[patch |-> p, stat |-> Weighted({e \in mine : e.place.patch = p})]
                        : p \in {e.place.patch : e \in mine}})

\* The champions (k = 1) or items (k = 2) most sampled.
PairAxis(rows, k, n) ==
  LET total(x) == MapThenSumSet(LAMBDA r : r.stat.sample, {r \in rows : r.id[k] = x})
  IN  Tops({r.id[k] : r \in rows}, n, LAMBDA x, y : total(x) > total(y))

PairCells(rows, C, I) == FloorRows({r \in rows : r.id[1] \in C /\ r.id[2] \in I})

PairTable(rows) ==
  {PairCells(rows, C, I) : C \in PairAxis(rows, 1, TopChampions), I \in PairAxis(rows, 2, TopItems)}

ChampionItemPairs(q, entries) ==
  PairTable({r \in AggregateByEntity(SelectTiers(entries, q.tiers)) : Len(r.id) = 2})

-----------------------------------------------------------------------------
(* The routes: which scans a request needs, and what is answered            *)

Types == <<"champion", "item", "augment", "composition">>

ScanKeys(q) ==
  CASE q.op \in {"list", "get"} -> <<<<q.type, q.patch, q.region>>>>
    [] q.op = "gap" -> <<<<q.type, q.patch, "">>>>
    [] q.op = "heatmap" -> <<<<"champion_item", q.patch, "">>>>
    [] q.op = "tiers" -> [i \in 1 .. 4 |-> <<Types[i], q.patch, "">>]
    [] q.op = "history" -> [i \in 1 .. 4 |-> <<Types[i], "", "">>]

\* What the answer may be, with ties one way or the other.
Answers(q, got) ==
  LET entries == UNION ToSet(got)
  IN  CASE q.op = "list" -> ListEntities(q, entries)
        [] q.op = "get" -> {GetEntity(q, entries)}
        [] q.op = "tiers" -> {TierComparison(q, entries)}
        [] q.op = "gap" -> RankGap(q, entries)
        [] q.op = "history" -> {PatchHistory(q, entries)}
        [] q.op = "heatmap" -> ChampionItemPairs(q, entries)

Over == [New EXCEPT !.pc = "over"]

\* Not too long, no control characters, nothing like a path or a URL.
CleanParam(q) == q.clean

\* A request arrives; a malformed one is answered 422.
Arrive(r) ==
  /\ thread[r] = New
  /\ \E q \in Query[r] : thread' = [thread EXCEPT ![r] = IF CleanParam(q) THEN [New EXCEPT !.pc = "call", !.req = q] ELSE Over]
  /\ UNCHANGED <<now, flushed, pend, store, cache, errors>>

-----------------------------------------------------------------------------
(* A handler: get_or_compute for one scan after the other, then the answer  *)

others == <<now, flushed, pend, store, errors>>
Key(th) == ScanKeys(th.req)[Len(th.got) + 1]

\* The clock is read before the lock is taken.
ReadClock(r) ==
  LET th == thread[r]
  IN  /\ th.pc = "call" /\ Len(th.got) < Len(ScanKeys(th.req))
      /\ thread' = [thread EXCEPT ![r].pc = "look", ![r].time = now]
      /\ UNCHANGED <<others, cache>>

Fresh(th) == Key(th) \in DOMAIN cache /\ th.time - cache[Key(th)].stamp < Ttl

Hit(r) ==
  LET th == thread[r]
  IN  /\ th.pc = "look" /\ Fresh(th)
      /\ thread' = [thread EXCEPT ![r].pc = "call", ![r].got = Append(@, cache[Key(th)].value),
                                  ![r].at = Append(@, cache[Key(th)].at)]
      /\ UNCHANGED <<others, cache>>

\* A miss: compute, outside the lock ...
Compute(r) ==
  LET th == thread[r]
  IN  /\ th.pc = "look" /\ ~Fresh(th)
      /\ thread' = [thread EXCEPT ![r].pc = "put", ![r].got = Append(@, Scan(Key(th))), ![r].at = Append(@, now)]
      /\ UNCHANGED <<others, cache>>

\* ... which may fail: 500, and nothing is cached.
ComputeFails(r) ==
  LET th == thread[r]
  IN  /\ th.pc = "look" /\ ~Fresh(th)
      /\ thread' = [thread EXCEPT ![r] = Over]
      /\ UNCHANGED <<others, cache>>

\* Mutant of Stamp: the time at which the value is stored.
StampLate(th) == now
Stamp(th) == th.time

Put(r) ==
  LET th == thread[r]
      k == ScanKeys(th.req)[Len(th.got)]
      c == [stamp |-> Stamp(th), at |-> Last(th.at), value |-> Last(th.got)]
  IN  /\ th.pc = "put"
      /\ cache' = [i \in {k} \cup DOMAIN cache |-> IF i = k THEN c ELSE cache[i]]
      /\ thread' = [thread EXCEPT ![r].pc = "call"]
      /\ UNCHANGED others

Finish(r) ==
  LET th == thread[r]
  IN  /\ th.pc = "call" /\ Len(th.got) = Len(ScanKeys(th.req))
      /\ \E ans \in Answers(th.req, th.got) : thread' = [thread EXCEPT ![r].pc = "done", ![r].ans = ans]
      /\ UNCHANGED <<others, cache>>

Reply(r) ==
  /\ thread[r].pc = "done"
  /\ thread' = [thread EXCEPT ![r] = Over]
  /\ UNCHANGED <<others, cache>>

Handle(r) == ReadClock(r) \/ Hit(r) \/ Compute(r) \/ ComputeFails(r) \/ Put(r) \/ Finish(r) \/ Reply(r)

Tick ==
  /\ now < MaxTime /\ now' = now + 1
  /\ UNCHANGED <<flushed, pend, store, cache, thread, errors>>

Next == \/ FlushBatch \/ WriteEntry \/ WriteFails \/ Tick
        \/ \E r \in Request : Arrive(r) \/ Handle(r)

Spec == Init /\ [][Next]_vars

-----------------------------------------------------------------------------
(* Properties                                                               *)

\* Every variable keeps its type, and the metastore has one entry per key.
TypeOK ==
  /\ now \in Nat /\ flushed \in Seq(Batch) /\ errors \in Nat
  /\ \A e \in store \cup ToSet(pend) : e.sample > 0 /\ e.win \in 0 .. Scale /\ e.play \in 0 .. Scale
  /\ \A e, f \in store : EntryKey(e) = EntryKey(f) => e = f
  /\ \A k \in DOMAIN cache : cache[k].stamp \in Nat /\ cache[k].at \in Nat
  /\ \A r \in Request : /\ thread[r].pc \in {"new", "call", "look", "put", "done", "over"}
                       /\ thread[r].req \in Query[r] \cup {NoQuery} /\ thread[r].time \in Nat
                       /\ Len(thread[r].got) = Len(thread[r].at)

Boards(batch, place) ==
  {x \in (DOMAIN batch) \X (1 .. 8) : batch[x[1]].place = place /\ x[2] \in DOMAIN batch[x[1]].boards}

\* How often a board shows an entity, counted directly.
Shows(b, e) ==
  CASE e.type = "champion" -> Cardinality({i \in DOMAIN b.units : <<b.units[i].id>> = e.id})
    [] e.type = "champion_item" ->
         Cardinality({x \in (DOMAIN b.units) \X (1 .. 3) :
                        LET u == b.units[x[1]] IN x[2] \in DOMAIN u.items /\ <<u.id, u.items[x[2]]>> = e.id})
    [] e.type = "item" -> IF \E i \in DOMAIN b.units : e.id[1] \in ToSet(b.units[i].items) THEN 1 ELSE 0
    [] e.type = "augment" -> Cardinality({i \in DOMAIN b.augments : <<b.augments[i]>> = e.id})
    [] e.type = "composition" -> IF CompositionLabel(b.units) = e.id THEN 1 ELSE 0

CountedAsPlayed(batch, e) ==
  LET shows(x) == Shows(batch[x[1]].boards[x[2]], e)
      boards == Boards(batch, e.place)
      won == {x \in boards : batch[x[1]].boards[x[2]].placement <= 4}
  IN  /\ e.sample = MapThenSumSet(shows, boards)
      /\ e.win = (Scale * MapThenSumSet(shows, won)) \div e.sample

\* What a flush writes is what was played: every entry has the samples and the
\* wins one counts on the boards, an item once per board, also when a unit
\* holds two of it and a champion is there twice; and every board, one without
\* units too, counts under exactly one composition.
FlushedAsPlayed ==
  [][flushed' # flushed =>
       /\ \A i \in DOMAIN pend' : CountedAsPlayed(Last(flushed'), pend'[i])
       /\ \A m \in DOMAIN Last(flushed') :
            LET place == Last(flushed')[m].place
                comps == {e \in ToSet(pend') : e.type = "composition" /\ e.place = place}
            IN  MapThenSumSet(LAMBDA e : e.sample, comps) = Cardinality(Boards(Last(flushed'), place))]_vars

\* aggregator.py:32: "The metastore keys on entity_id (not entity_type)".  No
\* entry of a flush takes the place of another, and tier_comparison, which puts
\* the entries of four types together, never mixes two.
TypesApart ==
  /\ \A i, j \in DOMAIN pend : i # j => EntryKey(pend[i]) # EntryKey(pend[j])
  /\ \A e, f \in store : e.id = f.id => e.type = f.type

Done(r, op) == thread[r].pc = "done" /\ thread[r].req.op = op
Entries(r) == UNION ToSet(thread[r].got)

\* The list and the single-entity endpoints agree on the same entries: an
\* entity get_entity has a row for is in the list, with that row, unless the
\* limit cut it behind better ones; and the list has nothing else.
ListGetAgree ==
  \A r \in Request : Done(r, "list") /\ thread[r].req.category = "" =>
    LET q == thread[r].req
        ans == thread[r].ans
        one(id) == GetEntity([q EXCEPT !.id = id], Entries(r))
        ids == {e.id : e \in Entries(r)} \cup IF q.type = "augment" THEN {<<a>> : a \in Augment} ELSE {}
    IN  /\ ans \subseteq UNION {one(id) : id \in ids}
        /\ \A id \in ids : \/ one(id) \subseteq ans
                           \/ /\ Cardinality(ans) = Clamp(q.limit)
                              /\ \A x \in one(id), y \in ans : ~BetterRow(x, y)

\* service.py:20, "never serve a stat below this": whatever a flush left half
\* written, decayed or cached, no answer rests on fewer samples than MinSample,
\* but for augments, which are listed and served without a floor.
FloorKept ==
  \A r \in Request : thread[r].pc = "done" =>
    LET q == thread[r].req
        enough(w) == w.sample >= MinSample
    IN  /\ \/ q.op \in {"list", "get"} /\ q.type # "augment"
           \/ q.op \in {"tiers", "heatmap"}
           \/ q.op = "history" /\ q.id # <<>>
           => \A x \in thread[r].ans : enough(x.stat)
        /\ q.op = "gap" => \A x \in thread[r].ans : enough(x.high) /\ enough(x.low)

\* README.md:150, "stats with sample_size < 200 are never served", of every list
\* and every single entity that has any data: augments have no floor.
NeverBelowFloor ==
  \A r \in Request : thread[r].pc = "done" /\ thread[r].req.op \in {"list", "get"} =>
    \A x \in thread[r].ans : x.stat.sample = 0 \/ x.stat.sample >= MinSample

\* main.py:3, "behind a 60s TTL cache": what a request gets was scanned less
\* than Ttl before it asked, although scans are slow, run outside the lock and
\* overwrite each other in the cache.
NotStale ==
  \A r \in Request : thread[r].at # <<>> /\ thread[r].pc # "look" =>
    Last(thread[r].at) > thread[r].time - Ttl

=============================================================================
