----------------------------- MODULE Aggregator -----------------------------
(***************************************************************************)
(* StatAggregator (processor/aggregator.py) with the statistics themselves:*)
(* what a batch of matches adds up to and the entries a flush makes of it. *)
(* Module Processor has the control around it.  A match is given by its    *)
(* place [patch, tier, region] and its boards; entity ids are tuples: <<c>>*)
(* for champion c, <<c, i>> for "c|i", <<"comp", c>> for "comp:c".  Rates  *)
(* and mean placements are whole numbers, in units of 1/Scale.             *)
(***************************************************************************)
EXTENDS Integers, FiniteSets, SequencesExt

CONSTANTS Cost,      \* CHAMPION_COST, by champion
          IdOrder,   \* IdOrder[c]: place of c among the champions' ids
          ItemId, AugmentId,
          Scale

\* A champion, an item and an augment never have the same id (tft_data.py), and
\* none of them has the prefix of a composition.
ASSUME AggregatorAssumption ==
  /\ DOMAIN Cost \cap ItemId = {} /\ DOMAIN Cost \cap AugmentId = {} /\ ItemId \cap AugmentId = {}
  /\ "comp" \notin DOMAIN Cost

Place == [patch : STRING, tier : STRING, region : STRING]
Unit == [id : DOMAIN Cost, items : Seq(ItemId)]
Board == [placement : 1 .. 8, units : Seq(Unit), augments : Seq(AugmentId)]
Played == [place : Place, boards : Seq(Board)]

\* The unit max() prefers: more items, then more cost, then the higher id.
Heavier(u, v) ==
  LET n == Len(u.items) - Len(v.items)
      c == Cost[u.id] - Cost[v.id]
  IN  n > 0 \/ (n = 0 /\ c > 0) \/ (n = 0 /\ c = 0 /\ IdOrder[u.id] > IdOrder[v.id])

Carry(units) == CHOOSE u \in ToSet(units) : \A v \in ToSet(units) : ~Heavier(v, u)
Fives(units) == Cardinality({i \in 1 .. Len(units) : Cost[units[i].id] >= 5})

\* Mutant of CompositionLabel: the id of the carry, without the prefix.
CompositionLabelBare(units) == IF units = <<>> THEN <<"Unknown">> ELSE <<Carry(units).id>>

CompositionLabel(units) ==
  CASE units = <<>> -> <<"comp", "Unknown">>
    [] units # <<>> /\ Len(Carry(units).items) < 2 /\ Fives(units) >= 3 -> <<"comp", "Fast9">>
    [] OTHER -> <<"comp", Carry(units).id>>

-----------------------------------------------------------------------------
(* process_match: the samples of a board, <<entity_type, entity_id>>, in    *)
(* the order of the calls of _add.                                          *)

OfUnit(u) == <<<<"champion", <<u.id>>>>>> \o [i \in 1 .. Len(u.items) |-> <<"champion_item", <<u.id, u.items[i]>>>>]
UnitItems(units) == FlattenSeq([i \in 1 .. Len(units) |-> units[i].items])

\* Mutant of ItemSamples: an item is counted as often as it is on the board.
ItemSamplesAll(units) == [i \in 1 .. Len(UnitItems(units)) |-> <<"item", <<UnitItems(units)[i]>>>>]

\* seen_items: once per board.
ItemSamples(units) ==
  LET items == SetToSeq(ToSet(UnitItems(units)))
  IN  [i \in 1 .. Len(items) |-> <<"item", <<items[i]>>>>]

Added(b) ==
  FlattenSeq([i \in 1 .. Len(b.units) |-> OfUnit(b.units[i])])
  \o ItemSamples(b.units)
  \o [i \in 1 .. Len(b.augments) |-> <<"augment", <<b.augments[i]>>>>]
  \o <<<<"composition", CompositionLabel(b.units)>>>>

\* buffers and totals after process_batch: every sample with where it is from
\* and its placement, and the boards per place.
Samples(batch) ==
  FlattenSeq([m \in 1 .. Len(batch) |->
    FlattenSeq([b \in 1 .. Len(batch[m].boards) |->
      LET added == Added(batch[m].boards[b])
      IN  [i \in 1 .. Len(added) |->
             [type |-> added[i][1], id |-> added[i][2], place |-> batch[m].place,
              placement |-> batch[m].boards[b].placement]]])])

Totals(batch, place) ==
  LET here == SelectSeq(batch, LAMBDA m : m.place = place)
  IN  FoldLeft(LAMBDA n, m : n + Len(m.boards), 0, here)

PlayRate(size, total) == Min({(Scale * size) \div total, Scale})

\* The keys of buffers, and where each was met first.
SampleKey(s) == <<s.type, s.id, s.place>>
Firsts(samples) == {i \in DOMAIN samples : \A j \in 1 .. i - 1 : SampleKey(samples[j]) # SampleKey(samples[i])}
InOrder(I) == [k \in 1 .. Cardinality(I) |-> CHOOSE i \in I : Cardinality({j \in I : j < i}) = k - 1]

\* The entry of the key met first at i, with the number of the flush for a
\* clock.  A win is a top-4 finish.
StatEntry(batch, samples, i, n) ==
  LET mine == {j \in DOMAIN samples : SampleKey(samples[j]) = SampleKey(samples[i])}
      size == Cardinality(mine)
      wins == Cardinality({j \in mine : samples[j].placement <= 4})
      sum == MapThenSumSet(LAMBDA j : samples[j].placement, mine)
  IN  [type |-> samples[i].type, id |-> samples[i].id, place |-> samples[i].place,
       sample |-> size, clock |-> n,
       win |-> (Scale * wins) \div size, avg |-> (Scale * sum) \div size,
       play |-> PlayRate(size, Totals(batch, samples[i].place))]

\* flush: one entry per key, in the order of their first samples.
Flush(batch, n) ==
  LET samples == Samples(batch)
      firsts == InOrder(Firsts(samples))
  IN  [k \in DOMAIN firsts |-> StatEntry(batch, samples, firsts[k], n)]

\* entryKey in the metastore (sstable.go): without the type.
EntryKey(e) == <<e.id, e.place>>

=============================================================================
