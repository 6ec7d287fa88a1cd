----------------------------- MODULE MCService -----------------------------
(* Instances of Service for TLC: two batches of matches and a query of      *)
(* every kind.                                                              *)
EXTENDS Service

CONSTANTS r1, r2

mcCost == "c1" :> 1 @@ "c2" :> 5
mcIdOrder == "c1" :> 1 @@ "c2" :> 2
mcCategory == "a1" :> "standard" @@ "a2" :> "god"

mcUnit(id, items) == [id |-> id, items |-> items]
mcBoard(p, units, augments) == [placement |-> p, units |-> units, augments |-> augments]
mcPlayed(patch, tier, boards) == [place |-> [patch |-> patch, tier |-> tier, region |-> "NA"], boards |-> boards]

Twice == mcBoard(1, <<mcUnit("c1", <<"i", "i">>)>>, <<"a1">>)
Plain == mcBoard(8, <<mcUnit("c1", <<>>)>>, <<>>)
Away == mcBoard(5, <<>>, <<>>)
Fast9 == mcBoard(3, <<mcUnit("c2", <<>>), mcUnit("c2", <<>>), mcUnit("c2", <<>>)>>, <<>>)
Alone == mcBoard(7, <<mcUnit("c2", <<>>)>>, <<>>)

mcBatch == {<<mcPlayed("new", "CHALLENGER", <<Twice, Plain>>), mcPlayed("new", "IRON", <<Plain, Plain>>)>>,
            <<mcPlayed("old", "CHALLENGER", <<Fast9, Away>>), mcPlayed("old", "IRON", <<Alone>>)>>}

Ask(op, type, id) ==
  [op |-> op, type |-> type, id |-> id, patch |-> "", region |-> "",
   tiers |-> [given |-> FALSE, names |-> {}], category |-> "", limit |-> 20, clean |-> TRUE]

Tiers(names) == [given |-> TRUE, names |-> names]

Listed == [Ask("list", "champion", <<>>) EXCEPT !.limit = 0]

mcQuery ==
  r1 :> {Listed, [Listed EXCEPT !.tiers = Tiers({})], Ask("list", "augment", <<>>),
         [Ask("list", "augment", <<>>) EXCEPT !.category = "god"], [Ask("gap", "augment", <<>>) EXCEPT !.clean = FALSE],
         [Ask("get", "champion", <<"c1">>) EXCEPT !.patch = "new", !.tiers = Tiers({"CHALLENGER"})],
         Ask("get", "augment", <<"a2">>), Ask("gap", "champion", <<>>), Ask("heatmap", "", <<>>),
         Ask("tiers", "", <<"c1">>), Ask("history", "", <<"c2">>), Ask("history", "", <<>>)}
  @@ r2 :> {Listed}
=============================================================================
