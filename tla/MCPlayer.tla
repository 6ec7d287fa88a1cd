------------------------------ MODULE MCPlayer ------------------------------
(* Instances of Player for TLC: two requests.                               *)
EXTENDS Player

CONSTANTS r1, r2, p1, p2, ip1, ip2

mcLimit == "all" :> 2 @@ "riot" :> 1
Gold == [tier |-> "GOLD", division |-> "II", lp |-> 5]
mcRank == {Gold, [tier |-> "DIAMOND", division |-> "I", lp |-> 90], [tier |-> "MASTER", division |-> "", lp |-> 0]}
mcCost == "c1" :> 1 @@ "c4" :> 4

Played(place, last, units) == [place |-> place, last |-> last, units |-> units]
Raw(time, players) == [time |-> time, players |-> players]
mcMatchList ==
  {<<>>, <<Raw(1, p1 :> Played(1, 38, <<"c1", "c4", "c4">>) @@ p2 :> Played(2, 38, <<>>)), Raw(3, p1 :> Played(4, 3, <<"c1">>)),
           Raw(2, p1 :> Played(5, 10, <<>>) @@ p2 :> Played(8, 11, <<"c4", "c1">>))>>}

mcBefore ==
  p1 :> <<[date |-> 0, rank |-> Gold, rating |-> 1405]>> @@ p2 :> <<>>

Ask(ip, path, p) == [ip |-> ip, path |-> path, player |-> p, valid |-> TRUE, key |-> TRUE, tag |-> TRUE]

mcQuery ==
  r1 :> {Ask(ip1, "player", p1), [Ask(ip1, "player", p2) EXCEPT !.tag = FALSE]}
  @@ r2 :> {Ask(ip2, "player", p1), Ask(ip1, "player", p2), Ask(ip1, "suggest", p1), Ask(ip1, "meta", p1)}
=============================================================================
