------------------------------- MODULE Gossip -------------------------------
(***************************************************************************)
(* Membership and failure detection: gossip/gossip.go.                     *)
(*                                                                         *)
(* Time advances in gossip intervals of one second.  Within a second every *)
(* running node ticks once (unless its loop is stalled) and sends its view *)
(* to its peers; a packet arrives within the second it was sent in, in any *)
(* order with the others, or is lost.  suspectAfter and deadAfter are      *)
(* scaled down; what matters of them is gossipInterval < suspectAfter <    *)
(* deadAfter.                                                              *)
(***************************************************************************)
EXTENDS Integers, FiniteSets

CONSTANTS Node,
          Peers,         \* the configured peers of each node
          SuspectAfter, DeadAfter, Fanout,
          MaxInc,        \* bound: incarnation numbers
          MaxLoss,       \* bound: packets lost
          MaxStalls,     \* bound: ticks missed
          MaxCrashes, MaxRestarts

ASSUME GossipAssumption ==
  /\ Peers \in [Node -> SUBSET Node]
  /\ {SuspectAfter, DeadAfter, Fanout, MaxInc, MaxLoss, MaxStalls, MaxCrashes, MaxRestarts}
       \subseteq Nat
  /\ 1 < SuspectAfter /\ SuspectAfter < DeadAfter

\* Status of a member; "none" is a member the node does not know of.
Status == {"none", "alive", "suspected", "dead"}
Member == [age : 0 .. DeadAfter, inc : 0 .. MaxInc, status : Status]
Unknown == [age |-> 0, inc |-> 0, status |-> "none"]
Fresh(inc) == [age |-> 0, inc |-> inc, status |-> "alive"]

\* A packet is the sender's membership view.
Packet == [to : Node, view : [Node -> Member]]

VARIABLES up,          \* running nodes
          members,     \* members[n][m]: g.members of node n
          incarnation, \* g.incarnation
          net,         \* packets in flight
          ticked,      \* nodes whose ticker fired this second
          downFor,     \* history: seconds since a node crashed, or another started again
          budget       \* what is left of the bounds

vars == <<up, members, incarnation, net, ticked, downFor, budget>>

\* New: everyone configured is alive as of now.
InitialView(n) == [m \in Node |-> IF m = n \/ m \in Peers[n] THEN Fresh(0) ELSE Unknown]

Init ==
  /\ up = Node
  /\ members = [n \in Node |-> InitialView(n)]
  /\ incarnation = [n \in Node |-> 0]
  /\ net = {} /\ ticked = {}
  /\ downFor = [n \in Node |-> 0]
  /\ budget = [loss |-> MaxLoss, stall |-> MaxStalls, crash |-> MaxCrashes, restart |-> MaxRestarts]

Spend(what) == budget[what] > 0 /\ budget' = [budget EXCEPT ![what] = @ - 1]

-----------------------------------------------------------------------------

\* Mutant of Aged: only a suspected member can be declared dead.
AgedStepwise(m) ==
  CASE m.status = "suspected" /\ m.age >= DeadAfter -> [m EXCEPT !.status = "dead"]
    [] m.status = "alive" /\ m.age >= SuspectAfter /\ m.age < DeadAfter -> [m EXCEPT !.status = "suspected"]
    [] OTHER -> m

\* tick: our own heartbeat, and the age of every other member.
Aged(m) ==
  CASE m.status \notin {"none", "dead"} /\ m.age >= DeadAfter -> [m EXCEPT !.status = "dead"]
    [] m.status = "alive" /\ m.age >= SuspectAfter /\ m.age < DeadAfter -> [m EXCEPT !.status = "suspected"]
    [] OTHER -> m

\* Mutant of TickedView: the incarnation announced is one ahead of ours.
TickedViewAhead(n) ==
  [m \in Node |-> IF m = n THEN [members[n][n] EXCEPT !.age = 0, !.inc = incarnation[n] + 1]
                  ELSE Aged(members[n][m])]

TickedView(n) ==
  [m \in Node |-> IF m = n THEN [members[n][n] EXCEPT !.age = 0, !.inc = incarnation[n]]
                  ELSE Aged(members[n][m])]

\* disseminate: the view goes to Fanout random peers that are not dead.
Targets(n, view) ==
  LET peers == {m \in Node \ {n} : view[m].status \notin {"none", "dead"}}
      k == IF Fanout < Cardinality(peers) THEN Fanout ELSE Cardinality(peers)
  IN  {P \in SUBSET peers : Cardinality(P) = k}

Tick(n) ==
  /\ n \in up \ ticked
  /\ members' = [members EXCEPT ![n] = TickedView(n)]
  /\ \E P \in Targets(n, TickedView(n)) :
       net' = net \cup {[to |-> m, view |-> TickedView(n)] : m \in P}
  /\ ticked' = ticked \cup {n}
  /\ UNCHANGED <<up, incarnation, downFor, budget>>

\* The loop of n misses a tick: a paused process, a slow onDead callback.
Stall(n) ==
  /\ n \in up \ ticked
  /\ Spend("stall")
  /\ ticked' = ticked \cup {n}
  /\ UNCHANGED <<up, members, incarnation, net, downFor>>

\* Mutant of Merged: gossip that says nothing new is no heartbeat.
MergedNoHeartbeat(cur, in) ==
  CASE in.status = "none" -> cur
    [] in.status # "none" /\ (cur.status = "none" \/ in.inc > cur.inc) -> Fresh(in.inc)
    [] in.status = "alive" /\ cur.status # "none" /\ in.inc = cur.inc /\ cur.status # "alive" -> Fresh(cur.inc)
    [] OTHER -> cur

\* merge, for one member other than ourselves.
Merged(cur, in) ==
  CASE in.status = "none" -> cur
    [] in.status # "none" /\ cur.status = "none" -> Fresh(in.inc)
    [] in.status # "none" /\ cur.status # "none" ->
       CASE in.inc > cur.inc -> Fresh(in.inc)
         [] in.inc = cur.inc /\ in.status = "alive" /\ cur.status # "alive" -> Fresh(cur.inc)
         [] in.inc <= cur.inc /\ in.status = "alive" /\ ~(in.inc = cur.inc /\ cur.status # "alive") ->
              [cur EXCEPT !.age = 0, !.status = IF @ = "suspected" THEN "alive" ELSE @]
         [] OTHER -> cur

\* merge, for ourselves: refute by a larger incarnation.
Refuted(inc, in) ==
  IF in.status \in {"suspected", "dead"} /\ in.inc >= inc THEN in.inc + 1 ELSE inc

Receive(p) ==
  LET n == p.to
  IN  /\ n \in up
      /\ Refuted(incarnation[n], p.view[n]) <= MaxInc
      /\ incarnation' = [incarnation EXCEPT ![n] = Refuted(@, p.view[n])]
      /\ members' = [members EXCEPT ![n] =
                       [m \in Node |-> IF m = n THEN @[n] ELSE Merged(@[m], p.view[m])]]
      /\ net' = net \ {p}
      /\ UNCHANGED <<up, ticked, downFor, budget>>

\* A packet is lost: in the network, or because nobody listens.
Lose(p) ==
  /\ \/ p.to \in up /\ Spend("loss")
     \/ p.to \notin up /\ UNCHANGED budget
  /\ net' = net \ {p}
  /\ UNCHANGED <<up, members, incarnation, ticked, downFor>>

\* The next second: HeartbeatAt of every member is one second older.
Second ==
  /\ up \subseteq ticked /\ net = {}
  /\ ticked' = {}
  /\ members' = [n \in Node |-> [m \in Node |->
       [members[n][m] EXCEPT !.age = IF members[n][m].status # "none" /\ @ < DeadAfter
                                     THEN @ + 1 ELSE @]]]
  /\ downFor' = [n \in Node |-> IF n \notin up /\ downFor[n] <= DeadAfter + MaxStalls
                                THEN downFor[n] + 1 ELSE downFor[n]]
  /\ UNCHANGED <<up, incarnation, net, budget>>

Crash(n) ==
  /\ n \in up /\ Spend("crash")
  /\ up' = up \ {n}
  /\ UNCHANGED <<members, incarnation, net, ticked, downFor>>

\* The process starts again: New, with incarnation 0.
Restart(n) ==
  /\ n \notin up /\ Spend("restart")
  /\ up' = up \cup {n}
  /\ members' = [members EXCEPT ![n] = InitialView(n)]
  /\ incarnation' = [incarnation EXCEPT ![n] = 0]
  /\ downFor' = [m \in Node |-> 0]
  /\ UNCHANGED <<net, ticked>>

Next == \/ \E n \in Node : Tick(n) \/ Stall(n) \/ Crash(n) \/ Restart(n)
        \/ \E p \in net : Receive(p) \/ Lose(p)
        \/ Second

Spec == Init /\ [][Next]_vars

-----------------------------------------------------------------------------
(* Properties                                                               *)

\* Every variable keeps its type.
TypeOK ==
  /\ up \subseteq Node /\ ticked \subseteq Node
  /\ members \in [Node -> [Node -> Member]]
  /\ incarnation \in [Node -> 0 .. MaxInc]
  /\ net \subseteq Packet
  /\ downFor \in [Node -> 0 .. DeadAfter + MaxStalls + 1]
  /\ budget \in [{"loss", "stall", "crash", "restart"} -> Nat]

\* README.md:127: "alive -> suspected (10s) -> dead (20s)".  A node that
\* has been down for longer than deadAfter (and the ticks that were missed) is
\* dead to every running node that knew it, once it has ticked.  Two nodes that
\* still run break it: each hears from the other that the third is alive.
DeadWhenDown ==
  \A m \in Node \ up : downFor[m] > DeadAfter + (MaxStalls - budget.stall) =>
    \A n \in up \cap ticked : members[n][m].status \in {"dead", "none"}

\* gossip.go:157: to the last node that runs all others are dead, once every one of
\* them has been down for longer than deadAfter (and the ticks it missed), whatever
\* was lost, late or on its way when they ended, and whoever was suspected.
DeadToTheLast ==
  \A n \in up \cap ticked :
    (\A m \in Node \ {n} : m \notin up /\ downFor[m] > DeadAfter + (MaxStalls - budget.stall)) =>
      \A m \in Node \ {n} : members[n][m].status \in {"dead", "none"}

\* No node credits another with an incarnation that one never had: a view can
\* only be behind, so that a node's own bump always overrides what is said of
\* it (until a restart sets the number back to 0).
IncarnationsSound ==
  budget.restart = MaxRestarts =>
    /\ \A n, m \in Node : members[n][m].inc <= incarnation[m]
    /\ \A p \in net, m \in Node : p.view[m].inc <= incarnation[m]

\* A running node's neighbours are not suspected while fewer packets were lost
\* and ticks missed than the silence suspectAfter asks for (and none was
\* restarted: that one was suspected with reason).
NoFalseSuspicion ==
  budget.restart = MaxRestarts =>
  \A n, m \in up : members[n][m].status \in {"suspected", "dead"} =>
    (MaxLoss - budget.loss) + (MaxStalls - budget.stall) >= SuspectAfter - 1

=============================================================================
