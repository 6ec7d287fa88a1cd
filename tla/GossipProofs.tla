---------------------------- MODULE GossipProofs ----------------------------
(***************************************************************************)
(* Proofs about Gossip: types, that nobody is credited with an incarnation *)
(* it never had, that nobody is suspected without a reason, and that, of   *)
(* two nodes, one that is down is declared dead in time.                   *)
(***************************************************************************)
EXTENDS Gossip, FiniteSetTheorems, TLAPS

Kinds == {"loss", "stall", "crash", "restart"}

\* What is left of a bound is no more than the bound.
Bounded == budget.loss <= MaxLoss /\ budget.stall <= MaxStalls /\ budget.restart <= MaxRestarts

TypeInv == TypeOK /\ Bounded

\* A budget is spent one at a time.
LEMMA SpendType ==
  ASSUME TypeInv, NEW what \in Kinds, Spend(what)
  PROVE  /\ budget' \in [Kinds -> Nat] /\ Bounded'
         /\ budget'[what] = budget[what] - 1 /\ budget[what] \in Nat /\ \A k \in Kinds \ {what} : budget'[k] = budget[k]
PROOF
  <1>1. budget \in [Kinds -> Nat] /\ budget[what] > 0 /\ budget' = [budget EXCEPT ![what] = budget[what] - 1]
    BY DEF Spend, TypeInv, TypeOK, Kinds
  <1>2. budget[what] - 1 \in Nat
    BY <1>1
  <1>3. /\ budget' \in [Kinds -> Nat] /\ budget'[what] = budget[what] - 1 /\ budget[what] \in Nat
        /\ \A k \in Kinds \ {what} : budget'[k] = budget[k]
    BY <1>1, <1>2
  <1>4. \A k \in Kinds : budget'[k] <= budget[k] /\ budget'[k] \in Nat /\ budget[k] \in Nat
    BY <1>1, <1>3
  <1>5. {"loss", "stall", "restart"} \subseteq Kinds
    BY DEF Kinds
  <1>6. {MaxLoss, MaxStalls, MaxRestarts} \subseteq Nat
    BY GossipAssumption
  <1>7. Bounded'
    BY <1>4, <1>5, <1>6 DEF Bounded, TypeInv
  <1> QED BY <1>3, <1>7

\* The members a node starts with.
LEMMA InitialTypes ==
  /\ Unknown \in Member /\ Unknown.inc = 0
  /\ \A inc \in 0 .. MaxInc : /\ Fresh(inc) \in Member /\ Fresh(inc).inc = inc
                              /\ Fresh(inc).status = "alive" /\ Fresh(inc).age = 0
  /\ \A n \in Node : InitialView(n) \in [Node -> Member]
PROOF
  <1>1. {DeadAfter, MaxInc} \subseteq Nat
    BY GossipAssumption
  <1>2. 0 \in 0 .. DeadAfter /\ 0 \in 0 .. MaxInc
    BY <1>1
  <1>3. Unknown \in Member /\ Unknown.inc = 0
    BY <1>2 DEF Unknown, Member, Status
  <1>4. \A inc \in 0 .. MaxInc : /\ Fresh(inc) \in Member /\ Fresh(inc).inc = inc
                                 /\ Fresh(inc).status = "alive" /\ Fresh(inc).age = 0
    BY <1>2 DEF Fresh, Member, Status
  <1>5. \A n \in Node : InitialView(n) \in [Node -> Member]
    BY <1>2, <1>3, <1>4 DEF InitialView
  <1> QED BY <1>3, <1>4, <1>5

\* tick changes the status of a member and nothing else, and only of one that
\* has been silent for suspectAfter.
LEMMA AgedMember ==
  ASSUME NEW m \in Member
  PROVE  /\ Aged(m) \in Member /\ Aged(m).inc = m.inc
         /\ m.age < SuspectAfter => Aged(m) = m
PROOF
  <1>1. {SuspectAfter, DeadAfter} \subseteq Nat /\ SuspectAfter < DeadAfter
    BY GossipAssumption
  <1>2. m.age \in 0 .. DeadAfter /\ m.age \in Nat
    BY <1>1 DEF Member
  <1>3. [m EXCEPT !.status = "dead"] \in Member /\ [m EXCEPT !.status = "dead"].inc = m.inc
    BY DEF Member, Status
  <1>4. [m EXCEPT !.status = "suspected"] \in Member /\ [m EXCEPT !.status = "suspected"].inc = m.inc
    BY DEF Member, Status
  <1>5. CASE m.status \notin {"none", "dead"} /\ m.age >= DeadAfter
    <2>1. Aged(m) = [m EXCEPT !.status = "dead"]
      BY <1>1, <1>2, <1>5 DEF Aged
    <2> QED BY <1>1, <1>2, <1>3, <1>5, <2>1
  <1>6. CASE m.status = "alive" /\ m.age >= SuspectAfter /\ m.age < DeadAfter
    <2>1. Aged(m) = [m EXCEPT !.status = "suspected"]
      BY <1>1, <1>2, <1>6 DEF Aged
    <2> QED BY <1>1, <1>2, <1>4, <1>6, <2>1
  <1>7. CASE ~(m.status \notin {"none", "dead"} /\ m.age >= DeadAfter)
             /\ ~(m.status = "alive" /\ m.age >= SuspectAfter /\ m.age < DeadAfter)
    <2>1. Aged(m) = m
      BY <1>7 DEF Aged
    <2> QED BY <2>1
  <1> QED BY <1>5, <1>6, <1>7

\* merge: the incarnation is one of the two; a member that is alive stays so, and
\* is fresh when the packet says so.
LEMMA MergedMember ==
  ASSUME NEW cur \in Member, NEW in \in Member
  PROVE  /\ Merged(cur, in) \in Member /\ Merged(cur, in).inc \in {cur.inc, in.inc}
         /\ cur.status = "alive" =>
              /\ Merged(cur, in).status = "alive"
              /\ Merged(cur, in).age = 0 \/ (Merged(cur, in) = cur /\ in.status # "alive")
PROOF
  <1> DEFINE status == IF cur.status = "suspected" THEN "alive" ELSE cur.status
             kept == [cur EXCEPT !.age = 0, !.status = status]
  <1>1. cur.inc \in 0 .. MaxInc /\ in.inc \in 0 .. MaxInc /\ cur.inc \in Int /\ in.inc \in Int
        /\ {DeadAfter, MaxInc} \subseteq Nat
    BY GossipAssumption DEF Member
  <1>2. /\ kept \in Member /\ kept.inc = cur.inc /\ kept.age = 0
        /\ cur.status = "alive" => kept.status = "alive"
    <2>1. status \in Status /\ (cur.status = "alive" => status = "alive")
      BY DEF Member, Status
    <2>2. 0 \in 0 .. DeadAfter
      BY <1>1
    <2> HIDE DEF status
    <2>3. kept \in Member
      BY <2>1, <2>2 DEF Member
    <2>4. kept.inc = cur.inc /\ kept.age = 0 /\ kept.status = status
      BY DEF Member
    <2> QED BY <2>1, <2>3, <2>4
  <1>3. \A inc \in 0 .. MaxInc : /\ Fresh(inc) \in Member /\ Fresh(inc).inc = inc
                                 /\ Fresh(inc).status = "alive" /\ Fresh(inc).age = 0
    BY InitialTypes
  <1>4. CASE in.status = "none"
    <2>1. Merged(cur, in) = cur
      BY <1>4 DEF Merged
    <2> QED BY <1>4, <2>1
  <1>5. CASE in.status # "none" /\ cur.status = "none"
    <2>1. Merged(cur, in) = Fresh(in.inc)
      BY <1>5 DEF Merged
    <2> QED BY <1>1, <1>3, <1>5, <2>1
  <1>6. CASE in.status # "none" /\ cur.status # "none" /\ in.inc > cur.inc
    <2>1. Merged(cur, in) = Fresh(in.inc)
      BY <1>1, <1>6 DEF Merged
    <2> QED BY <1>1, <1>3, <2>1
  <1>7. CASE in.status = "alive" /\ cur.status \notin {"none", "alive"} /\ in.inc = cur.inc
    <2>1. Merged(cur, in) = Fresh(cur.inc)
      BY <1>1, <1>7 DEF Merged
    <2> QED BY <1>1, <1>3, <2>1
  <1>8. CASE /\ in.status = "alive" /\ cur.status # "none" /\ in.inc <= cur.inc
             /\ ~(in.inc = cur.inc /\ cur.status # "alive")
    <2>1. Merged(cur, in) = kept
      BY <1>1, <1>8 DEF Merged
    <2> HIDE DEF kept
    <2> QED BY <1>2, <2>1
  <1>9. CASE in.status \notin {"none", "alive"} /\ cur.status # "none" /\ in.inc <= cur.inc
    <2>1. Merged(cur, in) = cur
      BY <1>1, <1>9 DEF Merged
    <2> QED BY <1>9, <2>1
  <1> QED BY <1>1, <1>4, <1>5, <1>6, <1>7, <1>8, <1>9

\* merge about ourselves: the number never falls.
LEMMA RefutedGrows ==
  ASSUME NEW inc \in 0 .. MaxInc, NEW in \in Member
  PROVE  Refuted(inc, in) \in Nat /\ Refuted(inc, in) >= inc
BY GossipAssumption DEF Refuted, Member

-----------------------------------------------------------------------------
(* The invariant                                                            *)

\* A running node has no doubt about itself.
SelfAlive == \A n \in Node : members[n][n].status = "alive"

GossipInv == TypeInv /\ SelfAlive /\ IncarnationsSound

\* Facts every step starts from.
LEMMA Views ==
  ASSUME GossipInv
  PROVE  /\ members \in [Node -> [Node -> Member]] /\ incarnation \in [Node -> 0 .. MaxInc]
         /\ \A n, m \in Node : /\ members[n] \in [Node -> Member] /\ members[n][m] \in Member
                               /\ members[n][m].inc \in 0 .. MaxInc /\ members[n][m].age \in 0 .. DeadAfter
                               /\ members[n][m].status \in Status
         /\ \A p \in net : /\ p \in Packet /\ p.to \in Node /\ p.view \in [Node -> Member]
                           /\ \A m \in Node : p.view[m] \in Member /\ p.view[m].inc \in 0 .. MaxInc
         /\ budget \in [Kinds -> Nat] /\ up \subseteq Node
         /\ {DeadAfter, SuspectAfter, MaxInc, MaxLoss, MaxStalls, MaxRestarts} \subseteq Nat
PROOF
  <1>1. TypeOK
    BY DEF GossipInv, TypeInv
  <1>2. \A n, m \in Node : members[n] \in [Node -> Member] /\ members[n][m] \in Member
    BY <1>1 DEF TypeOK
  <1>3. \A x \in Member : x.inc \in 0 .. MaxInc /\ x.age \in 0 .. DeadAfter /\ x.status \in Status
    BY DEF Member
  <1>4. \A p \in net : p \in Packet /\ p.to \in Node /\ p.view \in [Node -> Member]
    BY <1>1 DEF TypeOK, Packet
  <1>5. \A p \in net : \A m \in Node : p.view[m] \in Member /\ p.view[m].inc \in 0 .. MaxInc
    BY <1>3, <1>4
  <1>6. members \in [Node -> [Node -> Member]] /\ incarnation \in [Node -> 0 .. MaxInc]
        /\ budget \in [Kinds -> Nat] /\ up \subseteq Node
    BY <1>1 DEF TypeOK, Kinds
  <1>7. {DeadAfter, SuspectAfter, MaxInc, MaxLoss, MaxStalls, MaxRestarts} \subseteq Nat
    BY GossipAssumption
  <1> QED BY <1>2, <1>3, <1>4, <1>5, <1>6, <1>7

\* The first state.
LEMMA GossipBegins == Init => GossipInv
PROOF
  <1> SUFFICES ASSUME Init PROVE GossipInv
    OBVIOUS
  <1>0. {DeadAfter, SuspectAfter, MaxInc, MaxLoss, MaxStalls, MaxCrashes, MaxRestarts} \subseteq Nat
    BY GossipAssumption
  <1>1. \A n \in Node : members[n] = InitialView(n) /\ InitialView(n) \in [Node -> Member]
    BY InitialTypes DEF Init
  <1>2. TypeOK
    <2>1. members \in [Node -> [Node -> Member]]
      BY InitialTypes DEF Init
    <2>2. incarnation \in [Node -> 0 .. MaxInc] /\ downFor \in [Node -> 0 .. DeadAfter + MaxStalls + 1]
      BY <1>0 DEF Init
    <2>3. budget \in [{"loss", "stall", "crash", "restart"} -> Nat]
      BY <1>0 DEF Init
    <2> QED BY <2>1, <2>2, <2>3 DEF Init, TypeOK
  <1>3. Bounded
    BY <1>0 DEF Init, Bounded
  <1>4. 0 \in 0 .. MaxInc
    BY <1>0
  <1>5. ASSUME NEW n \in Node, NEW m \in Node
        PROVE  members[n][m].inc = 0 /\ (m = n => members[n][m].status = "alive")
    <2>1. members[n][m] = IF m = n \/ m \in Peers[n] THEN Fresh(0) ELSE Unknown
      BY <1>1 DEF InitialView
    <2>2. Fresh(0).inc = 0 /\ Fresh(0).status = "alive" /\ Unknown.inc = 0
      BY <1>4, InitialTypes
    <2> QED BY <2>1, <2>2
  <1>6. SelfAlive
    BY <1>5 DEF SelfAlive
  <1>7. IncarnationsSound
    BY <1>5 DEF IncarnationsSound, Init
  <1> QED BY <1>2, <1>3, <1>6, <1>7 DEF GossipInv, TypeInv

\* The view of a node that ticks, which is also the one it sends.
LEMMA TickedViewSound ==
  ASSUME GossipInv, NEW n \in Node
  PROVE  /\ TickedView(n) \in [Node -> Member]
         /\ TickedView(n)[n].status = "alive" /\ TickedView(n)[n].inc = incarnation[n] /\ TickedView(n)[n].age = 0
         /\ \A m \in Node \ {n} : TickedView(n)[m] = Aged(members[n][m]) /\ TickedView(n)[m].inc = members[n][m].inc
PROOF
  <1> DEFINE own == [members[n][n] EXCEPT !.age = 0, !.inc = incarnation[n]]
  <1>1. members[n][n] \in Member /\ incarnation[n] \in 0 .. MaxInc /\ DeadAfter \in Nat
        /\ members[n][n].status = "alive"
    BY Views DEF GossipInv, SelfAlive
  <1>2. own \in Member /\ own.status = "alive" /\ own.inc = incarnation[n] /\ own.age = 0
    <2>1. 0 \in 0 .. DeadAfter
      BY <1>1
    <2>2. own \in Member
      BY <1>1, <2>1 DEF Member
    <2>3. own.status = members[n][n].status /\ own.inc = incarnation[n] /\ own.age = 0
      BY <1>1 DEF Member
    <2> QED BY <1>1, <2>2, <2>3
  <1>3. TickedView(n) = [m \in Node |-> IF m = n THEN own ELSE Aged(members[n][m])]
    BY DEF TickedView
  <1> HIDE DEF own
  <1>4. \A m \in Node : Aged(members[n][m]) \in Member /\ Aged(members[n][m]).inc = members[n][m].inc
    BY Views, AgedMember
  <1> QED BY <1>2, <1>3, <1>4

\* A tick, and the packets it sends.
LEMMA TickStep ==
  ASSUME GossipInv, NEW n \in Node, Tick(n)
  PROVE  GossipInv'
PROOF
  <1> DEFINE view == TickedView(n)
  <1>1. /\ view \in [Node -> Member] /\ view[n].status = "alive" /\ view[n].inc = incarnation[n]
        /\ \A m \in Node \ {n} : view[m].inc = members[n][m].inc
    BY TickedViewSound
  <1>2. PICK P \in Targets(n, view) : net' = net \cup {[to |-> m, view |-> view] : m \in P}
    BY DEF Tick
  <1>3. P \subseteq Node
    BY <1>2 DEF Targets
  <1>4. /\ n \in up /\ members' = [members EXCEPT ![n] = view] /\ ticked' = ticked \cup {n}
        /\ up' = up /\ incarnation' = incarnation /\ downFor' = downFor /\ budget' = budget
    BY DEF Tick
  <1> HIDE DEF view
  <1>5. \A p \in net' : p \in net \/ (p.view = view /\ p \in Packet)
    BY <1>1, <1>2, <1>3 DEF Packet
  <1>6. members' \in [Node -> [Node -> Member]] /\ members'[n] = view /\ \A m \in Node \ {n} : members'[m] = members[m]
    BY <1>1, <1>4, Views
  <1>7. TypeInv'
    <2>1. net' \subseteq Packet
      BY <1>5, Views
    <2> QED BY <1>4, <1>6, <2>1 DEF GossipInv, TypeInv, TypeOK, Bounded
  <1>8. SelfAlive'
    BY <1>1, <1>6 DEF GossipInv, SelfAlive
  <1>9. IncarnationsSound'
    <2> SUFFICES ASSUME budget.restart = MaxRestarts
                 PROVE  /\ \A k, m \in Node : members'[k][m].inc <= incarnation[m]
                        /\ \A p \in net', m \in Node : p.view[m].inc <= incarnation[m]
      BY <1>4 DEF IncarnationsSound
    <2>1. /\ \A k, m \in Node : members[k][m].inc <= incarnation[m]
          /\ \A p \in net, m \in Node : p.view[m].inc <= incarnation[m]
      BY DEF GossipInv, IncarnationsSound
    <2>2. \A m \in Node : view[m].inc <= incarnation[m]
      <3>1. incarnation[n] \in Int
        BY Views
      <3> QED BY <1>1, <2>1, <3>1
    <2> QED BY <1>5, <1>6, <2>1, <2>2
  <1> QED BY <1>7, <1>8, <1>9 DEF GossipInv

\* A tick is missed, a packet is lost, a node crashes: the views stay.
LEMMA QuietStep ==
  ASSUME GossipInv, UNCHANGED <<members, incarnation, downFor>>, net' \subseteq net, up' \subseteq up,
         ticked' \subseteq Node,
         budget' = budget \/ \E what \in Kinds : Spend(what)
  PROVE  GossipInv'
PROOF
  <1>1. budget' \in [Kinds -> Nat] /\ Bounded' /\ (budget'.restart = MaxRestarts => budget.restart = MaxRestarts)
    <2>1. CASE budget' = budget
      BY <2>1, Views DEF GossipInv, TypeInv, Bounded
    <2>2. CASE \E what \in Kinds : Spend(what)
      <3>1. PICK what \in Kinds : Spend(what)
        BY <2>2
      <3>2. /\ budget' \in [Kinds -> Nat] /\ Bounded'
            /\ budget'[what] = budget[what] - 1 /\ budget[what] \in Nat
            /\ \A k \in Kinds \ {what} : budget'[k] = budget[k]
        BY <3>1, SpendType DEF GossipInv
      <3>3. "restart" \in Kinds /\ budget["restart"] <= MaxRestarts /\ MaxRestarts \in Nat
        BY Views DEF Kinds, GossipInv, TypeInv, Bounded
      <3>4. CASE what = "restart"
        BY <3>2, <3>3, <3>4
      <3>5. CASE what # "restart"
        BY <3>2, <3>3, <3>5
      <3> QED BY <3>4, <3>5
    <2> QED BY <2>1, <2>2
  <1>2. TypeInv'
    BY <1>1 DEF GossipInv, TypeInv, TypeOK, Kinds
  <1>3. SelfAlive'
    BY DEF GossipInv, SelfAlive
  <1>4. IncarnationsSound'
    BY <1>1 DEF GossipInv, IncarnationsSound
  <1> QED BY <1>2, <1>3, <1>4 DEF GossipInv

\* What a received packet leaves in the view.
LEMMA ReceivedView ==
  ASSUME GossipInv, NEW p \in net, Receive(p)
  PROVE  /\ p.to \in Node /\ members' \in [Node -> [Node -> Member]] /\ incarnation' \in [Node -> 0 .. MaxInc]
         /\ \A m \in Node \ {p.to} : members'[m] = members[m]
         /\ members'[p.to][p.to] = members[p.to][p.to]
         /\ \A m \in Node \ {p.to} : members'[p.to][m] = Merged(members[p.to][m], p.view[m])
         /\ \A m \in Node : incarnation'[m] >= incarnation[m]
PROOF
  <1> DEFINE n == p.to
             view == [m \in Node |-> IF m = n THEN members[n][n] ELSE Merged(members[n][m], p.view[m])]
             inc == Refuted(incarnation[n], p.view[n])
  <1>1. n \in Node /\ incarnation[n] \in 0 .. MaxInc /\ p.view[n] \in Member /\ MaxInc \in Nat
        /\ \A m \in Node : members[n][m] \in Member /\ p.view[m] \in Member
    BY Views
  <1>2. view \in [Node -> Member]
    BY <1>1, MergedMember
  <1>3. inc \in Nat /\ inc >= incarnation[n] /\ inc <= MaxInc
    BY <1>1, RefutedGrows DEF Receive
  <1>4. members' = [members EXCEPT ![n] = view] /\ incarnation' = [incarnation EXCEPT ![n] = inc]
    BY DEF Receive
  <1>5. view[n] = members[n][n] /\ \A m \in Node \ {n} : view[m] = Merged(members[n][m], p.view[m])
    BY <1>1
  <1> HIDE DEF view, inc, n
  <1>6. members' \in [Node -> [Node -> Member]] /\ members'[n] = view /\ \A m \in Node \ {n} : members'[m] = members[m]
    BY <1>1, <1>2, <1>4, Views
  <1>7. inc \in 0 .. MaxInc
    BY <1>1, <1>3
  <1>8. incarnation' \in [Node -> 0 .. MaxInc] /\ \A m \in Node : incarnation'[m] = IF m = n THEN inc ELSE incarnation[m]
    BY <1>1, <1>4, <1>7, Views
  <1>9. \A m \in Node : incarnation[m] \in Int
    BY Views
  <1>10. \A m \in Node : incarnation'[m] >= incarnation[m]
    BY <1>3, <1>8, <1>9
  <1> QED BY <1>1, <1>5, <1>6, <1>8, <1>10 DEF n

\* merge.
LEMMA ReceiveStep ==
  ASSUME GossipInv, NEW p \in net, Receive(p)
  PROVE  GossipInv'
PROOF
  <1>1. /\ p.to \in Node /\ members' \in [Node -> [Node -> Member]] /\ incarnation' \in [Node -> 0 .. MaxInc]
        /\ \A m \in Node \ {p.to} : members'[m] = members[m]
        /\ members'[p.to][p.to] = members[p.to][p.to]
        /\ \A m \in Node \ {p.to} : members'[p.to][m] = Merged(members[p.to][m], p.view[m])
        /\ \A m \in Node : incarnation'[m] >= incarnation[m]
    BY ReceivedView
  <1>2. net' \subseteq net /\ UNCHANGED <<up, ticked, downFor, budget>>
    BY DEF Receive
  <1>3. TypeInv'
    BY <1>1, <1>2 DEF GossipInv, TypeInv, TypeOK, Bounded
  <1>4. SelfAlive'
    BY <1>1 DEF GossipInv, SelfAlive
  <1>5. IncarnationsSound'
    <2> SUFFICES ASSUME budget.restart = MaxRestarts
                 PROVE  /\ \A k, m \in Node : members'[k][m].inc <= incarnation'[m]
                        /\ \A q \in net', m \in Node : q.view[m].inc <= incarnation'[m]
      BY <1>2 DEF IncarnationsSound
    <2>1. /\ \A k, m \in Node : members[k][m].inc <= incarnation[m]
          /\ \A q \in net, m \in Node : q.view[m].inc <= incarnation[m]
      BY DEF GossipInv, IncarnationsSound
    <2>2. \A m \in Node : incarnation[m] \in Int /\ incarnation'[m] \in Int
      BY <1>1, Views
    <2>3. ASSUME NEW k \in Node, NEW m \in Node PROVE members'[k][m].inc <= incarnation'[m]
      <3>1. members'[k][m].inc <= incarnation[m] /\ members'[k][m].inc \in Int
        <4>1. CASE k # p.to \/ m = p.to
          BY <1>1, <2>1, <4>1, Views
        <4>2. CASE k = p.to /\ m # p.to
          <5>1. members[k][m] \in Member /\ p.view[m] \in Member
            BY Views
          <5>2. members'[k][m].inc \in {members[k][m].inc, p.view[m].inc}
            BY <1>1, <4>2, <5>1, MergedMember
          <5>3. members[k][m].inc \in Int /\ p.view[m].inc \in Int
            BY Views
          <5> QED BY <2>1, <5>2, <5>3
        <4> QED BY <4>1, <4>2
      <3> QED BY <1>1, <2>2, <3>1
    <2>4. ASSUME NEW q \in net', NEW m \in Node PROVE q.view[m].inc <= incarnation'[m]
      <3>1. q \in net /\ q.view[m].inc <= incarnation[m] /\ q.view[m].inc \in Int
        BY <1>2, <2>1, Views
      <3> QED BY <1>1, <2>2, <3>1
    <2> QED BY <2>3, <2>4
  <1> QED BY <1>3, <1>4, <1>5 DEF GossipInv

\* A second passes.
LEMMA SecondView ==
  ASSUME GossipInv, Second
  PROVE  /\ members' \in [Node -> [Node -> Member]]
         /\ \A n, m \in Node : /\ members'[n][m].status = members[n][m].status
                               /\ members'[n][m].inc = members[n][m].inc
                               /\ members'[n][m].age <= members[n][m].age + 1 /\ members'[n][m].age \in Nat
                               /\ members[n][m].status # "none" =>
                                    members'[n][m].age = members[n][m].age + 1 \/ members'[n][m].age >= DeadAfter
PROOF
  <1> DEFINE age(n, m) == IF members[n][m].status # "none" /\ members[n][m].age < DeadAfter
                          THEN members[n][m].age + 1 ELSE members[n][m].age
             aged(n, m) == [members[n][m] EXCEPT !.age = age(n, m)]
  <1>1. members' = [n \in Node |-> [m \in Node |-> aged(n, m)]]
    BY DEF Second
  <1>2. ASSUME NEW n \in Node, NEW m \in Node
        PROVE  /\ aged(n, m) \in Member /\ aged(n, m).status = members[n][m].status
               /\ aged(n, m).inc = members[n][m].inc
               /\ aged(n, m).age <= members[n][m].age + 1 /\ aged(n, m).age \in Nat
               /\ members[n][m].status # "none" =>
                    aged(n, m).age = members[n][m].age + 1 \/ aged(n, m).age >= DeadAfter
    <2>1. members[n][m] \in Member /\ members[n][m].age \in 0 .. DeadAfter /\ DeadAfter \in Nat
      BY Views
    <2>2. /\ age(n, m) \in 0 .. DeadAfter /\ age(n, m) <= members[n][m].age + 1 /\ age(n, m) \in Nat
          /\ members[n][m].status # "none" => age(n, m) = members[n][m].age + 1 \/ age(n, m) >= DeadAfter
      BY <2>1
    <2> HIDE DEF age
    <2>3. aged(n, m) \in Member
      BY <2>1, <2>2 DEF Member
    <2>4. /\ aged(n, m).status = members[n][m].status /\ aged(n, m).inc = members[n][m].inc
          /\ aged(n, m).age = age(n, m)
      BY <2>1 DEF Member
    <2> QED BY <2>2, <2>3, <2>4
  <1> HIDE DEF aged
  <1> QED BY <1>1, <1>2

\* The next second begins.
LEMMA SecondStep ==
  ASSUME GossipInv, Second
  PROVE  GossipInv'
PROOF
  <1>1. /\ members' \in [Node -> [Node -> Member]]
        /\ \A n, m \in Node : /\ members'[n][m].status = members[n][m].status
                              /\ members'[n][m].inc = members[n][m].inc
    BY SecondView
  <1>2. ticked' = {} /\ UNCHANGED <<up, incarnation, net, budget>>
    BY DEF Second
  <1>3. downFor' \in [Node -> 0 .. DeadAfter + MaxStalls + 1]
    <2>1. downFor \in [Node -> 0 .. DeadAfter + MaxStalls + 1] /\ DeadAfter \in Nat /\ MaxStalls \in Nat
      BY Views DEF GossipInv, TypeInv, TypeOK
    <2> QED BY <2>1 DEF Second
  <1>4. TypeInv'
    BY <1>1, <1>2, <1>3 DEF GossipInv, TypeInv, TypeOK, Bounded
  <1>5. SelfAlive'
    BY <1>1 DEF GossipInv, SelfAlive
  <1>6. IncarnationsSound'
    BY <1>1, <1>2 DEF GossipInv, IncarnationsSound
  <1> QED BY <1>4, <1>5, <1>6 DEF GossipInv

\* A process starts again: the numbers it had do not count any more.
LEMMA RestartStep ==
  ASSUME GossipInv, NEW n \in Node, Restart(n)
  PROVE  GossipInv' /\ budget'.restart # MaxRestarts
PROOF
  <1>1. "restart" \in Kinds /\ budget["restart"] <= MaxRestarts /\ MaxRestarts \in Nat
    BY Views DEF Kinds, GossipInv, TypeInv, Bounded
  <1>2. /\ budget' \in [Kinds -> Nat] /\ Bounded' /\ budget'["restart"] = budget["restart"] - 1
        /\ budget["restart"] \in Nat
    BY <1>1, SpendType DEF Restart, GossipInv
  <1>3. budget'.restart # MaxRestarts
    BY <1>1, <1>2
  <1>4. InitialView(n) \in [Node -> Member] /\ InitialView(n)[n].status = "alive"
    <2>1. 0 \in 0 .. MaxInc
      BY Views
    <2>2. InitialView(n)[n] = Fresh(0)
      BY DEF InitialView
    <2> QED BY <2>1, <2>2, InitialTypes
  <1>5. /\ members' \in [Node -> [Node -> Member]] /\ members'[n] = InitialView(n)
        /\ \A m \in Node \ {n} : members'[m] = members[m]
    <2>1. members' = [members EXCEPT ![n] = InitialView(n)]
      BY DEF Restart
    <2> QED BY <1>4, <2>1, Views
  <1>6. incarnation' \in [Node -> 0 .. MaxInc] /\ downFor' \in [Node -> 0 .. DeadAfter + MaxStalls + 1]
    <2>1. 0 \in 0 .. MaxInc /\ 0 \in 0 .. DeadAfter + MaxStalls + 1
      BY Views
    <2> QED BY <2>1, Views DEF Restart, GossipInv, TypeInv, TypeOK
  <1>7. TypeInv'
    BY <1>2, <1>5, <1>6 DEF GossipInv, TypeInv, TypeOK, Kinds, Restart
  <1>8. SelfAlive'
    BY <1>4, <1>5 DEF GossipInv, SelfAlive
  <1>9. IncarnationsSound'
    BY <1>3 DEF IncarnationsSound
  <1> QED BY <1>3, <1>7, <1>8, <1>9 DEF GossipInv

\* Every step keeps the invariant.
LEMMA GossipSteps == GossipInv /\ [Next]_vars => GossipInv'
PROOF
  <1> SUFFICES ASSUME GossipInv, [Next]_vars PROVE GossipInv'
    OBVIOUS
  <1>1. ASSUME NEW n \in Node, Tick(n) PROVE GossipInv'
    BY <1>1, TickStep
  <1>2. ASSUME NEW n \in Node, Stall(n) \/ Crash(n) PROVE GossipInv'
    <2>1. /\ UNCHANGED <<members, incarnation, downFor>> /\ net' \subseteq net /\ up' \subseteq up
          /\ ticked' \subseteq Node
      BY <1>2 DEF Stall, Crash, GossipInv, TypeInv, TypeOK
    <2>2. \E what \in Kinds : Spend(what)
      BY <1>2 DEF Stall, Crash, Kinds
    <2> QED BY <2>1, <2>2, QuietStep
  <1>3. ASSUME NEW n \in Node, Restart(n) PROVE GossipInv'
    BY <1>3, RestartStep
  <1>4. ASSUME NEW p \in net, Receive(p) PROVE GossipInv'
    BY <1>4, ReceiveStep
  <1>5. ASSUME NEW p \in net, Lose(p) PROVE GossipInv'
    <2>1. /\ UNCHANGED <<members, incarnation, downFor>> /\ net' \subseteq net /\ up' \subseteq up
          /\ ticked' \subseteq Node
      BY <1>5 DEF Lose, GossipInv, TypeInv, TypeOK
    <2>2. budget' = budget \/ \E what \in Kinds : Spend(what)
      BY <1>5 DEF Lose, Kinds
    <2> QED BY <2>1, <2>2, QuietStep
  <1>6. CASE Second
    BY <1>6, SecondStep
  <1>7. CASE UNCHANGED vars
    BY <1>7 DEF vars, GossipInv, TypeInv, TypeOK, Bounded, SelfAlive, IncarnationsSound
  <1> QED BY <1>1, <1>2, <1>3, <1>4, <1>5, <1>6, <1>7 DEF Next

\* The invariant holds at all times.
LEMMA GossipInvariant == Spec => []GossipInv
BY GossipBegins, GossipSteps, PTL DEF Spec

\* Every variable of the membership protocol keeps its type.
THEOREM GossipTypes == Spec => []TypeOK
PROOF
  <1>1. GossipInv => TypeOK
    BY DEF GossipInv, TypeInv
  <1> QED BY <1>1, GossipInvariant, PTL

\* merge (gossip.go): whatever is gossiped, lost or late, nobody is credited with
\* an incarnation it never had, so that its own refutation is always larger.
THEOREM NeverAheadOfTheNode == Spec => []IncarnationsSound
PROOF
  <1>1. GossipInv => IncarnationsSound
    BY DEF GossipInv
  <1> QED BY <1>1, GossipInvariant, PTL

-----------------------------------------------------------------------------
(* Suspicion                                                                *)

Faults == (MaxLoss - budget.loss) + (MaxStalls - budget.stall)

\* The heartbeat of m of this second is still to come to n.
Coming(n, m) == m \notin ticked \/ \E p \in net : p.to = n /\ p.view[m].status = "alive"

\* A silence of a second or more has cost a packet or a tick for every second.
Heard ==
  budget.restart = MaxRestarts /\ Faults < SuspectAfter - 1 =>
    \A n, m \in up : n # m =>
      /\ members[n][m].status = "alive"
      /\ members[n][m].age <= Faults + 1
      /\ ~Coming(n, m) => members[n][m].age <= Faults

\* Every node is configured with all the others and gossips to all of them.
Wide ==
  /\ \A n, m \in Node : n # m => m \in Peers[n]
  /\ IsFiniteSet(Node) /\ Fanout >= Cardinality(Node) - 1

\* What of the budgets matters here.
LEMMA FaultTypes ==
  ASSUME GossipInv
  PROVE  Faults \in Nat /\ SuspectAfter \in Nat /\ MaxRestarts \in Nat
PROOF
  <1>1. budget \in [Kinds -> Nat] /\ {SuspectAfter, MaxLoss, MaxStalls, MaxRestarts} \subseteq Nat
    BY Views
  <1>2. budget.loss \in Nat /\ budget.stall \in Nat
    BY <1>1 DEF Kinds
  <1>3. budget.loss <= MaxLoss /\ budget.stall <= MaxStalls
    BY DEF GossipInv, TypeInv, Bounded
  <1> QED BY <1>1, <1>2, <1>3 DEF Faults

\* A packet lost, or a tick missed, is one fault more; a crash is none.
LEMMA FaultSpent ==
  ASSUME GossipInv
  PROVE  /\ Spend("loss") \/ Spend("stall") => Faults' = Faults + 1 /\ budget'.restart = budget.restart
         /\ Spend("crash") => Faults' = Faults /\ budget'.restart = budget.restart
PROOF
  <1>1. Kinds = {"loss", "stall", "crash", "restart"} /\ TypeInv /\ MaxLoss \in Nat /\ MaxStalls \in Nat
    BY Views DEF Kinds, GossipInv
  <1>2. budget.loss \in Nat /\ budget.stall \in Nat
    BY <1>1, Views
  <1>3. ASSUME Spend("loss") PROVE Faults' = Faults + 1 /\ budget'.restart = budget.restart
    <2>1. budget'["loss"] = budget["loss"] - 1 /\ \A k \in Kinds \ {"loss"} : budget'[k] = budget[k]
      BY <1>1, <1>3, SpendType
    <2>2. budget'.stall = budget.stall /\ budget'.restart = budget.restart /\ budget'.loss = budget.loss - 1
      BY <1>1, <2>1
    <2> QED BY <1>1, <1>2, <2>2 DEF Faults
  <1>4. ASSUME Spend("stall") PROVE Faults' = Faults + 1 /\ budget'.restart = budget.restart
    <2>1. budget'["stall"] = budget["stall"] - 1 /\ \A k \in Kinds \ {"stall"} : budget'[k] = budget[k]
      BY <1>1, <1>4, SpendType
    <2>2. budget'.loss = budget.loss /\ budget'.restart = budget.restart /\ budget'.stall = budget.stall - 1
      BY <1>1, <2>1
    <2> QED BY <1>1, <1>2, <2>2 DEF Faults
  <1>5. ASSUME Spend("crash") PROVE Faults' = Faults /\ budget'.restart = budget.restart
    <2>1. \A k \in Kinds \ {"crash"} : budget'[k] = budget[k]
      BY <1>1, <1>5, SpendType
    <2>2. budget'.loss = budget.loss /\ budget'.restart = budget.restart /\ budget'.stall = budget.stall
      BY <1>1, <2>1
    <2> QED BY <2>2 DEF Faults
  <1> QED BY <1>3, <1>4, <1>5

\* disseminate: with so wide a fanout the view goes to every peer not dead.
LEMMA AllTargets ==
  ASSUME Wide, NEW n \in Node, NEW view, NEW P \in Targets(n, view)
  PROVE  P = {m \in Node \ {n} : view[m].status \notin {"none", "dead"}}
PROOF
  <1> DEFINE peers == {m \in Node \ {n} : view[m].status \notin {"none", "dead"}}
  <1>1. IsFiniteSet(Node) /\ Cardinality(Node) \in Nat /\ Fanout >= Cardinality(Node) - 1 /\ Fanout \in Nat
    BY FS_CardinalityType, GossipAssumption DEF Wide
  <1>2. IsFiniteSet(Node \ {n}) /\ Cardinality(Node \ {n}) = Cardinality(Node) - 1
    BY <1>1, FS_RemoveElement
  <1>3. IsFiniteSet(peers) /\ Cardinality(peers) <= Cardinality(Node \ {n})
    BY <1>2, FS_Subset
  <1>4. Cardinality(peers) \in Nat
    BY <1>3, FS_CardinalityType
  <1>5. ~(Fanout < Cardinality(peers))
    BY <1>1, <1>2, <1>3, <1>4
  <1>6. P \in SUBSET peers /\ Cardinality(P) = Cardinality(peers)
    BY <1>5 DEF Targets
  <1> HIDE DEF peers
  <1>7. P = peers
    BY <1>3, <1>6, FS_Subset
  <1> QED BY <1>7 DEF peers

\* Everyone has just been heard of.
LEMMA HeardBegins == Wide /\ Init => Heard
PROOF
  <1> SUFFICES ASSUME Wide, Init, NEW n \in up, NEW m \in up, n # m
               PROVE  members[n][m].status = "alive" /\ members[n][m].age <= Faults + 1 /\ Coming(n, m)
    BY DEF Heard
  <1>1. n \in Node /\ m \in Node /\ m \in Peers[n] /\ members[n][m] = Fresh(0)
    BY DEF Init, Wide, InitialView
  <1>2. Faults = 0
    BY GossipAssumption DEF Init, Faults
  <1> QED BY <1>1, <1>2 DEF Fresh, Coming, Init

\* A tick of k: nobody it has heard of is suspected, and all of them get a packet.
LEMMA HeardTick ==
  ASSUME Wide, GossipInv, Heard, NEW k \in Node, Tick(k)
  PROVE  Heard'
PROOF
  <1> DEFINE view == TickedView(k)
  <1>1. /\ k \in up /\ members' = [members EXCEPT ![k] = view] /\ ticked' = ticked \cup {k}
        /\ up' = up /\ budget' = budget /\ up \subseteq Node
    BY Views DEF Tick
  <1>2. PICK P \in Targets(k, view) : net' = net \cup {[to |-> m, view |-> view] : m \in P}
    BY DEF Tick
  <1>3. P = {m \in Node \ {k} : view[m].status \notin {"none", "dead"}}
    BY AllTargets
  <1>4. /\ view \in [Node -> Member] /\ view[k].status = "alive"
        /\ \A m \in Node \ {k} : view[m] = Aged(members[k][m])
    BY TickedViewSound
  <1> HIDE DEF view
  <1>5. members'[k] = view /\ \A m \in Node \ {k} : members'[m] = members[m]
    BY <1>1, Views
  <1>6. Faults' = Faults
    BY <1>1 DEF Faults
  <1>7. Faults \in Nat /\ SuspectAfter \in Nat
    BY FaultTypes
  <1> SUFFICES ASSUME budget.restart = MaxRestarts, Faults < SuspectAfter - 1, NEW n \in up, NEW m \in up, n # m
               PROVE  /\ members'[n][m].status = "alive"
                      /\ members'[n][m].age <= Faults + 1
                      /\ ~Coming(n, m)' => members'[n][m].age <= Faults
    BY <1>1, <1>6 DEF Heard
  <1>8. ASSUME NEW i \in up, NEW j \in up, i # j
        PROVE  /\ members[i][j].status = "alive" /\ members[i][j].age <= Faults + 1
               /\ ~Coming(i, j) => members[i][j].age <= Faults
    BY <1>8 DEF Heard
  <1>9. ASSUME NEW j \in up, j # k PROVE view[j] = members[k][j]
    <2>1. members[k][j].age <= Faults + 1 /\ members[k][j] \in Member /\ members[k][j].age \in 0 .. DeadAfter
          /\ DeadAfter \in Nat
      BY <1>1, <1>8, <1>9, Views
    <2>2. members[k][j].age < SuspectAfter
      BY <1>7, <2>1
    <2>3. Aged(members[k][j]) = members[k][j]
      BY <2>1, <2>2, AgedMember
    <2> QED BY <1>1, <1>4, <1>9, <2>3
  <1>10. members'[n][m] = members[n][m]
    BY <1>1, <1>5, <1>9
  <1>11. CASE m = k
    <2>1. view[n].status = "alive"
      BY <1>1, <1>8, <1>9, <1>11
    <2>2. n \in P
      BY <1>1, <1>3, <1>11, <2>1
    <2>3. [to |-> n, view |-> view] \in net'
      BY <1>2, <2>2
    <2>4. Coming(n, m)'
      <3>1. [to |-> n, view |-> view].to = n /\ [to |-> n, view |-> view].view[m].status = "alive"
        BY <1>4, <1>11
      <3> QED BY <2>3, <3>1 DEF Coming
    <2> QED BY <1>8, <1>10, <2>4
  <1>12. CASE m # k
    <2>1. Coming(n, m) => Coming(n, m)'
      BY <1>1, <1>2, <1>12 DEF Coming
    <2> QED BY <1>8, <1>10, <2>1
  <1> QED BY <1>11, <1>12

\* A packet of a member that is alive is its heartbeat.
LEMMA HeardReceive ==
  ASSUME GossipInv, Heard, NEW p \in net, Receive(p)
  PROVE  Heard'
PROOF
  <1>1. /\ p.to \in Node /\ \A m \in Node \ {p.to} : members'[m] = members[m]
        /\ \A m \in Node \ {p.to} : members'[p.to][m] = Merged(members[p.to][m], p.view[m])
    BY ReceivedView
  <1>2. up' = up /\ ticked' = ticked /\ budget' = budget /\ net' = net \ {p} /\ up \subseteq Node
    BY Views DEF Receive
  <1>3. Faults' = Faults /\ Faults \in Nat
    BY <1>2, FaultTypes DEF Faults
  <1> SUFFICES ASSUME budget.restart = MaxRestarts, Faults < SuspectAfter - 1, NEW n \in up, NEW m \in up, n # m
               PROVE  /\ members'[n][m].status = "alive"
                      /\ members'[n][m].age <= Faults + 1
                      /\ ~Coming(n, m)' => members'[n][m].age <= Faults
    BY <1>2, <1>3 DEF Heard
  <1>4. /\ members[n][m].status = "alive" /\ members[n][m].age <= Faults + 1
        /\ ~Coming(n, m) => members[n][m].age <= Faults
    BY DEF Heard
  <1>5. CASE n # p.to
    <2>1. Coming(n, m) => Coming(n, m)'
      BY <1>2, <1>5 DEF Coming
    <2>2. members'[n][m] = members[n][m]
      BY <1>1, <1>2, <1>5
    <2> QED BY <1>4, <2>1, <2>2
  <1>6. CASE n = p.to
    <2>1. members[n][m] \in Member /\ p.view[m] \in Member /\ m \in Node
      BY <1>2, Views
    <2>2. members'[n][m] = Merged(members[n][m], p.view[m])
      BY <1>1, <1>6, <2>1
    <2>3. /\ members'[n][m].status = "alive"
          /\ members'[n][m].age = 0 \/ (members'[n][m] = members[n][m] /\ p.view[m].status # "alive")
      BY <1>4, <2>1, <2>2, MergedMember
    <2>4. CASE members'[n][m].age = 0
      BY <1>3, <2>3, <2>4
    <2>5. CASE members'[n][m] = members[n][m] /\ p.view[m].status # "alive"
      <3>1. Coming(n, m) => Coming(n, m)'
        BY <1>2, <2>5 DEF Coming
      <3> QED BY <1>4, <2>5, <3>1
    <2> QED BY <2>3, <2>4, <2>5
  <1> QED BY <1>5, <1>6

\* What is not heard because of a fault is paid for by that fault; a crash and a
\* packet nobody waits for change nothing between those who run.
LEMMA HeardFault ==
  ASSUME GossipInv, Heard, members' = members, up' \subseteq up,
         \/ Spend("loss") \/ Spend("stall")
         \/ /\ Spend("crash") \/ budget' = budget
            /\ \A n, m \in up' : Coming(n, m) => Coming(n, m)'
  PROVE  Heard'
PROOF
  <1>1. Faults \in Nat /\ SuspectAfter \in Nat /\ up \subseteq Node
    BY FaultTypes, Views
  <1>2. budget'.restart = budget.restart /\ Faults' \in {Faults, Faults + 1}
    BY FaultSpent DEF Faults
  <1> SUFFICES ASSUME budget'.restart = MaxRestarts, Faults' < SuspectAfter - 1,
                      NEW n \in up', NEW m \in up', n # m
               PROVE  /\ members[n][m].status = "alive"
                      /\ members[n][m].age <= Faults' + 1
                      /\ ~Coming(n, m)' => members[n][m].age <= Faults'
    BY DEF Heard
  <1>3. /\ members[n][m].status = "alive" /\ members[n][m].age <= Faults + 1
        /\ ~Coming(n, m) => members[n][m].age <= Faults
    BY <1>1, <1>2 DEF Heard
  <1>4. members[n][m].age \in 0 .. DeadAfter /\ DeadAfter \in Nat
    BY <1>1, Views
  <1>5. CASE Spend("loss") \/ Spend("stall")
    <2>1. Faults' = Faults + 1
      BY <1>5, FaultSpent
    <2> QED BY <1>1, <1>3, <1>4, <2>1
  <1>6. CASE /\ Spend("crash") \/ budget' = budget
             /\ \A i, j \in up' : Coming(i, j) => Coming(i, j)'
    <2>1. Faults' = Faults
      BY <1>6, FaultSpent DEF Faults
    <2>2. Coming(n, m) => Coming(n, m)'
      BY <1>6
    <2> QED BY <1>3, <2>1, <2>2
  <1> QED BY <1>5, <1>6

\* Everyone is a second older, and due to be heard of.
LEMMA HeardSecond ==
  ASSUME GossipInv, Heard, Second
  PROVE  Heard'
PROOF
  <1>1. up \subseteq ticked /\ net = {} /\ ticked' = {} /\ up' = up /\ budget' = budget /\ up \subseteq Node
    BY Views DEF Second
  <1>2. Faults' = Faults /\ Faults \in Nat
    BY <1>1, FaultTypes DEF Faults
  <1> SUFFICES ASSUME budget.restart = MaxRestarts, Faults < SuspectAfter - 1, NEW n \in up, NEW m \in up, n # m
               PROVE  /\ members'[n][m].status = "alive" /\ members'[n][m].age <= Faults + 1
                      /\ Coming(n, m)'
    BY <1>1, <1>2 DEF Heard
  <1>3. ~Coming(n, m) /\ Coming(n, m)'
    BY <1>1 DEF Coming
  <1>4. members[n][m].status = "alive" /\ members[n][m].age <= Faults
    BY <1>3 DEF Heard
  <1>5. /\ members'[n][m].status = members[n][m].status
        /\ members'[n][m].age <= members[n][m].age + 1 /\ members'[n][m].age \in Nat
    BY <1>1, SecondView
  <1>6. members[n][m].age \in 0 .. DeadAfter /\ DeadAfter \in Nat
    BY <1>1, Views
  <1> QED BY <1>2, <1>3, <1>4, <1>5, <1>6

\* Every step keeps what was heard.
LEMMA HeardSteps == Wide /\ GossipInv /\ Heard /\ [Next]_vars => Heard'
PROOF
  <1> SUFFICES ASSUME Wide, GossipInv, Heard, [Next]_vars PROVE Heard'
    OBVIOUS
  <1>1. ASSUME NEW n \in Node, Tick(n) PROVE Heard'
    BY <1>1, HeardTick
  <1>2. ASSUME NEW n \in Node, Stall(n) PROVE Heard'
    BY <1>2, HeardFault DEF Stall
  <1>3. ASSUME NEW n \in Node, Crash(n) PROVE Heard'
    <2>1. members' = members /\ up' \subseteq up /\ Spend("crash")
      BY <1>3 DEF Crash
    <2>2. \A i, j \in up' : Coming(i, j) => Coming(i, j)'
      BY <1>3 DEF Crash, Coming
    <2> QED BY <2>1, <2>2, HeardFault
  <1>4. ASSUME NEW n \in Node, Restart(n) PROVE Heard'
    BY <1>4, RestartStep DEF Heard
  <1>5. ASSUME NEW p \in net, Receive(p) PROVE Heard'
    BY <1>5, HeardReceive
  <1>6. ASSUME NEW p \in net, Lose(p) PROVE Heard'
    <2>1. members' = members /\ up' = up /\ net' = net \ {p} /\ ticked' = ticked
      BY <1>6 DEF Lose
    <2>2. CASE Spend("loss")
      BY <2>1, <2>2, HeardFault
    <2>3. CASE p.to \notin up /\ budget' = budget
      <3>1. \A i, j \in up' : Coming(i, j) => Coming(i, j)'
        BY <2>1, <2>3 DEF Coming
      <3> QED BY <2>1, <2>3, <3>1, HeardFault
    <2> QED BY <1>6, <2>2, <2>3 DEF Lose
  <1>7. CASE Second
    BY <1>7, HeardSecond
  <1>8. CASE UNCHANGED vars
    BY <1>8 DEF vars, Heard, Faults, Coming
  <1> QED BY <1>1, <1>2, <1>3, <1>4, <1>5, <1>6, <1>7, <1>8 DEF Next

\* tick (gossip.go): where everyone is configured with everyone and the fanout
\* is large enough for all, as docker-compose.yml does it, nobody who runs is
\* suspected before as many packets were lost and ticks missed as the silence of
\* suspectAfter takes.
THEOREM NoneFalselySuspected ==
  ASSUME \A n, m \in Node : n # m => m \in Peers[n],
         IsFiniteSet(Node), Fanout >= Cardinality(Node) - 1
  PROVE  Spec => []NoFalseSuspicion
PROOF
  <1>1. Wide
    BY DEF Wide
  <1>2. Init => Heard
    BY <1>1, HeardBegins
  <1>3. GossipInv /\ Heard /\ [Next]_vars => Heard'
    BY <1>1, HeardSteps
  <1>4. GossipInv /\ Heard => NoFalseSuspicion
    <2> SUFFICES ASSUME GossipInv, Heard, budget.restart = MaxRestarts, NEW n \in up, NEW m \in up,
                        members[n][m].status \in {"suspected", "dead"}
                 PROVE  Faults >= SuspectAfter - 1
      BY DEF NoFalseSuspicion, Faults
    <2>1. n # m
      BY Views DEF GossipInv, SelfAlive
    <2>2. ~(Faults < SuspectAfter - 1)
      BY <2>1 DEF Heard
    <2> QED BY <2>2, FaultTypes
  <1> QED BY <1>2, <1>3, <1>4, GossipInvariant, PTL DEF Spec

-----------------------------------------------------------------------------
(* Detection                                                                *)

Spent == MaxStalls - budget.stall

\* What is known of a member that has been down for d seconds: its heartbeat is as
\* old as that, and for every second since it was due to be declared dead one tick
\* was missed, of those spent; late is 1 when this second's tick is over.
Overdue(cur, d, late, spent) ==
  /\ cur.status # "none" => cur.age >= d \/ cur.age >= DeadAfter
  /\ cur.status \notin {"none", "dead"} /\ d >= DeadAfter => d - DeadAfter + late <= spent

Late(n) == IF n \in ticked THEN 1 ELSE 0

\* n alone runs, and the others have been down for d seconds.
Lone(n, d) == up = {n} /\ \A m \in Node \ {n} : d <= downFor[m]

\* Then nothing comes in after the second the last of them crashed in.
Silent(n, m, d) ==
  /\ d > 0 => \A p \in net : p.to # n
  /\ Overdue(members[n][m], d, Late(n), Spent)

Detecting ==
  /\ \A m \in up : downFor[m] = 0
  /\ \A n \in Node, d \in Nat : Lone(n, d) => \A m \in Node \ {n} : Silent(n, m, d)

\* How a view gets older: with a tick ...
LEMMA OverdueTick ==
  ASSUME NEW cur \in Member, NEW d \in Nat, NEW late \in {0, 1}, NEW s \in Int, Overdue(cur, d, late, s)
  PROVE  Overdue(Aged(cur), d, 1, s)
PROOF
  <1>1. {SuspectAfter, DeadAfter} \subseteq Nat /\ SuspectAfter < DeadAfter /\ cur.age \in 0 .. DeadAfter
    BY GossipAssumption DEF Member
  <1>2. \A x \in Status : /\ [cur EXCEPT !.status = x].age = cur.age
                          /\ [cur EXCEPT !.status = x].status = x
    BY DEF Member
  <1>3. {"dead", "suspected"} \subseteq Status
    BY DEF Status
  <1>4. CASE cur.status \notin {"none", "dead"} /\ cur.age >= DeadAfter
    <2>1. Aged(cur) = [cur EXCEPT !.status = "dead"]
      BY <1>1, <1>4 DEF Aged
    <2>2. Aged(cur).status = "dead" /\ Aged(cur).age = cur.age
      BY <1>2, <1>3, <2>1
    <2> QED BY <1>4, <2>2 DEF Overdue
  <1>5. CASE cur.status = "alive" /\ cur.age >= SuspectAfter /\ cur.age < DeadAfter
    <2>1. Aged(cur) = [cur EXCEPT !.status = "suspected"]
      BY <1>1, <1>5 DEF Aged
    <2>2. Aged(cur).status = "suspected" /\ Aged(cur).age = cur.age
      BY <1>2, <1>3, <2>1
    <2> QED BY <1>1, <1>5, <2>2 DEF Overdue
  <1>6. CASE /\ ~(cur.status \notin {"none", "dead"} /\ cur.age >= DeadAfter)
             /\ ~(cur.status = "alive" /\ cur.age >= SuspectAfter /\ cur.age < DeadAfter)
    <2>1. Aged(cur) = cur
      BY <1>6 DEF Aged
    <2> QED BY <1>1, <1>6, <2>1 DEF Overdue
  <1> QED BY <1>4, <1>5, <1>6

\* ... with one that is missed, and with a second.
LEMMA OverdueOlder ==
  ASSUME NEW cur \in Member, NEW d \in Nat, NEW s \in Nat
  PROVE  /\ Overdue(cur, d, 0, s) => Overdue(cur, d, 1, s + 1) /\ Overdue(cur, d, 0, s + 1)
         /\ Overdue(cur, d, 1, s) => Overdue(cur, d, 1, s + 1)
         /\ \A late \in {0, 1} : Overdue(cur, 0, late, s)
         /\ \A next \in Member :
              /\ Overdue(cur, d, 1, s) /\ next.status = cur.status
              /\ cur.status # "none" => next.age = cur.age + 1 \/ next.age >= DeadAfter
              => Overdue(next, d + 1, 0, s)
PROOF
  <1>1. DeadAfter \in Nat /\ 0 < DeadAfter /\ cur.age \in 0 .. DeadAfter
    BY GossipAssumption DEF Member
  <1>2. \A next \in Member : next.age \in 0 .. DeadAfter
    BY DEF Member
  <1> QED BY <1>1, <1>2 DEF Overdue

\* What is spent is a number, one more when a tick is missed.
LEMMA SpentTypes ==
  ASSUME GossipInv
  PROVE  /\ Spent \in Nat
         /\ Spend("stall") => Spent' = Spent + 1
         /\ Spend("loss") \/ Spend("restart") \/ Spend("crash") => Spent' = Spent
PROOF
  <1>1. Kinds = {"loss", "stall", "crash", "restart"} /\ TypeInv /\ MaxStalls \in Nat /\ budget \in [Kinds -> Nat]
    BY Views DEF Kinds, GossipInv
  <1>2. budget.stall \in Nat /\ budget.stall <= MaxStalls
    BY <1>1 DEF TypeInv, Bounded
  <1>3. ASSUME Spend("stall") PROVE Spent' = Spent + 1
    <2>1. budget'["stall"] = budget["stall"] - 1
      BY <1>1, <1>3, SpendType
    <2>2. budget'.stall = budget.stall - 1
      BY <1>1, <2>1
    <2> QED BY <1>1, <1>2, <2>2 DEF Spent
  <1>4. ASSUME NEW what \in Kinds \ {"stall"}, Spend(what) PROVE Spent' = Spent
    <2>1. budget'["stall"] = budget["stall"]
      BY <1>1, <1>4, SpendType
    <2>2. budget'.stall = budget.stall
      BY <1>1, <2>1
    <2> QED BY <2>2 DEF Spent
  <1>5. {"loss", "restart", "crash"} \subseteq Kinds \ {"stall"}
    BY DEF Kinds
  <1> QED BY <1>1, <1>2, <1>3, <1>4, <1>5 DEF Spent

\* What has been said of a member is as old as 0 seconds.
Heeded == up \subseteq Node /\ \A n, m \in Node : Silent(n, m, 0)

LEMMA SilentNow == GossipInv => Heeded
PROOF
  <1> SUFFICES ASSUME GossipInv PROVE Heeded
    OBVIOUS
  <1>1. ASSUME NEW n \in Node, NEW m \in Node PROVE Silent(n, m, 0)
    <2>1. members[n][m] \in Member /\ Spent \in Nat /\ Late(n) \in {0, 1}
      BY Views, SpentTypes DEF Late
    <2> QED BY <2>1, OverdueOlder DEF Silent
  <1> QED BY <1>1, Views DEF Heeded

\* The same of the state a step leads to.
LEMMA SilentNext == GossipInv' => Heeded'
BY SilentNow, PTL

\* Nobody is down.
LEMMA DetectingBegins == GossipInv /\ Init => Detecting
PROOF
  <1> SUFFICES ASSUME GossipInv, Init PROVE Detecting
    OBVIOUS
  <1>1. up = Node /\ net = {} /\ \A m \in Node : downFor[m] = 0
    BY DEF Init
  <1>2. ASSUME NEW n \in Node, NEW d \in Nat, Lone(n, d), NEW m \in Node \ {n} PROVE Silent(n, m, d)
    <2>1. d = 0
      BY <1>1, <1>2 DEF Lone
    <2> QED BY <1>2, <2>1, SilentNow DEF Heeded
  <1> QED BY <1>1, <1>2 DEF Detecting

\* A tick of k, which alone runs: nothing is sent to itself.
LEMMA DetectingTick ==
  ASSUME GossipInv, Detecting, NEW k \in Node, Tick(k)
  PROVE  Detecting'
PROOF
  <1> DEFINE view == TickedView(k)
  <1>1. /\ k \in up /\ members' = [members EXCEPT ![k] = view] /\ ticked' = ticked \cup {k}
        /\ up' = up /\ budget' = budget /\ downFor' = downFor /\ up \subseteq Node
    BY Views DEF Tick
  <1>2. PICK P \in Targets(k, view) : net' = net \cup {[to |-> m, view |-> view] : m \in P}
    BY DEF Tick
  <1>3. P \subseteq Node \ {k}
    BY <1>2 DEF Targets
  <1>4. \A m \in Node \ {k} : view[m] = Aged(members[k][m])
    BY TickedViewSound
  <1> HIDE DEF view
  <1>5. members'[k] = view
    BY <1>1, Views
  <1>6. ASSUME NEW n \in Node, NEW d \in Nat, Lone(n, d)', NEW m \in Node \ {n} PROVE Silent(n, m, d)'
    <2>1. Lone(n, d) /\ n = k
      BY <1>1, <1>6 DEF Lone
    <2>2. Silent(n, m, d)
      BY <1>6, <2>1 DEF Detecting
    <2>3. Overdue(members[n][m], d, Late(n), Spent) /\ members[n][m] \in Member
      BY <2>2, Views DEF Silent
    <2>4. Spent \in Int /\ Late(n) \in {0, 1}
      BY SpentTypes DEF Late
    <2>5. Overdue(Aged(members[n][m]), d, 1, Spent)
      BY <2>3, <2>4, OverdueTick
    <2>6. members'[n][m] = Aged(members[n][m]) /\ Late(n)' = 1 /\ Spent' = Spent
      BY <1>1, <1>4, <1>5, <2>1 DEF Late, Spent
    <2>7. Overdue(members[n][m], d, Late(n), Spent)'
      BY <2>5, <2>6 DEF Overdue
    <2>8. ASSUME d > 0, NEW p \in net' PROVE p.to # n
      <3>1. CASE p \in net
        BY <2>2, <2>8, <3>1 DEF Silent
      <3>2. CASE p \notin net
        <4>1. PICK j \in P : p = [to |-> j, view |-> view]
          BY <1>2, <3>2
        <4> QED BY <1>3, <2>1, <4>1
      <3> QED BY <3>1, <3>2
    <2> QED BY <2>7, <2>8 DEF Silent
  <1> QED BY <1>1, <1>6 DEF Detecting

\* A tick is missed, or a packet is lost.
LEMMA DetectingFault ==
  ASSUME GossipInv, Detecting, UNCHANGED <<up, members, downFor>>, net' \subseteq net,
         \/ ticked' = ticked /\ budget' = budget
         \/ ticked' = ticked /\ Spend("loss")
         \/ \E k \in up \ ticked : ticked' = ticked \cup {k} /\ Spend("stall")
  PROVE  Detecting'
PROOF
  <1>1. ASSUME NEW n \in Node, NEW d \in Nat, Lone(n, d)', NEW m \in Node \ {n} PROVE Silent(n, m, d)'
    <2>1. Silent(n, m, d) /\ Spent \in Nat
      BY <1>1, SpentTypes DEF Detecting, Lone
    <2>2. Overdue(members[n][m], d, Late(n), Spent) /\ members[n][m] \in Member
      BY <2>1, Views DEF Silent
    <2>3. Overdue(members[n][m], d, Late(n)', Spent')
      <3>1. CASE ticked' = ticked /\ (budget' = budget \/ Spend("loss"))
        <4>1. Late(n)' = Late(n) /\ Spent' = Spent
          BY <3>1, SpentTypes DEF Late, Spent
        <4> QED BY <2>2, <4>1
      <3>2. ASSUME NEW k \in up \ ticked, ticked' = ticked \cup {k}, Spend("stall")
            PROVE  Overdue(members[n][m], d, Late(n)', Spent')
        <4>1. Spent' = Spent + 1
          BY <3>2, SpentTypes
        <4>2. \/ Late(n) = 0 /\ Late(n)' \in {0, 1}
              \/ Late(n) = 1 /\ Late(n)' = 1
          BY <3>2 DEF Late
        <4> QED BY <2>1, <2>2, <4>1, <4>2, OverdueOlder
      <3> QED BY <3>1, <3>2
    <2>4. Overdue(members[n][m], d, Late(n), Spent)'
      BY <2>3 DEF Overdue
    <2> QED BY <2>1, <2>4 DEF Silent
  <1> QED BY <1>1 DEF Detecting

\* A packet comes in to the last node only in the second the others ended in.
LEMMA DetectingReceive ==
  ASSUME GossipInv, GossipInv', Detecting, NEW p \in net, Receive(p)
  PROVE  Detecting'
PROOF
  <1>1. p.to \in up /\ net' = net \ {p} /\ UNCHANGED <<up, ticked, downFor, budget>>
    BY DEF Receive
  <1>2. ASSUME NEW n \in Node, NEW d \in Nat, Lone(n, d)', NEW m \in Node \ {n} PROVE Silent(n, m, d)'
    <2>1. Silent(n, m, d) /\ p.to = n
      BY <1>1, <1>2 DEF Detecting, Lone
    <2>2. d = 0
      BY <2>1 DEF Silent
    <2> QED BY <1>2, <2>2, SilentNext DEF Heeded
  <1> QED BY <1>1, <1>2 DEF Detecting

\* A second passes: every running node's tick is over, and nothing is in flight.
LEMMA DetectingSecond ==
  ASSUME GossipInv, GossipInv', Detecting, Second
  PROVE  Detecting'
PROOF
  <1>1. up \subseteq ticked /\ net = {} /\ ticked' = {} /\ up' = up /\ net' = net /\ budget' = budget
    BY DEF Second
  <1>2. DeadAfter \in Nat /\ MaxStalls \in Nat /\ downFor \in [Node -> 0 .. DeadAfter + MaxStalls + 1] /\ up \subseteq Node
    BY Views DEF GossipInv, TypeInv, TypeOK
  <1>3. \A m \in Node : /\ m \in up => downFor'[m] = downFor[m]
                        /\ downFor'[m] \in Int /\ downFor[m] \in Int /\ downFor'[m] <= downFor[m] + 1
    BY <1>2 DEF Second
  <1>4. ASSUME NEW n \in Node, NEW d \in Nat, Lone(n, d)', NEW m \in Node \ {n} PROVE Silent(n, m, d)'
    <2>1. CASE d = 0
      BY <1>4, <2>1, SilentNext DEF Heeded
    <2>2. CASE d > 0
      <3> DEFINE e == d - 1
      <3>1. e \in Nat /\ d = e + 1
        BY <2>2
      <3>2. Lone(n, e)
        <4>1. up = {n} /\ \A k \in Node \ {n} : d <= downFor'[k]
          BY <1>1, <1>4 DEF Lone
        <4> QED BY <1>3, <3>1, <4>1 DEF Lone
      <3> HIDE DEF e
      <3>3. Silent(n, m, e) /\ Spent \in Nat /\ Spent' = Spent /\ Late(n) = 1 /\ Late(n)' = 0
        BY <1>1, <1>4, <3>1, <3>2, SpentTypes DEF Detecting, Spent, Late, Lone
      <3>4. Overdue(members[n][m], e, 1, Spent) /\ members[n][m] \in Member
        BY <3>3, Views DEF Silent
      <3>5. /\ members'[n][m].status = members[n][m].status
            /\ members[n][m].status # "none" =>
                 members'[n][m].age = members[n][m].age + 1 \/ members'[n][m].age >= DeadAfter
        BY SecondView
      <3>6. PICK next \in Member : next = members'[n][m]
        BY SecondView
      <3>7. Overdue(next, e + 1, 0, Spent)
        BY <3>1, <3>3, <3>4, <3>5, <3>6, OverdueOlder
      <3>8. Overdue(members[n][m], d, Late(n), Spent)'
        BY <3>1, <3>3, <3>6, <3>7 DEF Overdue
      <3> QED BY <1>1, <3>8 DEF Silent
    <2> QED BY <2>1, <2>2
  <1>5. \A m \in up' : downFor'[m] = 0
    BY <1>1, <1>2, <1>3 DEF Detecting
  <1> QED BY <1>4, <1>5 DEF Detecting

\* A node crashes, or starts again: the silence begins.
LEMMA DetectingCrash ==
  ASSUME GossipInv, GossipInv', Detecting, NEW k \in Node, Crash(k) \/ Restart(k)
  PROVE  Detecting'
PROOF
  <1>1. up \subseteq Node /\ up' \subseteq Node
    BY SilentNow, SilentNext DEF Heeded
  <1>2. /\ \A m \in up' : downFor'[m] = 0
        /\ downFor'[k] = 0
    <2>1. CASE Crash(k)
      BY <2>1 DEF Crash, Detecting
    <2>2. CASE Restart(k)
      BY <1>1, <2>2 DEF Restart
    <2> QED BY <2>1, <2>2
  <1>3. ASSUME NEW n \in Node, NEW d \in Nat, Lone(n, d)', NEW m \in Node \ {n} PROVE Silent(n, m, d)'
    <2>1. d = 0
      <3>1. CASE Crash(k)
        <4>1. k # n
          BY <1>3, <3>1 DEF Crash, Lone
        <4> QED BY <1>2, <1>3, <4>1 DEF Lone
      <3>2. CASE Restart(k)
        <4>1. downFor'[m] = 0
          BY <3>2 DEF Restart
        <4> QED BY <1>3, <4>1 DEF Lone
      <3> QED BY <3>1, <3>2
    <2> QED BY <1>3, <2>1, SilentNext DEF Heeded
  <1> QED BY <1>2, <1>3 DEF Detecting

\* Every step keeps what the last node knows.
LEMMA DetectingSteps == GossipInv /\ GossipInv' /\ Detecting /\ [Next]_vars => Detecting'
PROOF
  <1> SUFFICES ASSUME GossipInv, GossipInv', Detecting, [Next]_vars PROVE Detecting'
    OBVIOUS
  <1>1. ASSUME NEW n \in Node, Tick(n) PROVE Detecting'
    BY <1>1, DetectingTick
  <1>2. ASSUME NEW n \in Node, Stall(n) PROVE Detecting'
    BY <1>2, DetectingFault DEF Stall
  <1>3. ASSUME NEW n \in Node, Crash(n) \/ Restart(n) PROVE Detecting'
    BY <1>3, DetectingCrash
  <1>4. ASSUME NEW p \in net, Receive(p) PROVE Detecting'
    BY <1>4, DetectingReceive
  <1>5. ASSUME NEW p \in net, Lose(p) PROVE Detecting'
    <2>1. /\ UNCHANGED <<up, members, downFor, ticked>> /\ net' \subseteq net
          /\ budget' = budget \/ Spend("loss")
      BY <1>5 DEF Lose
    <2> QED BY <2>1, DetectingFault
  <1>6. CASE Second
    BY <1>6, DetectingSecond
  <1>7. CASE UNCHANGED vars
    BY <1>7, DetectingFault DEF vars
  <1> QED BY <1>1, <1>2, <1>3, <1>4, <1>5, <1>6, <1>7 DEF Next

\* tick (gossip.go:157): however many nodes there are and whoever knows whom, and
\* whatever is lost, to the last one that runs all others are dead when every one of
\* them has been down for longer than deadAfter and the ticks it missed.  Where two
\* run, each keeps the dead alive to the other (DeadWhenDown).
THEOREM LastSeesThemDead == Spec => []DeadToTheLast
PROOF
  <1>1. GossipInv /\ Detecting => DeadToTheLast
    <2> SUFFICES ASSUME GossipInv, Detecting, NEW n \in up \cap ticked,
                        \A m \in Node \ {n} : m \notin up /\ downFor[m] > DeadAfter + Spent,
                        NEW m \in Node \ {n}
                 PROVE  members[n][m].status \in {"dead", "none"}
      BY DEF DeadToTheLast, Spent
    <2> DEFINE d == DeadAfter + Spent + 1
    <2>1. /\ n \in Node /\ up = {n} /\ Spent \in Nat /\ DeadAfter \in Nat
          /\ MaxStalls \in Nat /\ \A k \in Node : downFor[k] \in 0 .. DeadAfter + MaxStalls + 1
      BY SpentTypes, Views DEF GossipInv, TypeInv, TypeOK
    <2>2. d \in Nat /\ Lone(n, d)
      BY <2>1 DEF Lone
    <2>3. Silent(n, m, d)
      BY <2>1, <2>2 DEF Detecting
    <2>4. Overdue(members[n][m], d, 1, Spent)
      BY <2>3 DEF Silent, Late
    <2> QED BY <2>1, <2>2, <2>4 DEF Overdue
  <1> QED BY <1>1, DetectingBegins, DetectingSteps, GossipBegins, GossipInvariant, PTL DEF Spec

=============================================================================
