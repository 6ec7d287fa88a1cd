------------------------------- MODULE Alerts -------------------------------
(***************************************************************************)
(* The anomaly service (anomaly/main.py, anomaly/detector.py), the topic   *)
(* anomaly_alerts, and the thread of the API that keeps the alerts it      *)
(* serves (api/service.py).  Topic and meta store are external here.       *)
(*                                                                         *)
(* A pass scans the store and scores what it found, one step: the scan is  *)
(* a copy, and no two entries are compared.  It then publishes the spikes  *)
(* one after the other.  Time is counted in passes.  Rates are integers,   *)
(* the z-test is squared and multiplied out, and where the numbers are     *)
(* equal the rounding of the floats decides, either way.                   *)
(***************************************************************************)
EXTENDS Integers, FiniteSets, SequencesExt

CONSTANTS Keys,          \* a list of the keys of the store, [entity, tier, region]
          Stat, NoStat,  \* what the store may hold for a key: [rate, n]
          MinSampleSize, MinHistory, Window, ZThreshold,
          FeedSize,      \* maxlen of the feed
          Hours,         \* window_hours, in passes
          MaxPasses, MaxUpdates, MaxFaults  \* bounds

Series == {<<k.entity, k.tier>> : k \in ToSet(Keys)}

ASSUME AlertsAssumption ==
  /\ {MinHistory, Window, FeedSize} \subseteq Nat \ {0} /\ MinHistory <= Window
  /\ {MinSampleSize, ZThreshold, Hours, MaxPasses, MaxUpdates, MaxFaults} \subseteq Nat
  /\ Keys \in Seq([entity : STRING, tier : STRING, region : STRING])
  /\ Stat \subseteq [rate : Nat, n : Nat] /\ NoStat \notin Stat

VARIABLES stats,    \* the store
          history,  \* AnomalyDetector.history
          spikes,   \* spikes of this pass not published yet
          passes,
          lost,     \* history: spikes never published
          log,      \* the topic
          feed,     \* Service.anomalies
          stream,   \* how many messages the subscription has yielded, -1: broken
          updates, faults

service == <<history, spikes, passes, lost>>
api == <<feed, stream>>
alertVars == <<stats, service, log, api, updates, faults>>

\* The store may hold entries before the service first starts.
AlertsInit ==
  /\ stats \in [DOMAIN Keys -> Stat \cup {NoStat}] /\ history = [s \in Series |-> <<>>]
  /\ spikes = <<>> /\ passes = 0 /\ lost = {} /\ log = <<>> /\ feed = <<>> /\ stream = -1
  /\ updates = 0 /\ faults = 0

-----------------------------------------------------------------------------
(* AnomalyDetector.check                                                    *)

Total(hist) == SumFunction(hist)
Squares(hist) == SumFunction([i \in DOMAIN hist |-> hist[i] * hist[i]])

\* n * n times the variance
Spread(hist) == Len(hist) * Squares(hist) - Total(hist) * Total(hist)

\* Mutant of Spike: the distance alone, below or above.
SpikeTwoSided(hist, x, rounded) ==
  LET over == Len(hist) * x - Total(hist)
      bound == ZThreshold * ZThreshold * Spread(hist)
  IN  /\ over # 0
      /\ \/ Spread(hist) # 0 /\ over * over > bound
         \/ rounded /\ (Spread(hist) = 0 \/ over * over = bound)

\* z > Z_THRESHOLD.  Rounding decides in two places.  A z of exactly Z_THRESHOLD
\* may come out above it: eight 0.5 and two 0.6 under 0.6 give
\* 2.000000000000002.  And np.std of equal observations is 0, but a rounded mean
\* (that of six 0.1) leaves dust, under which whatever is higher is a spike.
Spike(hist, x, rounded) ==
  LET over == Len(hist) * x - Total(hist)
      bound == ZThreshold * ZThreshold * Spread(hist)
  IN  /\ over > 0
      /\ \/ Spread(hist) # 0 /\ over * over > bound
         \/ rounded /\ (Spread(hist) = 0 \/ over * over = bound)

\* deque(maxlen=window).append
Slid(hist, x) == LET all == Append(hist, x) IN SubSeq(all, Max({1, Len(all) - Window + 1}), Len(all))

-----------------------------------------------------------------------------
(* AnomalyService.run_once                                                  *)

\* The scan found the i-th key, with enough games.
EnoughSample(i) == stats[i] # NoStat /\ stats[i].n >= MinSampleSize

\* The first pass over the i-th key: at those in up rounding decides for a spike.
Check(acc, i, up) ==
  LET s == <<Keys[i].entity, Keys[i].tier>>
      hist == acc.history[s]
      rate == stats[i].rate
      spike == [key |-> Keys[i], rate |-> rate, hist |-> hist, time |-> passes, class |-> "none", among |-> {}]
  IN  IF ~EnoughSample(i) THEN acc
      ELSE [history |-> [acc.history EXCEPT ![s] = Slid(hist, rate)],
            spikes |-> IF Len(hist) >= MinHistory /\ Spike(hist, rate, i \in up)
                       THEN Append(acc.spikes, spike) ELSE acc.spikes]

\* A scan gives the keys in the order of a Go map, another one each time.
ScanOrders == Bijection(DOMAIN Keys, DOMAIN Keys)

\* One key after the other: a series of several regions meets itself.
Scored(order, up) ==
  LET acc[i \in 0 .. Len(Keys)] ==
        IF i = 0 THEN [history |-> history, spikes |-> <<>>] ELSE Check(acc[i - 1], order[i], up)
  IN  acc[Len(Keys)]

TiersOf(S, entity) == {k.tier : k \in {x \in S : x.entity = entity}}

\* Mutant of Class: entries are counted, not tiers.
ClassByEntries(entity, withData, spiking) ==
  IF 5 * Cardinality({k \in spiking : k.entity = entity}) >= 3 * Cardinality(TiersOf(withData, entity))
  THEN "cross_rank" ELSE "tier_specific"

\* CROSS_RANK_FRACTION is 3/5.
Class(entity, withData, spiking) ==
  IF 5 * Cardinality(TiersOf(spiking, entity)) >= 3 * Cardinality(TiersOf(withData, entity))
  THEN "cross_rank" ELSE "tier_specific"

\* The second pass: the tag, from the tiers with data and the tiers that spike.
Tagged(found) ==
  LET withData == {Keys[i] : i \in {i \in DOMAIN Keys : EnoughSample(i)}}
      spiking == {found[i].key : i \in DOMAIN found}
  IN  [i \in DOMAIN found |->
         [found[i] EXCEPT !.class = Class(found[i].key.entity, withData, spiking),
                          !.among = TiersOf(withData, found[i].key.entity)]]

RunOnce ==
  /\ spikes = <<>> /\ passes < MaxPasses
  /\ \E order \in ScanOrders, up \in SUBSET DOMAIN Keys :
       LET scored == Scored(order, up)
       IN  history' = scored.history /\ spikes' = Tagged(scored.spikes)
  /\ passes' = passes + 1
  /\ UNCHANGED <<stats, lost, log, api, updates, faults>>

Publish ==
  /\ spikes # <<>>
  /\ log' = Append(log, Head(spikes)) /\ spikes' = Tail(spikes)
  /\ UNCHANGED <<stats, history, passes, lost, api, updates, faults>>

\* publish raises, before the broker appended the alert or after: run catches
\* it, and the rest of the pass is lost.
PublishFails ==
  /\ spikes # <<>> /\ faults < MaxFaults /\ faults' = faults + 1
  /\ log' \in {log, Append(log, Head(spikes))} /\ spikes' = <<>>
  /\ lost' = lost \cup (ToSet(spikes) \ ToSet(log'))
  /\ UNCHANGED <<stats, history, passes, api, updates>>

\* The process ends and starts again.
Restart ==
  /\ faults < MaxFaults /\ faults' = faults + 1
  /\ history' = [s \in Series |-> <<>>] /\ spikes' = <<>>
  /\ lost' = lost \cup ToSet(spikes)
  /\ UNCHANGED <<stats, passes, log, api, updates>>

-----------------------------------------------------------------------------
(* Service._start_anomaly_feed                                              *)

\* Mutant of Subscribe: an error ends the loop.
SubscribeOnce == stream = -1 /\ faults = 0 /\ stream' = 0 /\ UNCHANGED <<stats, service, log, feed, updates, faults>>

Subscribe ==
  /\ stream = -1 /\ stream' = 0
  /\ UNCHANGED <<stats, service, log, feed, updates, faults>>

\* Mutant of Deliver: at the other end.
DeliverLast ==
  /\ stream \in 0 .. Len(log) - 1
  /\ feed' = Append(SubSeq(feed, 1, Min({FeedSize - 1, Len(feed)})), log[stream + 1])
  /\ stream' = stream + 1
  /\ UNCHANGED <<stats, service, log, updates, faults>>

\* appendleft
Deliver ==
  /\ stream \in 0 .. Len(log) - 1
  /\ feed' = <<log[stream + 1]>> \o SubSeq(feed, 1, Min({FeedSize - 1, Len(feed)}))
  /\ stream' = stream + 1
  /\ UNCHANGED <<stats, service, log, updates, faults>>

\* The stream ends or raises.
Break ==
  /\ stream # -1 /\ faults < MaxFaults /\ faults' = faults + 1
  /\ stream' = -1
  /\ UNCHANGED <<stats, service, log, feed, updates>>

\* The alerts of a list from time c on, in its order.
RecentFrom(alerts, c) ==
  LET recent == {i \in DOMAIN alerts : alerts[i].time >= c}
  IN  [k \in 1 .. Cardinality(recent) |-> alerts[CHOOSE i \in recent : Cardinality({j \in recent : j < i}) = k - 1]]

\* get_anomalies.  It iterates without the lock of the thread that appends: where
\* these meet, Python may raise RuntimeError instead and the request fails.
Anomalies == RecentFrom(feed, passes - Hours)

-----------------------------------------------------------------------------
\* The processor writes an entry.
Update(i) ==
  /\ updates < MaxUpdates /\ updates' = updates + 1
  /\ \E s \in Stat \ {stats[i]} : stats' = [stats EXCEPT ![i] = s]
  /\ UNCHANGED <<service, log, api, faults>>

AlertsNext == \/ RunOnce \/ Publish \/ PublishFails \/ Restart \/ Subscribe \/ Deliver \/ Break
        \/ \E i \in DOMAIN Keys : Update(i)

AlertsSpec == AlertsInit /\ [][AlertsNext]_alertVars

\* The threads go on: the service publishes what it has found, and the feed
\* subscribes again and takes what the stream yields.
Fairness == WF_alertVars(Publish) /\ WF_alertVars(Subscribe) /\ WF_alertVars(Deliver)

FairSpec == AlertsSpec /\ Fairness

-----------------------------------------------------------------------------
(* Properties                                                               *)

IsAlert(a) == a.key \in ToSet(Keys) /\ Len(a.hist) \in MinHistory .. Window /\ a.class \in {"cross_rank", "tier_specific"}

\* Every variable keeps its type; histories and feed stay within their lengths.
AlertsTypeOK ==
  /\ \A i \in DOMAIN Keys : stats[i] \in Stat \cup {NoStat}
  /\ DOMAIN history = Series /\ \A s \in Series : Len(history[s]) <= Window
  /\ \A a \in ToSet(spikes) \cup lost \cup ToSet(log) \cup ToSet(feed) : IsAlert(a)
  /\ Len(feed) <= FeedSize /\ stream \in -1 .. Len(log)
  /\ {passes, updates, faults} \subseteq Nat

\* detector.py: an alert is about a rate that is rare among the observations it
\* was scored against, whatever regions and patches these mix: at most 1 in
\* Z*Z + 1 of them reach it (Cantelli's inequality), as many as that where z is
\* Z_THRESHOLD and is rounded up.  A rate that stays up is therefore alerted at
\* most Window \div (Z*Z + 1) + 1 times in a row.
AlertIsRare ==
  \A a \in ToSet(log) :
    (ZThreshold * ZThreshold + 1) * Cardinality({i \in DOMAIN a.hist : a.hist[i] >= a.rate}) <= Len(a.hist)

\* anomaly/main.py:5: "An entity spiking across most tiers is tagged cross_rank;
\* one spiking in a subset is tier_specific".  The alerts of an entity in a pass,
\* published one by one, have one tag; it is cross_rank where all tiers the pass
\* had data of are among them, and only where more than half are, however many
\* regions a tier has.
TagsAgree ==
  LET found == ToSet(log) \cup ToSet(spikes) \cup lost
  IN  \A a \in found :
        LET same == {b \in found : b.time = a.time /\ b.key.entity = a.key.entity}
            tiers == {b.key.tier : b \in same}
        IN  /\ \A b \in same : b.class = a.class
            /\ a.among \subseteq tiers => a.class = "cross_rank"
            /\ a.class = "cross_rank" => 2 * Cardinality(tiers) > Cardinality(a.among)

\* What get_anomalies serves begins with the alerts the stream has yielded, the
\* newest first and none missing, as many as the feed holds and as recent as
\* asked for, although every break of the stream delivers the old ones again.
FeedFront ==
  stream # -1 =>
    LET got == Reverse(SubSeq(log, Max({1, stream - FeedSize + 1}), stream))
        due == RecentFrom(got, passes - Hours)
    IN  SubSeq(Anomalies, 1, Len(due)) = due

\* Every alert published reaches the feed, through breaks of the stream.
FeedGetsAll == \A n \in 1 .. MaxPasses : Len(log) >= n ~> stream >= n

=============================================================================
