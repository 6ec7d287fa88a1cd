------------------------------ MODULE MCAlerts ------------------------------
(* Instances of Alerts for TLC: one entity, two tiers, two regions.          *)
EXTENDS Alerts

K(tier, region) == [entity |-> "e", tier |-> tier, region |-> region]
mcKeys == <<K("t1", "r1"), K("t1", "r2"), K("t2", "r1")>>
mcStat == {[rate |-> 0, n |-> 2], [rate |-> 1, n |-> 2], [rate |-> 1, n |-> 1]}

\* The store has every key from the beginning; a sample that is too small does
\* for a key that is missing.
mcInit == AlertsInit /\ \A i \in DOMAIN Keys : stats[i] # NoStat
mcSpec == mcInit /\ [][AlertsNext]_alertVars /\ Fairness
=============================================================================
