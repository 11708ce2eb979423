------------------------------ MODULE MCWatcher ------------------------------
(* Rewards and reward ranges for the model checker *)
EXTENDS Watcher

CONSTANTS j1, j2, w1

\* j2 pays more than j1; only j2 is in the narrow range; a notice (reward 0) passes the open range only
MCReward == [j \in RssJobs |-> IF j = j1 THEN 1 ELSE 3]
Open     == [min |-> 0, max |-> 5]
Narrow   == [min |-> 2, max |-> 5]
OneRange  == {Open}
TwoRanges == {Open, Narrow}

(* Two instances over one item, or one instance over two, which a cache of one *)
(* entry cannot hold                                                           *)
Shape == Cardinality(feed) <= 1 \/ started <= 1

ShapedNext ==
  \/ ManagerStep /\ Shape'
  \/ \E j \in RssJobs : Post(j) /\ Shape'
  \/ UpdateConfig \/ Crash \/ Expire
  \/ \E i \in Instances : RssStep(i) \/ WsStep(i) \/ LoopStep(i)

ShapedSpec == Init /\ [][ShapedNext]_vars
=============================================================================
