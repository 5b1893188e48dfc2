-------------------------- MODULE MCBackgroundRun --------------------------
(* Instances of BackgroundRun for TLC. *)
EXTENDS BackgroundRun, TLC

CONSTANTS w1, w2, x, y

\* The second item has failed too often: that it is requeued is one upset.
InstanceInit == Init /\ item[x] = "waiting" /\ item[y] = "dead"

InstanceSpec == InstanceInit /\ [][Next]_vars /\ RunFairness
=============================================================================
