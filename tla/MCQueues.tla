------------------------------ MODULE MCQueues ------------------------------
(* The two queues of services/torrent_manager.py, the relay's batch and the  *)
(* DMM ingester, each on its own.                                            *)
EXTENDS TorrentUpdates, MagnetQueue, RelayBatch, DmmIngest, TLC

CONSTANTS u1, u2, u3, u4, a, b, c, c1, c2, c3,
          m1, m2, m3, m4, k1, k2, k3, w1, w2,
          t1, t2, t3, r1, r2, g1, g2, f1, f2

\* The rows of the first call fill the queue; the others are of one row, one of
\* them from the network.
Rows == [u \in Update |-> CASE u = u1 -> a [] u = u2 -> b [] u \in {u3, u4} -> c]
Calls == [n \in Call |-> CASE n = c1 -> <<u1, u2>>
                           [] n = c2 -> <<u3>>
                           [] n = c3 -> <<u4>>]

\* Two calls for one key; two keys with one magnet.
Keys == m1 :> k1 @@ m2 :> k1 @@ m3 :> k2 @@ m4 :> k3
Magnets == k1 :> "x" @@ k2 :> "x" @@ k3 :> "y"
Seeders == m1 :> 1 @@ m2 :> 2 @@ m3 :> 1 @@ m4 :> 1

VARIABLE part   \* the component that runs

SuiteInit ==
    /\ part \in {"updates", "magnets", "relay", "dmm"}
    /\ Init /\ MagnetInit /\ RelayInit /\ DmmInit
    /\ part = "dmm" \/ \A i \in Ingester : At(i, "down")
SuiteNext ==
    /\ UNCHANGED part
    /\ \/ part = "updates" /\ Next /\ UNCHANGED <<magnetVars, relayVars, dmmVars>>
       \/ part = "magnets" /\ MagnetNext /\ UNCHANGED <<vars, relayVars, dmmVars>>
       \/ part = "relay" /\ RelayNext /\ UNCHANGED <<vars, magnetVars, dmmVars>>
       \/ part = "dmm" /\ DmmNext /\ UNCHANGED <<vars, magnetVars, relayVars>>

SuiteSpec ==
    /\ SuiteInit /\ [][SuiteNext]_<<part, vars, magnetVars, relayVars, dmmVars>>
    \* In place of UpdateFairness, MagnetFairness and the others': when some task
    \* of the part that runs can go on, one does.
    /\ WF_vars(part = "updates" /\ (Work \/ Retry \/ Send \/ Stop \/ \E n \in Call : Put(n)))
    /\ WF_magnetVars(/\ part = "magnets"
                     /\ \/ \E w \in MagnetWorker : MagnetWorks(w)
                        \/ \E m \in MagnetCall : PutMagnet(m)
                        \/ MagnetStops)
    /\ WF_relayVars(/\ part = "relay"
                    /\ \/ \E f \in Flusher : Flushing(f)
                       \/ LoopFlushes \/ CancelLoop \/ CancelTasks)
    /\ WF_dmmVars(part = "dmm" /\ (LapseDead \/ \E i \in Ingester : Ingests(i)))

\* Each stop() that was called returns.
StopsReturn == StopReturns /\ MagnetStopReturns

\* What was handed over is dealt with in the end: updates are written or given
\* up, magnets are done, the relay's batch is sent, files are ingested.
QueuesSettle == AcceptedSettles /\ PendingEnds /\ BatchIsSent /\ AllMarked
=============================================================================
