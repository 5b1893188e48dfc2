------------------------------ MODULE MCPools ------------------------------
(* Pool manifests and the reputation of peers, each on its own.             *)
EXTENDS MCPoolSync, PeerTrust, TLC

CONSTANTS p1, p2, p3,   \* peers
          l1, l2        \* receive loops

\* Receive loops can be exchanged, and so can peers that only contribute.
Alike == {f @@ g : f \in Permutations(Loop), g \in Permutations(Peer \ Sender)}

VARIABLE part   \* the component that runs

SuiteInit ==
    /\ part \in {"pools", "trust"}
    /\ PoolInit /\ TrustInit
    /\ part = "pools" \/ \A n \in PoolNode \ {c} : mship[n] = FALSE
SuiteNext ==
    /\ UNCHANGED part
    /\ \/ part = "pools" /\ PoolNext /\ UNCHANGED trustVars
       \/ part = "trust" /\ TrustNext /\ UNCHANGED poolVars

SuiteSpec == SuiteInit /\ [][SuiteNext]_<<part, poolVars, trustVars>>
=============================================================================
