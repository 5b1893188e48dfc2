----------------------------- MODULE MCCometNet -----------------------------
(* CometNet: the registry of connections, gossip and the book of known      *)
(* peers, each on its own.                                                   *)
EXTENDS MCPeerRegistry, Gossip, PeerBook

CONSTANTS p, q, r, s, t1, t2,       \* nodes and items of gossip
          mp, lp, P, Q              \* a manual and a learned address, and who is there

H == [i \in Item |-> "h"]
Who == [i \in Item |-> IF i = t1 THEN p ELSE s]
Modes == [n \in GNode |-> CASE n \in {p, r} -> "full" [] n = q -> "consumer" [] n = s -> "source"]
Trust == [n \in GNode |-> IF n = q THEN {p, r, q} ELSE GNode]
Ring == {{p, q}, {q, r}, {p, r}, {r, s}}
\* Nobody, or a node between the others, knows the torrent already.
KnownAlready == {[n \in GNode |-> IF n \in some THEN {"h"} ELSE {}] :
                     some \in {{}, {q}, {q, r}}}

Behind == [x1 \in Addr |-> IF x1 = mp THEN P ELSE Q]
Files == {<<>>, lp :> [source |-> "pex", id |-> Q, age |-> 1]}

VARIABLE part   \* the component that runs

SuiteInit ==
    /\ part \in {"registry", "gossip", "book"}
    /\ Init /\ GossipInit /\ BookInit
    /\ part = "gossip" \/ \A n \in GNode : stored[n] = {}
    /\ part = "book" \/ (up = {} /\ bookFile = <<>>)
SuiteNext ==
    /\ UNCHANGED part
    /\ \/ part = "registry" /\ Next /\ UNCHANGED <<gossipVars, bookVars>>
       \/ part = "gossip" /\ GossipNext /\ UNCHANGED <<vars, bookVars>>
       \/ part = "book" /\ BookNext /\ UNCHANGED <<vars, gossipVars>>

SuiteSpec ==
    /\ SuiteInit /\ [][SuiteNext]_<<part, vars, gossipVars, bookVars>>
    \* In place of PeerFairness, GossipFairness and BookFairness: when some task
    \* of the part that runs can go on, one does.
    /\ WF_vars(/\ part = "registry"
               /\ (\E c \in Conn : Proceed(c)) \/ (\E n \in Node : EndKick(n)))
    /\ WF_gossipVars(part = "gossip" /\ \E n \in GNode : GossipHandles(n))
    /\ WF_bookVars(part = "book" /\ BookLoop)
=============================================================================
