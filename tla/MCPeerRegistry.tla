--------------------------- MODULE MCPeerRegistry ---------------------------
(* Instances of PeerRegistry for TLC. *)
EXTENDS PeerRegistry, TLC

CONSTANTS i1, i2, i3, o1, o2, n1, n2, x, here

\* i1, i2 and i3 come from one IP; the node n1 is behind i1, i2 and both
\* outbound websockets, which are opened to one address; n2 is behind i3.
Nodes == [c \in Conn |-> IF c = i3 THEN n2 ELSE n1]
OneIp == [c \in Inbound |-> x]
OneAddress == [c \in Conn \ Inbound |-> here]
LimitTwo == [ip \in Ip |-> 2]

\* i1 and i2 can be exchanged, and so can o1 and o2.
Twins == Permutations({i1, i2}) \cup Permutations({o1, o2})
=============================================================================
