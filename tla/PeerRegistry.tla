---------------------------- MODULE PeerRegistry ----------------------------
(***************************************************************************)
(* cometnet/transport.py, class ConnectionManager: the registry of peer    *)
(* connections, the per-IP counters and the lock that guards the limits.   *)
(*                                                                         *)
(* A member of Conn is one websocket, from the first byte to the end of    *)
(* its receive loop.  The actions of one coroutine are separated where it  *)
(* awaits: the lock (when somebody holds it), the handshake messages, the  *)
(* validation of the peer's address, a close.                              *)
(***************************************************************************)
EXTENDS Integers, FiniteSets

CONSTANTS
    Conn,           \* websockets, each used once
    Inbound,        \* those the other side opened
    Node, NodeOf,   \* node ids; the one that answers the handshake
    Ip, IpOf,       \* addresses of the inbound websockets, per client_ip
    Address, AddressOf,     \* what connect_to_peer() is given, per outbound one
    NoConn,         \* "not in _connections"
    MaxPeers,       \* max_peers
    LimitOf         \* max_connections_per_ip, which private IPs relax

Outbound == Conn \ Inbound

ASSUME PeerAssumption ==
    /\ IsFiniteSet(Conn) /\ Inbound \subseteq Conn /\ NoConn \notin Conn
    /\ NodeOf \in [Conn -> Node]
    /\ IpOf \in [Inbound -> Ip] /\ AddressOf \in [Outbound -> Address]
    /\ MaxPeers \in Nat /\ LimitOf \in [Ip -> Nat]

VARIABLES
    pc,             \* where the coroutine of each websocket is
    connections,    \* _connections: node id -> websocket
    perIp,          \* _connections_per_ip; an absent key counts 0
    connecting,     \* _connecting
    closed,         \* websockets that are closed, on either side
    kicked          \* nodes that some disconnect_peer() is closing

vars == <<pc, connections, perIp, connecting, closed, kicked>>

\* Somebody awaits websocket.close() inside "async with _connection_lock".
LockHeld == \E c \in Conn : pc[c] = "rejecting"

Goto(c, at) == pc' = [pc EXCEPT ![c] = at]

Registered == {n \in Node : connections[n] # NoConn}
PeerLimitReached == Cardinality(Registered) >= MaxPeers

Init ==
    /\ pc = [c \in Conn |-> "new"]
    /\ connections = [n \in Node |-> NoConn]
    /\ perIp = [ip \in Ip |-> 0]
    /\ connecting = {} /\ closed = {} /\ kicked = {}

----------------------------------------------------------------------------
\* connect_to_peer() inside the lock: the peer limit, then the address is marked.
Dial(c) ==
    /\ ~LockHeld
    /\ IF PeerLimitReached
       THEN Goto(c, "over") /\ UNCHANGED connecting
       ELSE /\ Goto(c, "handshake")
            /\ connecting' = connecting \cup {AddressOf[c]}
    /\ UNCHANGED <<connections, perIp, closed, kicked>>

\* connect_to_peer(): the address is not being dialled.  A free lock is taken
\* without an await, ...
StartDial(c) ==
    /\ c \in Outbound /\ pc[c] = "new"
    /\ AddressOf[c] \notin connecting
    /\ Dial(c)

\* ... a held one is waited for, and the address is not looked at again.
AwaitLock(c) ==
    /\ c \in Outbound /\ pc[c] = "new"
    /\ AddressOf[c] \notin connecting
    /\ LockHeld /\ Goto(c, "dial")
    /\ UNCHANGED <<connections, perIp, connecting, closed, kicked>>

LateDial(c) == pc[c] = "dial" /\ Dial(c)

\* handle_incoming_connection(), under the lock: both limits, then the IP's
\* slot is taken before the handshake.  A refused websocket is closed there.
AtIpLimit(c) == perIp[IpOf[c]] >= LimitOf[IpOf[c]]

Accept(c) ==
    /\ c \in Inbound /\ pc[c] = "new" /\ ~LockHeld
    /\ IF AtIpLimit(c) \/ PeerLimitReached
       THEN Goto(c, "rejecting") /\ UNCHANGED perIp
       ELSE /\ Goto(c, "handshake")
            /\ perIp' = [perIp EXCEPT ![IpOf[c]] = @ + 1]
    /\ UNCHANGED <<connections, connecting, closed, kicked>>

Rejected(c) ==
    /\ pc[c] = "rejecting" /\ Goto(c, "over")
    /\ closed' = closed \cup {c}
    /\ UNCHANGED <<connections, perIp, connecting, kicked>>

\* The end of connect_to_peer(): "finally: self._connecting.discard(address)".
Discard(c) ==
    connecting' = IF c \in Outbound THEN connecting \ {AddressOf[c]}
                                    ELSE connecting

\* Mutant of Verify: the record is stored before the address is validated.
VerifyRegisters(c) ==
    /\ pc[c] = "handshake" /\ connections[NodeOf[c]] = NoConn
    /\ Goto(c, "resolving")
    /\ connections' = [connections EXCEPT ![NodeOf[c]] = c]
    /\ UNCHANGED <<perIp, connecting, closed, kicked>>

\* _perform_handshake(): both messages were exchanged and verified, and the
\* node is not in the registry; its address is validated next (await).
Verify(c) ==
    /\ pc[c] = "handshake" /\ connections[NodeOf[c]] = NoConn
    /\ Goto(c, "resolving")
    /\ UNCHANGED <<connections, perIp, connecting, closed, kicked>>

\* Already connected to this node: the websocket is closed, and the node id is
\* returned as for a connection that was made.
AlreadyConnected(c) ==
    /\ pc[c] = "handshake" /\ connections[NodeOf[c]] # NoConn
    /\ Goto(c, "over") /\ Discard(c)
    /\ closed' = closed \cup {c}
    /\ UNCHANGED <<connections, perIp, kicked>>

\* The record is stored under the node id and its receive loop is started.
Register(c) ==
    /\ pc[c] = "resolving"
    /\ Goto(c, "open") /\ Discard(c)
    /\ connections' = [connections EXCEPT ![NodeOf[c]] = c]
    /\ UNCHANGED <<perIp, closed, kicked>>

\* A timeout, a lost websocket, a bad message, signature, token or node id.
HandshakeFails(c) ==
    /\ pc[c] \in {"handshake", "resolving"}
    /\ IF c \in Inbound THEN Goto(c, "failing") /\ UNCHANGED closed
                        ELSE Goto(c, "over") /\ closed' = closed \cup {c}
    /\ Discard(c)
    /\ UNCHANGED <<connections, perIp, kicked>>

OneLess(ip) == perIp' = [perIp EXCEPT ![ip] = IF @ > 0 THEN @ - 1 ELSE 0]

\* "Handshake failed, decrement IP counter", under the lock.
GiveBack(c) ==
    /\ pc[c] = "failing" /\ ~LockHeld
    /\ Goto(c, "over")
    /\ OneLess(IpOf[c])
    /\ closed' = closed \cup {c}
    /\ UNCHANGED <<connections, connecting, kicked>>

----------------------------------------------------------------------------
\* The other side closes, or the network does.
PeerCloses(c) ==
    /\ pc[c] = "open" /\ c \notin closed
    /\ closed' = closed \cup {c}
    /\ UNCHANGED <<pc, connections, perIp, connecting, kicked>>

\* Mutant of LoopEnds: only the connections that hold a slot are forgotten.
LoopEndsInbound(c) ==
    /\ pc[c] = "open" /\ c \in closed
    /\ Goto(c, "over")
    /\ IF connections[NodeOf[c]] # NoConn /\ c \in Inbound
       THEN /\ OneLess(IpOf[c])
            /\ connections' = [connections EXCEPT ![NodeOf[c]] = NoConn]
       ELSE UNCHANGED <<perIp, connections>>
    /\ UNCHANGED <<connecting, closed, kicked>>

\* recv() raises ConnectionClosed: the finally clause of _receive_loop().  It
\* asks whether the node id is registered, not whether this websocket is.
LoopEnds(c) ==
    /\ pc[c] = "open" /\ c \in closed
    /\ Goto(c, "over")
    /\ connections' = [connections EXCEPT ![NodeOf[c]] = NoConn]
    /\ IF connections[NodeOf[c]] # NoConn /\ c \in Inbound
       THEN OneLess(IpOf[c]) ELSE UNCHANGED perIp
    /\ UNCHANGED <<connecting, closed, kicked>>

\* disconnect_peer(), called by the ping loop, by the eclipse remediation and
\* by gossip: it awaits the close of the websocket it finds ...
StartKick(n) ==
    /\ n \in Registered /\ n \notin kicked
    /\ closed' = closed \cup {connections[n]}
    /\ kicked' = kicked \cup {n}
    /\ UNCHANGED <<pc, connections, perIp, connecting>>

\* ... and deletes what is registered then; a KeyError, if that is nothing,
\* is swallowed by the callers.
EndKick(n) ==
    /\ n \in kicked
    /\ connections' = [connections EXCEPT ![n] = NoConn]
    /\ kicked' = kicked \ {n}
    /\ UNCHANGED <<pc, perIp, connecting, closed>>

\* Steps that follow from the last one; the others depend on the other side.
Proceed(c) ==
    \/ LateDial(c) \/ Rejected(c) \/ GiveBack(c) \/ LoopEnds(c)
    \/ Verify(c) \/ AlreadyConnected(c) \/ Register(c) \/ HandshakeFails(c)

Next ==
    \/ \E c \in Conn : StartDial(c) \/ AwaitLock(c) \/ Accept(c) \/ PeerCloses(c) \/ Proceed(c)
    \/ \E n \in Node : StartKick(n) \/ EndKick(n)

Spec == Init /\ [][Next]_vars

\* Awaits end: a close and a handshake have timeouts, the lock is released,
\* and a closed websocket makes recv() raise.
PeerFairness ==
    /\ \A c \in Conn : WF_vars(Proceed(c))
    /\ \A n \in Node : WF_vars(EndKick(n))

FairSpec == Spec /\ PeerFairness

----------------------------------------------------------------------------
\* Type invariant.
TypeOK ==
    /\ pc \in [Conn -> {"new", "dial", "handshake", "resolving", "open",
                        "rejecting", "failing", "over"}]
    /\ connections \in [Node -> Conn \cup {NoConn}]
    /\ perIp \in [Ip -> Nat]
    /\ connecting \subseteq Address
    /\ closed \subseteq Conn /\ kicked \subseteq Node

\* The inbound websockets from ip whose slot has not been given back.
From(ip) == {c \in Inbound : IpOf[c] = ip}
Holding(ip) == {c \in From(ip) : pc[c] \in {"handshake", "resolving", "open",
                                            "failing"}}

\* "Max connections allowed from a single IP": the counter never falls below
\* the inbound websockets that are alive, so the limit holds however loops,
\* failures and replaced registrations give slots back.
IpCountCovers ==
    \A ip \in Ip : /\ Cardinality(Holding(ip)) <= perIp[ip]
                   /\ perIp[ip] <= LimitOf[ip]

\* What is registered is a websocket of that node whose receive loop still
\* runs: nobody sends to, or counts, a connection that is gone.
RegisteredIsOpen ==
    \A n \in Registered : /\ pc[connections[n]] = "open"
                          /\ NodeOf[connections[n]] = n

\* What holds of the registry in every state: slots are counted, and what is
\* registered is open.
PeersInv == TypeOK /\ IpCountCovers /\ RegisteredIsOpen

\* A closed websocket does not stay registered.
ClosedIsForgotten == <>[](\A c \in closed : connections[NodeOf[c]] # c)

\* Every attempt ends: the limits' lock is always released.
AttemptEnds == <>[](\A c \in Conn : pc[c] \in {"new", "open", "over"})

\* Attempts end, and what they leave closed is forgotten.
PeersSettle == AttemptEnds /\ ClosedIsForgotten

----------------------------------------------------------------------------
\* "Max connections allowed from a single IP": a websocket is turned away by
\* that limit only when so many from its IP are alive.
RejectedAtLimit ==
    [][\A c \in Inbound :
          pc[c] = "new" /\ pc'[c] = "rejecting" /\ ~PeerLimitReached =>
              Cardinality(Holding(IpOf[c])) >= LimitOf[IpOf[c]]]_vars

\* "Active connections by node_id": a connection that receives messages, and
\* that nobody closed, is the one registered for its node.
ActiveIsRegistered ==
    \A c \in Conn \ closed : pc[c] = "open" => connections[NodeOf[c]] = c
=============================================================================
