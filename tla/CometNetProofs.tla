---------------------------- MODULE CometNetProofs ----------------------------
(***************************************************************************)
(* Proofs about the network of a node: the registry of connections         *)
(* (PeerRegistry), the announcements of torrents (Gossip), the reputation  *)
(* and the keys of peers (PeerTrust), the trust pools (PoolSync) and the   *)
(* book of known addresses (PeerBook).                                     *)
(***************************************************************************)
EXTENDS PeerRegistry, Gossip, PeerTrust, PoolSync, PeerBook, Lemmas,
        SequenceTheorems

----------------------------------------------------------------------------
(* The registry of connections. *)

\* Only a dialled websocket waits for the lock with its address chosen, and
\* only an accepted one gives a slot back.
SidesKept ==
    \A c \in Conn : /\ pc[c] = "dial" => c \in Outbound
                    /\ pc[c] = "failing" => c \in Inbound

RegistryInv == PeersInv /\ SidesKept

LEMMA HoldingFinite ==
    ASSUME NEW ip \in Ip
    PROVE  IsFiniteSet(Holding(ip)) /\ Cardinality(Holding(ip)) \in Nat
<1>1. Holding(ip) \subseteq Conn
  BY PeerAssumption DEF Holding, From
<1> QED
  BY <1>1, PeerAssumption, FS_Subset, FS_CardinalityType

\* A step of c moves no other websocket.
OnlyMoves(c) == \A d \in Conn \ {c} : pc'[d] = pc[d]

Occupying == {"handshake", "resolving", "open", "failing"}

\* What it does to the slots that its IP holds.
LEMMA HoldingMoves ==
    ASSUME NEW c \in Conn, OnlyMoves(c), NEW ip \in Ip
    PROVE  Holding(ip)' = IF c \in From(ip) /\ pc'[c] \in Occupying
                          THEN Holding(ip) \cup {c} ELSE Holding(ip) \ {c}
  BY PeerAssumption DEF Holding, From, OnlyMoves, Occupying

LEMMA RegistryInit == Init => RegistryInv
<1> SUFFICES ASSUME Init PROVE RegistryInv
  OBVIOUS
<1>1. TypeOK
  BY DEF Init, TypeOK
<1>2. \A ip \in Ip : Holding(ip) = {}
  BY PeerAssumption DEF Init, Holding, From
<1>3. IpCountCovers
  BY <1>2, PeerAssumption, FS_EmptySet DEF Init, IpCountCovers
<1>4. RegisteredIsOpen /\ SidesKept
  BY DEF Init, RegisteredIsOpen, Registered, SidesKept
<1> QED
  BY <1>1, <1>3, <1>4 DEF RegistryInv, PeersInv

LEMMA RegistryTypes == RegistryInv /\ [Next]_vars => TypeOK' /\ SidesKept'
<1> SUFFICES ASSUME RegistryInv, [Next]_vars PROVE TypeOK' /\ SidesKept'
  OBVIOUS
<1> USE PeerAssumption DEF RegistryInv, PeersInv, TypeOK, SidesKept, Goto, Discard,
                           OneLess, Outbound
<1>1. ASSUME NEW c \in Conn, StartDial(c) \/ AwaitLock(c) \/ LateDial(c)
      PROVE  TypeOK' /\ SidesKept'
  BY <1>1 DEF StartDial, AwaitLock, LateDial, Dial
<1>2. ASSUME NEW c \in Conn, Accept(c) \/ Rejected(c) \/ PeerCloses(c)
      PROVE  TypeOK' /\ SidesKept'
  BY <1>2 DEF Accept, Rejected, PeerCloses
<1>3. ASSUME NEW c \in Conn, GiveBack(c) \/ LoopEnds(c)
      PROVE  TypeOK' /\ SidesKept'
  BY <1>3 DEF GiveBack, LoopEnds
<1>4. ASSUME NEW c \in Conn, Verify(c) \/ AlreadyConnected(c) \/ Register(c)
      PROVE  TypeOK' /\ SidesKept'
  BY <1>4 DEF Verify, AlreadyConnected, Register
<1>5. ASSUME NEW c \in Conn, HandshakeFails(c)
      PROVE  TypeOK' /\ SidesKept'
  BY <1>5 DEF HandshakeFails
<1>6. ASSUME NEW n \in Node, StartKick(n) \/ EndKick(n)
      PROVE  TypeOK' /\ SidesKept'
  BY <1>6 DEF StartKick, EndKick, Registered
<1>7. CASE UNCHANGED vars
  BY <1>7 DEF vars
<1> QED
  BY <1>1, <1>2, <1>3, <1>4, <1>5, <1>6, <1>7 DEF Next, Proceed

\* What is registered is open: only open websockets are, under their own node,
\* and one that stops being open takes the entry of its node with it.
LEMMA RegisteredNext == RegistryInv /\ [Next]_vars => RegisteredIsOpen'
<1> SUFFICES ASSUME RegistryInv, [Next]_vars PROVE RegisteredIsOpen'
  OBVIOUS
<1> USE PeerAssumption DEF RegistryInv, PeersInv, TypeOK, RegisteredIsOpen,
                           Registered, Goto
<1>1. ASSUME NEW c \in Conn, StartDial(c) \/ AwaitLock(c) \/ LateDial(c)
      PROVE  RegisteredIsOpen'
  BY <1>1 DEF StartDial, AwaitLock, LateDial, Dial
<1>2. ASSUME NEW c \in Conn, Accept(c) \/ Rejected(c) \/ PeerCloses(c)
      PROVE  RegisteredIsOpen'
  BY <1>2 DEF Accept, Rejected, PeerCloses
<1>3. ASSUME NEW c \in Conn, GiveBack(c) \/ LoopEnds(c)
      PROVE  RegisteredIsOpen'
  BY <1>3 DEF GiveBack, LoopEnds
<1>4. ASSUME NEW c \in Conn, Verify(c) \/ AlreadyConnected(c) \/ Register(c)
      PROVE  RegisteredIsOpen'
  BY <1>4 DEF Verify, AlreadyConnected, Register
<1>5. ASSUME NEW c \in Conn, HandshakeFails(c)
      PROVE  RegisteredIsOpen'
  BY <1>5 DEF HandshakeFails
<1>6. ASSUME NEW n \in Node, StartKick(n) \/ EndKick(n)
      PROVE  RegisteredIsOpen'
  BY <1>6 DEF StartKick, EndKick
<1>7. CASE UNCHANGED vars
  BY <1>7 DEF vars
<1> QED
  BY <1>1, <1>2, <1>3, <1>4, <1>5, <1>6, <1>7 DEF Next, Proceed

\* The counter of an IP: it is raised with every slot taken, and lowered only
\* when one that is held is given back.
LEMMA CountNext == RegistryInv /\ [Next]_vars => IpCountCovers'
<1> SUFFICES ASSUME RegistryInv, [Next]_vars, NEW ip \in Ip
             PROVE  /\ Cardinality(Holding(ip)') <= perIp'[ip]
                    /\ perIp'[ip] <= LimitOf[ip]
  BY DEF IpCountCovers
<1> DEFINE Covered == /\ Cardinality(Holding(ip)') <= perIp'[ip]
                      /\ perIp'[ip] <= LimitOf[ip]
<1>1. /\ Cardinality(Holding(ip)) <= perIp[ip] /\ perIp[ip] <= LimitOf[ip]
      /\ perIp[ip] \in Nat /\ LimitOf[ip] \in Nat
      /\ IsFiniteSet(Holding(ip)) /\ Cardinality(Holding(ip)) \in Nat
  BY HoldingFinite, PeerAssumption
     DEF RegistryInv, PeersInv, TypeOK, IpCountCovers
<1>2. /\ perIp \in [Ip -> Nat] /\ SidesKept
      /\ \A c \in Conn : \A at : Goto(c, at) => OnlyMoves(c) /\ pc'[c] = at
  BY DEF RegistryInv, PeersInv, TypeOK, Goto, OnlyMoves
\* A step that gives no slot back, ...
<1>3. ASSUME NEW c \in Conn, OnlyMoves(c), UNCHANGED perIp,
             \/ c \in Inbound => c \in Holding(IpOf[c])
             \/ pc'[c] \notin Occupying
      PROVE  Covered
  <2>1. Holding(ip)' \in {Holding(ip), Holding(ip) \ {c}}
    <3>1. CASE c \in From(ip) /\ pc'[c] \in Occupying
      <4>1. c \in Holding(ip)
        BY <1>3, <3>1 DEF From
      <4>2. Holding(ip)' = Holding(ip) \cup {c}
        BY <1>3, <3>1, HoldingMoves
      <4> QED
        BY <4>1, <4>2
    <3>2. CASE ~(c \in From(ip) /\ pc'[c] \in Occupying)
      <4>1. Holding(ip)' = Holding(ip) \ {c}
        BY <1>3, <3>2, HoldingMoves
      <4> QED
        BY <4>1
    <3> QED
      BY <3>1, <3>2
  <2>2. Cardinality(Holding(ip) \ {c})
          \in {Cardinality(Holding(ip)), Cardinality(Holding(ip)) - 1}
    BY <1>1, FS_RemoveElement
  <2> QED
    BY <1>1, <1>3, <2>1, <2>2
\* ... and one that gives back the slot that its websocket holds.
<1>4. ASSUME NEW c \in Inbound, c \in Holding(IpOf[c]), Goto(c, "over"),
             OneLess(IpOf[c])
      PROVE  Covered
  <2>1. IpOf[c] \in Ip /\ c \in Conn
    BY PeerAssumption
  <2>2. Holding(ip)' = Holding(ip) \ {c}
    BY <1>2, <1>4, <2>1, HoldingMoves DEF Occupying
  <2>3. CASE ip = IpOf[c]
    <3>1. Cardinality(Holding(ip)') = Cardinality(Holding(ip)) - 1
      BY <1>1, <1>4, <2>2, <2>3, FS_RemoveElement
    <3>2. perIp'[ip] = IF perIp[ip] > 0 THEN perIp[ip] - 1 ELSE 0
      BY <1>2, <1>4, <2>1, <2>3 DEF OneLess
    <3> QED
      BY <1>1, <3>1, <3>2
  <2>4. CASE ip # IpOf[c]
    <3>1. perIp'[ip] = perIp[ip]
      BY <1>2, <1>4, <2>4 DEF OneLess
    <3>2. c \notin Holding(ip)
      BY <2>4 DEF Holding, From
    <3> QED
      BY <1>1, <2>2, <3>1, <3>2
  <2> QED
    BY <2>3, <2>4
<1>5. ASSUME NEW c \in Conn, StartDial(c) \/ AwaitLock(c) \/ LateDial(c)
      PROVE  Covered
  <2>1. c \notin Inbound /\ UNCHANGED perIp
    BY <1>2, <1>5 DEF StartDial, AwaitLock, LateDial, Dial, SidesKept, Outbound
  <2>2. OnlyMoves(c)
    BY <1>2, <1>5 DEF StartDial, AwaitLock, LateDial, Dial
  <2> QED
    BY <1>3, <2>1, <2>2
<1>6. ASSUME NEW c \in Conn, Accept(c)
      PROVE  Covered
  <2>1. c \in Inbound /\ pc[c] = "new" /\ IpOf[c] \in Ip
    BY <1>6, PeerAssumption DEF Accept
  <2>2. CASE Goto(c, "rejecting") /\ UNCHANGED perIp
    BY <1>2, <1>3, <2>2 DEF Occupying
  <2>3. CASE /\ Goto(c, "handshake") /\ ~AtIpLimit(c)
             /\ perIp' = [perIp EXCEPT ![IpOf[c]] = @ + 1]
    <3>1. OnlyMoves(c) /\ pc'[c] \in Occupying
      BY <1>2, <2>3 DEF Occupying
    <3>2. CASE ip = IpOf[c]
      <4>1. Holding(ip)' = Holding(ip) \cup {c}
        BY <2>1, <3>1, <3>2, HoldingMoves DEF From
      <4>2. Cardinality(Holding(ip) \cup {c})
              \in {Cardinality(Holding(ip)), Cardinality(Holding(ip)) + 1}
        BY <1>1, FS_AddElement
      <4>3. perIp[ip] < LimitOf[ip] /\ perIp'[ip] = perIp[ip] + 1
        BY <1>1, <1>2, <2>3, <3>2 DEF AtIpLimit
      <4> QED
        BY <1>1, <4>1, <4>2, <4>3
    <3>3. CASE ip # IpOf[c]
      <4>1. Holding(ip)' = Holding(ip) \ {c}
        BY <2>1, <3>1, <3>3, HoldingMoves DEF From
      <4>2. c \notin Holding(ip) /\ perIp'[ip] = perIp[ip]
        BY <1>2, <2>1, <2>3, <3>3 DEF Holding, From
      <4> QED
        BY <1>1, <4>1, <4>2
    <3> QED
      BY <3>2, <3>3
  <2> QED
    BY <1>6, <2>2, <2>3 DEF Accept
<1>7. ASSUME NEW c \in Conn, Rejected(c) \/ AlreadyConnected(c)
      PROVE  Covered
  <2>1. Goto(c, "over") /\ UNCHANGED perIp
    BY <1>7 DEF Rejected, AlreadyConnected
  <2> QED
    BY <1>2, <1>3, <2>1 DEF Occupying
<1>8. ASSUME NEW c \in Conn, Verify(c) \/ Register(c) \/ HandshakeFails(c)
      PROVE  Covered
  <2>1. c \in Inbound => c \in Holding(IpOf[c])
    BY <1>8 DEF Verify, Register, HandshakeFails, Holding, From
  <2>2. UNCHANGED perIp /\ OnlyMoves(c)
    BY <1>2, <1>8 DEF Verify, Register, HandshakeFails
  <2> QED
    BY <1>3, <2>1, <2>2
<1>9. ASSUME NEW c \in Conn, GiveBack(c)
      PROVE  Covered
  <2>1. c \in Inbound /\ c \in Holding(IpOf[c])
    BY <1>2, <1>9 DEF GiveBack, SidesKept, Holding, From
  <2> QED
    BY <1>4, <1>9, <2>1 DEF GiveBack
<1>10. ASSUME NEW c \in Conn, LoopEnds(c)
       PROVE  Covered
  <2>1. CASE UNCHANGED perIp
    BY <1>2, <1>3, <1>10, <2>1 DEF LoopEnds, Occupying
  <2>2. CASE c \in Inbound /\ OneLess(IpOf[c])
    <3>1. c \in Holding(IpOf[c])
      BY <1>10, <2>2 DEF LoopEnds, Holding, From
    <3> QED
      BY <1>4, <1>10, <2>2, <3>1 DEF LoopEnds
  <2> QED
    BY <1>10, <2>1, <2>2 DEF LoopEnds
<1>11. ASSUME UNCHANGED <<pc, perIp>>
       PROVE  Covered
  <2>1. Holding(ip)' = Holding(ip)
    BY <1>11 DEF Holding
  <2> QED
    BY <1>1, <1>11, <2>1
<1>12. ASSUME NEW c \in Conn, PeerCloses(c) PROVE Covered
  BY <1>11, <1>12 DEF PeerCloses
<1>13. ASSUME NEW n \in Node, StartKick(n) \/ EndKick(n) PROVE Covered
  BY <1>11, <1>13 DEF StartKick, EndKick
<1>14. CASE UNCHANGED vars
  BY <1>11, <1>14 DEF vars
<1> QED
  BY <1>5, <1>6, <1>7, <1>8, <1>9, <1>10, <1>12, <1>13, <1>14 DEF Next, Proceed

\* For any websockets, nodes, addresses and limits, the counter of an IP never
\* falls below its live websockets nor rises above its limit, and whatever is
\* registered is an open connection of that node.
THEOREM RegistrySound == Spec => []PeersInv
<1>1. RegistryInv /\ [Next]_vars => RegistryInv'
  BY RegistryTypes, RegisteredNext, CountNext DEF RegistryInv, PeersInv
<1>2. RegistryInv => PeersInv
  BY DEF RegistryInv
<1> QED
  BY RegistryInit, <1>1, <1>2, PTL DEF Spec

----------------------------------------------------------------------------
(* The announcements. *)

\* What holds of an announcement wherever it is: on its way, in a handler, or
\* among what the handler passes on.
Sound(msg) ==
    /\ msg.items \in (SUBSET Item) \ {{}} /\ msg.ttl \in 1..MessageTtl
    /\ msg.visited \subseteq GNode /\ msg.from \in msg.visited
    /\ msg.to \in GNode /\ msg.to \notin msg.visited
    /\ Cardinality(msg.visited) = MessageTtl - msg.ttl + 1

MailKept == \A msg \in mail : Sound(msg) /\ {msg.from, msg.to} \in contact

QueuesKept ==
    /\ outgoing \in [GNode -> Seq(Item)] /\ sendoff \in [GNode -> SUBSET Item]
    /\ \A n \in GNode : Len(outgoing[n]) <= QueueLength

RecordsKept ==
    /\ stored \in [GNode -> SUBSET {HashOf[i] : i \in Item}]
    /\ offered \subseteq Item /\ lossy \in BOOLEAN

\* What a receive loop may be handling.
Handling(n, w) ==
    \/ w = NoWork
    \/ /\ w.stage = "checking" /\ Sound(w.msg) /\ w.msg.to = n
       /\ w.known \subseteq w.msg.items
    \/ /\ w.stage = "saved" /\ Sound(w.msg) /\ w.msg.to = n
       /\ w.items \in (SUBSET Item) \ {{}} /\ w.msg.ttl > 1

WorkKept ==
    /\ work = [n \in GNode |-> [m \in GNode |-> work[n][m]]]
    /\ \A n, m \in GNode : Handling(n, work[n][m])

GossipIndInv == MailKept /\ QueuesKept /\ RecordsKept /\ WorkKept

LEMMA SmallerOfTwo ==
    ASSUME NEW a \in Int, NEW b \in Int
    PROVE  Min({a, b}) = IF a <= b THEN a ELSE b
<1> DEFINE m == IF a <= b THEN a ELSE b
<1>1. m \in {a, b} /\ \A y \in {a, b} : m <= y
  OBVIOUS
<1>2. \A x \in {a, b} : (\A y \in {a, b} : x <= y) => x = m
  OBVIOUS
<1> HIDE DEF m
<1> QED
  BY <1>1, <1>2 DEF Min

\* The peers that are drawn are neighbours and none of the excluded ones.
LEMMA DrawnAreNear ==
    ASSUME NEW n, NEW exclude, NEW peers \in Drawn(n, exclude)
    PROVE  /\ peers \subseteq GNode \ exclude
           /\ \A m \in peers : {m, n} \in contact
<1>1. peers \subseteq Neighbours(n) \ exclude
  BY DEF Drawn, kSubset
<1> QED
  BY <1>1 DEF Neighbours

\* What n announces to them is sound when its path is.
LEMMA AnnouncementsSound ==
    ASSUME NEW n, NEW visited \in SUBSET GNode, n \in visited,
           NEW peers \in Drawn(n, visited),
           NEW items \in (SUBSET Item) \ {{}}, NEW ttl \in 1..MessageTtl,
           Cardinality(visited) = MessageTtl - ttl + 1
    PROVE  \A msg \in Announcements(n, peers, items, ttl, visited) :
               Sound(msg) /\ {msg.from, msg.to} \in contact
<1>1. \A m \in peers : m \in GNode \ visited /\ {n, m} \in contact
  BY DrawnAreNear
<1> QED
  BY <1>1 DEF Announcements, Sound

\* A path grows by the node that passes the announcement on.
LEMMA PathGrows ==
    ASSUME NEW msg, Sound(msg)
    PROVE  /\ msg.visited \cup {msg.from, msg.to} \in SUBSET GNode
           /\ Cardinality(msg.visited \cup {msg.from, msg.to})
                = MessageTtl - (msg.ttl - 1) + 1
<1>1. msg.visited \cup {msg.from, msg.to} = msg.visited \cup {msg.to}
  BY DEF Sound
<1>2. IsFiniteSet(msg.visited)
  BY GossipAssumption, FS_Subset DEF Sound
<1>3. Cardinality(msg.visited \cup {msg.to}) = Cardinality(msg.visited) + 1
  BY <1>2, FS_AddElement DEF Sound
<1>4. msg.ttl \in Int /\ MessageTtl \in Int
  BY GossipAssumption DEF Sound
<1>5. msg.visited \cup {msg.to} \subseteq GNode
  BY DEF Sound
<1>6. Cardinality(msg.visited) = MessageTtl - msg.ttl + 1
  BY DEF Sound
<1>7. Cardinality(msg.visited) + 1 = MessageTtl - (msg.ttl - 1) + 1
  BY <1>4, <1>6
<1>8. Cardinality(msg.visited \cup {msg.from, msg.to}) = Cardinality(msg.visited) + 1
  BY <1>1, <1>3
<1> QED
  BY <1>1, <1>5, <1>7, <1>8

LEMMA GossipStarts == GossipInit => GossipIndInv
<1> SUFFICES ASSUME GossipInit PROVE GossipIndInv
  OBVIOUS
<1> USE GossipAssumption DEF GossipInit
<1>1. MailKept
  BY DEF MailKept
<1>2. QueuesKept
  BY DEF QueuesKept
<1>3. RecordsKept
  BY DEF RecordsKept
<1>4. WorkKept
  BY DEF WorkKept, Handling
<1> QED
  BY <1>1, <1>2, <1>3, <1>4 DEF GossipIndInv

LEMMA QueuesNext == GossipIndInv /\ [GossipNext]_gossipVars => QueuesKept'
<1> SUFFICES ASSUME GossipIndInv, [GossipNext]_gossipVars PROVE QueuesKept'
  OBVIOUS
<1> USE DEF GossipIndInv
<1>1. ASSUME NEW n \in GNode, NEW i \in Item, Offer(n, i) PROVE QueuesKept'
  <2> DEFINE queue == Append(outgoing[n], i)
             left == IF Len(queue) > QueueLength THEN Tail(queue) ELSE queue
  <2>1. outgoing[n] \in Seq(Item) /\ Len(outgoing[n]) <= QueueLength
    BY DEF QueuesKept
  <2>2. queue \in Seq(Item) /\ Len(queue) = Len(outgoing[n]) + 1 /\ queue # <<>>
    BY <2>1
  <2>3. left \in Seq(Item) /\ Len(left) <= QueueLength
    BY <2>1, <2>2, GossipAssumption
  <2>4. outgoing' = [outgoing EXCEPT ![n] = left] /\ UNCHANGED sendoff
    BY <1>1 DEF Offer
  <2> HIDE DEF left
  <2> QED
    BY <2>3, <2>4 DEF QueuesKept
<1>2. ASSUME NEW n \in GNode, LoopTakes(n) PROVE QueuesKept'
  <2> DEFINE k == Min({PerMessage, Len(outgoing[n])})
             left == SubSeq(outgoing[n], k + 1, Len(outgoing[n]))
             taken == {outgoing[n][j] : j \in 1..k}
  <2>1. outgoing[n] \in Seq(Item) /\ Len(outgoing[n]) <= QueueLength
    BY DEF QueuesKept
  <2>2. k \in Nat /\ k <= Len(outgoing[n])
    BY <2>1, GossipAssumption, SmallerOfTwo
  <2>3. left \in Seq(Item) /\ Len(left) <= Len(outgoing[n])
    <3>1. \A s \in Seq(Item), j \in Nat : j <= Len(s) =>
              /\ SubSeq(s, j + 1, Len(s)) \in Seq(Item)
              /\ Len(SubSeq(s, j + 1, Len(s))) = Len(s) - j
      OBVIOUS
    <3> HIDE DEF k
    <3> QED
      BY <2>1, <2>2, <3>1
  <2>4. taken \subseteq Item
    BY <2>1, <2>2
  <2>5. /\ outgoing' = [outgoing EXCEPT ![n] = left]
        /\ sendoff' = [sendoff EXCEPT ![n] = taken]
    BY <1>2 DEF LoopTakes
  <2> HIDE DEF left, taken
  <2> QED
    BY <2>1, <2>3, <2>4, <2>5, GossipAssumption DEF QueuesKept
<1>3. ASSUME NEW n \in GNode, LoopSends(n) PROVE QueuesKept'
  BY <1>3 DEF LoopSends, QueuesKept
<1>4. CASE UNCHANGED <<outgoing, sendoff>>
  BY <1>4 DEF QueuesKept
<1>5. ASSUME NEW n \in GNode, NEW m \in GNode, SaveItems(n, m) \/ Forward(n, m)
      PROVE  QueuesKept'
  BY <1>4, <1>5 DEF SaveItems, Forward
<1>6. ASSUME NEW msg, Arrive(msg) PROVE QueuesKept'
  BY <1>4, <1>6 DEF Arrive
<1>7. ASSUME NEW n \in GNode, NEW m \in GNode, Hangup(m, n) PROVE QueuesKept'
  BY <1>4, <1>7 DEF Hangup
<1>8. CASE UNCHANGED gossipVars
  BY <1>4, <1>8 DEF gossipVars
<1> QED
  BY <1>1, <1>2, <1>3, <1>5, <1>6, <1>7, <1>8 DEF GossipNext, GossipHandles

\* What is handled stays sound: SaveItems leaves a message with items only, of
\* which the handler may pass on something.
LEMMA WorkNext == GossipIndInv /\ [GossipNext]_gossipVars => WorkKept'
<1> SUFFICES ASSUME GossipIndInv, [GossipNext]_gossipVars PROVE WorkKept'
  OBVIOUS
<1> USE DEF GossipIndInv
<1>0. ASSUME NEW n \in GNode, NEW m \in GNode, NEW w, Handling(n, w), Works(n, m, w)
      PROVE  WorkKept'
  <2>1. /\ work' = [p \in GNode |-> [q \in GNode |-> work'[p][q]]]
        /\ \A p, q \in GNode : work'[p][q] = IF p = n /\ q = m THEN w ELSE work[p][q]
    BY <1>0 DEF Works, WorkKept
  <2>2. \A p, q \in GNode : Handling(p, work'[p][q])
    BY <1>0, <2>1 DEF WorkKept
  <2> QED
    BY <2>1, <2>2 DEF WorkKept, Handling, Sound, NoWork
<1>1. ASSUME NEW msg \in mail, Arrive(msg) PROVE WorkKept'
  <2> DEFINE w == [stage |-> "checking", msg |-> msg,
                   known |-> {i \in msg.items : HashOf[i] \in stored[msg.to]}]
  <2>1. Sound(msg) /\ msg.to \in GNode /\ msg.from \in GNode
    BY DEF MailKept, Sound
  <2>2. Handling(msg.to, w)
    BY <2>1 DEF Handling
  <2>3. Works(msg.to, msg.from, w)
    BY <1>1 DEF Arrive
  <2> QED
    BY <1>0, <2>1, <2>2, <2>3
<1>2. ASSUME NEW n \in GNode, NEW m \in GNode, SaveItems(n, m) PROVE WorkKept'
  <2> DEFINE w == work[n][m]
             items == ToForward(n, w)
             v == IF items = {} THEN NoWork
                  ELSE [stage |-> "saved", msg |-> w.msg, items |-> items]
  <2>1. w.stage = "checking" /\ Works(n, m, v)
    BY <1>2 DEF SaveItems
  <2>2. Sound(w.msg) /\ w.msg.to = n /\ w.known \subseteq w.msg.items
    BY <2>1 DEF WorkKept, Handling, NoWork
  <2>3. items \subseteq Item /\ (items # {} => w.msg.ttl > 1)
    BY <2>2 DEF ToForward, Sound
  <2>4. Handling(n, v)
    BY <2>2, <2>3 DEF Handling
  <2> QED
    BY <1>0, <2>1, <2>4
<1>3. ASSUME NEW n \in GNode, NEW m \in GNode, Forward(n, m) PROVE WorkKept'
  BY <1>0, <1>3 DEF Forward, Handling
<1>4. CASE UNCHANGED work
  BY <1>4 DEF WorkKept, Handling, Sound, NoWork
<1>5. ASSUME NEW n \in GNode, LoopTakes(n) \/ LoopSends(n) PROVE WorkKept'
  BY <1>4, <1>5 DEF LoopTakes, LoopSends
<1>6. ASSUME NEW n \in GNode, NEW i \in Item, Offer(n, i) PROVE WorkKept'
  BY <1>4, <1>6 DEF Offer
<1>7. ASSUME NEW n \in GNode, NEW m \in GNode, Hangup(m, n) PROVE WorkKept'
  BY <1>4, <1>7 DEF Hangup
<1>8. CASE UNCHANGED gossipVars
  BY <1>4, <1>8 DEF gossipVars
<1> QED
  BY <1>1, <1>2, <1>3, <1>5, <1>6, <1>7, <1>8 DEF GossipNext, GossipHandles

\* Announcements are made by the loop, with a fresh path, and by Forward, with
\* a longer one; a connection takes those on their way with it.
LEMMA MailNext == GossipIndInv /\ [GossipNext]_gossipVars => MailKept'
<1> SUFFICES ASSUME GossipIndInv, [GossipNext]_gossipVars PROVE MailKept'
  OBVIOUS
<1> USE DEF GossipIndInv
<1>0. ASSUME UNCHANGED contact,
             \A msg \in mail' : msg \in mail \/ (Sound(msg) /\ {msg.from, msg.to} \in contact)
      PROVE  MailKept'
  BY <1>0 DEF MailKept, Sound
<1>1. ASSUME NEW n \in GNode, LoopSends(n) PROVE MailKept'
  <2>1. PICK peers \in Drawn(n, {n}) :
            mail' = mail \cup Announcements(n, peers, sendoff[n], MessageTtl, {n})
    BY <1>1 DEF LoopSends
  <2>2. sendoff[n] \in (SUBSET Item) \ {{}} /\ UNCHANGED contact
    BY <1>1 DEF LoopSends, QueuesKept
  <2>3. Cardinality({n}) = 1
    BY FS_Singleton
  <2>4. MessageTtl \in 1..MessageTtl /\ Cardinality({n}) = MessageTtl - MessageTtl + 1
    BY <2>3, GossipAssumption
  <2>5. {n} \in SUBSET GNode /\ n \in {n}
    OBVIOUS
  <2>6. \A msg \in Announcements(n, peers, sendoff[n], MessageTtl, {n}) :
            Sound(msg) /\ {msg.from, msg.to} \in contact
    BY <2>2, <2>4, <2>5, AnnouncementsSound
  <2> QED
    BY <1>0, <2>1, <2>2, <2>6
<1>2. ASSUME NEW n \in GNode, NEW m \in GNode, Forward(n, m) PROVE MailKept'
  <2> DEFINE w == work[n][m]
             visited == w.msg.visited \cup {w.msg.from, n}
  <2>1. w.stage = "saved" /\ UNCHANGED contact
    BY <1>2 DEF Forward
  <2>2. PICK peers \in Drawn(n, visited) : mail' = mail \cup Passed(n, w, peers)
    BY <1>2 DEF Forward
  <2>3. /\ Sound(w.msg) /\ w.msg.to = n
        /\ w.items \in (SUBSET Item) \ {{}} /\ w.msg.ttl > 1
    BY <2>1 DEF WorkKept, Handling, NoWork
  <2>4. /\ visited \in SUBSET GNode /\ n \in visited
        /\ Cardinality(visited) = MessageTtl - (w.msg.ttl - 1) + 1
    BY <2>3, PathGrows
  <2>5. w.msg.ttl - 1 \in 1..MessageTtl
    BY <2>3, GossipAssumption DEF Sound
  <2>6. \A msg \in Passed(n, w, peers) : Sound(msg) /\ {msg.from, msg.to} \in contact
    <3> HIDE DEF visited
    <3>1. \A msg \in Announcements(n, peers, w.items, w.msg.ttl - 1, visited) :
              Sound(msg) /\ {msg.from, msg.to} \in contact
      BY <2>2, <2>3, <2>4, <2>5, AnnouncementsSound
    <3> QED
      BY <3>1 DEF Passed, visited
  <2> QED
    BY <1>0, <2>1, <2>2, <2>6
<1>3. ASSUME NEW m \in GNode, NEW n \in GNode, Hangup(m, n) PROVE MailKept'
  <2>1. \A msg \in mail' : msg \in mail /\ {msg.from, msg.to} # {m, n}
    BY <1>3 DEF Hangup
  <2>2. contact' = contact \ {{m, n}}
    BY <1>3 DEF Hangup
  <2> QED
    BY <2>1, <2>2 DEF MailKept, Sound
<1>4. ASSUME NEW msg, Arrive(msg) PROVE MailKept'
  BY <1>0, <1>4 DEF Arrive
<1>5. ASSUME UNCHANGED <<contact, mail>> PROVE MailKept'
  BY <1>0, <1>5
<1>6. ASSUME NEW n \in GNode, NEW m \in GNode, LoopTakes(n) \/ SaveItems(n, m)
      PROVE  MailKept'
  BY <1>5, <1>6 DEF LoopTakes, SaveItems
<1>7. ASSUME NEW n \in GNode, NEW i \in Item, Offer(n, i) PROVE MailKept'
  BY <1>5, <1>7 DEF Offer
<1>8. CASE UNCHANGED gossipVars
  BY <1>5, <1>8 DEF gossipVars
<1> QED
  BY <1>1, <1>2, <1>3, <1>4, <1>6, <1>7, <1>8 DEF GossipNext, GossipHandles

LEMMA RecordsNext == GossipIndInv /\ [GossipNext]_gossipVars => RecordsKept'
<1> SUFFICES ASSUME GossipIndInv, [GossipNext]_gossipVars PROVE RecordsKept'
  OBVIOUS
<1> USE DEF GossipIndInv
<1> DEFINE Hashes == {HashOf[i] : i \in Item}
<1>0. lossy' \in BOOLEAN
  <2>1. lossy \in BOOLEAN
    BY DEF RecordsKept
  <2> QED
    BY <2>1 DEF GossipNext, GossipHandles, Offer, LoopTakes, LoopSends, SaveItems,
                Forward, Arrive, Hangup, gossipVars
<1>1. ASSUME NEW n \in GNode, NEW new \in SUBSET Hashes,
             stored' = [stored EXCEPT ![n] = @ \cup new]
      PROVE  stored' \in [GNode -> SUBSET Hashes]
  BY <1>1 DEF RecordsKept
<1>2. ASSUME UNCHANGED <<stored, offered>> PROVE RecordsKept'
  BY <1>0, <1>2 DEF RecordsKept
<1>3. ASSUME NEW n \in GNode, NEW i \in Item, Offer(n, i) PROVE RecordsKept'
  <2>1. stored' = [stored EXCEPT ![n] = @ \cup {HashOf[i]}]
    BY <1>3 DEF Offer
  <2>2. stored' \in [GNode -> SUBSET Hashes]
    BY <1>1, <2>1
  <2>3. offered' \subseteq Item
    BY <1>3 DEF Offer, RecordsKept
  <2> QED
    BY <1>0, <2>2, <2>3 DEF RecordsKept
<1>4. ASSUME NEW n \in GNode, NEW m \in GNode, SaveItems(n, m) PROVE RecordsKept'
  <2> DEFINE w == work[n][m]
             new == {HashOf[i] : i \in {j \in w.msg.items \ w.known :
                                           ContributorOf[j] \in Trusts[n]}}
  <2>1. w.msg.items \subseteq Item
    BY <1>4 DEF SaveItems, WorkKept, Handling, NoWork, Sound
  <2>2. new \in SUBSET Hashes
    BY <2>1
  <2>3. stored' = [stored EXCEPT ![n] = @ \cup new] \/ UNCHANGED stored
    BY <1>4 DEF SaveItems
  <2>4. stored' \in [GNode -> SUBSET Hashes]
    <3> HIDE DEF new
    <3> QED
      BY <1>1, <2>2, <2>3 DEF RecordsKept
  <2>5. UNCHANGED offered
    BY <1>4 DEF SaveItems
  <2> QED
    BY <1>0, <2>4, <2>5 DEF RecordsKept
<1>5. ASSUME NEW n \in GNode, NEW m \in GNode,
             LoopTakes(n) \/ LoopSends(n) \/ Forward(n, m) \/ Hangup(n, m)
      PROVE  RecordsKept'
  BY <1>2, <1>5 DEF LoopTakes, LoopSends, Forward, Hangup
<1>6. ASSUME NEW msg, Arrive(msg) PROVE RecordsKept'
  BY <1>2, <1>6 DEF Arrive
<1>7. CASE UNCHANGED gossipVars
  BY <1>2, <1>7 DEF gossipVars
<1> QED
  BY <1>3, <1>4, <1>5, <1>6, <1>7 DEF GossipNext, GossipHandles

\* For any nodes, connections, torrents, TTL and fan-out, with every
\* interleaving of the handlers that await in between: an announcement is on a
\* connection that exists, never comes to a node where it has been, and lasts
\* message_ttl hops at the most; and the queues stay within their length.
THEOREM AnnouncementsEnd == GossipSpec => []GossipInv
<1>1. GossipIndInv /\ [GossipNext]_gossipVars => GossipIndInv'
  BY QueuesNext, WorkNext, MailNext, RecordsNext DEF GossipIndInv
<1>2. GossipIndInv => GossipInv
  <2> SUFFICES ASSUME GossipIndInv PROVE GossipInv
    OBVIOUS
  <2>1. GossipTypeOK
    BY DEF GossipIndInv, GossipTypeOK, QueuesKept, RecordsKept, MailKept, Sound
  <2>2. PathsAreSimple
    BY DEF GossipIndInv, PathsAreSimple, MailKept, Sound
  <2> QED
    BY <2>1, <2>2 DEF GossipInv
<1> QED
  BY GossipStarts, <1>1, <1>2, PTL DEF GossipSpec

----------------------------------------------------------------------------
(* The reputation of peers, and their keys. *)

\* Keys, each once and the oldest first
KeyList(ks, d) ==
    /\ ks \in Seq([node : Peer, last : 0..d])
    /\ \A i, j \in DOMAIN ks : ks[i].node = ks[j].node => i = j
    /\ \A i, j \in DOMAIN ks : i < j => ks[i].last <= ks[j].last

\* and scores, of days up to d.
RepBook(r, d) ==
    /\ DOMAIN r \subseteq Peer
    /\ \A p \in DOMAIN r : /\ r[p] \in [score : 0..Highest, first : 0..d, last : 0..d]
                           /\ r[p].first <= r[p].last

\* What the file holds can be loaded.
TrustIndInv ==
    /\ day \in 0..MaxDay /\ handling \in [Loop -> Message]
    /\ RepBook(rep, day) /\ RepBook(disk.rep, day)
    /\ KeyList(keys, day) /\ Len(keys) <= MaxKeys
    /\ KeyList(disk.keys, day) /\ Len(disk.keys) <= MaxKeys

LEMMA KeptKeys ==
    ASSUME NEW d \in Nat, NEW ks, KeyList(ks, d), NEW P \in SUBSET (DOMAIN ks),
           NEW t, t = Picked(ks, P)
    PROVE  /\ KeyList(t, d) /\ Len(t) \in Nat /\ Len(t) <= Len(ks)
           /\ P # DOMAIN ks => Len(t) < Len(ks)
           /\ \A i \in DOMAIN t : \E x \in P : t[i] = ks[x]
<1> DEFINE S == [node : Peer, last : 0..d]
           o == Ascending(P)
           n == Cardinality(P)
<1>1. ks \in Seq(S) /\ Len(ks) \in Nat /\ DOMAIN ks = 1..Len(ks)
  BY DEF KeyList
<1> HIDE DEF S, o, n
<1>2. t \in Seq(S) /\ Picks(t, n, ks, P, o)
  BY <1>1, PickedIs DEF o, n
<1>3. Len(t) = n /\ n \in Nat /\ n <= Len(ks) /\ DOMAIN t = 1..n
  BY <1>2 DEF Picks
<1>4. P # DOMAIN ks => n # Len(ks)
  BY <1>1, CountUpTo, FS_Subset DEF n
<1>5. \A i \in 1..n : o[i] \in DOMAIN ks /\ t[i] = ks[o[i]] /\ o[i] \in P
  BY <1>2 DEF Picks
<1>6. \A i, j \in 1..n : o[i] < o[j] <=> i < j
  BY <1>2 DEF Picks
<1>7. \A i, j \in 1..n : t[i].node = t[j].node => i = j
  <2> SUFFICES ASSUME NEW i \in 1..n, NEW j \in 1..n, t[i].node = t[j].node PROVE i = j
    OBVIOUS
  <2>1. o[i] = o[j]
    BY <1>5 DEF KeyList
  <2>2. ~ (i < j) /\ ~ (j < i)
    BY <1>1, <1>5, <1>6, <2>1
  <2> QED
    BY <1>3, <2>2
<1>8. \A i, j \in 1..n : i < j => t[i].last <= t[j].last
  BY <1>5, <1>6 DEF KeyList
<1>9. KeyList(t, d)
  BY <1>2, <1>3, <1>7, <1>8 DEF KeyList, S
<1>10. \A i \in DOMAIN t : \E x \in P : t[i] = ks[x]
  BY <1>3, <1>5
<1>11. Len(t) \in Nat /\ Len(t) <= Len(ks)
  BY <1>1, <1>3
<1>12. P # DOMAIN ks => Len(t) < Len(ks)
  <2>1. Len(t) # Len(ks) => Len(t) < Len(ks)
    BY <1>1, <1>11
  <2> QED
    BY <1>3, <1>4, <2>1
<1> QED
  BY <1>9, <1>10, <1>11, <1>12

LEMMA AppendedKey ==
    ASSUME NEW d \in Nat, NEW ks, KeyList(ks, d), NEW p \in Peer, p \notin NodesOf(ks),
           NEW t, t = Append(ks, [node |-> p, last |-> d])
    PROVE  KeyList(t, d) /\ Len(t) = Len(ks) + 1 /\ Len(ks) \in Nat
<1> DEFINE S == [node : Peer, last : 0..d]
           key == [node |-> p, last |-> d]
<1>1. ks \in Seq(S) /\ Len(ks) \in Nat /\ DOMAIN ks = 1..Len(ks) /\ key \in S
  BY DEF KeyList
<1> HIDE DEF S
<1>2. /\ t \in Seq(S) /\ Len(t) = Len(ks) + 1 /\ DOMAIN t = 1..Len(ks) + 1
      /\ t[Len(ks) + 1] = key /\ \A i \in 1..Len(ks) : t[i] = ks[i]
  BY <1>1
<1>3. \A i \in 1..Len(ks) : ks[i] \in S /\ ks[i].last \in 0..d /\ ks[i].node # p
  <2>1. \A i \in 1..Len(ks) : ks[i] \in S
    BY <1>1
  <2> QED
    BY <1>1, <2>1 DEF NodesOf, S
<1>4. \A i, j \in DOMAIN t : t[i].node = t[j].node => i = j
  BY <1>1, <1>2, <1>3 DEF KeyList
<1>5. \A i, j \in DOMAIN t : i < j => t[i].last <= t[j].last
  <2> SUFFICES ASSUME NEW i \in DOMAIN t, NEW j \in DOMAIN t, i < j
               PROVE  t[i].last <= t[j].last
    OBVIOUS
  <2>1. i \in 1..Len(ks) /\ (j \in 1..Len(ks) \/ j = Len(ks) + 1)
    BY <1>1, <1>2
  <2> QED
    BY <1>1, <1>2, <1>3, <2>1 DEF KeyList
<1> QED
  BY <1>1, <1>2, <1>4, <1>5 DEF KeyList, S

LEMMA TouchedKeys ==
    ASSUME day \in Nat, NEW ks, KeyList(ks, day), NEW p \in Peer
    PROVE  /\ KeyList(Touched(ks, p), day)
           /\ Len(Touched(ks, p)) <= Len(ks)
<1>1. Len(ks) \in Nat
  BY DEF KeyList
<1>2. CASE p \notin NodesOf(ks)
  BY <1>1, <1>2 DEF Touched
<1>3. CASE p \in NodesOf(ks)
  <2> DEFINE P == {i \in DOMAIN ks : ks[i].node # p}
             w == Without(ks, p)
  <2>1. P \in SUBSET (DOMAIN ks) /\ P # DOMAIN ks /\ w = Picked(ks, P)
    BY <1>3 DEF NodesOf, Without
  <2> HIDE DEF P, w
  <2>2. /\ KeyList(w, day) /\ Len(w) \in Nat /\ Len(w) < Len(ks)
        /\ \A i \in DOMAIN w : \E x \in P : w[i] = ks[x]
    BY <2>1, KeptKeys
  <2>3. p \notin NodesOf(w)
    BY <2>2 DEF NodesOf, P
  <2>4. Touched(ks, p) = Append(w, [node |-> p, last |-> day])
    BY <1>3 DEF Touched, w
  <2>5. KeyList(Touched(ks, p), day) /\ Len(Touched(ks, p)) = Len(w) + 1
    BY <2>2, <2>3, <2>4, AppendedKey
  <2> QED
    BY <1>1, <2>2, <2>5
<1> QED
  BY <1>2, <1>3

LEMMA EvictedKeys ==
    ASSUME NEW d \in Nat, NEW ks, KeyList(ks, d), Len(ks) <= MaxKeys + 1
    PROVE  KeyList(Evicted(ks), d) /\ Len(Evicted(ks)) <= MaxKeys
<1> DEFINE S == [node : Peer, last : 0..d]
           m == Greater(1, Len(ks) \div 10)
           t == SubSeq(ks, m + 1, Len(ks))
<1>1. ks \in Seq(S) /\ Len(ks) \in Nat /\ DOMAIN ks = 1..Len(ks) /\ MaxKeys \in Nat \ {0}
  BY TrustAssumption DEF KeyList
<1>2. CASE Len(ks) <= MaxKeys
  BY <1>2 DEF Evicted
<1>3. CASE ~ (Len(ks) <= MaxKeys)
  <2>1. m \in Nat /\ m >= 1 /\ m + 1 <= Len(ks)
    BY <1>1, <1>3 DEF Greater
  <2> HIDE DEF S, m
  <2>2. /\ t \in Seq(S) /\ Len(t) = Len(ks) - m /\ DOMAIN t = 1..Len(ks) - m
        /\ \A i \in 1..Len(ks) - m : t[i] = ks[m + i]
    BY <1>1, <2>1
  <2>3. Evicted(ks) = t
    BY <1>3 DEF Evicted, m
  <2> HIDE DEF t
  <2>4. \A i \in 1..Len(ks) - m : m + i \in DOMAIN ks
    BY <1>1, <2>1
  <2>5. \A i, j \in DOMAIN t : t[i].node = t[j].node => i = j
    <3> SUFFICES ASSUME NEW i \in DOMAIN t, NEW j \in DOMAIN t, t[i].node = t[j].node
                 PROVE  i = j
      OBVIOUS
    <3>1. m + i = m + j
      BY <2>2, <2>4 DEF KeyList
    <3> QED
      BY <2>1, <2>2, <3>1
  <2>6. \A i, j \in DOMAIN t : i < j => t[i].last <= t[j].last
    <3> SUFFICES ASSUME NEW i \in DOMAIN t, NEW j \in DOMAIN t, i < j
                 PROVE  t[i].last <= t[j].last
      OBVIOUS
    <3>1. m + i < m + j
      BY <2>1, <2>2
    <3> QED
      BY <2>2, <2>4, <3>1 DEF KeyList
  <2>7. Len(t) <= MaxKeys
    BY <1>1, <2>1, <2>2
  <2> QED
    BY <2>2, <2>3, <2>5, <2>6, <2>7 DEF KeyList, S
<1> QED
  BY <1>2, <1>3

LEMMA StoredKey ==
    ASSUME day \in Nat, NEW ks, KeyList(ks, day), Len(ks) <= MaxKeys, NEW p \in Peer
    PROVE  KeyList(StoreKey(ks, p), day) /\ Len(StoreKey(ks, p)) <= MaxKeys
<1>0. Len(ks) \in Nat /\ MaxKeys \in Nat
  BY TrustAssumption DEF KeyList
<1>1. CASE p \in NodesOf(ks)
  <2>1. Len(Touched(ks, p)) \in Nat
    BY TouchedKeys DEF KeyList
  <2> QED
    BY <1>0, <1>1, <2>1, TouchedKeys DEF StoreKey
<1>2. CASE p \notin NodesOf(ks)
  <2> DEFINE t == Append(ks, [node |-> p, last |-> day])
  <2>1. KeyList(t, day) /\ Len(t) = Len(ks) + 1
    BY <1>2, AppendedKey
  <2>2. StoreKey(ks, p) = Evicted(t)
    BY <1>2 DEF StoreKey
  <2> HIDE DEF t
  <2>3. Len(t) <= MaxKeys + 1
    BY <1>0, <2>1
  <2> QED
    BY <2>1, <2>2, <2>3, EvictedKeys
<1> QED
  BY <1>1, <1>2

\* Key after key.
LEMMA StoredKeys ==
    ASSUME day \in Nat, NEW ks, KeyList(ks, day), Len(ks) <= MaxKeys,
           NEW n \in Nat, NEW cs \in [1..n -> Peer]
    PROVE  KeyList(StoreKeys(ks, cs), day) /\ Len(StoreKeys(ks, cs)) <= MaxKeys
<1> DEFINE D == {l \in Seq([node : Peer, last : 0..day]) : KeyList(l, day) /\ Len(l) <= MaxKeys}
           put == [x \in D \X (1..n) |-> StoreKey(x[1], cs[x[2]])]
           IsAfter(f) == f = [k \in 0..n |-> IF k = 0 THEN ks ELSE StoreKey(f[k - 1], cs[k])]
<1>1. ks \in D
  BY DEF KeyList
<1>2. ASSUME NEW l \in D, NEW k \in 1..n
      PROVE  put[<<l, k>>] = StoreKey(l, cs[k]) /\ StoreKey(l, cs[k]) \in D
  <2>1. KeyList(StoreKey(l, cs[k]), day) /\ Len(StoreKey(l, cs[k])) <= MaxKeys
    BY StoredKey
  <2> QED
    BY <2>1 DEF KeyList
<1> HIDE DEF D, put
<1>13. \A l \in D : \A k \in 1..n : put[<<l, k>>] \in D
  BY <1>2
<1>3. PICK f \in [0..n -> D] : Steps(f, n, ks, put)
  BY <1>1, <1>13, StepsExist
<1>4. IsAfter(f)
  <2>1. f = [k \in 0..n |-> IF k = 0 THEN ks ELSE put[<<f[k - 1], k>>]]
    BY <1>3 DEF Steps
  <2>2. \A k \in 0..n : k # 0 => put[<<f[k - 1], k>>] = StoreKey(f[k - 1], cs[k])
    BY <1>2, <1>3
  <2> QED
    BY <2>1, <2>2
<1>5. Len(cs) = n
  OBVIOUS
<1>6. StoreKeys(ks, cs) = (CHOOSE g : IsAfter(g))[n]
  BY <1>5 DEF StoreKeys
<1> HIDE DEF IsAfter
<1>7. PICK g : IsAfter(g) /\ StoreKeys(ks, cs) = g[n]
  BY <1>4, <1>6
<1>8. \A k \in 0..n : g[k] = IF k = 0 THEN ks ELSE StoreKey(g[k - 1], cs[k])
  BY <1>7 DEF IsAfter
<1> DEFINE Good == {k \in 0..n : g[k] \in D}
<1>9. 0 \in Good /\ \A k \in 0..n : k \in Good /\ k < n => k + 1 \in Good
  <2>1. 0 \in Good
    BY <1>1, <1>8
  <2>2. ASSUME NEW k \in 0..n, g[k] \in D, k < n PROVE g[k + 1] \in D
    <3>1. k + 1 \in 1..n /\ k + 1 \in 0..n /\ (k + 1) - 1 = k /\ k + 1 # 0
      BY <2>2
    <3> QED
      BY <1>2, <1>8, <2>2, <3>1
  <2> QED
    BY <2>1, <2>2
<1>10. n \in Good
  <2> HIDE DEF Good
  <2> QED
    BY <1>9, ReachesEnd
<1> QED
  BY <1>7, <1>10 DEF D

LEMMA ReloadedKeys ==
    ASSUME NEW d \in Nat, NEW ks, KeyList(ks, d)
    PROVE  KeyList(Reloaded(ks), d) /\ Len(Reloaded(ks)) = Len(ks)
<1> DEFINE S == [node : Peer, last : 0..d]
           n == Len(ks)
           before == {p \in (DOMAIN ks) \X (DOMAIN ks) :
                        \/ ks[p[1]].last < ks[p[2]].last
                        \/ ks[p[1]].last = ks[p[2]].last /\ p[1] < p[2]}
           o == InOrder(DOMAIN ks, before)
           t == Reloaded(ks)
<1>1. ks \in Seq(S) /\ n \in Nat /\ DOMAIN ks = 1..n /\ ks \in [1..n -> S]
  <2>1. ks \in Seq(S)
    BY DEF KeyList
  <2> HIDE DEF S
  <2> QED
    BY <2>1
<1>2. IsFiniteSet(1..n) /\ Cardinality(1..n) = n
  BY <1>1, CountUpTo
<1>3. \A i \in 1..n : ks[i].last \in 0..d
  BY <1>1
<1>4. \A i, j \in 1..n : <<i, j>> \in before <=>
          ks[i].last < ks[j].last \/ (ks[i].last = ks[j].last /\ i < j)
  BY <1>1
<1>5. t = [i \in 1..n |-> ks[o[i]]]
  BY <1>1 DEF Reloaded
<1>6. o = InOrder(1..n, before)
  BY <1>1
<1> HIDE DEF before, o, t, S, n
<1>7. StrictOrder(1..n, before)
  <2>1. ASSUME NEW i \in 1..n, NEW j \in 1..n, NEW k \in 1..n
        PROVE  /\ ks[i].last \in Int /\ ks[j].last \in Int /\ ks[k].last \in Int
               /\ i \in Int /\ j \in Int /\ k \in Int
    BY <1>1, <1>3
  <2> QED
    BY <1>4, <2>1 DEF StrictOrder
<1>8. Sorts(o, n, 1..n, before)
  BY <1>2, <1>6, <1>7, InOrderIs
<1>9. \A i \in 1..n : o[i] \in 1..n /\ t[i] = ks[o[i]] /\ t[i] \in S
  BY <1>1, <1>5, <1>8 DEF Sorts
<1>10. t \in Seq(S) /\ Len(t) = n /\ DOMAIN t = 1..n
  BY <1>1, <1>5, <1>9
<1>11. ASSUME NEW i \in 1..n, NEW j \in 1..n, t[i].node = t[j].node PROVE i = j
  <2>1. o[i] = o[j]
    BY <1>1, <1>9, <1>11 DEF KeyList
  <2> QED
    BY <1>8, <2>1 DEF Sorts
<1>12. \A i, j \in 1..n : i < j => t[i].last <= t[j].last
  <2> SUFFICES ASSUME NEW i \in 1..n, NEW j \in 1..n, i < j PROVE t[i].last <= t[j].last
    OBVIOUS
  <2>1. <<o[i], o[j]>> \in before
    BY <1>8 DEF Sorts
  <2> QED
    BY <1>3, <1>4, <1>9, <2>1
<1> QED
  BY <1>10, <1>11, <1>12 DEF KeyList, S, t, n

\* Scores.

LEMMA AdjustedBook ==
    ASSUME NEW d \in Nat, NEW r, RepBook(r, d), NEW p \in Peer, NEW delta \in Int
    PROVE  RepBook(Adjusted(r, p, delta), d) /\ DOMAIN Adjusted(r, p, delta) = DOMAIN r
<1>1. Highest \in Nat
  BY TrustAssumption
<1> DEFINE t == Adjusted(r, p, delta)
<1>2. DOMAIN t = DOMAIN r /\ \A q \in DOMAIN r : q # p => t[q] = r[q]
  BY DEF Adjusted
<1>3. ASSUME p \in DOMAIN r
      PROVE  /\ t[p] \in [score : 0..Highest, first : 0..d, last : 0..d]
             /\ t[p].first <= t[p].last
  <2>1. /\ r[p] \in [score : 0..Highest, first : 0..d, last : 0..d]
        /\ r[p].first <= r[p].last
    BY <1>3 DEF RepBook
  <2>2. Greater(0, Lesser(Highest, r[p].score + delta)) \in 0..Highest
    BY <1>1, <2>1 DEF Greater, Lesser
  <2>3. t[p] = [r[p] EXCEPT !.score = Greater(0, Lesser(Highest, @ + delta))]
    BY <1>3 DEF Adjusted
  <2> HIDE DEF t
  <2> QED
    BY <2>1, <2>2, <2>3
<1> HIDE DEF t
<1>4. RepBook(t, d)
  BY <1>2, <1>3 DEF RepBook
<1> QED
  BY <1>2, <1>4 DEF t

LEMMA CreatedBook ==
    ASSUME day \in Nat, NEW r, RepBook(r, day), NEW p \in Peer
    PROVE  RepBook(GetOrCreate(r, p), day) /\ p \in DOMAIN GetOrCreate(r, p)
<1>1. NewPeer \in [score : 0..Highest, first : 0..day, last : 0..day]
      /\ NewPeer.first <= NewPeer.last
  BY TrustAssumption DEF NewPeer
<1> HIDE DEF NewPeer
<1> QED
  BY <1>1 DEF RepBook, GetOrCreate

LEMMA SeenBook ==
    ASSUME NEW d \in Nat, NEW r, RepBook(r, d), NEW p \in DOMAIN r
    PROVE  RepBook([r EXCEPT ![p].last = d], d)
<1> DEFINE t == [r EXCEPT ![p].last = d]
<1>1. DOMAIN t = DOMAIN r /\ \A q \in DOMAIN r : q # p => t[q] = r[q]
  OBVIOUS
<1>2. /\ r[p] \in [score : 0..Highest, first : 0..d, last : 0..d]
      /\ r[p].first <= r[p].last
  BY DEF RepBook
<1>3. t[p] = [r[p] EXCEPT !.last = d]
  OBVIOUS
<1> HIDE DEF t
<1>4. /\ t[p] \in [score : 0..Highest, first : 0..d, last : 0..d]
      /\ t[p].first <= t[p].last
  BY <1>2, <1>3
<1>5. RepBook(t, d)
  BY <1>1, <1>4 DEF RepBook
<1> QED
  BY <1>5 DEF t

\* The next day, the same holds.
LEMMA LaterBook ==
    ASSUME NEW d \in Nat, NEW e \in Nat, d <= e, NEW r, RepBook(r, d), NEW ks, KeyList(ks, d)
    PROVE  RepBook(r, e) /\ KeyList(ks, e)
<1>1. \A x \in 0..d : x \in 0..e
  OBVIOUS
<1>2. \A x \in [node : Peer, last : 0..d] : x \in [node : Peer, last : 0..e]
  BY <1>1
<1>3. \A x \in [score : 0..Highest, first : 0..d, last : 0..d] :
          x \in [score : 0..Highest, first : 0..e, last : 0..e]
  BY <1>1
<1>4. ks \in Seq([node : Peer, last : 0..e])
  <2> DEFINE S == [node : Peer, last : 0..d]
             T == [node : Peer, last : 0..e]
  <2>1. ks \in Seq(S) /\ \A x \in S : x \in T
    BY <1>2 DEF KeyList
  <2> HIDE DEF S, T
  <2>2. ks \in Seq(T)
    BY <2>1
  <2> QED
    BY <2>2 DEF T
<1> QED
  BY <1>3, <1>4 DEF RepBook, KeyList

LEMMA NoEntries ==
    ASSUME NEW d \in Nat
    PROVE  RepBook(<<>>, d) /\ KeyList(<<>>, d) /\ Len(<<>>) <= MaxKeys
BY TrustAssumption DEF RepBook, KeyList

LEMMA TrustInitInv == TrustInit => TrustIndInv
BY NoEntries, TrustAssumption DEF TrustInit, TrustIndInv, Message

\* What is noted of a message in hand is of its kind.
LEMMA NotedMessage ==
    ASSUME NEW l \in Loop, handling \in [Loop -> Message], NEW rec \in Message, Handles(l, rec)
    PROVE  handling' \in [Loop -> Message]
BY DEF Handles

LEMMA TrustStep == TrustIndInv /\ [TrustNext]_trustVars => TrustIndInv'
<1> SUFFICES ASSUME TrustIndInv, [TrustNext]_trustVars PROVE TrustIndInv'
  OBVIOUS
<1>0. /\ day \in Nat /\ day \in 0..MaxDay /\ RepBook(rep, day) /\ RepBook(disk.rep, day)
      /\ KeyList(keys, day) /\ Len(keys) <= MaxKeys
      /\ KeyList(disk.keys, day) /\ Len(disk.keys) <= MaxKeys
      /\ MaxDay \in Nat /\ MaxKeys \in Nat /\ Sender \subseteq Peer
      /\ InvalidPenalty \in Nat /\ SignaturePenalty \in Nat /\ ValidBonus \in Nat
      /\ handling \in [Loop -> Message]
  BY TrustAssumption DEF TrustIndInv
<1>1. ASSUME UNCHANGED <<day, disk>>, RepBook(rep', day), KeyList(keys', day),
             Len(keys') <= MaxKeys, handling' \in [Loop -> Message]
      PROVE  TrustIndInv'
  BY <1>0, <1>1 DEF TrustIndInv
<1>2. CASE UNCHANGED trustVars
  BY <1>0, <1>1, <1>2 DEF trustVars
<1>3. ASSUME NEW p \in Sender, Handshake(p) PROVE TrustIndInv'
  BY <1>0, <1>1, <1>3, StoredKey DEF Handshake
<1>4. ASSUME NEW l \in Loop, NEW p \in Sender, Reject(l, p) PROVE TrustIndInv'
  BY <1>2, <1>4 DEF Reject
<1>5. ASSUME NEW l \in Loop, NEW p \in Sender, Mismatch(l, p) PROVE TrustIndInv'
  <2>1. -InvalidPenalty \in Int
    BY <1>0
  <2>2. RepBook(rep', day)
    BY <1>0, <1>5, <2>1, CreatedBook, AdjustedBook DEF Mismatch
  <2> QED
    BY <1>0, <1>1, <1>5, <2>2 DEF Mismatch
<1>6. ASSUME NEW l \in Loop, NEW p \in Sender, Check(l, p) PROVE TrustIndInv'
  <2>1. RepBook(rep', day)
    BY <1>0, <1>6, CreatedBook DEF Check
  <2>2. KeyList(keys', day) /\ Len(keys') <= Len(keys)
    BY <1>0, <1>6, TouchedKeys DEF Check
  <2>3. Len(keys) \in Nat /\ Len(keys') \in Nat
    BY <1>0, <2>2 DEF KeyList
  <2>4. handling' \in [Loop -> Message]
    <3>1. [stage |-> "checking", from |-> p, keyed |-> p \in NodesOf(keys)] \in Message
      BY DEF Message
    <3> QED
      BY <1>0, <1>6, <3>1, NotedMessage DEF Check
  <2> QED
    BY <1>0, <1>1, <1>6, <2>1, <2>2, <2>3, <2>4 DEF Check
<1>7. ASSUME NEW l \in Loop, NEW p \in Sender, BadSignature(l, p) PROVE TrustIndInv'
  <2>1. -SignaturePenalty \in Int
    BY <1>0
  <2>2. RepBook(rep', day)
    BY <1>0, <1>7, <2>1, CreatedBook, AdjustedBook DEF BadSignature
  <2>3. handling' \in [Loop -> Message]
    BY <1>0, <1>7, NotedMessage DEF BadSignature, Message
  <2> QED
    BY <1>0, <1>1, <1>7, <2>2, <2>3 DEF BadSignature
<1>8. ASSUME NEW l \in Loop, NEW p \in Sender, AcceptAnnounce(l, p) PROVE TrustIndInv'
  <2>1. RepBook(rep', day)
    BY <1>0, <1>8, CreatedBook, SeenBook DEF AcceptAnnounce
  <2>2. handling' \in [Loop -> Message]
    BY <1>0, <1>8, NotedMessage DEF AcceptAnnounce, Message
  <2> QED
    BY <1>0, <1>1, <1>8, <2>1, <2>2 DEF AcceptAnnounce
<1>14. ASSUME NEW l \in Loop, NEW p \in Sender, NEW invalid \in 0..MaxItems, Screen(l, p, invalid)
       PROVE  TrustIndInv'
  <2>1. -(invalid * InvalidPenalty) \in Int
    BY <1>0, TrustAssumption
  <2>2. RepBook(rep', day)
    BY <1>0, <1>14, <2>1, AdjustedBook DEF Screen
  <2>3. handling' \in [Loop -> Message]
    <3>1. handling[l].kept \in BOOLEAN
      BY <1>0, <1>14 DEF Screen, Message, Nothing
    <3>2. [stage |-> "verifying", from |-> p, kept |-> handling[l].kept] \in Message
      BY <3>1 DEF Message
    <3> QED
      BY <1>0, <1>14, <3>2, NotedMessage DEF Screen
  <2> QED
    BY <1>0, <1>1, <1>14, <2>2, <2>3 DEF Screen
<1>9. ASSUME NEW l \in Loop, NEW p \in Sender, NEW invalid \in 0..MaxItems,
             NEW cs \in UNION {[1..n -> Peer] : n \in 0..MaxItems}, Judge(l, p, invalid, cs)
      PROVE  TrustIndInv'
  <2>1. PICK n \in 0..MaxItems : cs \in [1..n -> Peer]
    OBVIOUS
  <2>2. n \in Nat /\ invalid \in Nat /\ Len(cs) = n
    BY <2>1, TrustAssumption
  <2>3. -(invalid * InvalidPenalty) \in Int /\ Len(cs) * ValidBonus \in Int
    BY <1>0, <2>2
  <2>4. RepBook(rep', day)
    <3>1. CASE ~handling[l].kept
      BY <1>0, <1>9, <3>1 DEF Judge
    <3>2. CASE handling[l].kept
      <4> DEFINE r1 == Adjusted(rep, p, -(invalid * InvalidPenalty))
                 bonus == Len(cs) * ValidBonus
      <4>1. RepBook(r1, day)
        BY <1>0, <2>3, AdjustedBook
      <4>2. rep' = Adjusted(r1, p, bonus) /\ bonus \in Int
        BY <1>9, <2>3, <3>2 DEF Judge
      <4> HIDE DEF r1, bonus
      <4> QED
        BY <1>0, <4>1, <4>2, AdjustedBook
    <3> QED
      BY <3>1, <3>2
  <2>5. KeyList(keys', day) /\ Len(keys') <= MaxKeys
    BY <1>0, <1>9, <2>1, <2>2, StoredKeys DEF Judge
  <2>6. handling' \in [Loop -> Message]
    BY <1>0, <1>9, NotedMessage DEF Judge, Message
  <2> QED
    BY <1>1, <1>9, <2>4, <2>5, <2>6 DEF Judge
<1>10. CASE TidyUp
  <2>1. RepBook(rep', day)
    BY <1>0, <1>10 DEF TidyUp, RepBook
  <2> DEFINE P == {i \in DOMAIN keys : ~Old(keys[i].last)}
  <2>2. P \in SUBSET (DOMAIN keys) /\ keys' = Picked(keys, P)
    BY <1>10 DEF TidyUp
  <2> HIDE DEF P
  <2>3. KeyList(keys', day) /\ Len(keys') \in Nat /\ Len(keys') <= Len(keys)
    BY <1>0, <2>2, KeptKeys
  <2>4. Len(keys) \in Nat
    BY <1>0 DEF KeyList
  <2>5. Len(keys') <= MaxKeys
    BY <1>0, <2>3, <2>4
  <2>6. handling' \in [Loop -> Message]
    <3>1. ASSUME NEW m \in Message, m.stage \in {"judging", "verifying"}
          PROVE  [m EXCEPT !.kept = FALSE] \in Message
      BY <3>1 DEF Message, Nothing
    <3> QED
      BY <1>0, <1>10, <3>1 DEF TidyUp
  <2> QED
    BY <1>1, <1>10, <2>1, <2>3, <2>5, <2>6 DEF TidyUp
<1>11. CASE NextDay
  <2>1. day' = day + 1 /\ day' \in 0..MaxDay /\ UNCHANGED <<rep, keys, handling, disk>>
    BY <1>0, <1>11 DEF NextDay
  <2>2. day + 1 \in Nat /\ day <= day + 1
    BY <1>0
  <2>3. RepBook(rep, day + 1) /\ RepBook(disk.rep, day + 1)
        /\ KeyList(keys, day + 1) /\ KeyList(disk.keys, day + 1)
    BY <1>0, <2>2, LaterBook
  <2> QED
    BY <1>0, <2>1, <2>3 DEF TrustIndInv
<1>12. CASE SaveTrust
  BY <1>0, <1>12 DEF SaveTrust, TrustIndInv
<1>13. ASSUME NEW torn \in BOOLEAN, Reboot(torn) PROVE TrustIndInv'
  <2> DEFINE file == IF torn THEN [rep |-> <<>>, keys |-> <<>>] ELSE disk
  <2>1. RepBook(file.rep, day) /\ KeyList(file.keys, day) /\ Len(file.keys) <= MaxKeys
    BY <1>0, NoEntries
  <2>2. rep' = file.rep /\ keys' = Reloaded(file.keys) /\ disk' = file /\ day' = day
    BY <1>13 DEF Reboot
  <2> HIDE DEF file
  <2>3. KeyList(keys', day) /\ Len(keys') <= MaxKeys
    BY <1>0, <2>1, <2>2, ReloadedKeys
  <2> QED
    <3>1. handling' \in [Loop -> Message]
      BY <1>13 DEF Reboot, Message
    <3> QED
      BY <1>0, <2>1, <2>2, <2>3, <3>1 DEF TrustIndInv
<1> QED
  BY <1>2, <1>3, <1>4, <1>5, <1>6, <1>7, <1>8, <1>9, <1>10, <1>11, <1>12, <1>13, <1>14
     DEF TrustNext

LEMMA TrustIndInvImplies == TrustIndInv => TrustInv
<1> SUFFICES ASSUME TrustIndInv PROVE TrustInv
  OBVIOUS
<1>1. keys \in Seq([node : Peer, last : 0..day]) /\ Len(keys) \in Nat /\ DOMAIN keys = 1..Len(keys)
  BY DEF TrustIndInv, KeyList
<1>2. Cardinality(NodesOf(keys)) = Len(keys)
  <2> DEFINE f == [i \in 1..Len(keys) |-> keys[i].node]
  <2>1. f \in Bijection(1..Len(keys), NodesOf(keys))
    <3>1. f \in Injection(1..Len(keys), NodesOf(keys))
      BY <1>1 DEF TrustIndInv, KeyList, NodesOf, Injection, IsInjective
    <3>2. f \in Surjection(1..Len(keys), NodesOf(keys))
      BY <1>1 DEF NodesOf, Surjection
    <3> HIDE DEF f
    <3> QED
      BY <3>1, <3>2 DEF Bijection
  <2> HIDE DEF f
  <2> QED
    <3>1. ExistsBijection(1..Len(keys), NodesOf(keys))
      BY <2>1 DEF ExistsBijection
    <3> QED
      BY <1>1, <3>1, CountUpTo, FS_Bijection
<1>3. TrustTypeOK
  BY <1>2 DEF TrustIndInv, TrustTypeOK, RepBook
<1> QED
  BY <1>3 DEF TrustIndInv, KeyList, TrustInv, KeysByAge

\* Scores stay in their range, the key store has each key once, no more than
\* its maximum, and in the order in which they were last seen, over whatever
\* touches, evicts, forgets, saves and reloads it (cometnet/reputation.py,
\* keystore.py).
THEOREM TrustIsKept == TrustSpec => []TrustInv
<1> QED
  BY TrustInitInv, TrustStep, TrustIndInvImplies, PTL DEF TrustSpec

\* What a message of one peer does leaves the scores of the others.
SameFor(q, r, s) == (q \in DOMAIN s <=> q \in DOMAIN r) /\ (q \in DOMAIN r => s[q] = r[q])

LEMMA OthersScores ==
    ASSUME NEW r, NEW p, NEW q, p # q
    PROVE  /\ SameFor(q, r, GetOrCreate(r, p))
           /\ SameFor(q, r, [GetOrCreate(r, p) EXCEPT ![p].last = day])
           /\ \A d : SameFor(q, r, Adjusted(r, p, d))
           /\ \A d : SameFor(q, r, Adjusted(GetOrCreate(r, p), p, d))
           /\ \A d, e : SameFor(q, r, Adjusted(Adjusted(r, p, d), p, e))
<1>1. SameFor(q, r, GetOrCreate(r, p))
  BY DEF GetOrCreate, SameFor
<1>2. ASSUME NEW s, NEW d PROVE SameFor(q, s, Adjusted(s, p, d))
  BY DEF Adjusted, SameFor
<1>3. ASSUME NEW s PROVE SameFor(q, s, [s EXCEPT ![p].last = day])
  BY DEF SameFor
<1>4. ASSUME NEW s, NEW t, SameFor(q, r, s), SameFor(q, s, t) PROVE SameFor(q, r, t)
  BY <1>4 DEF SameFor
<1>5. SameFor(q, r, [GetOrCreate(r, p) EXCEPT ![p].last = day])
  BY <1>1, <1>3, <1>4
<1>6. ASSUME NEW d PROVE SameFor(q, r, Adjusted(GetOrCreate(r, p), p, d))
  BY <1>1, <1>2, <1>4
<1>7. ASSUME NEW d, NEW e PROVE SameFor(q, r, Adjusted(Adjusted(r, p, d), p, e))
  BY <1>2, <1>4
<1> QED
  BY <1>1, <1>2, <1>5, <1>6, <1>7


\* Nobody rises by what costs.
LEMMA PenaltyLowers ==
    ASSUME NEW d \in Nat, NEW r, RepBook(r, d), NEW p \in DOMAIN r, NEW cost \in Nat
    PROVE  /\ p \in DOMAIN Adjusted(r, p, -cost)
           /\ Adjusted(r, p, -cost)[p].score <= r[p].score
<1>1. r[p] \in [score : 0..Highest, first : 0..d, last : 0..d] /\ Highest \in Nat
  BY TrustAssumption DEF RepBook
<1>2. Adjusted(r, p, -cost)[p]
         = [r[p] EXCEPT !.score = Greater(0, Lesser(Highest, @ + -cost))]
  BY DEF Adjusted
<1>3. Adjusted(r, p, -cost)[p].score = Greater(0, Lesser(Highest, r[p].score + -cost))
  BY <1>1, <1>2
<1> QED
  BY <1>1, <1>3 DEF Adjusted, Greater, Lesser

\* A step that neither lifts p nor takes a message of it in hand, and one that
\* ends a message of it.
Stays(p) ==
    /\ p \in DOMAIN rep' /\ InHand(p)' \subseteq InHand(p)
    /\ rep'[p].score <= rep[p].score \/ InHand(p)' # InHand(p)

LEMMA HandTaken ==
    ASSUME NEW l \in Loop, DOMAIN handling = Loop, NEW rec, Handles(l, rec), NEW p,
           rec # Nothing /\ rec.from = p => l \in InHand(p)
    PROVE  /\ InHand(p)' \subseteq InHand(p)
           /\ rec = Nothing /\ l \in InHand(p) => InHand(p)' # InHand(p)
<1>1. DOMAIN handling' = Loop /\ handling'[l] = rec
      /\ \A m \in Loop \ {l} : handling'[m] = handling[m]
  BY DEF Handles
<1> QED
  BY <1>1 DEF InHand

LEMMA StepOfLoop ==
    ASSUME TrustIndInv, NEW p \in DOMAIN rep, ~Acceptable(rep, p),
           NEW l \in Loop, NEW q \in Sender,
           \/ Mismatch(l, q) \/ Check(l, q) \/ BadSignature(l, q) \/ AcceptAnnounce(l, q)
           \/ \E invalid \in 0..MaxItems : Screen(l, q, invalid)
           \/ \E invalid \in 0..MaxItems, cs \in UNION {[1..n -> Peer] : n \in 0..MaxItems} :
                 Judge(l, q, invalid, cs)
    PROVE  Stays(p)
<1>0. /\ day \in Nat /\ RepBook(rep, day) /\ handling \in [Loop -> Message]
      /\ DOMAIN handling = Loop /\ p \in Peer /\ rep[p].score \in Nat
      /\ InvalidPenalty \in Nat /\ SignaturePenalty \in Nat
  BY TrustAssumption DEF TrustIndInv, RepBook
<1>1. ASSUME p \in DOMAIN rep', rep'[p].score <= rep[p].score, InHand(p)' \subseteq InHand(p)
      PROVE  Stays(p)
  BY <1>1 DEF Stays
<1>2. ASSUME SameFor(p, rep, rep'), InHand(p)' \subseteq InHand(p) PROVE Stays(p)
  BY <1>0, <1>1, <1>2 DEF SameFor
<1>3. CASE Mismatch(l, q)
  <2>1. q # p
    BY <1>3 DEF Mismatch
  <2>2. SameFor(p, rep, rep') /\ handling' = handling
    BY <1>3, <2>1, OthersScores DEF Mismatch
  <2> QED
    BY <1>2, <2>2 DEF InHand
<1>4. CASE Check(l, q)
  <2> DEFINE rec == [stage |-> "checking", from |-> q, keyed |-> q \in NodesOf(keys)]
  <2>1. q # p /\ Handles(l, rec) /\ rec.from = q
    BY <1>4 DEF Check
  <2>2. SameFor(p, rep, rep')
    BY <1>4, <2>1, OthersScores DEF Check
  <2> HIDE DEF rec
  <2> QED
    BY <1>0, <1>2, <2>1, <2>2, HandTaken
<1>5. CASE BadSignature(l, q)
  <2>1. Handles(l, Nothing)
    BY <1>5 DEF BadSignature
  <2>2. InHand(p)' \subseteq InHand(p)
    BY <1>0, <2>1, HandTaken
  <2>3. CASE q # p
    BY <1>2, <1>5, <2>2, <2>3, OthersScores DEF BadSignature
  <2>4. CASE q = p
    <3> DEFINE g == GetOrCreate(rep, p)
    <3>1. g[p] = rep[p] /\ p \in DOMAIN g /\ RepBook(g, day)
      BY <1>0, CreatedBook DEF GetOrCreate
    <3>2. rep' = Adjusted(g, p, -SignaturePenalty)
      BY <1>5, <2>4 DEF BadSignature
    <3> HIDE DEF g
    <3>3. p \in DOMAIN rep' /\ rep'[p].score <= g[p].score
      BY <1>0, <3>1, <3>2, PenaltyLowers
    <3> QED
      BY <1>1, <2>2, <3>1, <3>3
  <2> QED
    BY <2>3, <2>4
<1>6. CASE AcceptAnnounce(l, q)
  <2> DEFINE rec == [stage |-> "judging", from |-> q, kept |-> TRUE]
  <2>1. Handles(l, rec) /\ rec.from = q /\ l \in InHand(q)
    BY <1>6 DEF AcceptAnnounce, InHand, Nothing
  <2> HIDE DEF rec
  <2>2. InHand(p)' \subseteq InHand(p)
    BY <1>0, <2>1, HandTaken
  <2>3. CASE q # p
    BY <1>2, <1>6, <2>2, <2>3, OthersScores DEF AcceptAnnounce
  <2>4. CASE q = p
    <3>1. GetOrCreate(rep, p)[p] = rep[p] /\ p \in DOMAIN GetOrCreate(rep, p)
      BY DEF GetOrCreate
    <3>2. rep' = [GetOrCreate(rep, p) EXCEPT ![p].last = day]
      BY <1>6, <2>4 DEF AcceptAnnounce
    <3>3. p \in DOMAIN rep' /\ rep'[p] = [rep[p] EXCEPT !.last = day]
      BY <3>1, <3>2
    <3>4. rep[p] \in [score : 0..Highest, first : 0..day, last : 0..day]
      BY <1>0 DEF RepBook
    <3>5. rep'[p].score = rep[p].score
      BY <3>3, <3>4
    <3> QED
      BY <1>0, <1>1, <2>2, <3>3, <3>5
  <2> QED
    BY <2>3, <2>4
<1>7. ASSUME NEW invalid \in 0..MaxItems, Screen(l, q, invalid) PROVE Stays(p)
  <2> DEFINE rec == [stage |-> "verifying", from |-> q, kept |-> handling[l].kept]
             cost == invalid * InvalidPenalty
  <2>1. Handles(l, rec) /\ rec.from = q /\ l \in InHand(q)
    BY <1>7 DEF Screen, InHand, Nothing
  <2>2. rep' = rep \/ rep' = Adjusted(rep, q, -cost)
    BY <1>7 DEF Screen
  <2>3. cost \in Nat
    BY <1>0, TrustAssumption
  <2> HIDE DEF rec, cost
  <2>4. InHand(p)' \subseteq InHand(p)
    BY <1>0, <2>1, HandTaken
  <2>5. CASE rep' = rep
    BY <1>0, <1>1, <2>4, <2>5
  <2>6. CASE rep' = Adjusted(rep, q, -cost) /\ q # p
    BY <1>2, <2>4, <2>6, OthersScores
  <2>7. CASE rep' = Adjusted(rep, q, -cost) /\ q = p
    BY <1>0, <1>1, <2>3, <2>4, <2>7, PenaltyLowers
  <2> QED
    BY <2>2, <2>5, <2>6, <2>7
<1>8. ASSUME NEW invalid \in 0..MaxItems,
             NEW cs \in UNION {[1..n -> Peer] : n \in 0..MaxItems}, Judge(l, q, invalid, cs)
      PROVE  Stays(p)
  <2> DEFINE d == -(invalid * InvalidPenalty)
             e == Len(cs) * ValidBonus
  <2>1. Handles(l, Nothing) /\ l \in InHand(q)
    BY <1>8 DEF Judge, InHand, Nothing
  <2>2. rep' = rep \/ rep' = Adjusted(Adjusted(rep, q, d), q, e)
    BY <1>8 DEF Judge
  <2> HIDE DEF d, e
  <2>3. InHand(p)' \subseteq InHand(p) /\ (q = p => InHand(p)' # InHand(p))
    BY <1>0, <2>1, HandTaken
  <2>4. p \in DOMAIN rep'
    BY <2>2 DEF Adjusted
  <2>5. CASE q = p
    BY <2>3, <2>4, <2>5 DEF Stays
  <2>6. CASE q # p
    <3>1. SameFor(p, rep, rep)
      BY DEF SameFor
    <3>2. SameFor(p, rep, Adjusted(Adjusted(rep, q, d), q, e))
      BY <2>6, OthersScores
    <3> QED
      BY <1>2, <2>2, <2>3, <3>1, <3>2
  <2> QED
    BY <2>5, <2>6
<1> QED
  BY <1>3, <1>4, <1>5, <1>6, <1>7, <1>8

BanStepHolds ==
    \A p \in DOMAIN rep :
          Effective(rep[p]) < Untrusted =>
             \/ Stays(p)
             \/ TidyUp \/ \E torn \in BOOLEAN : Reboot(torn)

LEMMA NobodyRises == TrustIndInv /\ [TrustNext]_trustVars => [BanStepHolds]_trustVars
<1> SUFFICES ASSUME TrustIndInv, [TrustNext]_trustVars,
                    NEW p \in DOMAIN rep, Effective(rep[p]) < Untrusted,
                    ~TidyUp, ~ \E torn \in BOOLEAN : Reboot(torn)
             PROVE  Stays(p)
  BY DEF BanStepHolds
<1>1. /\ rep[p] \in [score : 0..Highest, first : 0..day, last : 0..day]
      /\ day \in 0..MaxDay
  BY DEF TrustIndInv, RepBook
<1>2. ~Acceptable(rep, p)
  <2>1. Effective(rep[p]) \in Int /\ Untrusted \in Int
    BY <1>1, TrustAssumption DEF Effective, Lesser
  <2> QED
    BY <2>1 DEF Acceptable
<1>3. ASSUME UNCHANGED <<rep, handling>> PROVE Stays(p)
  <2>1. rep[p].score <= rep[p].score
    BY <1>1, TrustAssumption
  <2> QED
    BY <1>3, <2>1 DEF Stays, InHand
<1>4. ASSUME NEW q \in Sender, Handshake(q) PROVE Stays(p)
  BY <1>3, <1>4 DEF Handshake
<1>5. ASSUME NEW l \in Loop, NEW q \in Sender, Reject(l, q) PROVE Stays(p)
  BY <1>3, <1>5 DEF Reject, trustVars
<1>6. CASE NextDay \/ SaveTrust \/ UNCHANGED trustVars
  BY <1>3, <1>6 DEF NextDay, SaveTrust, trustVars
<1> QED
  BY <1>2, <1>4, <1>5, <1>6, StepOfLoop DEF TrustNext

\* A peer below the threshold is taken no further message of in hand, and rises
\* only as one ends that a receive loop of it had in hand when it fell, until it
\* is forgotten or reset by a restart, however many loops are of it
\* (handle_announce(), cometnet/reputation.py).
THEOREM BansHold == TrustSpec => BanHolds
<1>1. TrustIndInv /\ [TrustNext]_trustVars => TrustIndInv'
  BY TrustStep
<1>2. TrustIndInv /\ [TrustNext]_trustVars => [BanStepHolds]_trustVars
  BY NobodyRises
<1> QED
  BY TrustInitInv, <1>1, <1>2, PTL DEF TrustSpec, BanHolds, BanStepHolds, Stays

----------------------------------------------------------------------------
(* Trust pools.  A is what has been granted. *)

\* Roles that somebody entitled has given, the creator's among them.
Fair(role, A) ==
    /\ role \in [PoolNode -> Role] /\ role[Creator] = "creator"
    /\ \A n \in PoolNode : role[n] # None => <<n, role[n]>> \in A

Signable(A) ==
    {NoContent} \cup
    {k \in [ver : Nat, role : [PoolNode -> Role], by : PoolNode] : Fair(k.role, A)}

FairManifest(A) ==
    {m \in [ver : Nat, role : [PoolNode -> Role], by : PoolNode, sig : [PoolNode -> Signable(A)]] :
        Fair(m.role, A)}

FairMessage(A) ==
    [type : {"manifest"}, m : FairManifest(A)]
    \cup [type : {"add"}, key : PoolNode, by : PoolNode, sig : [PoolNode -> Signable(A)],
          ok : BOOLEAN, from : {Creator}]
    \cup [type : {"leave"}, key : PoolNode \ {Creator}]
    \cup [type : {"delete"}, key : PoolNode]
    \cup [type : {"join"}]

FairHandler(A) ==
    {Idle} \cup [kind : {"store"}, m : FairManifest(A)]
    \cup [kind : {"joined"}, at : Slot, content : Signable(A)]
    \cup [kind : {"update"}, m : FairManifest(A), msg : FairMessage(A)]
    \cup [kind : {"reply", "invited"}, at : Slot]

FairOp(A) ==
    {Idle} \cup [kind : {"sign"}, at : Slot, content : Signable(A)]
    \cup [kind : {"saved", "leave", "left", "deleted", "joining"}]

FairChan(A) == [PoolNode -> [PoolNode -> Seq(FairMessage(A))]]
FairObj(A) == [PoolNode -> [Slot -> {NoManifest} \cup FairManifest(A)]]
FairPend(A) == [PoolNode -> [PoolNode -> FairHandler(A)]]

\* The slots that are still referred to.
HeldBy(m, p, o) == SlotsOf(Creator, m, p, o) \ {0}
Held(n) == HeldBy(man[n], pend[n], op[n])

PoolTypes ==
    /\ man \in [PoolNode -> {0} \cup Slot]
    /\ mship \in [PoolNode -> BOOLEAN]
    /\ invite \in [uses : 0..MaxUses, open : BOOLEAN]
    /\ calls \in 0..MaxCalls
    /\ admitted \subseteq PoolNode \X Role /\ blamed \subseteq PoolNode
    /\ joined \in Seq(PoolNode) /\ Len(joined) = invite.uses

\* Whatever is stored, sent, awaited or about to be signed is fair.
AllFair ==
    /\ obj \in FairObj(admitted) /\ chan \in FairChan(admitted)
    /\ pend \in FairPend(admitted) /\ op \in [PoolNode -> FairOp(admitted)]

HeldFair == \A n \in PoolNode : \A s \in Held(n) : obj[n][s] \in FairManifest(admitted)

PoolIndInv == PoolTypes /\ AllFair /\ HeldFair /\ Room(chan)

\* ---- what is fair stays fair, and what may become of it
LEMMA Grows ==
    ASSUME NEW A, NEW B, A \subseteq B
    PROVE  /\ Signable(A) \subseteq Signable(B) /\ FairManifest(A) \subseteq FairManifest(B)
           /\ FairMessage(A) \subseteq FairMessage(B) /\ FairHandler(A) \subseteq FairHandler(B)
           /\ FairOp(A) \subseteq FairOp(B)
<1>1. \A role : Fair(role, A) => Fair(role, B)
  BY DEF Fair
<1>2. Signable(A) \subseteq Signable(B)
  BY <1>1 DEF Signable
<1>3. FairManifest(A) \subseteq FairManifest(B)
  <2> SUFFICES ASSUME NEW m \in FairManifest(A) PROVE m \in FairManifest(B)
    OBVIOUS
  <2>1. m.sig \in [PoolNode -> Signable(B)] /\ Fair(m.role, B)
    BY <1>1, <1>2 DEF FairManifest
  <2> QED
    BY <2>1 DEF FairManifest
<1>4. FairMessage(A) \subseteq FairMessage(B)
  BY <1>2, <1>3 DEF FairMessage
<1>5. FairHandler(A) \subseteq FairHandler(B)
  BY <1>2, <1>3, <1>4 DEF FairHandler
<1>6. FairOp(A) \subseteq FairOp(B)
  BY <1>2 DEF FairOp
<1> QED
  BY <1>2, <1>3, <1>4, <1>5, <1>6

LEMMA ChanGrows ==
    ASSUME NEW A, NEW B, A \subseteq B
    PROVE  /\ FairChan(A) \subseteq FairChan(B) /\ FairObj(A) \subseteq FairObj(B)
           /\ FairPend(A) \subseteq FairPend(B)
           /\ [PoolNode -> FairOp(A)] \subseteq [PoolNode -> FairOp(B)]
<1>1. /\ FairManifest(A) \subseteq FairManifest(B) /\ FairMessage(A) \subseteq FairMessage(B)
      /\ FairHandler(A) \subseteq FairHandler(B) /\ FairOp(A) \subseteq FairOp(B)
  BY Grows
<1>2. Seq(FairMessage(A)) \subseteq Seq(FairMessage(B))
  BY <1>1
<1>3. FairChan(A) \subseteq FairChan(B)
  BY <1>2 DEF FairChan
<1>4. FairObj(A) \subseteq FairObj(B)
  BY <1>1 DEF FairObj
<1>5. FairPend(A) \subseteq FairPend(B)
  BY <1>1 DEF FairPend
<1> QED
  BY <1>1, <1>3, <1>4, <1>5

LEMMA SignedFair ==
    ASSUME NEW A, NEW m \in FairManifest(A), NEW n \in PoolNode, NEW content \in Signable(A)
    PROVE  Signed(m, n, content) \in FairManifest(A)
BY DEF Signed, FairManifest

LEMMA ContentFair ==
    ASSUME NEW A, NEW m \in FairManifest(A)
    PROVE  ContentOf(m) \in Signable(A)
BY DEF ContentOf, FairManifest, Signable

LEMMA WithRoleFair ==
    ASSUME NEW A, NEW B, A \subseteq B, NEW m \in FairManifest(A), NEW n \in PoolNode,
           n # Creator, NEW role \in Role, role # None => <<n, role>> \in B, NEW by \in PoolNode
    PROVE  WithRole(m, n, role, by) \in FairManifest(B)
<1> DEFINE new == WithRole(m, n, role, by)
<1>1. m \in FairManifest(B) /\ Fair(m.role, A)
  BY Grows DEF FairManifest
<1>2. Fair([m.role EXCEPT ![n] = role], B)
  BY <1>1, PoolAssumption DEF Fair
<1>3. m \in [ver : Nat, role : [PoolNode -> Role], by : PoolNode, sig : [PoolNode -> Signable(B)]]
  BY <1>1 DEF FairManifest
<1>4. [m.role EXCEPT ![n] = role] \in [PoolNode -> Role] /\ m.ver + 1 \in Nat
  BY <1>3
<1>5. new \in [ver : Nat, role : [PoolNode -> Role], by : PoolNode, sig : [PoolNode -> Signable(B)]]
  BY <1>3, <1>4 DEF WithRole
<1>6. new.role = [m.role EXCEPT ![n] = role]
  BY <1>3 DEF WithRole
<1> QED
  BY <1>2, <1>5, <1>6 DEF FairManifest

\* ---- what is on its way
LEMMA SentFair ==
    ASSUME NEW A, NEW ch \in FairChan(A), NEW n \in PoolNode, NEW targets,
           NEW msg \in FairMessage(A)
    PROVE  Sent(ch, n, targets, msg) \in FairChan(A)
<1>1. \A m \in PoolNode : ch[n][m] \in Seq(FairMessage(A))
                          /\ Append(ch[n][m], msg) \in Seq(FairMessage(A))
  BY DEF FairChan
<1> QED
  BY <1>1 DEF Sent, FairChan

LEMMA TakenFair ==
    ASSUME NEW A, chan \in FairChan(A), NEW m \in PoolNode, NEW n \in PoolNode,
           chan[m][n] # <<>>
    PROVE  /\ Taken(m, n) \in FairChan(A) /\ Head1(m, n) \in FairMessage(A)
           /\ Room(chan) => Room(Taken(m, n))
<1> DEFINE q == chan[m][n]
<1>1. /\ q \in Seq(FairMessage(A)) /\ q # <<>>
  BY DEF FairChan
<1>2. Tail(q) \in Seq(FairMessage(A)) /\ Len(Tail(q)) = Len(q) - 1 /\ q[1] \in FairMessage(A)
      /\ Len(q) \in Nat
  <2> HIDE DEF q
  <2> QED
    BY <1>1
<1>3. Taken(m, n) \in FairChan(A)
  BY <1>2 DEF Taken, FairChan
<1>4. \A k, l \in PoolNode : Taken(m, n)[k][l] = IF k = m /\ l = n THEN Tail(q) ELSE chan[k][l]
  BY DEF Taken, FairChan
<1>5. Room(chan) => Room(Taken(m, n))
  <2> HIDE DEF q
  <2> SUFFICES ASSUME Room(chan), NEW k \in PoolNode, NEW l \in PoolNode
               PROVE  Len(Taken(m, n)[k][l]) <= MaxInbox
    BY DEF Room
  <2>1. Len(q) <= MaxInbox /\ Len(chan[k][l]) <= MaxInbox
    BY DEF Room, q
  <2>2. Len(Tail(q)) <= MaxInbox
    BY <1>2, <2>1, PoolAssumption
  <2> QED
    BY <1>4, <2>1, <2>2
<1> QED
  BY <1>2, <1>3, <1>5 DEF Head1

\* ---- the objects that coroutines refer to
LEMMA RefsAre ==
    /\ Refs(Idle) = {}
    /\ \A A, rec : rec \in FairHandler(A) =>
          Refs(rec) = IF rec.kind \in {"joined", "reply", "invited"} THEN {rec.at} ELSE {}
    /\ \A A, rec : rec \in FairOp(A) => Refs(rec) = IF rec.kind = "sign" THEN {rec.at} ELSE {}
<1>1. Refs(Idle) = {}
  BY DEF Refs, Idle
<1>2. ASSUME NEW A, NEW rec, rec \in FairHandler(A)
      PROVE  Refs(rec) = IF rec.kind \in {"joined", "reply", "invited"} THEN {rec.at} ELSE {}
  <2>1. CASE rec = Idle
    BY <1>1, <2>1 DEF Idle
  <2>2. CASE rec \in [kind : {"store"}, m : FairManifest(A)]
    BY <2>2 DEF Refs
  <2>3. CASE rec \in [kind : {"joined"}, at : Slot, content : Signable(A)]
    BY <2>3 DEF Refs
  <2>4. CASE rec \in [kind : {"update"}, m : FairManifest(A), msg : FairMessage(A)]
    BY <2>4 DEF Refs
  <2>5. CASE rec \in [kind : {"reply", "invited"}, at : Slot]
    BY <2>5 DEF Refs
  <2> QED
    BY <1>2, <2>1, <2>2, <2>3, <2>4, <2>5 DEF FairHandler
<1>3. ASSUME NEW A, NEW rec, rec \in FairOp(A)
      PROVE  Refs(rec) = IF rec.kind = "sign" THEN {rec.at} ELSE {}
  <2>1. CASE rec = Idle
    BY <1>1, <2>1 DEF Idle
  <2>2. CASE rec \in [kind : {"sign"}, at : Slot, content : Signable(A)]
    BY <2>2 DEF Refs
  <2>3. CASE rec \in [kind : {"saved", "leave", "left", "deleted", "joining"}]
    BY <2>3 DEF Refs
  <2> QED
    BY <1>3, <2>1, <2>2, <2>3 DEF FairOp
<1> QED
  BY <1>1, <1>2, <1>3

LEMMA HeldChanges ==
    ASSUME NEW H, NEW p \in [PoolNode -> H], NEW k \in PoolNode, NEW rec,
           NEW m, NEW m2, NEW o, NEW o2
    PROVE  /\ HeldBy(m2, [p EXCEPT ![k] = rec], o2) \subseteq
                 HeldBy(m, p, o) \cup (({m2} \cup Refs(rec) \cup Refs(o2)) \ {0})
           /\ HeldBy(m2, p, o2) \subseteq HeldBy(m, p, o) \cup (({m2} \cup Refs(o2)) \ {0})
           /\ ({m} \cup Refs(o) \cup Refs(p[k])) \ {0} \subseteq HeldBy(m, p, o)
BY DEF HeldBy, SlotsOf

LEMMA HeldAreSlots ==
    ASSUME NEW A, NEW p \in [PoolNode -> FairHandler(A)], NEW m \in {0} \cup Slot,
           NEW o \in FairOp(A)
    PROVE  HeldBy(m, p, o) \subseteq Slot
<1>1. \A k \in PoolNode : Refs(p[k]) \subseteq Slot
  <2> TAKE k \in PoolNode
  <2>1. p[k] \in FairHandler(A)
    OBVIOUS
  <2>2. p[k].kind \in {"joined", "reply", "invited"} => p[k].at \in Slot
    BY <2>1 DEF FairHandler, Idle
  <2> QED
    BY <2>1, <2>2, RefsAre
<1>2. Refs(o) \subseteq Slot
  <2>1. o.kind = "sign" => o.at \in Slot
    BY DEF FairOp, Idle
  <2> QED
    BY <2>1, RefsAre
<1> QED
  BY <1>1, <1>2 DEF HeldBy, SlotsOf

LEMMA NextSlotIs ==
    ASSUME NEW n \in PoolNode, FreeSlots(n) # {}
    PROVE  NextSlot(n) \in Slot
<1> DEFINE F == FreeSlots(n)
<1>1. F \subseteq {1, 2, 3}
  BY DEF FreeSlots, Slot
<1>2. \E s \in F : \A t \in F : s <= t
  <2> HIDE DEF F
  <2>1. CASE 1 \in F
    BY <1>1, <2>1
  <2>2. CASE 1 \notin F /\ 2 \in F
    BY <1>1, <2>2
  <2>3. CASE 1 \notin F /\ 2 \notin F
    <3>1. F = {3}
      BY <1>1, <2>3 DEF F
    <3> QED
      BY <3>1
  <2> QED
    BY <2>1, <2>2, <2>3
<1>3. NextSlot(n) \in F
  BY <1>2 DEF NextSlot
<1> QED
  BY <1>1, <1>3 DEF Slot

\* The object of a slot that a node refers to is fair.
LEMMA HeldIsFair ==
    ASSUME PoolIndInv, NEW n \in PoolNode
    PROVE  /\ man[n] # 0 => man[n] \in Slot /\ StoredAt(n) \in FairManifest(admitted)
           /\ op[n].kind = "sign" =>
                 /\ op[n].at \in Slot /\ op[n].content \in Signable(admitted)
                 /\ obj[n][op[n].at] \in FairManifest(admitted)
           /\ \A m \in PoolNode :
                 /\ pend[n][m].kind \in {"store", "update"} =>
                        pend[n][m].m \in FairManifest(admitted)
                 /\ pend[n][m].kind = "update" => pend[n][m].msg \in FairMessage(admitted)
                 /\ pend[n][m].kind = "joined" => pend[n][m].content \in Signable(admitted)
                 /\ pend[n][m].kind \in {"joined", "reply", "invited"} =>
                        /\ pend[n][m].at \in Slot
                        /\ obj[n][pend[n][m].at] \in FairManifest(admitted)
<1>1. /\ op[n] \in FairOp(admitted) /\ pend[n] \in [PoolNode -> FairHandler(admitted)]
      /\ man[n] \in {0} \cup Slot /\ 0 \notin Slot
  BY DEF PoolIndInv, AllFair, FairPend, PoolTypes, Slot
<1>2. \A s \in Held(n) : obj[n][s] \in FairManifest(admitted)
  BY DEF PoolIndInv, HeldFair
<1>3. man[n] # 0 => man[n] \in Slot /\ StoredAt(n) \in FairManifest(admitted)
  <2> SUFFICES ASSUME man[n] # 0
               PROVE  man[n] \in Slot /\ StoredAt(n) \in FairManifest(admitted)
    OBVIOUS
  <2>1. man[n] \in Held(n)
    BY DEF Held, HeldBy, SlotsOf
  <2> QED
    BY <1>1, <1>2, <2>1 DEF StoredAt
<1>4. op[n].kind = "sign" =>
        /\ op[n].at \in Slot /\ op[n].content \in Signable(admitted)
        /\ obj[n][op[n].at] \in FairManifest(admitted)
  <2> SUFFICES ASSUME op[n].kind = "sign"
               PROVE  /\ op[n].at \in Slot /\ op[n].content \in Signable(admitted)
                      /\ obj[n][op[n].at] \in FairManifest(admitted)
    OBVIOUS
  <2>1. op[n].at \in Slot /\ op[n].content \in Signable(admitted)
    BY <1>1 DEF FairOp, Idle
  <2>2. op[n].at \in Held(n)
    <3>1. Refs(op[n]) = {op[n].at}
      BY <1>1, RefsAre
    <3> QED
      BY <1>1, <2>1, <3>1 DEF Held, HeldBy, SlotsOf
  <2> QED
    BY <1>2, <2>1, <2>2
<1>5. ASSUME NEW m \in PoolNode
      PROVE  /\ pend[n][m].kind \in {"store", "update"} =>
                    pend[n][m].m \in FairManifest(admitted)
             /\ pend[n][m].kind = "update" => pend[n][m].msg \in FairMessage(admitted)
             /\ pend[n][m].kind = "joined" => pend[n][m].content \in Signable(admitted)
             /\ pend[n][m].kind \in {"joined", "reply", "invited"} => pend[n][m].at \in Slot
  <2>1. pend[n][m] \in FairHandler(admitted)
    BY <1>1
  <2> QED
    BY <2>1 DEF FairHandler, Idle
<1>6. ASSUME NEW m \in PoolNode, pend[n][m].kind \in {"joined", "reply", "invited"}
      PROVE  obj[n][pend[n][m].at] \in FairManifest(admitted)
  <2>1. Refs(pend[n][m]) = {pend[n][m].at}
    <3>1. pend[n][m] \in FairHandler(admitted)
      BY <1>1
    <3> QED
      BY <1>6, <3>1, RefsAre
  <2>2. pend[n][m].at \in Held(n)
    BY <1>1, <1>5, <1>6, <2>1 DEF Held, HeldBy, SlotsOf
  <2> QED
    BY <1>2, <2>2
<1> QED
  BY <1>3, <1>4, <1>5, <1>6

\* ---- a step of node n
LEMMA ObjectsKeep ==
    ASSUME NEW n \in PoolNode, NEW contents, Objects(n, contents), PoolIndInv,
           admitted \subseteq admitted', Held(n)' \subseteq Slot,
           contents \in [Slot -> {NoManifest} \cup FairManifest(admitted')],
           \A s \in Held(n)' : contents[s] \in FairManifest(admitted')
    PROVE  /\ obj' \in FairObj(admitted')
           /\ \A k \in PoolNode \ {n} : obj'[k] = obj[k]
           /\ \A s \in Held(n)' : obj'[n][s] \in FairManifest(admitted')
<1> DEFINE used == SlotsOf(n, man'[n], pend'[n], op'[n])
           new == [s \in Slot |-> IF s \in used THEN contents[s] ELSE NoManifest]
<1>1. obj \in FairObj(admitted')
  BY ChanGrows DEF PoolIndInv, AllFair
<1>2. obj' = [obj EXCEPT ![n] = new]
  BY DEF Objects
<1>3. new \in [Slot -> {NoManifest} \cup FairManifest(admitted')]
  OBVIOUS
<1>4. \A s \in Held(n)' : s \in used
  BY DEF Held, HeldBy, SlotsOf
<1>5. \A s \in Held(n)' : new[s] = contents[s]
  BY <1>4
<1> HIDE DEF new, used
<1>6. obj' \in FairObj(admitted') /\ obj'[n] = new /\ \A k \in PoolNode \ {n} : obj'[k] = obj[k]
  BY <1>1, <1>2, <1>3 DEF FairObj
<1> QED
  BY <1>5, <1>6

\* What n refers to after a step that lets one handler, its operation and its
\* manifest go on.
LEMMA HeldGoOn ==
    ASSUME PoolIndInv, NEW n \in PoolNode, NEW k \in PoolNode, NEW rec,
           pend' \in {pend, [pend EXCEPT ![n][k] = rec]}
    PROVE  /\ Held(n)' \subseteq Held(n) \cup (({man'[n]} \cup Refs(rec) \cup Refs(op'[n])) \ {0})
           /\ pend' = pend =>
                 Held(n)' \subseteq Held(n) \cup (({man'[n]} \cup Refs(op'[n])) \ {0})
           /\ ({man[n]} \cup Refs(op[n]) \cup Refs(pend[n][k])) \ {0} \subseteq Held(n)
<1>1. pend[n] \in [PoolNode -> FairHandler(admitted)]
  BY DEF PoolIndInv, AllFair, FairPend
<1>2. pend'[n] \in {pend[n], [pend[n] EXCEPT ![k] = rec]}
  BY DEF PoolIndInv, AllFair, FairPend
<1> DEFINE p == pend[n]
           m == man[n]
           m2 == man'[n]
           o == op[n]
           o2 == op'[n]
<1>3. p \in [PoolNode -> FairHandler(admitted)]
  BY <1>1
<1> HIDE DEF p, m, m2, o, o2
<1>4. /\ HeldBy(m2, [p EXCEPT ![k] = rec], o2) \subseteq
                 HeldBy(m, p, o) \cup (({m2} \cup Refs(rec) \cup Refs(o2)) \ {0})
      /\ HeldBy(m2, p, o2) \subseteq HeldBy(m, p, o) \cup (({m2} \cup Refs(o2)) \ {0})
      /\ ({m} \cup Refs(o) \cup Refs(p[k])) \ {0} \subseteq HeldBy(m, p, o)
  BY <1>3, HeldChanges
<1>5. Held(n)' \in {HeldBy(m2, p, o2), HeldBy(m2, [p EXCEPT ![k] = rec], o2)}
  BY <1>2 DEF Held, p, m2, o2
<1>6. pend' = pend => Held(n)' = HeldBy(m2, p, o2)
  BY DEF Held, p, m2, o2
<1> QED
  BY <1>4, <1>5, <1>6 DEF Held, p, m, o, m2, o2

\* The rest of the invariant after a step of n.
LEMMA NodeStep ==
    ASSUME PoolIndInv, NEW n \in PoolNode, admitted \subseteq admitted',
           PoolTypes', AllFair', Room(chan'),
           \A k \in PoolNode \ {n} :
              man'[k] = man[k] /\ pend'[k] = pend[k] /\ op'[k] = op[k] /\ obj'[k] = obj[k],
           \A s \in Held(n)' : obj'[n][s] \in FairManifest(admitted')
    PROVE  PoolIndInv'
<1>1. ASSUME NEW k \in PoolNode \ {n}, NEW s \in Held(k)'
      PROVE  obj'[k][s] \in FairManifest(admitted')
  <2>1. s \in Held(k)
    BY <1>1 DEF Held
  <2>2. obj[k][s] \in FairManifest(admitted)
    BY <2>1 DEF PoolIndInv, HeldFair
  <2> QED
    BY <2>2, Grows
<1>2. HeldFair'
  BY <1>1 DEF HeldFair
<1> QED
  BY <1>2 DEF PoolIndInv

\* A step of n keeps the invariant if what it sends, awaits and does next is
\* fair, and so is what it puts into the slots that it then refers to.
LEMMA NodeActs ==
    ASSUME PoolIndInv, PoolTypes', Room(chan'), chan' \in FairChan(admitted'),
           admitted \subseteq admitted',
           NEW n \in PoolNode, NEW k \in PoolNode, NEW rec \in FairHandler(admitted'),
           NEW o \in FairOp(admitted'), NEW s \in {0} \cup Slot,
           pend' = pend \/ pend' = [pend EXCEPT ![n][k] = rec],
           op' = op \/ op' = [op EXCEPT ![n] = o],
           man' = man \/ man' = [man EXCEPT ![n] = s],
           NEW contents \in [Slot -> {NoManifest} \cup FairManifest(admitted')],
           Objects(n, contents) \/ (obj' = obj /\ contents = obj[n]),
           \A t \in Held(n) \cup (({s} \cup Refs(rec) \cup Refs(o)) \ {0}) :
               contents[t] \in FairManifest(admitted')
    PROVE  PoolIndInv'
<1>1. /\ pend \in FairPend(admitted') /\ op \in [PoolNode -> FairOp(admitted')]
      /\ obj \in FairObj(admitted') /\ man \in [PoolNode -> {0} \cup Slot]
  BY ChanGrows DEF PoolIndInv, AllFair, PoolTypes
<1>2. pend' \in FairPend(admitted') /\ \A j \in PoolNode \ {n} : pend'[j] = pend[j]
  BY <1>1 DEF FairPend
<1>3. /\ op' \in [PoolNode -> FairOp(admitted')] /\ op'[n] \in {op[n], o}
      /\ \A j \in PoolNode \ {n} : op'[j] = op[j]
  BY <1>1
<1>4. /\ man' \in [PoolNode -> {0} \cup Slot] /\ man'[n] \in {man[n], s}
      /\ \A j \in PoolNode \ {n} : man'[j] = man[j]
  BY <1>1
<1>5. Held(n)' \subseteq Held(n) \cup (({s} \cup Refs(rec) \cup Refs(o)) \ {0})
  <2>1. /\ Held(n)' \subseteq
               Held(n) \cup (({man'[n]} \cup Refs(rec) \cup Refs(op'[n])) \ {0})
        /\ ({man[n]} \cup Refs(op[n]) \cup Refs(pend[n][k])) \ {0} \subseteq Held(n)
    BY HeldGoOn
  <2> QED
    BY <1>3, <1>4, <2>1
<1>6. Held(n)' \subseteq Slot
  <2> DEFINE p == pend'[n]
             o2 == op'[n]
             m2 == man'[n]
             A == admitted'
  <2>1. p \in [PoolNode -> FairHandler(A)] /\ o2 \in FairOp(A) /\ m2 \in {0} \cup Slot
    BY <1>2, <1>3, <1>4 DEF FairPend
  <2> HIDE DEF p, o2, m2, A
  <2>2. HeldBy(m2, p, o2) \subseteq Slot
    BY <2>1, HeldAreSlots
  <2> QED
    BY <2>2 DEF Held, p, o2, m2
<1>7. \A t \in Held(n)' : contents[t] \in FairManifest(admitted')
  BY <1>5
<1>8. /\ obj' \in FairObj(admitted')
      /\ \A j \in PoolNode \ {n} : obj'[j] = obj[j]
      /\ \A t \in Held(n)' : obj'[n][t] \in FairManifest(admitted')
  <2>1. CASE Objects(n, contents)
    BY <1>6, <1>7, <2>1, ObjectsKeep
  <2>2. CASE obj' = obj /\ contents = obj[n]
    BY <1>1, <1>7, <2>2
  <2> QED
    BY <2>1, <2>2
<1>9. AllFair'
  BY <1>2, <1>3, <1>8 DEF AllFair
<1> QED
  BY <1>2, <1>3, <1>4, <1>8, <1>9, NodeStep

LEMMA IdleIsFair == \A A : Idle \in FairHandler(A) /\ Idle \in FairOp(A)
BY DEF FairHandler, FairOp

LEMMA Basics ==
    ASSUME PoolIndInv, NEW n \in PoolNode
    PROVE  /\ obj[n] \in [Slot -> {NoManifest} \cup FairManifest(admitted)]
           /\ \A t \in Held(n) : obj[n][t] \in FairManifest(admitted)
           /\ Creator \in PoolNode /\ 0 \notin Slot
           /\ man \in [PoolNode -> {0} \cup Slot] /\ mship \in [PoolNode -> BOOLEAN]
           /\ invite \in [uses : 0..MaxUses, open : BOOLEAN] /\ calls \in 0..MaxCalls
           /\ Room(chan) /\ chan \in FairChan(admitted)
           /\ op \in [PoolNode -> FairOp(admitted)]
           /\ pend \in [PoolNode -> [PoolNode -> FairHandler(admitted)]]
BY PoolAssumption DEF PoolIndInv, AllFair, HeldFair, FairObj, FairPend, PoolTypes, Slot

\* A step that leaves the objects alone.
LEMMA QuietActs ==
    ASSUME PoolIndInv, PoolTypes', Room(chan'), chan' \in FairChan(admitted),
           UNCHANGED <<obj, man, admitted>>,
           NEW n \in PoolNode, NEW k \in PoolNode, NEW rec \in FairHandler(admitted),
           NEW o \in FairOp(admitted), Refs(rec) \cup Refs(o) \subseteq {man[n]},
           pend' = pend \/ pend' = [pend EXCEPT ![n][k] = rec],
           op' = op \/ op' = [op EXCEPT ![n] = o]
    PROVE  PoolIndInv'
<1> DEFINE contents == obj[n]
           s == 0
<1>1. {man[n]} \ {0} \subseteq Held(n)
  BY DEF Held, HeldBy, SlotsOf
<1>2. /\ contents \in [Slot -> {NoManifest} \cup FairManifest(admitted')]
      /\ obj' = obj /\ contents = obj[n] /\ s \in {0} \cup Slot
      /\ rec \in FairHandler(admitted') /\ o \in FairOp(admitted') /\ man' = man
      /\ admitted \subseteq admitted' /\ chan' \in FairChan(admitted')
  BY Basics
<1>3. \A t \in Held(n) \cup (({s} \cup Refs(rec) \cup Refs(o)) \ {0}) :
          contents[t] \in FairManifest(admitted')
  BY <1>1, Basics
<1> HIDE DEF contents, s
<1> QED
  BY <1>2, <1>3, NodeActs

LEMMA CalledIs == ASSUME PoolIndInv, Called PROVE calls' \in 0..MaxCalls
BY PoolAssumption DEF Called, PoolIndInv, PoolTypes

----------------------------------------------------------------------------
(* Operations of the API. *)

\* A call, or the next step of one, that leaves the objects alone.
LEMMA CallKeeps ==
    ASSUME PoolIndInv, NEW n \in PoolNode,
           \/ Announce(n) \/ Leave(n) \/ Forget(n) \/ Deleted(n) \/ Join(n) \/ Joined(n)
    PROVE  PoolIndInv'
<1> DEFINE o == op'[n]
<1>1. /\ op' = [op EXCEPT ![n] = o] /\ o \in FairOp(admitted) /\ Refs(o) = {}
  <2>1. \E kind \in {"leave", "left", "joining"} :
           op' \in {[op EXCEPT ![n] = Idle], [op EXCEPT ![n] = [kind |-> kind]]}
    BY DEF Announce, Leave, Forget, Deleted, Join, Joined, Does
  <2>2. \A kind \in {"leave", "left", "joining"} :
           [kind |-> kind] \in FairOp(admitted) /\ Refs([kind |-> kind]) = {}
    <3> TAKE kind \in {"leave", "left", "joining"}
    <3>1. [kind |-> kind] \in FairOp(admitted) /\ [kind |-> kind].kind # "sign"
      BY DEF FairOp
    <3> QED
      BY <3>1, RefsAre
  <2> QED
    BY <2>1, <2>2, IdleIsFair, RefsAre, Basics
<1>2. chan' \in FairChan(admitted) /\ Room(chan')
  <2>1. CASE Announce(n)
    <3>1. man[n] # 0 => ManifestMessage(StoredAt(n)) \in FairMessage(admitted)
      BY HeldIsFair DEF ManifestMessage, FairMessage
    <3> QED
      BY <2>1, <3>1, Basics, SentFair DEF Announce
  <2>2. CASE Leave(n)
    <3>1. n # Creator
      <4>1. StoredAt(n) \in FairManifest(admitted) /\ StoredAt(n).role[n] # "creator"
        BY <2>2, HeldIsFair DEF Leave
      <4> QED
        BY <4>1 DEF FairManifest, Fair
    <3>2. [type |-> "leave", key |-> n] \in FairMessage(admitted)
      BY <3>1 DEF FairMessage
    <3> QED
      BY <2>2, <3>2, Basics, SentFair DEF Leave
  <2>3. CASE Deleted(n)
    <3>1. [type |-> "delete", key |-> n] \in FairMessage(admitted)
      BY DEF FairMessage
    <3> QED
      BY <2>3, <3>1, Basics, SentFair DEF Deleted
  <2>4. CASE Join(n)
    <3>1. [type |-> "join"] \in FairMessage(admitted)
      BY DEF FairMessage
    <3> QED
      BY <2>4, <3>1, Basics, SentFair DEF Join
  <2>5. CASE UNCHANGED chan
    BY <2>5, Basics
  <2> QED
    BY <2>1, <2>2, <2>3, <2>4, <2>5 DEF Forget, Joined
<1>3. PoolTypes'
  <2>1. calls' \in 0..MaxCalls
    <3>1. UNCHANGED calls \/ Called
      BY DEF Announce, Leave, Forget, Deleted, Join, Joined
    <3> QED
      BY <3>1, Basics, CalledIs
  <2>2. mship' \in [PoolNode -> BOOLEAN]
    <3>1. UNCHANGED mship \/ \E v \in BOOLEAN : mship' = [mship EXCEPT ![n] = v]
      <4>1. (mship[n] \/ Listed(n)) \in BOOLEAN
        OBVIOUS
      <4> QED
        BY <4>1 DEF Announce, Leave, Forget, Deleted, Join, Joined
    <3> QED
      BY <3>1, Basics
  <2>3. UNCHANGED <<man, invite, admitted, blamed, joined>>
    BY DEF Announce, Leave, Forget, Deleted, Join, Joined
  <2> QED
    BY <2>1, <2>2, <2>3 DEF PoolIndInv, PoolTypes
<1>4. UNCHANGED <<obj, man, admitted, pend>>
  BY DEF Announce, Leave, Forget, Deleted, Join, Joined
<1> HIDE DEF o
<1> QED
  BY <1>1, <1>2, <1>3, <1>4, IdleIsFair, RefsAre, QuietActs

LEMMA ChangeKeeps ==
    ASSUME PoolIndInv, NEW n \in PoolNode, NEW k \in PoolNode,
           NEW role \in Role, Change(n, k, role)
    PROVE  PoolIndInv'
<1> DEFINE m == WithRole(StoredAt(n), k, role, n)
           contents == [obj[n] EXCEPT ![man[n]] = m]
           o == op'[n]
<1>1. /\ man[n] \in Slot /\ StoredAt(n) \in FairManifest(admitted)
      /\ MayChange(n, k, role) /\ IsAdmin(StoredAt(n), n)
  BY HeldIsFair DEF Change, MayChange
<1>2. admitted' = admitted \cup {<<k, role>>} /\ role \in Role
  BY <1>1 DEF Change, Granted, Role
<1>3. k # Creator
  BY <1>1 DEF MayChange, FairManifest, Fair
<1>4. m \in FairManifest(admitted')
  <2> DEFINE old == StoredAt(n)
             A == admitted
             B == admitted'
  <2>1. A \subseteq B /\ old \in FairManifest(A) /\ <<k, role>> \in B
    BY <1>1, <1>2
  <2> HIDE DEF old, A, B
  <2>2. WithRole(old, k, role, n) \in FairManifest(B)
    BY <1>2, <1>3, <2>1, WithRoleFair
  <2> QED
    BY <2>2 DEF old, B
<1>5. ContentOf(m) \in Signable(admitted')
  BY <1>4, ContentFair
<1> HIDE DEF m
<1>6. o \in FairOp(admitted') /\ Refs(o) \subseteq {man[n]} /\ op' = [op EXCEPT ![n] = o]
  <2>1. o \in {[kind |-> "sign", at |-> man[n], content |-> ContentOf(m)], [kind |-> "saved"]}
        /\ op' = [op EXCEPT ![n] = o]
    BY Basics DEF Change, Does, m
  <2>2. o \in FairOp(admitted')
    BY <1>1, <1>5, <2>1 DEF FairOp
  <2>3. o.kind = "sign" => o.at = man[n]
    BY <2>1
  <2> QED
    BY <2>1, <2>2, <2>3, RefsAre
<1>7. PoolTypes' /\ Room(chan') /\ chan' \in FairChan(admitted')
  <2>1. calls' \in 0..MaxCalls
    BY Basics, PoolAssumption DEF Change, Called
  <2>2. UNCHANGED <<man, mship, invite, chan, joined, blamed>>
    BY DEF Change
  <2>3. PoolTypes'
    BY <1>2, <2>1, <2>2 DEF PoolIndInv, PoolTypes
  <2> QED
    BY <1>2, <2>2, <2>3, Basics, ChanGrows
<1>8. /\ contents \in [Slot -> {NoManifest} \cup FairManifest(admitted')]
      /\ \A t \in Held(n) \cup {man[n]} : contents[t] \in FairManifest(admitted')
      /\ Objects(n, contents)
  <2>1. FairManifest(admitted) \subseteq FairManifest(admitted')
    BY <1>2, Grows
  <2>2. Objects(n, contents)
    BY DEF Change, m
  <2> QED
    BY <1>1, <1>4, <2>1, <2>2, Basics
<1> HIDE DEF contents, o
<1>9. /\ admitted \subseteq admitted' /\ Idle \in FairHandler(admitted') /\ 0 \in {0} \cup Slot
      /\ pend' = pend /\ man' = man
      /\ \A t \in Held(n) \cup (({0} \cup Refs(Idle) \cup Refs(o)) \ {0}) :
               contents[t] \in FairManifest(admitted')
  BY <1>2, <1>6, <1>8, IdleIsFair, RefsAre DEF Change
<1> QED
  BY <1>6, <1>7, <1>8, <1>9, NodeActs

\* The signature is there.
LEMMA FinishKeeps ==
    ASSUME PoolIndInv, NEW n \in PoolNode, Finish(n)
    PROVE  PoolIndInv'
<1> DEFINE at == op[n].at
           m == Signed(obj[n][at], n, op[n].content)
           contents == [obj[n] EXCEPT ![at] = m]
<1>1. at \in Slot /\ m \in FairManifest(admitted) /\ at \in Held(n)
  <2>1. /\ at \in Slot /\ op[n].content \in Signable(admitted)
        /\ obj[n][at] \in FairManifest(admitted)
    BY HeldIsFair DEF Finish
  <2>2. m \in FairManifest(admitted)
    BY <2>1, SignedFair
  <2>3. at \in Refs(op[n])
    <3>1. op[n] \in FairOp(admitted)
      BY Basics
    <3> QED
      BY <3>1, RefsAre DEF Finish
  <2> QED
    BY <2>1, <2>2, <2>3, Basics DEF Held, HeldBy, SlotsOf
<1>2. chan' \in FairChan(admitted) /\ Room(chan')
  <2>1. ManifestMessage(m) \in FairMessage(admitted)
    BY <1>1 DEF ManifestMessage, FairMessage
  <2> QED
    BY <2>1, Basics, SentFair DEF Finish
<1> HIDE DEF m
<1>3. PoolTypes' /\ UNCHANGED <<admitted, pend>>
  <2>1. man' = [man EXCEPT ![n] = at]
        /\ UNCHANGED <<mship, invite, calls, admitted, joined, blamed, pend>>
    BY DEF Finish, Install
  <2> QED
    BY <1>1, <2>1 DEF PoolIndInv, PoolTypes
<1>4. /\ contents \in [Slot -> {NoManifest} \cup FairManifest(admitted')]
      /\ \A t \in Held(n) \cup {at} : contents[t] \in FairManifest(admitted')
      /\ Objects(n, contents)
  BY <1>1, <1>3, Basics DEF Finish, Install, m
<1>5. /\ op' = [op EXCEPT ![n] = Idle] /\ man' = [man EXCEPT ![n] = at]
      /\ at \in {0} \cup Slot /\ Idle \in FairOp(admitted') /\ Idle \in FairHandler(admitted')
      /\ admitted \subseteq admitted' /\ chan' \in FairChan(admitted')
  BY <1>1, <1>2, <1>3, IdleIsFair DEF Finish, Does, Install
<1> HIDE DEF contents, at
<1>6. \A t \in Held(n) \cup (({at} \cup Refs(Idle) \cup Refs(Idle)) \ {0}) :
          contents[t] \in FairManifest(admitted')
  BY <1>4, RefsAre
<1> QED
  BY <1>2, <1>3, <1>4, <1>5, <1>6, NodeActs

\* What drops the pool at n, by a call or a message.
LEMMA DropKeeps ==
    ASSUME PoolIndInv, NEW n \in PoolNode, NEW k \in PoolNode, NEW o \in FairOp(admitted),
           Refs(o) = {}, op' = op \/ op' = [op EXCEPT ![n] = o],
           pend' = pend \/ pend' = [pend EXCEPT ![n][k] = Idle],
           chan' \in FairChan(admitted), Room(chan'), calls' \in 0..MaxCalls,
           mship' = mship \/ mship' = [mship EXCEPT ![n] = FALSE],
           invite' = invite \/ invite' = [invite EXCEPT !.open = @ /\ n # Creator],
           UNCHANGED <<admitted, joined, blamed>>,
           man' = [man EXCEPT ![n] = 0], Objects(n, obj[n])
    PROVE  PoolIndInv'
<1> DEFINE contents == obj[n]
           s == 0
           rec == Idle
<1>1. PoolTypes'
  <2>1. /\ man' \in [PoolNode -> {0} \cup Slot] /\ mship' \in [PoolNode -> BOOLEAN]
        /\ invite' \in [uses : 0..MaxUses, open : BOOLEAN] /\ invite'.uses = invite.uses
    BY Basics
  <2> QED
    BY <2>1 DEF PoolIndInv, PoolTypes
<1>2. /\ contents \in [Slot -> {NoManifest} \cup FairManifest(admitted')]
      /\ Objects(n, contents) /\ s \in {0} \cup Slot /\ man' = [man EXCEPT ![n] = s]
      /\ rec \in FairHandler(admitted') /\ o \in FairOp(admitted')
      /\ admitted \subseteq admitted' /\ chan' \in FairChan(admitted')
  BY Basics, IdleIsFair
<1>3. pend' = pend \/ pend' = [pend EXCEPT ![n][k] = rec]
  OBVIOUS
<1>4. \A t \in Held(n) \cup (({s} \cup Refs(rec) \cup Refs(o)) \ {0}) :
          contents[t] \in FairManifest(admitted')
  BY Basics, RefsAre
<1> HIDE DEF contents, s, rec
<1>5. CASE op' = op /\ pend' = pend
  BY <1>1, <1>2, <1>4, <1>5, NodeActs, ZenonT(40)
<1>6. CASE op' = [op EXCEPT ![n] = o] /\ pend' = pend
  BY <1>1, <1>2, <1>4, <1>6, NodeActs, ZenonT(40)
<1>7. CASE op' = op /\ pend' = [pend EXCEPT ![n][k] = rec]
  BY <1>1, <1>2, <1>4, <1>7, NodeActs, ZenonT(40)
<1>8. CASE op' = [op EXCEPT ![n] = o] /\ pend' = [pend EXCEPT ![n][k] = rec]
  BY <1>1, <1>2, <1>4, <1>8, NodeActs, ZenonT(40)
<1> QED
  BY <1>3, <1>5, <1>6, <1>7, <1>8

LEMMA DeleteKeeps ==
    ASSUME PoolIndInv, NEW n \in PoolNode, Drop(n) \/ Delete(n)
    PROVE  PoolIndInv'
<1> DEFINE o == [kind |-> "deleted"]
<1>1. o \in FairOp(admitted) /\ Refs(o) = {}
  <2>1. o \in FairOp(admitted) /\ o.kind # "sign"
    BY DEF FairOp
  <2> QED
    BY <2>1, RefsAre
<1>2. calls' \in 0..MaxCalls /\ chan' \in FairChan(admitted) /\ Room(chan')
  BY Basics, CalledIs DEF Drop, Delete
<1>3. CASE Drop(n)
  <2>1. /\ op' = [op EXCEPT ![n] = Idle]
        /\ UNCHANGED <<pend, mship, invite, admitted, joined, blamed>>
        /\ man' = [man EXCEPT ![n] = 0] /\ Objects(n, obj[n])
    BY <1>3 DEF Drop, Does
  <2> QED
    BY <1>2, <2>1, IdleIsFair, RefsAre, DropKeeps
<1>4. CASE Delete(n)
  <2>1. /\ op' = [op EXCEPT ![n] = o]
        /\ UNCHANGED <<pend, admitted, joined, blamed>>
        /\ mship' = [mship EXCEPT ![n] = FALSE]
        /\ invite' = [invite EXCEPT !.open = @ /\ n # Creator]
        /\ man' = [man EXCEPT ![n] = 0] /\ Objects(n, obj[n])
    BY <1>4 DEF Delete, DropPool, Does
  <2> HIDE DEF o
  <2> QED
    BY <1>1, <1>2, <2>1, DropKeeps
<1> QED
  BY <1>3, <1>4

----------------------------------------------------------------------------
(* Handlers. *)

LEMMA HandlerRefs ==
    ASSUME PoolIndInv, NEW n \in PoolNode, NEW m \in PoolNode,
           pend[n][m].kind \in {"joined", "reply", "invited"}
    PROVE  pend[n][m].at \in Held(n)
<1>1. pend[n][m] \in FairHandler(admitted) /\ pend[n][m].at \in Slot /\ 0 \notin Slot
  BY HeldIsFair, Basics
<1>2. Refs(pend[n][m]) = {pend[n][m].at}
  BY <1>1, RefsAre
<1> QED
  BY <1>1, <1>2 DEF Held, HeldBy, SlotsOf

LEMMA ArrivedIs ==
    ASSUME PoolIndInv, NEW m \in PoolNode, NEW n \in PoolNode, NEW type, Arrives(m, n, type)
    PROVE  /\ Taken(m, n) \in FairChan(admitted) /\ Room(Taken(m, n))
           /\ Head1(m, n) \in FairMessage(admitted) /\ Head1(m, n).type = type
BY TakenFair, Basics DEF Arrives

\* Types, after a step that changes neither manifests nor memberships.
LEMMA TypesStay ==
    ASSUME PoolIndInv, UNCHANGED <<man, mship, invite, calls, admitted, joined>>,
           blamed' \subseteq PoolNode
    PROVE  PoolTypes'
BY DEF PoolIndInv, PoolTypes

LEMMA TakeManifestKeeps ==
    ASSUME PoolIndInv, NEW m \in PoolNode, NEW n \in PoolNode, TakeManifest(m, n)
    PROVE  PoolIndInv'
<1> DEFINE new == Head1(m, n).m
           rec == [kind |-> "store", m |-> new]
<1>1. /\ Taken(m, n) \in FairChan(admitted) /\ Room(Taken(m, n))
      /\ new \in FairManifest(admitted)
  <2>1. Arrives(m, n, "manifest")
    BY DEF TakeManifest
  <2> QED
    BY <2>1, ArrivedIs DEF FairMessage
<1>2. rec \in FairHandler(admitted) /\ Refs(rec) = {}
  <2>1. rec \in FairHandler(admitted) /\ rec.kind = "store"
    BY <1>1 DEF FairHandler
  <2> HIDE DEF rec
  <2> QED
    BY <2>1, RefsAre
<1>3. Room(chan') /\ chan' \in FairChan(admitted)
  <2>1. man[n] # 0 => ManifestMessage(StoredAt(n)) \in FairMessage(admitted)
    BY HeldIsFair DEF ManifestMessage, FairMessage
  <2> QED
    BY <1>1, <2>1, SentFair DEF TakeManifest
<1>4. /\ pend' = pend \/ pend' = [pend EXCEPT ![n][m] = rec]
      /\ UNCHANGED <<obj, man, admitted, op>>
  BY DEF TakeManifest, Awaits
<1>5. PoolTypes'
  BY TypesStay DEF TakeManifest, PoolIndInv, PoolTypes
<1> HIDE DEF rec
<1> QED
  BY <1>2, <1>3, <1>4, <1>5, IdleIsFair, RefsAre, QuietActs

LEMMA TakeForeignKeeps ==
    ASSUME PoolIndInv, NEW m \in PoolNode, NEW n \in PoolNode, TakeForeign(m, n)
    PROVE  PoolIndInv'
<1>1. chan' \in FairChan(admitted) /\ Room(chan')
  BY ArrivedIs DEF TakeForeign
<1>2. UNCHANGED <<obj, man, admitted, op, pend>>
  BY DEF TakeForeign
<1>3. PoolTypes'
  BY TypesStay DEF TakeForeign, PoolIndInv, PoolTypes
<1> QED
  BY <1>1, <1>2, <1>3, IdleIsFair, RefsAre, QuietActs

\* A change that a signature of fair content confirms is fair.
LEMMA SignedIsFair ==
    ASSUME NEW A, NEW m \in FairManifest(A), NEW k \in PoolNode, NEW by \in PoolNode,
           ContentOf(WithRole(m, k, "member", by)) \in Signable(A),
           NEW sig \in [PoolNode -> Signable(A)]
    PROVE  [WithRole(m, k, "member", by) EXCEPT !.sig = sig] \in FairManifest(A)
<1> DEFINE new == WithRole(m, k, "member", by)
<1>1. m \in [ver : Nat, role : [PoolNode -> Role], by : PoolNode, sig : [PoolNode -> Signable(A)]]
  BY DEF FairManifest
<1>2. new \in [ver : Nat, role : [PoolNode -> Role], by : PoolNode, sig : [PoolNode -> Signable(A)]]
      /\ new.ver # 0
  <2>1. [m.role EXCEPT ![k] = "member"] \in [PoolNode -> Role]
        /\ m.ver + 1 \in Nat /\ m.ver + 1 # 0
    BY <1>1 DEF Role
  <2> QED
    BY <1>1, <2>1 DEF WithRole
<1> HIDE DEF new
<1>3. Fair(new.role, A)
  <2>1. ContentOf(new) \in Signable(A) /\ ContentOf(new).ver # 0
        /\ ContentOf(new).role = new.role
    BY <1>2 DEF ContentOf, new
  <2> QED
    BY <2>1 DEF Signable, NoContent
<1>4. [new EXCEPT !.sig = sig].role = new.role
      /\ [new EXCEPT !.sig = sig] \in
             [ver : Nat, role : [PoolNode -> Role], by : PoolNode, sig : [PoolNode -> Signable(A)]]
  BY <1>2
<1>5. [new EXCEPT !.sig = sig] \in FairManifest(A)
  BY <1>3, <1>4 DEF FairManifest
<1> QED
  BY <1>5 DEF new

LEMMA TakeUpdateKeeps ==
    ASSUME PoolIndInv, NEW m \in PoolNode, NEW n \in PoolNode, TakeUpdate(m, n)
    PROVE  PoolIndInv'
<1> DEFINE u == Head1(m, n)
           new == WithRole(StoredAt(n), u.key, "member", u.by)
           rec == pend'[n][m]
<1>1. /\ chan' \in FairChan(admitted) /\ Room(chan') /\ u \in FairMessage(admitted)
      /\ u.key \in PoolNode /\ u.by \in PoolNode /\ u.sig \in [PoolNode -> Signable(admitted)]
  <2>1. Arrives(m, n, "add") /\ chan' = Taken(m, n)
    BY DEF TakeUpdate
  <2>2. chan' \in FairChan(admitted) /\ Room(chan') /\ u \in FairMessage(admitted) /\ u.type = "add"
    BY <2>1, ArrivedIs
  <2> HIDE DEF u
  <2> QED
    BY <2>2 DEF FairMessage
<1>2. pend' = pend \/ (/\ pend' = [pend EXCEPT ![n][m] = rec] /\ rec \in FairHandler(admitted)
                      /\ Refs(rec) \subseteq {man[n]})
  <2> SUFFICES ASSUME pend' # pend
               PROVE  /\ pend' = [pend EXCEPT ![n][m] = rec] /\ rec \in FairHandler(admitted)
                      /\ Refs(rec) \subseteq {man[n]}
    OBVIOUS
  <2>1. /\ man[n] # 0
        /\ \/ /\ \E k \in PoolNode : u.sig[k] = ContentOf(new)
              /\ Awaits(n, m, [kind |-> "update", m |-> [new EXCEPT !.sig = u.sig], msg |-> u])
           \/ Awaits(n, m, [kind |-> "reply", at |-> man[n]])
    BY DEF TakeUpdate
  <2>2. StoredAt(n) \in FairManifest(admitted) /\ man[n] \in Slot
    BY <2>1, HeldIsFair
  <2>3. pend \in [PoolNode -> [PoolNode -> FairHandler(admitted)]]
    BY Basics
  <2>4. ASSUME NEW k \in PoolNode, u.sig[k] = ContentOf(new)
        PROVE  [new EXCEPT !.sig = u.sig] \in FairManifest(admitted)
    <3>1. ContentOf(new) \in Signable(admitted)
      BY <1>1, <2>4
    <3> DEFINE old == StoredAt(n)
               key == u.key
               by == u.by
               sig == u.sig
    <3>2. /\ old \in FairManifest(admitted) /\ key \in PoolNode /\ by \in PoolNode
          /\ sig \in [PoolNode -> Signable(admitted)]
          /\ ContentOf(WithRole(old, key, "member", by)) \in Signable(admitted)
      BY <1>1, <2>2, <3>1
    <3> HIDE DEF old, key, by, sig
    <3>3. [WithRole(old, key, "member", by) EXCEPT !.sig = sig] \in FairManifest(admitted)
      BY <3>2, SignedIsFair
    <3> QED
      BY <3>3 DEF old, key, by, sig
  <2>5. CASE /\ \E k \in PoolNode : u.sig[k] = ContentOf(new)
             /\ Awaits(n, m, [kind |-> "update", m |-> [new EXCEPT !.sig = u.sig], msg |-> u])
    <3> DEFINE copy == [new EXCEPT !.sig = u.sig]
    <3>1. copy \in FairManifest(admitted)
      BY <2>4, <2>5
    <3>2. Awaits(n, m, [kind |-> "update", m |-> copy, msg |-> u])
      BY <2>5
    <3> HIDE DEF copy, new, u
    <3>3. rec = [kind |-> "update", m |-> copy, msg |-> u] /\ pend' = [pend EXCEPT ![n][m] = rec]
      BY <2>3, <3>2 DEF Awaits
    <3>4. rec \in FairHandler(admitted) /\ rec.kind = "update"
      BY <1>1, <3>1, <3>3 DEF FairHandler, u
    <3> QED
      BY <3>3, <3>4, RefsAre
  <2>6. CASE Awaits(n, m, [kind |-> "reply", at |-> man[n]])
    <3>1. rec = [kind |-> "reply", at |-> man[n]] /\ pend' = [pend EXCEPT ![n][m] = rec]
      BY <2>3, <2>6 DEF Awaits
    <3>2. rec \in FairHandler(admitted) /\ rec.kind = "reply" /\ rec.at = man[n]
      BY <2>2, <3>1 DEF FairHandler
    <3> QED
      BY <3>1, <3>2, RefsAre
  <2> QED
    BY <2>1, <2>5, <2>6
<1>3. UNCHANGED <<obj, man, admitted, op>>
  BY DEF TakeUpdate
<1>4. PoolTypes'
  BY TypesStay DEF TakeUpdate, PoolIndInv, PoolTypes
<1> HIDE DEF rec
<1> QED
  BY <1>1, <1>2, <1>3, <1>4, IdleIsFair, RefsAre, QuietActs

LEMMA TakeLeaveKeeps ==
    ASSUME PoolIndInv, NEW m \in PoolNode, NEW n \in PoolNode, TakeLeave(m, n)
    PROVE  PoolIndInv'
<1> DEFINE u == Head1(m, n)
           key == u.key
           new == WithRole(StoredAt(n), key, None, key)
           rec == [kind |-> "update", m |-> new, msg |-> u]
<1>1. /\ chan' \in FairChan(admitted) /\ Room(chan') /\ u \in FairMessage(admitted)
      /\ key \in PoolNode /\ key # Creator
  <2>1. Arrives(m, n, "leave") /\ chan' = Taken(m, n)
    BY DEF TakeLeave
  <2>2. chan' \in FairChan(admitted) /\ Room(chan') /\ u \in FairMessage(admitted) /\ u.type = "leave"
    BY <2>1, ArrivedIs
  <2> HIDE DEF u
  <2> QED
    BY <2>2 DEF FairMessage
<1>2. pend' = pend \/ (man[n] # 0 /\ pend' = [pend EXCEPT ![n][m] = rec])
  BY DEF TakeLeave, Awaits
<1>3. man[n] # 0 => rec \in FairHandler(admitted) /\ Refs(rec) = {}
  <2> SUFFICES ASSUME man[n] # 0 PROVE rec \in FairHandler(admitted) /\ Refs(rec) = {}
    OBVIOUS
  <2> DEFINE old == StoredAt(n)
             A == admitted
             role == None
  <2>1. old \in FairManifest(A) /\ A \subseteq A /\ role \in Role
    BY HeldIsFair DEF Role
  <2> HIDE DEF old, A, key
  <2>2. WithRole(old, key, role, key) \in FairManifest(A)
    BY <1>1, <2>1, WithRoleFair
  <2>3. new \in FairManifest(admitted)
    BY <2>2 DEF old, A, role
  <2> HIDE DEF new, u
  <2>4. rec \in FairHandler(admitted) /\ rec.kind = "update"
    BY <1>1, <2>3 DEF FairHandler, u
  <2> HIDE DEF rec
  <2> QED
    BY <2>4, RefsAre
<1>4. UNCHANGED <<obj, man, admitted, op>>
  BY DEF TakeLeave
<1>5. PoolTypes'
  BY TypesStay DEF TakeLeave, PoolIndInv, PoolTypes
<1> HIDE DEF rec
<1>6. CASE pend' = pend
  BY <1>1, <1>4, <1>5, <1>6, IdleIsFair, RefsAre, QuietActs
<1>7. CASE man[n] # 0 /\ pend' = [pend EXCEPT ![n][m] = rec]
  BY <1>1, <1>3, <1>4, <1>5, <1>7, IdleIsFair, RefsAre, QuietActs
<1> QED
  BY <1>2, <1>6, <1>7

\* A fair manifest is stored in a slot, and the handler is done.
LEMMA InstallKeeps ==
    ASSUME PoolIndInv, NEW n \in PoolNode, NEW m \in PoolNode, NEW s \in Slot,
           NEW new \in FairManifest(admitted), Install(n, s, new), Awaits(n, m, Idle),
           chan' \in FairChan(admitted), Room(chan'),
           mship' = mship \/ \E v \in BOOLEAN : mship' = [mship EXCEPT ![n] = v],
           UNCHANGED <<invite, op, calls, admitted, joined, blamed>>
    PROVE  PoolIndInv'
<1> DEFINE contents == [obj[n] EXCEPT ![s] = new]
           rec == Idle
<1>1. PoolTypes'
  <2>1. man' \in [PoolNode -> {0} \cup Slot] /\ mship' \in [PoolNode -> BOOLEAN]
    BY Basics DEF Install
  <2> QED
    BY <2>1 DEF PoolIndInv, PoolTypes
<1>2. /\ contents \in [Slot -> {NoManifest} \cup FairManifest(admitted')]
      /\ \A t \in Held(n) \cup {s} : contents[t] \in FairManifest(admitted')
      /\ Objects(n, contents)
  BY Basics DEF Install
<1>3. /\ rec \in FairHandler(admitted') /\ Refs(rec) = {} /\ rec \in FairOp(admitted')
      /\ s \in {0} \cup Slot /\ man' = [man EXCEPT ![n] = s]
      /\ pend' = [pend EXCEPT ![n][m] = rec] /\ op' = op
      /\ admitted \subseteq admitted' /\ chan' \in FairChan(admitted')
  BY IdleIsFair, RefsAre DEF Install, Awaits
<1> HIDE DEF contents, rec
<1>4. \A t \in Held(n) \cup (({s} \cup Refs(rec) \cup Refs(rec)) \ {0}) :
          contents[t] \in FairManifest(admitted')
  BY <1>2, <1>3
<1> QED
  BY <1>1, <1>2, <1>3, <1>4, NodeActs

LEMMA StoreManifestKeeps ==
    ASSUME PoolIndInv, NEW m \in PoolNode, NEW n \in PoolNode, StoreManifest(m, n)
    PROVE  PoolIndInv'
<1> DEFINE new == pend[n][m].m
<1>1. new \in FairManifest(admitted) /\ NextSlot(n) \in Slot
  BY HeldIsFair, NextSlotIs DEF StoreManifest
<1>2. /\ chan' \in FairChan(admitted) /\ Room(chan') /\ calls' \in 0..MaxCalls
      /\ Awaits(n, m, Idle) /\ UNCHANGED <<op, calls, admitted, joined, blamed>>
  BY Basics DEF StoreManifest
<1>3. CASE mship[n] /\ ~IsMember(new, n)
  <2>1. /\ man' = [man EXCEPT ![n] = 0] /\ mship' = [mship EXCEPT ![n] = FALSE]
        /\ invite' = [invite EXCEPT !.open = @ /\ n # Creator]
        /\ Objects(n, obj[n]) /\ op' = op /\ pend' = [pend EXCEPT ![n][m] = Idle]
    BY <1>2, <1>3 DEF StoreManifest, DropPool, Awaits
  <2> QED
    BY <1>2, <2>1, IdleIsFair, RefsAre, DropKeeps
<1>4. CASE ~(mship[n] /\ ~IsMember(new, n))
  <2> DEFINE v == IsMember(new, n)
  <2>1. /\ mship' = [mship EXCEPT ![n] = v] /\ v \in BOOLEAN
        /\ Install(n, NextSlot(n), new) /\ UNCHANGED invite
    BY <1>4 DEF StoreManifest, IsMember
  <2> DEFINE s == NextSlot(n)
  <2>2. s \in Slot /\ Install(n, s, new)
    BY <1>1, <2>1
  <2>3. \E w \in BOOLEAN : mship' = [mship EXCEPT ![n] = w]
    BY <2>1
  <2> HIDE DEF v, s, new
  <2> QED
    BY <1>1, <1>2, <2>1, <2>2, <2>3, InstallKeeps
<1> QED
  BY <1>3, <1>4

LEMMA StoreUpdateKeeps ==
    ASSUME PoolIndInv, NEW m \in PoolNode, NEW n \in PoolNode, StoreUpdate(m, n)
    PROVE  PoolIndInv'
<1> DEFINE new == pend[n][m].m
           s == NextSlot(n)
<1>1. /\ new \in FairManifest(admitted) /\ s \in Slot
      /\ pend[n][m].msg \in FairMessage(admitted)
  BY HeldIsFair, NextSlotIs DEF StoreUpdate
<1>2. chan' \in FairChan(admitted) /\ Room(chan')
  BY <1>1, Basics, SentFair DEF StoreUpdate
<1>3. /\ Awaits(n, m, Idle) /\ UNCHANGED <<mship, invite, op, calls, admitted, joined, blamed>>
      /\ Install(n, s, new)
  BY DEF StoreUpdate
<1> HIDE DEF new, s
<1> QED
  BY <1>1, <1>2, <1>3, InstallKeeps

LEMMA ReplyUpdateKeeps ==
    ASSUME PoolIndInv, NEW m \in PoolNode, NEW n \in PoolNode, ReplyUpdate(m, n)
    PROVE  PoolIndInv'
<1> DEFINE contents == obj[n]
           rec == Idle
           s == 0
           msg == ManifestMessage(obj[n][pend[n][m].at])
<1>1. obj[n][pend[n][m].at] \in FairManifest(admitted)
  BY HeldIsFair DEF ReplyUpdate
<1>2. chan' \in FairChan(admitted) /\ Room(chan')
  <2>1. msg \in FairMessage(admitted)
    BY <1>1 DEF ManifestMessage, FairMessage
  <2> QED
    BY <2>1, Basics, SentFair DEF ReplyUpdate
<1>3. PoolTypes'
  BY TypesStay DEF ReplyUpdate, PoolIndInv, PoolTypes
<1>4. /\ contents \in [Slot -> {NoManifest} \cup FairManifest(admitted')]
      /\ Objects(n, contents) /\ s \in {0} \cup Slot
      /\ rec \in FairHandler(admitted') /\ rec \in FairOp(admitted')
      /\ pend' = [pend EXCEPT ![n][m] = rec] /\ op' = op /\ man' = man
      /\ admitted \subseteq admitted' /\ chan' \in FairChan(admitted')
  BY <1>2, Basics, IdleIsFair DEF ReplyUpdate, Awaits
<1>5. \A t \in Held(n) \cup (({s} \cup Refs(rec) \cup Refs(rec)) \ {0}) :
          contents[t] \in FairManifest(admitted')
  BY Basics, RefsAre DEF ReplyUpdate
<1> HIDE DEF contents, s, rec
<1> QED
  BY <1>2, <1>3, <1>4, <1>5, NodeActs

LEMMA TakeDeleteKeeps ==
    ASSUME PoolIndInv, NEW m \in PoolNode, NEW n \in PoolNode, TakeDelete(m, n)
    PROVE  PoolIndInv'
<1>1. /\ chan' \in FairChan(admitted) /\ Room(chan') /\ calls' \in 0..MaxCalls
      /\ UNCHANGED <<pend, op, admitted, joined, blamed, calls>>
  BY ArrivedIs, Basics DEF TakeDelete
<1>2. CASE UNCHANGED <<obj, man, mship, invite>>
  <2>1. PoolTypes'
    BY <1>1, <1>2, TypesStay DEF PoolIndInv, PoolTypes
  <2> QED
    BY <1>1, <1>2, <2>1, IdleIsFair, RefsAre, QuietActs
<1>3. CASE DropPool(n)
  BY <1>1, <1>3, IdleIsFair, RefsAre, DropKeeps DEF DropPool
<1> QED
  BY <1>2, <1>3 DEF TakeDelete

LEMMA TakeJoinKeeps ==
    ASSUME PoolIndInv, NEW m \in PoolNode, NEW n \in PoolNode, TakeJoin(m, n)
    PROVE  PoolIndInv'
<1> DEFINE new == WithRole(StoredAt(n), m, "member", n)
<1>1. /\ Taken(m, n) \in FairChan(admitted) /\ chan' = Taken(m, n) /\ Room(chan')
      /\ UNCHANGED <<man, mship, op, calls, blamed>>
  <2>1. Arrives(m, n, "join") /\ chan' = Taken(m, n)
    BY DEF TakeJoin
  <2> QED
    BY <2>1, ArrivedIs DEF TakeJoin
<1>2. man[n] # 0 => man[n] \in Slot /\ StoredAt(n) \in FairManifest(admitted)
  BY HeldIsFair
<1>3. CASE UNCHANGED <<obj, invite, pend, admitted, joined>>
  <2>1. PoolTypes'
    BY <1>1, <1>3, TypesStay DEF PoolIndInv, PoolTypes
  <2> QED
    BY <1>1, <1>3, <2>1, IdleIsFair, RefsAre, QuietActs
<1>4. CASE /\ man[n] # 0 /\ UNCHANGED <<obj, invite, admitted, joined>>
           /\ Awaits(n, m, [kind |-> "joined", at |-> man[n], content |-> NoContent])
  <2> DEFINE rec == [kind |-> "joined", at |-> man[n], content |-> NoContent]
  <2>1. PoolTypes'
    BY <1>1, <1>4, TypesStay DEF PoolIndInv, PoolTypes
  <2>2. NoContent \in Signable(admitted)
    BY DEF Signable
  <2>3. /\ rec \in FairHandler(admitted) /\ rec.kind = "joined" /\ rec.at = man[n]
        /\ pend' = [pend EXCEPT ![n][m] = rec]
    BY <1>2, <1>4, <2>2 DEF FairHandler, Awaits
  <2> HIDE DEF rec
  <2>4. Refs(rec) \cup Refs(Idle) \subseteq {man[n]}
    BY <2>3, RefsAre
  <2> QED
    BY <1>1, <1>4, <2>1, <2>3, <2>4, IdleIsFair, QuietActs
<1>5. CASE /\ man[n] # 0 /\ InviteValid /\ ~IsMember(StoredAt(n), m)
           /\ Awaits(n, m, [kind |-> "invited", at |-> man[n]])
           /\ invite' = [invite EXCEPT !.uses = @ + 1] /\ joined' = Append(joined, m)
           /\ admitted' = admitted \cup {<<m, "member">>}
           /\ Objects(n, [obj[n] EXCEPT ![man[n]] = new])
  <2> DEFINE rec == [kind |-> "invited", at |-> man[n]]
             contents == [obj[n] EXCEPT ![man[n]] = new]
             s == man[n]
             o == Idle
  <2>1. m # Creator
    BY <1>2, <1>5 DEF IsMember, FairManifest, Fair, None
  <2>2. new \in FairManifest(admitted')
    <3> DEFINE old == StoredAt(n)
               A == admitted
               B == admitted'
               role == "member"
    <3>1. A \subseteq B /\ old \in FairManifest(A) /\ <<m, role>> \in B /\ role \in Role
      BY <1>2, <1>5 DEF Role
    <3> HIDE DEF old, A, B, role
    <3>2. WithRole(old, m, role, n) \in FairManifest(B)
      BY <2>1, <3>1, WithRoleFair
    <3> QED
      BY <3>2 DEF old, B, role
  <2> HIDE DEF new
  <2>3. /\ rec \in FairHandler(admitted') /\ rec.kind = "invited" /\ rec.at = man[n]
        /\ pend' = [pend EXCEPT ![n][m] = rec]
    BY <1>2, <1>5 DEF FairHandler, Awaits
  <2>4. PoolTypes'
    <3>1. /\ invite \in [uses : 0..MaxUses, open : BOOLEAN] /\ joined \in Seq(PoolNode)
          /\ Len(joined) = invite.uses /\ invite.uses < MaxUses /\ MaxUses \in Nat
          /\ admitted \subseteq PoolNode \X Role
      BY <1>5, PoolAssumption DEF PoolIndInv, PoolTypes, InviteValid
    <3>2. invite' \in [uses : 0..MaxUses, open : BOOLEAN] /\ invite'.uses = invite.uses + 1
      <4>1. invite' = [invite EXCEPT !.uses = @ + 1]
        BY <1>5
      <4> QED
        BY <3>1, <4>1
    <3>3. joined' \in Seq(PoolNode) /\ Len(joined') = Len(joined) + 1
      BY <1>5, <3>1
    <3>4. admitted' \subseteq PoolNode \X Role
      BY <1>5, <3>1 DEF Role
    <3> QED
      BY <1>1, <3>1, <3>2, <3>3, <3>4 DEF PoolIndInv, PoolTypes
  <2>5. /\ contents \in [Slot -> {NoManifest} \cup FairManifest(admitted')]
        /\ \A t \in Held(n) \cup {man[n]} : contents[t] \in FairManifest(admitted')
        /\ Objects(n, contents)
    <3>1. FairManifest(admitted) \subseteq FairManifest(admitted') /\ man[n] \in Slot
      <4>1. admitted \subseteq admitted' /\ man[n] # 0
        BY <1>5
      <4>2. FairManifest(admitted) \subseteq FairManifest(admitted')
        BY <4>1, Grows
      <4> QED
        BY <1>2, <4>1, <4>2
    <3>2. Objects(n, contents)
      BY <1>5 DEF new
    <3>3. contents \in [Slot -> {NoManifest} \cup FairManifest(admitted')]
      BY <2>2, <3>1, Basics
    <3>4. ASSUME NEW t \in Held(n) \cup {man[n]}
          PROVE  contents[t] \in FairManifest(admitted')
      <4>1. t \in Slot
        <5>1. /\ man[n] \in {0} \cup Slot /\ pend[n] \in [PoolNode -> FairHandler(admitted)]
              /\ op[n] \in FairOp(admitted)
          BY Basics
        <5> QED
          BY <3>1, <5>1, HeldAreSlots DEF Held
      <4>2. t # man[n] => obj[n][t] \in FairManifest(admitted')
        BY <3>1, Basics
      <4> QED
        BY <2>2, <3>1, <4>1, <4>2, Basics
    <3> QED
      BY <3>2, <3>3, <3>4
  <2>6. /\ admitted \subseteq admitted' /\ chan' \in FairChan(admitted')
        /\ s \in {0} \cup Slot /\ o \in FairOp(admitted') /\ Refs(o) = {}
        /\ op' = op /\ man' = man
    BY <1>1, <1>2, <1>5, ChanGrows, IdleIsFair, RefsAre
  <2> HIDE DEF rec, contents, o
  <2>7. \A t \in Held(n) \cup (({s} \cup Refs(rec) \cup Refs(o)) \ {0}) :
            contents[t] \in FairManifest(admitted')
    BY <2>3, <2>5, <2>6, RefsAre
  <2> HIDE DEF s
  <2> QED
    BY <1>1, <2>3, <2>4, <2>5, <2>6, <2>7, NodeActs
<1> QED
  BY <1>3, <1>4, <1>5 DEF TakeJoin

LEMMA SignJoinKeeps ==
    ASSUME PoolIndInv, NEW m \in PoolNode, NEW n \in PoolNode, SignJoin(m, n)
    PROVE  PoolIndInv'
<1> DEFINE at == pend[n][m].at
           rec == [kind |-> "joined", at |-> at, content |-> ContentOf(obj[n][at])]
           contents == obj[n]
           s == 0
           o == Idle
<1>1. at \in Slot /\ at \in Held(n) /\ obj[n][at] \in FairManifest(admitted)
  BY HeldIsFair, HandlerRefs DEF SignJoin
<1>2. ContentOf(obj[n][at]) \in Signable(admitted)
  BY <1>1, ContentFair
<1>3. rec \in FairHandler(admitted) /\ rec.kind = "joined" /\ rec.at = at
  BY <1>1, <1>2 DEF FairHandler
<1>4. /\ pend' = [pend EXCEPT ![n][m] = rec] /\ UNCHANGED <<obj, man, chan, op, admitted>>
      /\ UNCHANGED <<mship, invite, calls, joined, blamed>>
  BY DEF SignJoin, Awaits
<1>5. PoolTypes'
  BY <1>4 DEF PoolIndInv, PoolTypes
<1>6. /\ contents \in [Slot -> {NoManifest} \cup FairManifest(admitted')]
      /\ obj' = obj /\ contents = obj[n] /\ s \in {0} \cup Slot
      /\ o \in FairOp(admitted') /\ Refs(o) = {} /\ man' = man /\ op' = op
      /\ admitted \subseteq admitted' /\ chan' \in FairChan(admitted') /\ Room(chan')
      /\ \A t \in Held(n) : contents[t] \in FairManifest(admitted')
  BY <1>4, Basics, IdleIsFair, RefsAre
<1>7. rec \in FairHandler(admitted') /\ Refs(rec) = {at}
  BY <1>3, <1>4, RefsAre
<1> HIDE DEF contents, s, rec, at, o
<1>8. \A t \in Held(n) \cup (({s} \cup Refs(rec) \cup Refs(o)) \ {0}) :
          contents[t] \in FairManifest(admitted')
  BY <1>1, <1>6, <1>7 DEF s
<1>9. pend' = [pend EXCEPT ![n][m] = rec]
  BY <1>4
<1> QED
  BY <1>5, <1>6, <1>7, <1>8, <1>9, NodeActs

LEMMA AnswerJoinKeeps ==
    ASSUME PoolIndInv, NEW m \in PoolNode, NEW n \in PoolNode, NEW ok \in BOOLEAN,
           AnswerJoin(m, n, ok)
    PROVE  PoolIndInv'
<1> DEFINE at == pend[n][m].at
           content == pend[n][m].content
           new == IF content = NoContent THEN obj[n][at] ELSE Signed(obj[n][at], n, content)
<1>1. /\ at \in Slot /\ at \in Held(n) /\ obj[n][at] \in FairManifest(admitted)
      /\ content \in Signable(admitted)
  BY HeldIsFair, HandlerRefs DEF AnswerJoin
<1>2. new \in FairManifest(admitted)
  BY <1>1, SignedFair
<1>3. chan' \in FairChan(admitted) /\ Room(chan')
  <2> DEFINE first == Sent(chan, n, {m}, ManifestMessage(new))
             u == Update(m, n, new.sig, ok)
  <2>1. chan' = Sent(first, n, PoolNode \ {m}, u) /\ Room(chan')
    BY DEF AnswerJoin
  <2> HIDE DEF new
  <2>2. ManifestMessage(new) \in FairMessage(admitted)
    BY <1>2 DEF ManifestMessage, FairMessage
  <2>3. first \in FairChan(admitted)
    BY <2>2, Basics, SentFair
  <2>4. u \in FairMessage(admitted)
    <3>1. new.sig \in [PoolNode -> Signable(admitted)]
      BY <1>2 DEF FairManifest
    <3> QED
      BY <3>1 DEF Update, FairMessage
  <2> HIDE DEF first, u
  <2> QED
    BY <2>1, <2>3, <2>4, SentFair
<1>4. Awaits(n, m, Idle) /\ UNCHANGED <<mship, invite, op, calls, admitted, joined, blamed>>
  BY DEF AnswerJoin
<1>5. CASE content = NoContent
  <2> DEFINE contents == obj[n]
             rec == Idle
             s == 0
  <2>1. UNCHANGED man /\ Objects(n, obj[n])
    BY <1>5 DEF AnswerJoin
  <2>2. PoolTypes'
    BY <1>4, <2>1, TypesStay DEF PoolIndInv, PoolTypes
  <2>3. /\ contents \in [Slot -> {NoManifest} \cup FairManifest(admitted')]
        /\ Objects(n, contents) /\ s \in {0} \cup Slot
        /\ rec \in FairHandler(admitted') /\ rec \in FairOp(admitted')
        /\ pend' = [pend EXCEPT ![n][m] = rec] /\ op' = op /\ man' = man
        /\ admitted \subseteq admitted' /\ chan' \in FairChan(admitted')
    BY <1>3, <1>4, <2>1, Basics, IdleIsFair DEF Awaits
  <2>4. \A t \in Held(n) \cup (({s} \cup Refs(rec) \cup Refs(rec)) \ {0}) :
            contents[t] \in FairManifest(admitted')
    BY <1>4, Basics, RefsAre
  <2> HIDE DEF contents, rec, s
  <2> QED
    BY <1>3, <2>2, <2>3, <2>4, NodeActs
<1>6. CASE content # NoContent
  <2>1. Install(n, at, new)
    BY <1>6 DEF AnswerJoin
  <2> HIDE DEF at, new
  <2> QED
    BY <1>1, <1>2, <1>3, <1>4, <2>1, InstallKeeps
<1> QED
  BY <1>5, <1>6

----------------------------------------------------------------------------
(* Connections. *)

LEMMA SyncsFair ==
    ASSUME PoolIndInv, NEW ch \in FairChan(admitted), NEW n \in PoolNode, NEW m \in PoolNode
    PROVE  Syncs(ch, n, m) \in FairChan(admitted)
<1>1. CASE mship[n] /\ man[n] # 0
  <2> DEFINE msg == ManifestMessage(StoredAt(n))
  <2>1. msg \in FairMessage(admitted)
    BY <1>1, HeldIsFair DEF ManifestMessage, FairMessage
  <2> HIDE DEF msg
  <2>2. Append(ch[n][m], msg) \in Seq(FairMessage(admitted))
    BY <2>1 DEF FairChan
  <2>3. [ch EXCEPT ![n][m] = Append(@, msg)] \in FairChan(admitted)
    BY <2>2 DEF FairChan
  <2> QED
    BY <1>1, <2>3 DEF Syncs, msg
<1>2. CASE ~(mship[n] /\ man[n] # 0)
  BY <1>2 DEF Syncs
<1> QED
  BY <1>1, <1>2

LEMMA ConnectionsKeep ==
    ASSUME PoolIndInv, NEW m \in PoolNode, NEW n \in PoolNode,
           (\E both \in BOOLEAN : Connect(m, n, both)) \/ Cut(m, n)
    PROVE  PoolIndInv'
<1>1. UNCHANGED <<obj, man, mship, invite, pend, op, admitted, joined, blamed>>
  BY DEF Connect, Cut
<1>2. calls' \in 0..MaxCalls
  BY CalledIs, Basics DEF Connect, Cut
<1>3. chan' \in FairChan(admitted) /\ Room(chan')
  <2>1. ASSUME NEW both \in BOOLEAN, Connect(m, n, both)
        PROVE  chan' \in FairChan(admitted) /\ Room(chan')
    <3> DEFINE first == Syncs(chan, n, m)
    <3>1. first \in FairChan(admitted)
      BY Basics, SyncsFair
    <3>2. Syncs(first, m, n) \in FairChan(admitted)
      <4> HIDE DEF first
      <4> QED
        BY <3>1, SyncsFair
    <3> QED
      BY <2>1, <3>1, <3>2 DEF Connect
  <2>2. CASE Cut(m, n)
    <3>1. chan' = [chan EXCEPT ![m][n] = <<>>, ![n][m] = <<>>]
      BY <2>2 DEF Cut
    <3>2. <<>> \in Seq(FairMessage(admitted)) /\ Len(<<>>) = 0
      OBVIOUS
    <3>3. chan' \in FairChan(admitted)
      BY <3>1, <3>2, Basics DEF FairChan
    <3>4. \A k, l \in PoolNode : chan'[k][l] = chan[k][l] \/ chan'[k][l] = <<>>
      BY <3>1, Basics DEF FairChan
    <3>5. Room(chan')
      BY <3>2, <3>4, Basics, PoolAssumption DEF Room
    <3> QED
      BY <3>3, <3>5
  <2> QED
    BY <2>1, <2>2
<1>4. PoolTypes'
  BY <1>1, <1>2 DEF PoolIndInv, PoolTypes
<1> QED
  BY <1>1, <1>3, <1>4, IdleIsFair, RefsAre, QuietActs

LEMMA CloseInviteKeeps == ASSUME PoolIndInv, CloseInvite PROVE PoolIndInv'
<1>1. UNCHANGED <<obj, man, mship, chan, pend, op, calls, admitted, joined, blamed>>
      /\ invite' = [invite EXCEPT !.open = FALSE]
  BY DEF CloseInvite
<1>2. invite' \in [uses : 0..MaxUses, open : BOOLEAN] /\ invite'.uses = invite.uses
  BY <1>1 DEF PoolIndInv, PoolTypes
<1>3. PoolTypes'
  BY <1>1, <1>2 DEF PoolIndInv, PoolTypes
<1>4. chan' \in FairChan(admitted) /\ Room(chan') /\ Creator \in PoolNode
  BY <1>1, PoolAssumption DEF PoolIndInv, AllFair
<1> QED
  BY <1>1, <1>3, <1>4, IdleIsFair, RefsAre, QuietActs

----------------------------------------------------------------------------
LEMMA PoolStarts == PoolInit => PoolIndInv
<1> SUFFICES ASSUME PoolInit PROVE PoolIndInv
  OBVIOUS
<1> PICK role \in FirstRoles : InitWith(role)
  BY DEF PoolInit
<1>1. role \in [PoolNode -> Role] /\ role[Creator] = "creator" /\ Creator \in PoolNode
      /\ MaxUses \in Nat /\ MaxInbox \in Nat /\ MaxCalls \in Nat
  BY PoolAssumption
<1>2. PoolTypes
  <2>1. admitted \subseteq PoolNode \X Role
    BY <1>1 DEF InitWith
  <2>2. man \in [PoolNode -> {0} \cup Slot] /\ mship \in [PoolNode -> BOOLEAN]
    BY DEF InitWith, Slot
  <2>3. joined = <<>> /\ blamed = {} /\ calls = 0 /\ invite = [uses |-> 0, open |-> TRUE]
    BY DEF PoolInit
  <2>4. joined \in Seq(PoolNode) /\ Len(joined) = 0
    BY <2>3
  <2> QED
    BY <1>1, <2>1, <2>2, <2>3, <2>4 DEF PoolTypes
<1>3. Fair(role, admitted)
  BY <1>1 DEF Fair, InitWith
<1>4. FirstManifest(role) \in FairManifest(admitted)
  <2> DEFINE content == [ver |-> 1, role |-> role, by |-> Creator]
  <2>1. content \in Signable(admitted) /\ NoContent \in Signable(admitted)
    BY <1>1, <1>3 DEF Signable
  <2> QED
    BY <1>1, <1>3, <2>1 DEF FirstManifest, FairManifest
<1>5. /\ obj \in FairObj(admitted)
      /\ \A n \in PoolNode : man[n] # 0 => obj[n][man[n]] = FirstManifest(role)
  <2> DEFINE first == FirstManifest(role)
  <2>1. /\ obj = [n \in PoolNode |-> [s \in Slot |->
                    IF s = 1 /\ n \in {k \in PoolNode : role[k] # None} THEN first ELSE NoManifest]]
        /\ man = [n \in PoolNode |-> IF n \in {k \in PoolNode : role[k] # None} THEN 1 ELSE 0]
    BY DEF InitWith
  <2>2. first \in FairManifest(admitted) /\ 1 \in Slot
    BY <1>4 DEF Slot
  <2> HIDE DEF first
  <2>3. obj \in FairObj(admitted)
    BY <2>1, <2>2 DEF FairObj
  <2>4. ASSUME NEW n \in PoolNode, man[n] # 0 PROVE obj[n][man[n]] = first
    <3>1. n \in {k \in PoolNode : role[k] # None} /\ man[n] = 1
      BY <2>1, <2>4
    <3> QED
      BY <2>1, <2>2, <3>1
  <2> QED
    BY <2>3, <2>4 DEF first
<1>6. /\ chan \in FairChan(admitted) /\ pend \in FairPend(admitted)
      /\ op \in [PoolNode -> FairOp(admitted)] /\ Room(chan)
  <2>1. <<>> \in Seq(FairMessage(admitted)) /\ Len(<<>>) = 0
    OBVIOUS
  <2> QED
    BY <1>1, <2>1, IdleIsFair DEF PoolInit, FairChan, FairPend, Room
<1>7. \A n \in PoolNode : Held(n) \subseteq {man[n]} \ {0}
  BY RefsAre DEF PoolInit, Held, HeldBy, SlotsOf
<1>8. HeldFair
  BY <1>4, <1>5, <1>7 DEF HeldFair
<1> QED
  BY <1>2, <1>5, <1>6, <1>8 DEF PoolIndInv, AllFair

LEMMA PoolIndInvGives == PoolIndInv => PoolInv
<1> SUFFICES ASSUME PoolIndInv PROVE PoolInv
  OBVIOUS
<1>1. PoolTypeOK
  <2>1. \A n \in PoolNode, s \in Slot :
           obj[n][s].ver \in Nat /\ obj[n][s].role \in [PoolNode -> Role]
    <3>1. NoManifest.ver = 0 /\ NoManifest.role \in [PoolNode -> Role]
      BY DEF NoManifest, Role
    <3> QED
      BY <3>1, Basics DEF FairManifest
  <2>2. \A m, n \in PoolNode : Len(chan[m][n]) <= MaxInbox
    BY DEF PoolIndInv, Room
  <2> QED
    BY <2>1, <2>2 DEF PoolIndInv, PoolTypes, PoolTypeOK
<1>2. \A m \in Manifests : m \in FairManifest(admitted)
  BY HeldIsFair DEF Manifests
<1>3. RolesWereGranted /\ CreatorStays
  BY <1>2 DEF RolesWereGranted, CreatorStays, FairManifest, Fair, IsMember
<1>4. InviteWithinUses
  BY DEF PoolIndInv, PoolTypes, InviteWithinUses
<1> QED
  BY <1>1, <1>3, <1>4 DEF PoolInv

\* PoolInv holds in every reachable state, for any nodes, first roles, uses of
\* the invite and operations: coroutines that overwrite each other's manifest, and
\* messages that overtake each other, give nobody a role that no admin and no
\* invite gave, the creator stays, and the invite is not overused.
THEOREM RolesAreGranted == PoolSpec => []PoolInv
<1>1. PoolIndInv /\ [PoolNext]_poolVars => PoolIndInv'
  <2> SUFFICES ASSUME PoolIndInv, [PoolNext]_poolVars PROVE PoolIndInv'
    OBVIOUS
  <2>1. ASSUME NEW n \in PoolNode, PoolOperation(n) PROVE PoolIndInv'
    BY <2>1, ChangeKeeps, CallKeeps, FinishKeeps, DeleteKeeps DEF PoolOperation
  <2>2. ASSUME NEW m \in PoolNode, NEW n \in PoolNode, PoolHandler(m, n) PROVE PoolIndInv'
    BY <2>2, TakeManifestKeeps, StoreManifestKeeps, TakeJoinKeeps, SignJoinKeeps,
       AnswerJoinKeeps, TakeForeignKeeps, TakeUpdateKeeps, TakeLeaveKeeps, StoreUpdateKeeps, ReplyUpdateKeeps,
       TakeDeleteKeeps DEF PoolHandler
  <2>3. CASE UNCHANGED poolVars
    <3>1. UNCHANGED <<obj, man, mship, invite, chan, pend, op, calls, admitted, joined, blamed>>
      BY <2>3 DEF poolVars
    <3>2. chan' \in FairChan(admitted) /\ Room(chan') /\ Creator \in PoolNode
      BY <3>1, PoolAssumption DEF PoolIndInv, AllFair
    <3>3. PoolTypes'
      BY <3>1 DEF PoolIndInv, PoolTypes
    <3> QED
      BY <3>1, <3>2, <3>3, IdleIsFair, RefsAre, QuietActs
  <2> QED
    BY <2>1, <2>2, <2>3, ConnectionsKeep, CloseInviteKeeps DEF PoolNext
<1> QED
  BY PoolStarts, PoolIndInvGives, <1>1, PTL DEF PoolSpec

----------------------------------------------------------------------------
(* The book of known peers. *)

Configured == Manual \cup Bootstrap

Entry == [source : Source, id : BookPeer \cup {Unnamed}, failures : 0..FailureCap,
          wait : 0..BackoffMax, age : 0..CleanupAge]

\* What is configured bears a source that no cleanup drops, in the book ...
BookKept(b) ==
    /\ DOMAIN b \subseteq Addr /\ b \in [DOMAIN b -> Entry]
    /\ \A a \in DOMAIN b \cap Configured : b[a].source \in {"manual", "bootstrap"}

\* ... and in the file, from which the next start takes it.
FileKept(file) ==
    /\ DOMAIN file \subseteq Addr
    /\ \A a \in DOMAIN file :
          /\ file[a] \in FileEntry
          /\ a \in Configured => file[a].source \in {"manual", "bootstrap"}

SweepShape ==
    /\ sweep.at \in {"rest", "next", "dialling", "asleep"}
    /\ "at" \in DOMAIN sweep

BookIndInv ==
    /\ BookKept(book) /\ Configured \subseteq Known /\ FileKept(bookFile)
    /\ SweepShape
    /\ up \subseteq Addr /\ conns \subseteq BookPeer /\ boots \in 0..MaxBoots

LEMMA BookGives == BookIndInv => BookInv
<1> SUFFICES ASSUME BookIndInv PROVE BookInv
  OBVIOUS
<1>1. \A a \in Known : book[a] \in Entry
  BY DEF BookIndInv, BookKept, Known
<1>2. BookTypeOK
  BY <1>1 DEF BookTypeOK, BookIndInv, BookKept, Known, Entry, SweepShape
<1>3. ConfiguredStay
  BY DEF ConfiguredStay, BookIndInv, Configured
<1> QED
  BY <1>2, <1>3 DEF BookInv

\* The subsets of a set of n elements are counted by a power of two.
LEMMA PowerOfTwo == ASSUME NEW n \in Nat PROVE 2^n \in Nat \ {0}
<1> DEFINE S == 1..n
<1>1. IsFiniteSet(S) /\ Cardinality(S) = n
  <2>1. IsFiniteSet(S) /\ Cardinality(S) = IF 1 > n THEN 0 ELSE n - 1 + 1
    BY FS_Interval
  <2> QED
    BY <2>1
<1> HIDE DEF S
<1>2. IsFiniteSet(SUBSET S) /\ Cardinality(SUBSET S) = 2^n
  BY <1>1, FS_SUBSET
<1>3. Cardinality(SUBSET S) \in Nat
  BY <1>2, FS_CardinalityType
<1>4. Cardinality(SUBSET S) # 0
  <2>1. {} \in SUBSET S
    OBVIOUS
  <2> QED
    BY <1>2, <2>1, FS_EmptySet
<1> QED
  BY <1>2, <1>3, <1>4

\* The lesser and the greater of two.
LEMMA OfTwo ==
    ASSUME NEW a \in Int, NEW b \in Int
    PROVE  /\ Min({a, b}) = (IF a <= b THEN a ELSE b)
           /\ Max({a, b}) = (IF a >= b THEN a ELSE b)
<1>1. \E x \in {a, b} : \A y \in {a, b} : x <= y
  OBVIOUS
<1>2. \E x \in {a, b} : \A y \in {a, b} : x >= y
  OBVIOUS
<1>3. Min({a, b}) \in {a, b} /\ \A y \in {a, b} : Min({a, b}) <= y
  BY <1>1 DEF Min
<1>4. Max({a, b}) \in {a, b} /\ \A y \in {a, b} : Max({a, b}) >= y
  BY <1>2 DEF Max
<1>5. Min({a, b}) = (IF a <= b THEN a ELSE b)
  BY <1>3
<1>6. Max({a, b}) = (IF a >= b THEN a ELSE b)
  BY <1>4
<1> QED
  BY <1>5, <1>6

\* The bounds are numbers.
LEMMA BookBounds ==
    /\ FailureCap \in Nat \ {0} /\ BackoffMax \in Nat \ {0} /\ CleanupAge \in Nat
    /\ MaxBoots \in Nat /\ Unnamed \notin BookPeer
    /\ \A a \in Addr : PeerAt[a] \in BookPeer
BY BookAssumption

\* An attempt changes the numbers of an entry only, within their bounds.
LEMMA RecordedIsEntry ==
    ASSUME NEW rec \in Entry, NEW success \in BOOLEAN
    PROVE  Recorded(rec, success) \in Entry /\ Recorded(rec, success).source = rec.source
<1>1. CASE success
  <2>1. Recorded(rec, success) = [rec EXCEPT !.failures = 0, !.wait = 0, !.age = 0]
    BY <1>1 DEF Recorded
  <2>2. 0 \in 0..FailureCap /\ 0 \in 0..BackoffMax /\ 0 \in 0..CleanupAge
    BY BookBounds
  <2> QED
    BY <2>1, <2>2 DEF Entry
<1>2. CASE ~success
  <2> DEFINE f == Min({rec.failures + 1, FailureCap})
  <2>1. rec.failures + 1 \in Int /\ FailureCap \in Int /\ rec.failures \in 0..FailureCap
    BY BookBounds DEF Entry
  <2>2. f = IF rec.failures + 1 <= FailureCap THEN rec.failures + 1 ELSE FailureCap
    BY <2>1, OfTwo
  <2>3. f \in 1..FailureCap
    BY <2>1, <2>2, BookBounds
  <2> HIDE DEF f
  <2>4. Backoff(f) \in 0..BackoffMax
    <3>1. f - 1 \in Nat
      BY <2>3, BookBounds
    <3> DEFINE w == 2^(f - 1)
    <3>2. w \in Nat
      BY <3>1, PowerOfTwo
    <3> HIDE DEF w
    <3>3. Min({BackoffMax, w}) = IF BackoffMax <= w THEN BackoffMax ELSE w
      BY <3>2, BookBounds, OfTwo
    <3>4. Min({BackoffMax, w}) \in 0..BackoffMax
      BY <3>2, <3>3, BookBounds
    <3> QED
      BY <3>4 DEF Backoff, w
  <2>5. Recorded(rec, success) = [rec EXCEPT !.failures = f, !.wait = Backoff(f)]
    BY <1>2 DEF Recorded, f
  <2>6. f \in 0..FailureCap
    BY <2>3, BookBounds
  <2> QED
    BY <2>4, <2>5, <2>6 DEF Entry
<1> QED
  BY <1>1, <1>2

\* A new entry bears the source it is given.
LEMMA FreshIsEntry ==
    ASSUME NEW source \in Source, NEW id \in BookPeer \cup {Unnamed}
    PROVE  Fresh(source, id) \in Entry /\ Fresh(source, id).source = source
BY BookBounds DEF Fresh, Entry

\* An address is learned: a configured one is in the book already.
LEMMA AddKeeps ==
    ASSUME BookKept(book), Configured \subseteq Known, NEW a \in Addr, NEW id \in BookPeer,
           NEW source \in Source, book' = AddPeer(book, a, id, source)
    PROVE  BookKept(book)' /\ Configured \subseteq Known'
<1>1. CASE a \notin Known
  <2>1. book' = [k \in Known \cup {a} |-> IF k = a THEN Fresh(source, id) ELSE book[k]]
    BY <1>1 DEF AddPeer, Entered, Known
  <2>2. Fresh(source, id) \in Entry
    BY FreshIsEntry
  <2>3. a \notin Configured
    BY <1>1
  <2>4. DOMAIN book' = Known \cup {a}
    BY <2>1
  <2>5. \A k \in Known : book[k] \in Entry /\ k \in Addr
    BY DEF BookKept, Known
  <2>6. book' \in [Known \cup {a} -> Entry]
    BY <2>1, <2>2, <2>5
  <2>7. \A k \in Known : k # a /\ book'[k] = book[k]
    BY <1>1, <2>1
  <2> QED
    BY <2>3, <2>4, <2>5, <2>6, <2>7 DEF BookKept, Known
<1>2. CASE a \in Known
  <2>1. book' = book \/ book' = [book EXCEPT ![a].id = id]
    BY <1>2 DEF AddPeer, Known
  <2>2. CASE book' = book
    BY <2>2 DEF BookKept, Known
  <2>3. CASE book' = [book EXCEPT ![a].id = id]
    <3>1. book \in [Known -> Entry]
      BY DEF BookKept, Known
    <3>2. \A k \in Known : book'[k] \in Entry /\ book'[k].source = book[k].source
      BY <2>3, <3>1 DEF Entry
    <3>3. DOMAIN book' = Known /\ book' \in [Known -> Entry]
      BY <2>3, <3>1, <3>2
    <3> QED
      BY <3>2, <3>3 DEF BookKept, Known
  <2> QED
    BY <2>1, <2>2, <2>3
<1> QED
  BY <1>1, <1>2

\* What start() makes of a file.
LEMMA StartKeeps ==
    ASSUME NEW file, FileKept(file)
    PROVE  LET b == Started(Loaded(file)) IN BookKept(b) /\ Configured \subseteq DOMAIN b
<1> DEFINE l == Loaded(file)
           b == Started(l)
<1>1. /\ DOMAIN l \subseteq DOMAIN file
      /\ \A a \in DOMAIN l : l[a] = [Fresh(file[a].source, file[a].id) EXCEPT !.age = file[a].age]
  BY DEF Loaded
<1>2. \A a \in DOMAIN l : /\ l[a] \in Entry /\ l[a].source = file[a].source /\ a \in Addr
                          /\ a \in Configured => l[a].source \in {"manual", "bootstrap"}
  <2> SUFFICES ASSUME NEW a \in DOMAIN l
               PROVE  /\ l[a] \in Entry /\ l[a].source = file[a].source /\ a \in Addr
                      /\ a \in Configured => l[a].source \in {"manual", "bootstrap"}
    OBVIOUS
  <2>1. a \in DOMAIN file /\ file[a] \in FileEntry /\ a \in Addr
        /\ (a \in Configured => file[a].source \in {"manual", "bootstrap"})
    BY <1>1 DEF FileKept
  <2> DEFINE f == Fresh(file[a].source, file[a].id)
  <2>2. f \in Entry /\ f.source = file[a].source
    BY <2>1, FreshIsEntry DEF FileEntry
  <2>3. l[a] = [f EXCEPT !.age = file[a].age]
    BY <1>1
  <2>4. file[a].age \in 0..CleanupAge
    BY <2>1 DEF FileEntry
  <2> HIDE DEF f, l
  <2>5. l[a] \in Entry /\ l[a].source = f.source
    BY <2>2, <2>3, <2>4 DEF Entry
  <2> QED
    BY <2>1, <2>2, <2>5
<1> HIDE DEF l
<1>3. /\ DOMAIN b = DOMAIN l \cup Configured
      /\ \A a \in DOMAIN b :
            b[a] = IF a \in DOMAIN l THEN l[a]
                   ELSE Fresh(IF a \in Manual THEN "manual" ELSE "bootstrap", Unnamed)
      /\ b \in [DOMAIN b -> {b[a] : a \in DOMAIN b}]
  BY DEF Started, Configured
<1> HIDE DEF b
<1>4. Configured \subseteq Addr
  BY BookAssumption DEF Configured
<1>5. \A a \in DOMAIN b : /\ a \in Addr /\ b[a] \in Entry
                          /\ a \in Configured => b[a].source \in {"manual", "bootstrap"}
  <2> SUFFICES ASSUME NEW a \in DOMAIN b
               PROVE  /\ a \in Addr /\ b[a] \in Entry
                      /\ a \in Configured => b[a].source \in {"manual", "bootstrap"}
    OBVIOUS
  <2>1. CASE a \in DOMAIN l
    BY <1>2, <1>3, <2>1
  <2>2. CASE a \notin DOMAIN l
    <3> DEFINE src == IF a \in Manual THEN "manual" ELSE "bootstrap"
    <3>1. src \in Source /\ src \in {"manual", "bootstrap"}
      BY DEF Source
    <3>2. b[a] = Fresh(src, Unnamed)
      BY <1>3, <2>2
    <3> HIDE DEF src
    <3>3. b[a] \in Entry /\ b[a].source = src
      BY <3>1, <3>2, FreshIsEntry
    <3> QED
      BY <1>3, <1>4, <2>2, <3>1, <3>3
  <2> QED
    BY <2>1, <2>2
<1>6. b \in [DOMAIN b -> Entry]
  BY <1>3, <1>5
<1> QED
  BY <1>3, <1>5, <1>6 DEF BookKept, b, l

LEMMA BookBegins == BookInit => BookIndInv
<1> SUFFICES ASSUME BookInit PROVE BookIndInv
  OBVIOUS
<1>1. FileKept(bookFile)
  BY BookAssumption DEF BookInit, FileKept, Configured
<1>2. BookKept(book) /\ Configured \subseteq Known
  BY <1>1, StartKeeps DEF BookInit, Known
<1>3. SweepShape /\ up \subseteq Addr /\ conns \subseteq BookPeer /\ boots \in 0..MaxBoots
  BY BookBounds DEF BookInit, SweepShape, Resting
<1> QED
  BY <1>1, <1>2, <1>3 DEF BookIndInv

\* A dial is recorded at its address.
LEMMA DialledKeeps ==
    ASSUME BookIndInv, Dialled
    PROVE  BookIndInv'
<1> DEFINE a == Head(sweep.todo)
           next == [sweep EXCEPT !.at = "next", !.todo = Tail(@)]
<1>1. /\ sweep.at = "dialling" /\ UNCHANGED <<up, bookFile, boots>>
      /\ \/ /\ Reached(a) /\ conns' = conns \cup {PeerAt[a]}
            /\ sweep' = [next EXCEPT !.ids = @ \cup {PeerAt[a]}, !.count = @ + 1]
            /\ book' = [book EXCEPT ![a] = Recorded([@ EXCEPT !.id = PeerAt[a]], TRUE)]
         \/ /\ sweep' = next /\ conns' = conns
            /\ book' = [book EXCEPT ![a] = Recorded(@, FALSE)]
  BY DEF Dialled
<1>2. /\ book \in [Known -> Entry] /\ up \subseteq Addr /\ conns \subseteq BookPeer
      /\ Known \subseteq Addr
  BY DEF BookIndInv, BookKept, Known
<1>3. "at" \in DOMAIN sweep
  BY DEF BookIndInv, SweepShape
<1>4. SweepShape'
  <2>1. next.at = "next" /\ "at" \in DOMAIN next
    BY <1>3
  <2>2. sweep' = next \/ sweep' = [next EXCEPT !.ids = @ \cup {PeerAt[a]}, !.count = @ + 1]
    BY <1>1
  <2> HIDE DEF a, next
  <2>3. sweep'.at = "next" /\ "at" \in DOMAIN sweep'
    BY <2>1, <2>2
  <2> QED
    BY <2>3 DEF SweepShape
<1>5. conns' \subseteq BookPeer
  <2>1. Reached(a) => a \in Addr /\ PeerAt[a] \in BookPeer
    BY <1>2, BookBounds DEF Reached
  <2> QED
    BY <1>1, <1>2, <2>1
<1>6. \E rec : /\ book' = [book EXCEPT ![a] = rec]
               /\ a \in Known => rec \in Entry /\ rec.source = book[a].source
  <2>1. CASE /\ Reached(a)
             /\ book' = [book EXCEPT ![a] = Recorded([@ EXCEPT !.id = PeerAt[a]], TRUE)]
    <3> DEFINE named == [book[a] EXCEPT !.id = PeerAt[a]]
               rec == Recorded(named, TRUE)
    <3>1. book' = [book EXCEPT ![a] = rec]
      BY <2>1
    <3>2. PeerAt[a] \in BookPeer
      BY <1>2, <2>1, BookBounds DEF Reached
    <3>3. a \in Known => named \in Entry /\ named.source = book[a].source
      <4>1. a \in Known => book[a] \in Entry
        BY <1>2
      <4> QED
        BY <3>2, <4>1 DEF Entry
    <3> HIDE DEF named
    <3>4. a \in Known => rec \in Entry /\ rec.source = book[a].source
      BY <3>3, RecordedIsEntry
    <3> HIDE DEF rec
    <3> QED
      BY <3>1, <3>4
  <2>2. CASE book' = [book EXCEPT ![a] = Recorded(@, FALSE)]
    <3> DEFINE rec == Recorded(book[a], FALSE)
    <3>1. book' = [book EXCEPT ![a] = rec]
      BY <2>2
    <3>2. a \in Known => book[a] \in Entry
      BY <1>2
    <3>3. a \in Known => rec \in Entry /\ rec.source = book[a].source
      BY <3>2, RecordedIsEntry
    <3> HIDE DEF rec
    <3> QED
      BY <3>1, <3>3
  <2> QED
    BY <1>1, <2>1, <2>2
<1>7. BookKept(book)' /\ Known' = Known
  <2> HIDE DEF a, next
  <2> PICK rec : /\ book' = [book EXCEPT ![a] = rec]
                 /\ a \in Known => rec \in Entry /\ rec.source = book[a].source
    BY <1>6
  <2>1. DOMAIN book' = Known /\ book' \in [Known -> Entry]
    BY <1>2
  <2>2. \A k \in Known : book'[k].source = book[k].source
    BY <1>2
  <2> QED
    BY <1>2, <2>1, <2>2 DEF BookKept, BookIndInv, Known
<1> QED
  BY <1>1, <1>4, <1>5, <1>7 DEF BookIndInv

\* A cleanup drops no configured address.
LEMMA CleanUpKeeps ==
    ASSUME BookIndInv, CleanUp
    PROVE  BookIndInv'
<1>1. /\ sweep' = [at |-> "asleep"] /\ UNCHANGED <<up, conns, bookFile, boots>>
      /\ book' = [a \in {k \in Known : ~Droppable(book[k])} |-> book[a]]
  BY DEF CleanUp
<1>2. /\ book \in [Known -> Entry] /\ Known \subseteq Addr /\ Configured \subseteq Known
      /\ \A k \in Configured : book[k].source \in {"manual", "bootstrap"}
  BY DEF BookIndInv, BookKept, Known
<1> DEFINE S == {k \in Known : ~Droppable(book[k])}
<1>3. Configured \subseteq S
  BY <1>2 DEF Droppable
<1>4. S \subseteq Known
  OBVIOUS
<1>5. book' = [a \in S |-> book[a]]
  BY <1>1
<1> HIDE DEF S
<1>6. BookKept(book)' /\ Known' = S
  BY <1>2, <1>4, <1>5 DEF BookKept, Known
<1>7. SweepShape'
  BY <1>1 DEF SweepShape
<1> QED
  BY <1>1, <1>3, <1>6, <1>7 DEF BookIndInv

\* Time counts down what is left of backoffs.
LEMMA TickKeeps ==
    ASSUME BookIndInv, Tick
    PROVE  BookIndInv'
<1>1. /\ sweep' = Resting /\ UNCHANGED <<up, conns, bookFile, boots>>
      /\ book' = [a \in Known |-> [book[a] EXCEPT !.wait = Max({0, @ - 1}),
                                                  !.age = Min({CleanupAge, @ + 1})]]
  BY DEF Tick
<1>2. book \in [Known -> Entry] /\ Known \subseteq Addr
  BY DEF BookIndInv, BookKept, Known
<1>3. ASSUME NEW rec \in Entry
      PROVE  Max({0, rec.wait - 1}) \in 0..BackoffMax
             /\ Min({CleanupAge, rec.age + 1}) \in 0..CleanupAge
  <2> DEFINE w == rec.wait - 1
             g == rec.age + 1
  <2>1. w \in Int /\ w < BackoffMax /\ g \in Nat
    BY BookBounds DEF Entry
  <2> HIDE DEF w, g
  <2>2. Max({0, w}) = IF 0 >= w THEN 0 ELSE w
    BY <2>1, OfTwo
  <2>3. Min({CleanupAge, g}) = IF CleanupAge <= g THEN CleanupAge ELSE g
    BY <2>1, BookBounds, OfTwo
  <2>4. Max({0, w}) \in 0..BackoffMax
    BY <2>1, <2>2, BookBounds
  <2>5. Min({CleanupAge, g}) \in 0..CleanupAge
    BY <2>1, <2>3, BookBounds
  <2> QED
    BY <2>4, <2>5 DEF w, g
<1>4. ASSUME NEW a \in Known
      PROVE  book'[a] \in Entry /\ book'[a].source = book[a].source
  <2> DEFINE w == Max({0, book[a].wait - 1})
             g == Min({CleanupAge, book[a].age + 1})
  <2>1. book[a] \in Entry
    BY <1>2
  <2>2. w \in 0..BackoffMax /\ g \in 0..CleanupAge
    BY <1>3, <2>1
  <2>3. book'[a] = [book[a] EXCEPT !.wait = w, !.age = g]
    BY <1>1
  <2> HIDE DEF w, g
  <2> QED
    BY <2>1, <2>2, <2>3 DEF Entry
<1>5. DOMAIN book' = Known /\ book' \in [Known -> Entry]
  BY <1>1, <1>4
<1>6. BookKept(book)' /\ Known' = Known
  BY <1>2, <1>4, <1>5 DEF BookIndInv, BookKept, Known
<1>7. SweepShape'
  BY <1>1 DEF SweepShape, Resting
<1> QED
  BY <1>1, <1>6, <1>7 DEF BookIndInv

\* What is saved bears the source of its entry.
LEMMA SaveKeeps ==
    ASSUME BookIndInv, Save
    PROVE  BookIndInv'
<1>1. bookFile' = Saved(book) /\ UNCHANGED <<book, up, conns, sweep, boots>>
  BY DEF Save
<1>2. book \in [Known -> Entry] /\ Known \subseteq Addr
  BY DEF BookIndInv, BookKept, Known
<1>3. /\ DOMAIN bookFile' \subseteq Known
      /\ \A a \in DOMAIN bookFile' :
            bookFile'[a] = [source |-> book[a].source, id |-> book[a].id, age |-> book[a].age]
  BY <1>1 DEF Saved, Kept, Known
<1>4. \A a \in DOMAIN bookFile' : /\ bookFile'[a] \in FileEntry
                                  /\ bookFile'[a].source = book[a].source
  BY <1>2, <1>3 DEF Entry, FileEntry
<1>5. FileKept(bookFile)'
  BY <1>2, <1>3, <1>4 DEF BookIndInv, FileKept, BookKept, Known
<1> QED
  BY <1>1, <1>5 DEF BookIndInv, SweepShape, Known, BookKept

\* A start takes what the file has, and what is configured.
LEMMA RestartKeeps ==
    ASSUME BookIndInv, NEW torn \in BOOLEAN, BookRestart(torn)
    PROVE  BookIndInv'
<1>1. /\ boots < MaxBoots /\ boots' = boots + 1
      /\ bookFile' = IF torn THEN <<>> ELSE bookFile
      /\ book' = Started(Loaded(bookFile')) /\ conns' = {} /\ sweep' = Resting /\ up' = up
  BY DEF BookRestart
<1>2. FileKept(bookFile)'
  <2>1. CASE torn
    BY <1>1, <2>1 DEF FileKept
  <2>2. CASE ~torn
    BY <1>1, <2>2 DEF BookIndInv
  <2> QED
    BY <2>1, <2>2
<1>3. BookKept(book)' /\ Configured \subseteq Known'
  <2> DEFINE file == bookFile'
  <2>1. FileKept(file) /\ book' = Started(Loaded(file))
    BY <1>1, <1>2 DEF FileKept
  <2> HIDE DEF file
  <2>2. BookKept(book') /\ Configured \subseteq DOMAIN book'
    BY <2>1, StartKeeps
  <2> QED
    BY <2>2 DEF BookKept, Known
<1>4. boots' \in 0..MaxBoots
  BY <1>1, BookBounds DEF BookIndInv
<1>5. SweepShape'
  BY <1>1 DEF SweepShape, Resting
<1> QED
  BY <1>1, <1>2, <1>3, <1>4, <1>5 DEF BookIndInv

\* Every step keeps it.
LEMMA BookStep == BookIndInv /\ [BookNext]_bookVars => BookIndInv'
<1> SUFFICES ASSUME BookIndInv, [BookNext]_bookVars PROVE BookIndInv'
  OBVIOUS
<1>0. UNCHANGED <<book, bookFile>> => BookKept(book)' /\ Configured \subseteq Known' /\ FileKept(bookFile)'
  BY DEF BookIndInv, BookKept, FileKept, Known
<1>1. CASE UNCHANGED bookVars
  BY <1>0, <1>1 DEF bookVars, BookIndInv, SweepShape
<1>2. CASE BeginSweep
  <2>1. UNCHANGED <<book, up, conns, bookFile, boots>>
        /\ \E order : sweep' = [at |-> "next", todo |-> order, ids |-> conns,
                                count |-> Cardinality(conns)]
    BY <1>2 DEF BeginSweep
  <2>2. SweepShape'
    BY <2>1 DEF SweepShape
  <2> QED
    BY <1>0, <2>1, <2>2 DEF BookIndInv
<1>3. CASE DialOut
  <2>1. UNCHANGED <<book, up, conns, bookFile, boots>> /\ sweep.at = "next"
        /\ (sweep' = [sweep EXCEPT !.todo = Tail(@)] \/ sweep' = [sweep EXCEPT !.at = "dialling"])
    BY <1>3 DEF DialOut
  <2>2. "at" \in DOMAIN sweep
    BY DEF BookIndInv, SweepShape
  <2>3. SweepShape'
    BY <2>1, <2>2 DEF SweepShape
  <2> QED
    BY <1>0, <2>1, <2>3 DEF BookIndInv
<1>4. CASE Dialled
  BY <1>4, DialledKeeps
<1>5. CASE CleanUp
  BY <1>5, CleanUpKeeps
<1>6. CASE Tick
  BY <1>6, TickKeeps
<1>7. ASSUME NEW a \in Addr, Learn(a) PROVE BookIndInv'
  <2>1. book' = AddPeer(book, a, PeerAt[a], "pex") /\ UNCHANGED <<up, conns, sweep, bookFile, boots>>
    BY <1>7 DEF Learn
  <2>2. PeerAt[a] \in BookPeer /\ "pex" \in Source
    BY BookBounds DEF Source
  <2>3. BookKept(book)' /\ Configured \subseteq Known'
    BY <2>1, <2>2, AddKeeps DEF BookIndInv
  <2> QED
    BY <2>1, <2>3 DEF BookIndInv, FileKept, SweepShape
<1>8. ASSUME NEW a \in Addr, Incoming(a) PROVE BookIndInv'
  <2>1. /\ book' = AddPeer(book, a, PeerAt[a], "incoming") /\ conns' = conns \cup {PeerAt[a]}
        /\ UNCHANGED <<up, sweep, bookFile, boots>>
    BY <1>8 DEF Incoming
  <2>2. PeerAt[a] \in BookPeer /\ "incoming" \in Source
    BY BookBounds DEF Source
  <2>3. BookKept(book)' /\ Configured \subseteq Known'
    BY <2>1, <2>2, AddKeeps DEF BookIndInv
  <2>4. conns' \subseteq BookPeer
    BY <2>1, <2>2 DEF BookIndInv
  <2> QED
    BY <2>1, <2>3, <2>4 DEF BookIndInv, FileKept, SweepShape
<1>9. ASSUME NEW a \in Addr, GoUpOrDown(a) PROVE BookIndInv'
  <2>1. UNCHANGED <<book, conns, sweep, bookFile, boots>> /\ up' \subseteq Addr
    BY <1>9 DEF GoUpOrDown, BookIndInv
  <2> QED
    BY <1>0, <2>1 DEF BookIndInv, SweepShape
<1>10. ASSUME NEW p \in BookPeer, Disconnect(p) PROVE BookIndInv'
  <2>1. UNCHANGED <<book, up, sweep, bookFile, boots>> /\ conns' \subseteq BookPeer
    BY <1>10 DEF Disconnect, BookIndInv
  <2> QED
    BY <1>0, <2>1 DEF BookIndInv, SweepShape
<1>11. CASE Save
  BY <1>11, SaveKeeps
<1>12. ASSUME NEW torn \in BOOLEAN, BookRestart(torn) PROVE BookIndInv'
  BY <1>12, RestartKeeps
<1> QED
  BY <1>1, <1>2, <1>3, <1>4, <1>5, <1>6, <1>7, <1>8, <1>9, <1>10, <1>11, <1>12
     DEF BookNext, BookLoop

\* Configured addresses stay known over failures, cleanups, saves and restarts,
\* those included that find the state file torn: for any addresses, backoffs and
\* limits.
THEOREM ConfiguredAreKept == BookSpec => []BookInv
<1>1. BookIndInv => BookInv
  BY BookGives
<1> QED
  BY <1>1, BookBegins, BookStep, PTL DEF BookSpec
=============================================================================
