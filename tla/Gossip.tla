------------------------------- MODULE Gossip -------------------------------
(***************************************************************************)
(* cometnet/gossip.py, class GossipEngine, on several nodes: torrents are  *)
(* queued, announced to random peers by a loop, and passed on by those who *)
(* receive them with a TTL that decreases and the list of visited nodes.   *)
(*                                                                         *)
(* Handling an announcement awaits the database, the signatures and the    *)
(* storage in turn, once per connection at a time, so that the copies of   *)
(* an item that arrive over several connections overlap.  Signatures are   *)
(* those of honest nodes; reputation is the subject of PeerTrust.          *)
(***************************************************************************)
EXTENDS Integers, Sequences, FiniteSets, FiniteSetsExt

CONSTANTS
    GNode,
    Item,           \* torrents as somebody contributes them
    HashOf,         \* the info_hash of an item
    ContributorOf,  \* the node that signs it
    Mode,           \* contribution_mode of each node
    Trusts,         \* contributors in the pools each node subscribes to
    Topology,       \* the connections at the start
    MessageTtl,     \* message_ttl
    Fanout,         \* fanout
    PerMessage,     \* max_torrents_per_message
    QueueLength,    \* maxlen of the outgoing queue
    KnownBefore          \* what the databases may hold at the start

ASSUME GossipAssumption ==
    /\ IsFiniteSet(GNode) /\ IsFiniteSet(Item)
    /\ ContributorOf \in [Item -> GNode]
    /\ Mode \in [GNode -> {"full", "consumer", "source", "leech"}]
    /\ Trusts \in [GNode -> SUBSET GNode]
    /\ MessageTtl \in Nat \ {0} /\ Fanout \in Nat
    /\ PerMessage \in Nat \ {0} /\ QueueLength \in Nat \ {0}
    /\ KnownBefore \subseteq [GNode -> SUBSET {HashOf[i] : i \in Item}]

VARIABLES
    contact,        \* the connections
    outgoing,       \* _outgoing_queue of each node
    sendoff,        \* what the gossip loop of each node is sending
    mail,           \* announcements on their way
    work,           \* work[n][m]: what n's receive loop for m is handling
    stored,         \* the info_hashes in the database of each node
    offered,        \* history: items that were given to queue_torrents()
    lossy           \* history: was anything lost or dropped?

gossipVars == <<contact, outgoing, sendoff, mail, work, stored, offered, lossy>>

NoWork == [stage |-> "none"]

GossipInit ==
    /\ contact = Topology
    /\ outgoing = [n \in GNode |-> <<>>]
    /\ sendoff = [n \in GNode |-> {}]
    /\ mail = {}
    /\ work = [n \in GNode |-> [m \in GNode |-> NoWork]]
    /\ stored \in KnownBefore
    /\ offered = {}
    /\ lossy = FALSE

Neighbours(n) == {m \in GNode : m # n /\ {m, n} \in contact}
Shares(n) == Mode[n] \in {"full", "source"}
Forwards(n) == Mode[n] \in {"full", "consumer"}
Saves(n) == Mode[n] # "source"
Works(n, m, w) == work' = [work EXCEPT ![n][m] = w]

----------------------------------------------------------------------------
\* queue_torrents(): the torrents are signed and appended; the deque drops its
\* oldest entries when it is full.
Offer(n, i) ==
    /\ i \notin offered /\ ContributorOf[i] = n /\ Shares(n)
    /\ offered' = offered \cup {i}
    /\ stored' = [stored EXCEPT ![n] = @ \cup {HashOf[i]}]
    /\ LET queue == Append(outgoing[n], i)
           over == Len(queue) > QueueLength
       IN  /\ outgoing' = [outgoing EXCEPT ![n] = IF over THEN Tail(queue) ELSE queue]
           /\ lossy' = (lossy \/ over)
    /\ UNCHANGED <<contact, sendoff, mail, work>>

\* Peers drawn by get_random_peers().
Drawn(n, exclude) ==
    LET available == Neighbours(n) \ exclude
    IN  kSubset(Min({Fanout, Cardinality(available)}), available)

Announcements(n, peers, items, ttl, visited) ==
    {[from |-> n, to |-> m, items |-> items, ttl |-> ttl, visited |-> visited] :
        m \in peers}

\* The gossip loop takes up to max_torrents_per_message from its queue ...
LoopTakes(n) ==
    LET k == Min({PerMessage, Len(outgoing[n])}) IN
    /\ outgoing[n] # <<>> /\ sendoff[n] = {}
    /\ sendoff' = [sendoff EXCEPT ![n] = {outgoing[n][j] : j \in 1..k}]
    /\ outgoing' = [outgoing EXCEPT ![n] = SubSeq(@, k + 1, Len(@))]
    /\ UNCHANGED <<contact, mail, work, stored, offered, lossy>>

\* ... and announces it to the peers that it draws; without any, it is gone.
LoopSends(n) ==
    /\ sendoff[n] # {}
    /\ \E peers \in Drawn(n, {n}) :
          /\ mail' = mail \cup Announcements(n, peers, sendoff[n], MessageTtl, {n})
          /\ lossy' = (lossy \/ Neighbours(n) \ peers # {})
    /\ sendoff' = [sendoff EXCEPT ![n] = {}]
    /\ UNCHANGED <<contact, outgoing, work, stored, offered>>

----------------------------------------------------------------------------
\* handle_announce(): which of the hashes exist is asked first, ...
Arrive(msg) ==
    LET n == msg.to IN
    /\ msg \in mail /\ mail' = mail \ {msg}
    /\ work[n][msg.from] = NoWork
    /\ Works(n, msg.from,
             [stage |-> "checking", msg |-> msg,
              known |-> {i \in msg.items : HashOf[i] \in stored[n]}])
    /\ UNCHANGED <<contact, outgoing, sendoff, stored, offered, lossy>>

\* Mutant of ToForward: what is known already is not passed on.
ToForwardNew(n, w) ==
    IF w.msg.ttl > 1 /\ Forwards(n)
    THEN {i \in w.msg.items \ w.known : ContributorOf[i] \in Trusts[n]} ELSE {}

\* What is passed on: the known items unchecked, of the others those of trusted
\* contributors.
ToForward(n, w) ==
    IF w.msg.ttl > 1 /\ Forwards(n)
    THEN w.known \cup {i \in w.msg.items : ContributorOf[i] \in Trusts[n]} ELSE {}

\* ... the signatures are verified, the new items of trusted contributors are
\* saved, ...
SaveItems(n, m) ==
    LET w == work[n][m]
        valid == {i \in w.msg.items \ w.known : ContributorOf[i] \in Trusts[n]}
        items == ToForward(n, w)
    IN
    /\ w.stage = "checking"
    /\ stored' = IF Saves(n)
                 THEN [stored EXCEPT ![n] = @ \cup {HashOf[i] : i \in valid}]
                 ELSE stored
    /\ Works(n, m, IF items = {} THEN NoWork
                   ELSE [stage |-> "saved", msg |-> w.msg, items |-> items])
    /\ UNCHANGED <<contact, outgoing, sendoff, mail, offered, lossy>>

\* Mutant of Passed: the sender is not added to the visited nodes.
PassedAlone(n, w, peers) ==
    Announcements(n, peers, w.items, w.msg.ttl - 1, {n})

Passed(n, w, peers) ==
    Announcements(n, peers, w.items, w.msg.ttl - 1,
                  w.msg.visited \cup {w.msg.from, n})

\* ... and the rest is announced to peers that have not been visited.
Forward(n, m) ==
    LET w == work[n][m]
        visited == w.msg.visited \cup {w.msg.from, n}
    IN
    /\ w.stage = "saved"
    /\ \E peers \in Drawn(n, visited) :
          /\ mail' = mail \cup Passed(n, w, peers)
          /\ lossy' = (lossy \/ Neighbours(n) \ (visited \cup peers) # {})
    /\ Works(n, m, NoWork)
    /\ UNCHANGED <<contact, outgoing, sendoff, stored, offered>>

----------------------------------------------------------------------------
\* A connection ends, with what it carries; another one is made.
Hangup(m, n) ==
    /\ {m, n} \in contact /\ ~lossy
    /\ contact' = contact \ {{m, n}}
    /\ mail' = {msg \in mail : {msg.from, msg.to} # {m, n}}
    /\ lossy' = TRUE
    /\ UNCHANGED <<outgoing, sendoff, work, stored, offered>>

GossipHandles(n) ==
    \/ LoopTakes(n) \/ LoopSends(n)
    \/ \E m \in GNode : SaveItems(n, m) \/ Forward(n, m)
    \/ \E msg \in mail : msg.to = n /\ Arrive(msg)

GossipNext ==
    \/ \E n \in GNode, i \in Item : Offer(n, i)
    \/ \E n \in GNode : GossipHandles(n)
    \/ \E m, n \in GNode : Hangup(m, n)

\* The loop wakes up every second, coroutines go on, and what a connection
\* carries arrives unless it ends.
GossipFairness == \A n \in GNode : WF_gossipVars(GossipHandles(n))

GossipSpec == GossipInit /\ [][GossipNext]_gossipVars /\ GossipFairness

----------------------------------------------------------------------------
\* Type invariant.
GossipTypeOK ==
    /\ \A n \in GNode : /\ Len(outgoing[n]) <= QueueLength
                        /\ sendoff[n] \subseteq Item
                        /\ stored[n] \subseteq {HashOf[i] : i \in Item}
    /\ \A msg \in mail :
          /\ {msg.from, msg.to} \in contact /\ msg.items \in (SUBSET Item) \ {{}}
          /\ msg.ttl \in 1..MessageTtl /\ msg.visited \subseteq GNode
    /\ offered \subseteq Item /\ lossy \in BOOLEAN

\* No announcement comes to a node that it has been at, and it has been at as
\* many as its TTL has lost: so it ends after message_ttl hops at the latest.
PathsAreSimple ==
    \A msg \in mail :
        /\ msg.from \in msg.visited /\ msg.to \notin msg.visited
        /\ Cardinality(msg.visited) = MessageTtl - msg.ttl + 1

\* Nodes that trust an item's contributor and are its neighbours, or those of a
\* neighbour of it that passes the item on.
Audience ==
    LET Hears(n, i, m) == /\ {n, m} \in Topology /\ ContributorOf[i] \in Trusts[n]
                          /\ ContributorOf[i] = m \/ Forwards(m)
    IN  {x \in Item \X GNode :
            /\ Saves(x[2]) /\ x[2] # ContributorOf[x[1]] /\ MessageTtl > 1
            /\ \E m \in GNode : /\ Hears(x[2], x[1], m)
                                /\ \/ m = ContributorOf[x[1]]
                                   \/ Hears(m, x[1], ContributorOf[x[1]])}

\* As long as no connection ends and no peer is left out, whatever a node
\* offers is stored by its neighbours and theirs that trust it, although some
\* know it already and copies of it overlap.
ReachesAll ==
    <>[](\A x \in Audience : x[1] \in offered => HashOf[x[1]] \in stored[x[2]] \/ lossy)

\* What holds of announcements in every state.
GossipInv == GossipTypeOK /\ PathsAreSimple
=============================================================================
