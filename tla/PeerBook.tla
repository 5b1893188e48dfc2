------------------------------ MODULE PeerBook ------------------------------
(***************************************************************************)
(* cometnet/discovery.py, class DiscoveryService, of one node, with the    *)
(* part of the state file of cometnet/manager.py that keeps it: which      *)
(* addresses are known, when they are dialled, and which are forgotten.    *)
(*                                                                         *)
(* The loop reads how many peers are connected, dials known addresses one  *)
(* by one (each is awaited, while connections come and go and addresses    *)
(* are learned) and then cleans up.  Times are what is left of a backoff   *)
(* and how long ago a peer was seen, in steps of Tick.                     *)
(***************************************************************************)
EXTENDS Integers, Sequences, FiniteSets, FiniteSetsExt, SequencesExt

CONSTANTS
    Addr,
    BookPeer,       \* the other nodes
    PeerAt,         \* the node behind an address
    Manual, Bootstrap,
    Public,         \* addresses that is_valid_peer_address() accepts anyway
    OldFile,        \* state files at the start
    MinPeers, BookMaxPeers,
    BackoffMax,     \* COMETNET_PEER_CONNECT_BACKOFF_MAX
    MaxFailures,    \* COMETNET_PEER_MAX_FAILURES
    SaveFailures,   \* failures up to which a peer is written to the file
    CleanupAge,     \* COMETNET_PEER_CLEANUP_AGE
    FailureCap,     \* bound: more failures than this count as this many
    MaxBoots        \* bound: how often the node is restarted

Source == {"manual", "bootstrap", "incoming", "pex"}
Unnamed == "unnamed"

\* A peer in the state file.
FileEntry == [source : Source, id : BookPeer \cup {Unnamed}, age : 0..CleanupAge]

\* What was learned before it was configured keeps its source (README): not so
\* here.
ASSUME BookAssumption ==
    /\ \A file \in OldFile :
          /\ DOMAIN file \subseteq Addr \ (Manual \cup Bootstrap)
          /\ \A a \in DOMAIN file : file[a] \in FileEntry
    /\ IsFiniteSet(Addr) /\ PeerAt \in [Addr -> BookPeer] /\ Unnamed \notin BookPeer
    /\ Manual \subseteq Addr /\ Bootstrap \subseteq Addr /\ Public \subseteq Addr
    /\ MinPeers \in Nat /\ BookMaxPeers \in Nat /\ MinPeers <= BookMaxPeers
    /\ BackoffMax \in Nat \ {0} /\ CleanupAge \in Nat /\ MaxBoots \in Nat
    /\ MaxFailures \in Nat /\ SaveFailures \in Nat
    /\ FailureCap \in Nat /\ FailureCap > MaxFailures /\ FailureCap > SaveFailures
    /\ 2^FailureCap > BackoffMax

VARIABLES
    book,           \* _known_peers: a function on the known addresses
    up,             \* addresses on which their node answers
    conns,          \* the nodes that are connected
    sweep,          \* where the discovery loop is
    bookFile,       \* the known peers in the state file
    boots           \* restarts so far, for the bound

bookVars == <<book, up, conns, sweep, bookFile, boots>>

Known == DOMAIN book

Fresh(source, id) ==
    [source |-> source, id |-> id, failures |-> 0, wait |-> 0, age |-> 0]

Entered(b, a, rec) == [k \in DOMAIN b \cup {a} |-> IF k = a THEN rec ELSE b[k]]

\* _add_known_peer(): a known address keeps where it came from.
AddPeer(b, a, id, source) ==
    IF a \notin DOMAIN b THEN Entered(b, a, Fresh(source, id))
    ELSE IF b[a].id = Unnamed THEN [b EXCEPT ![a].id = id] ELSE b

\* from_dict(): what is valid, without failures.
Valid(a, source) == a \in Public \/ source \in {"manual", "bootstrap"}
Loaded(file) ==
    [a \in {k \in DOMAIN file : Valid(k, file[k].source)} |->
        [Fresh(file[a].source, file[a].id) EXCEPT !.age = file[a].age]]

\* start(): the configured addresses that were not loaded are added.
Started(b) ==
    LET known(a) == a \in DOMAIN b
    IN  [a \in DOMAIN b \cup Manual \cup Bootstrap |->
            IF known(a) THEN b[a]
            ELSE Fresh(IF a \in Manual THEN "manual" ELSE "bootstrap", Unnamed)]

Resting == [at |-> "rest"]

BookInit ==
    /\ bookFile \in OldFile
    /\ book = Started(Loaded(bookFile))
    /\ up \in {{}, Addr} /\ conns = {} /\ sweep = Resting /\ boots = 0

----------------------------------------------------------------------------
\* The discovery loop.

Priority(source) ==
    CASE source = "manual" -> 0 [] source = "bootstrap" -> 1
      [] source = "incoming" -> 2 [] OTHER -> 3

Before(a, b) ==
    \/ Priority(book[a].source) < Priority(book[b].source)
    \/ /\ Priority(book[a].source) = Priority(book[b].source)
       /\ book[a].failures <= book[b].failures

\* Below the minimum the known addresses are gone through in the order that
\* they have now.
BeginSweep ==
    /\ sweep = Resting /\ Cardinality(conns) < MinPeers
    /\ \E order \in SetToSeqs(Known) :
          /\ \A i, j \in DOMAIN order : i < j => Before(order[i], order[j])
          /\ sweep' = [at |-> "next", todo |-> order, ids |-> conns,
                       count |-> Cardinality(conns)]
    /\ UNCHANGED <<book, up, conns, bookFile, boots>>

\* Mutant of Connectable: after a failure there is no other attempt.
ConnectableOnce(rec) == rec.failures = 0

\* KnownPeer.is_connectable
Connectable(rec) == rec.failures = 0 \/ rec.wait = 0

Skipped(a) ==
    \/ book[a].id \in sweep.ids
    \/ ~Connectable(book[a])

DialOut ==
    /\ sweep.at = "next" /\ sweep.todo # <<>>
    /\ sweep.count < BookMaxPeers
    /\ sweep' = IF Skipped(Head(sweep.todo)) THEN [sweep EXCEPT !.todo = Tail(@)]
                ELSE [sweep EXCEPT !.at = "dialling"]
    /\ UNCHANGED <<book, up, conns, bookFile, boots>>

\* In units of 30 seconds.
Backoff(failures) == Min({BackoffMax, 2^(failures - 1)})

\* record_connect_attempt()
Recorded(rec, success) ==
    IF success THEN [rec EXCEPT !.failures = 0, !.wait = 0, !.age = 0]
    ELSE LET failures == Min({rec.failures + 1, FailureCap})
         IN  [rec EXCEPT !.failures = failures, !.wait = Backoff(failures)]

\* connect_to_peer() answers with the id of the node, which may be connected
\* already, by another address or since the dial began; or with None, when
\* nobody answers or the transport is full.
Reached(a) == a \in up /\ Cardinality(conns) < BookMaxPeers

Dialled ==
    /\ sweep.at = "dialling"
    /\ LET a == Head(sweep.todo)
           id == PeerAt[a]
           next == [sweep EXCEPT !.at = "next", !.todo = Tail(@)]
       IN  IF Reached(a)
           THEN /\ conns' = conns \cup {id}
                /\ sweep' = [next EXCEPT !.ids = @ \cup {id}, !.count = @ + 1]
                /\ book' = [book EXCEPT ![a] = Recorded([@ EXCEPT !.id = id], TRUE)]
           ELSE /\ sweep' = next
                /\ book' = [book EXCEPT ![a] = Recorded(@, FALSE)]
                /\ UNCHANGED conns
    /\ UNCHANGED <<up, bookFile, boots>>

\* Mutant of Droppable: the configured ones are, too.
DroppableAll(rec) == rec.age = CleanupAge /\ rec.failures > MaxFailures

Droppable(rec) ==
    /\ rec.age = CleanupAge /\ rec.failures > MaxFailures
    /\ rec.source \notin {"manual", "bootstrap"}

\* _cleanup_old_peers(), after the sweep or without one; then the loop sleeps.
CleanUp ==
    /\ \/ sweep = Resting /\ Cardinality(conns) >= MinPeers
       \/ sweep.at = "next" /\ (sweep.todo = <<>> \/ sweep.count >= BookMaxPeers)
    /\ sweep' = [at |-> "asleep"]
    /\ book' = [a \in {k \in Known : ~Droppable(book[k])} |-> book[a]]
    /\ UNCHANGED <<up, conns, bookFile, boots>>

\* Time passes while the loop sleeps.
Tick ==
    /\ sweep.at = "asleep" /\ sweep' = Resting
    /\ book' = [a \in Known |->
                  [book[a] EXCEPT !.wait = Max({0, @ - 1}),
                                  !.age = Min({CleanupAge, @ + 1})]]
    /\ UNCHANGED <<up, conns, bookFile, boots>>

----------------------------------------------------------------------------
\* What happens meanwhile.

\* handle_peer_response(), add_peer_from_pex(): the address was unknown before
\* the check of its host was awaited.
Learn(a) ==
    /\ conns # {} /\ Valid(a, "pex")
    /\ book' = AddPeer(book, a, PeerAt[a], "pex")
    /\ UNCHANGED <<up, conns, sweep, bookFile, boots>>

\* record_incoming_connection(): a node connects and says where it listens.
Incoming(a) ==
    /\ PeerAt[a] \notin conns /\ Cardinality(conns) < BookMaxPeers
    /\ conns' = conns \cup {PeerAt[a]}
    /\ book' = AddPeer(book, a, PeerAt[a], "incoming")
    /\ UNCHANGED <<up, sweep, bookFile, boots>>

Disconnect(p) ==
    /\ p \in conns /\ conns' = conns \ {p}
    /\ UNCHANGED <<book, up, sweep, bookFile, boots>>

GoUpOrDown(a) ==
    /\ up' = IF a \in up THEN up \ {a} ELSE up \cup {a}
    /\ UNCHANGED <<book, conns, sweep, bookFile, boots>>

\* to_dict()
Kept(b) == {a \in DOMAIN b : b[a].source # "incoming" /\ b[a].failures <= SaveFailures}
Saved(b) ==
    [a \in Kept(b) |-> [source |-> b[a].source, id |-> b[a].id, age |-> b[a].age]]

Save ==
    /\ bookFile' = Saved(book)
    /\ UNCHANGED <<book, up, conns, sweep, boots>>

\* The node is restarted, perhaps after it died with the file opened for
\* writing, which is then empty.
BookRestart(torn) ==
    /\ boots < MaxBoots /\ boots' = boots + 1
    /\ bookFile' = IF torn THEN <<>> ELSE bookFile
    /\ book' = Started(Loaded(bookFile'))
    /\ conns' = {} /\ sweep' = Resting
    /\ UNCHANGED up

----------------------------------------------------------------------------
BookLoop == BeginSweep \/ DialOut \/ Dialled \/ CleanUp \/ Tick

BookNext ==
    \/ BookLoop
    \/ \E a \in Addr : Learn(a) \/ Incoming(a) \/ GoUpOrDown(a)
    \/ \E p \in BookPeer : Disconnect(p)
    \/ Save \/ \E torn \in BOOLEAN : BookRestart(torn)

\* The loop's task is scheduled; every dial ends by its timeout.
BookFairness == WF_bookVars(BookLoop)

BookSpec == BookInit /\ [][BookNext]_bookVars /\ BookFairness

----------------------------------------------------------------------------
\* Type invariant.
BookTypeOK ==
    /\ Known \subseteq Addr
    /\ \A a \in Known :
          /\ book[a].source \in Source /\ book[a].id \in BookPeer \cup {Unnamed}
          /\ book[a].failures \in 0..FailureCap /\ book[a].wait \in 0..BackoffMax
          /\ book[a].age \in 0..CleanupAge
    /\ up \subseteq Addr /\ conns \subseteq BookPeer /\ boots \in 0..MaxBoots
    /\ sweep.at \in {"rest", "next", "dialling", "asleep"}

\* Configured addresses stay in the book over failures, cleanups, saves and
\* restarts, those included that die while the file is written.
ConfiguredStay == Manual \cup Bootstrap \subseteq Known

Enough == Cardinality(conns) >= MinPeers

\* A node below its minimum comes back to a configured peer that stays up,
\* however often it has failed before: backoffs end and nothing blocks the
\* loop.
ConfiguredReconnect ==
    \A a \in Manual \cup Bootstrap :
        <>[](a \in up /\ a \in Known) =>
            []<>(Enough \/ PeerAt[a] \in conns \/ a \notin up)

\* An address that has been learned and never answers any more is forgotten,
\* unless the node has enough other peers.
DeadForgotten ==
    \A a \in Addr \ (Manual \cup Bootstrap) :
        <>[](a \notin up) =>
            []<>(Enough \/ PeerAt[a] \in conns \/ a \notin Known)

\* What holds of the book in every state: what is configured stays in it.
BookInv == BookTypeOK /\ ConfiguredStay

\* A peer that is configured is reached again, and one that is dead forgotten.
BookSettles == ConfiguredReconnect /\ DeadForgotten
=============================================================================
