----------------------------- MODULE MagnetQueue -----------------------------
(***************************************************************************)
(* services/torrent_manager.py, class AddTorrentQueue: magnets wait in a   *)
(* bounded queue for workers that download the torrent behind them and     *)
(* hand it to the update queue (TorrentUpdates).                           *)
(*                                                                         *)
(* No block under _lock awaits anything, so that a step lasts from one     *)
(* await of the queue, of a download, of a future or of the hand-over to   *)
(* the next.  A call for a magnet that is pending already is merged into   *)
(* its entry; workers with the same magnet share one download.             *)
(***************************************************************************)
EXTENDS Integers, Sequences, FiniteSets

CONSTANTS
    MagnetCall,           \* calls of add_torrent()
    KeyOf,          \* the queue key of a call: media, magnet and season
    MagnetOf,       \* the magnet of a key
    SeedersOf,      \* the seeders a call brings
    MagnetWorker,   \* the workers, as many as max_concurrent
    QueueSize       \* maxsize of the queue

Key == {KeyOf[c] : c \in MagnetCall}
NoKey == "no key"
StopJob == "STOP"

ASSUME MagnetAssumption ==
    /\ IsFiniteSet(MagnetCall) /\ IsFiniteSet(MagnetWorker) /\ MagnetWorker # {}
    /\ DOMAIN KeyOf = MagnetCall /\ Key \cap {NoKey, StopJob} = {}
    /\ Key \subseteq DOMAIN MagnetOf
    /\ SeedersOf \in [MagnetCall -> Nat] /\ QueueSize \in Nat \ {0}

VARIABLES
    call,           \* where each call is
    magnets,        \* _pending_torrents: seeders by key
    jobs,           \* the queue
    magnetUnfinished,     \* what join() waits for
    downloader,         \* where each downloader is
    inflight,       \* the magnets that are being downloaded
    resolved,       \* _resolved_torrent_cache
    futureOf,       \* the result of the future that each downloader awaits
    stopping, magnetStopper,
    brought,        \* history: the most seeders a call brought for a key before
                    \* it was handed over
    handed          \* history: the seeders that were handed over with it

magnetVars == <<call, magnets, jobs, magnetUnfinished, downloader, inflight, resolved,
                futureOf, stopping, magnetStopper, brought, handed>>

NoWorker == [at |-> "unborn", key |-> NoKey]
Getting == [at |-> "get", key |-> NoKey]

MagnetInit ==
    /\ call = [c \in MagnetCall |-> "new"]
    /\ magnets = <<>> /\ jobs = <<>> /\ magnetUnfinished = 0
    /\ downloader = [w \in MagnetWorker |-> NoWorker]
    /\ inflight = {} /\ resolved = {}
    /\ futureOf = [w \in MagnetWorker |-> "open"]
    /\ stopping = FALSE /\ magnetStopper = "none"
    /\ brought = [k \in Key |-> 0] /\ handed = [k \in Key |-> 0]

Most(a, b) == IF a > b THEN a ELSE b
Pending == DOMAIN magnets
Busy(w) == downloader[w].at \in {"download", "wait", "hand"}
Waiters == {c \in MagnetCall : call[c] = "waiting"}
Popped(p, k) == [q \in DOMAIN p \ {k} |-> p[q]]

----------------------------------------------------------------------------
\* add_torrent()

\* Mutant of MergedSeeders: the last one counts.
MergedLast(old, new) == new

\* _merge_pending_metadata()
MergedSeeders(old, new) == Most(old, new)

Merge(c) ==
    LET k == KeyOf[c]
        handing == \E w \in MagnetWorker : downloader[w].at = "hand" /\ downloader[w].key = k
    IN
    /\ call[c] = "new" /\ ~stopping /\ k \in Pending
    /\ call' = [call EXCEPT ![c] = "returned"]
    /\ magnets' = [magnets EXCEPT ![k] = MergedSeeders(@, SeedersOf[c])]
    /\ brought' = IF handing THEN brought
                  ELSE [brought EXCEPT ![k] = Most(@, SeedersOf[c])]
    /\ UNCHANGED <<jobs, magnetUnfinished, downloader, inflight, resolved, futureOf,
                   stopping, magnetStopper, handed>>

\* An entry is made, the workers are there, and the magnet is put into the
\* queue; a full one is waited for.
Enter(c) ==
    LET k == KeyOf[c]
        room == Len(jobs) < QueueSize
    IN
    /\ call[c] = "new" /\ ~stopping /\ k \notin Pending
    /\ magnets' = [q \in Pending \cup {k} |-> IF q = k THEN SeedersOf[c] ELSE magnets[q]]
    /\ brought' = [brought EXCEPT ![k] = SeedersOf[c]]
    /\ handed' = [handed EXCEPT ![k] = 0]
    /\ downloader' = [w \in MagnetWorker |->
                    IF downloader[w] = NoWorker THEN Getting ELSE downloader[w]]
    /\ call' = [call EXCEPT ![c] = IF room THEN "returned" ELSE "waiting"]
    /\ jobs' = IF room THEN Append(jobs, k) ELSE jobs
    /\ magnetUnfinished' = IF room THEN magnetUnfinished + 1 ELSE magnetUnfinished
    /\ UNCHANGED <<inflight, resolved, futureOf, stopping, magnetStopper>>

\* put() of a call that has waited.
PutMagnet(c) ==
    /\ call[c] = "waiting" /\ Len(jobs) < QueueSize
    /\ call' = [call EXCEPT ![c] = "returned"]
    /\ jobs' = Append(jobs, KeyOf[c]) /\ magnetUnfinished' = magnetUnfinished + 1
    /\ UNCHANGED <<magnets, downloader, inflight, resolved, futureOf, stopping, magnetStopper,
                   brought, handed>>

\* The entry of a call that is cancelled goes, with what was merged into it.
Withdrawn(k) == magnets' = Popped(magnets, k)

CancelCall(c) ==
    /\ call[c] = "waiting"
    /\ call' = [call EXCEPT ![c] = "cancelled"]
    /\ Withdrawn(KeyOf[c])
    /\ UNCHANGED <<jobs, magnetUnfinished, downloader, inflight, resolved, futureOf,
                   stopping, magnetStopper, brought, handed>>

\* A call that comes too late returns at once.
TooLate(c) ==
    /\ call[c] = "new" /\ stopping
    /\ call' = [call EXCEPT ![c] = "returned"]
    /\ UNCHANGED <<magnets, jobs, magnetUnfinished, downloader, inflight, resolved, futureOf,
                   stopping, magnetStopper, brought, handed>>

----------------------------------------------------------------------------
\* _worker()

\* With the torrent at hand, the entry is read and handed over; nothing is if
\* there is no torrent or no entry.
HandsOver(w, k) ==
    IF k \in Pending
    THEN /\ downloader' = [downloader EXCEPT ![w] = [at |-> "hand", key |-> k]]
         /\ handed' = [handed EXCEPT ![k] = magnets[k]]
         /\ UNCHANGED <<magnets, magnetUnfinished>>
    ELSE /\ downloader' = [downloader EXCEPT ![w] = Getting]
         /\ magnetUnfinished' = magnetUnfinished - 1
         /\ UNCHANGED <<magnets, handed>>

GivesUpOn(w, k) ==
    /\ downloader' = [downloader EXCEPT ![w] = Getting]
    /\ magnets' = Popped(magnets, k)
    /\ magnetUnfinished' = magnetUnfinished - 1
    /\ UNCHANGED handed

\* The next magnet: its torrent is cached, or being downloaded, or this worker
\* downloads it.
TakeMagnet(w) ==
    LET k == Head(jobs) IN
    /\ downloader[w].at = "get" /\ jobs # <<>> /\ k # StopJob
    /\ jobs' = Tail(jobs)
    /\ IF MagnetOf[k] \in resolved THEN HandsOver(w, k) /\ UNCHANGED inflight
       ELSE /\ downloader' = [downloader EXCEPT ![w] =
                            [at |-> IF MagnetOf[k] \in inflight THEN "wait" ELSE "download",
                             key |-> k]]
            /\ inflight' = inflight \cup {MagnetOf[k]}
            /\ UNCHANGED <<magnets, magnetUnfinished, handed>>
    /\ UNCHANGED <<call, resolved, futureOf, stopping, magnetStopper, brought>>

\* The future is resolved, for those that await it, with a torrent or without.
Woken(m, found) ==
    [v \in MagnetWorker |->
        IF /\ downloader[v].at = "wait" /\ MagnetOf[downloader[v].key] = m
           /\ futureOf[v] = "open"
        THEN IF found THEN "found" ELSE "missing"
        ELSE futureOf[v]]

\* The download ends: with a torrent, without one, or with an exception.
Download(w, found) ==
    LET k == downloader[w].key
        m == MagnetOf[k]
    IN
    /\ downloader[w].at = "download"
    /\ resolved' = IF found THEN resolved \cup {m} ELSE resolved
    /\ inflight' = inflight \ {m} /\ futureOf' = Woken(m, found)
    /\ IF found THEN HandsOver(w, k) ELSE GivesUpOn(w, k)
    /\ UNCHANGED <<call, jobs, stopping, magnetStopper, brought>>

\* Those that waited for it go on; found: what the future was resolved with,
\* whatever the cache has since forgotten and whoever downloads the magnet again.
Resume(w, found) ==
    LET k == downloader[w].key IN
    /\ downloader[w].at = "wait" /\ futureOf[w] = IF found THEN "found" ELSE "missing"
    /\ futureOf' = [futureOf EXCEPT ![w] = "open"]
    /\ IF found THEN HandsOver(w, k) ELSE GivesUpOn(w, k)
    /\ UNCHANGED <<call, jobs, inflight, resolved, stopping, magnetStopper, brought>>

\* add_resolved_torrent() has returned, or raised: the entry is done, with what
\* was merged into it meanwhile.
Handed(w) ==
    /\ downloader[w].at = "hand" /\ GivesUpOn(w, downloader[w].key)
    /\ UNCHANGED <<call, jobs, inflight, resolved, futureOf, stopping, magnetStopper,
                   brought>>

TakeStopJob(w) ==
    /\ downloader[w].at = "get" /\ jobs # <<>> /\ Head(jobs) = StopJob
    /\ jobs' = Tail(jobs) /\ magnetUnfinished' = magnetUnfinished - 1
    /\ downloader' = [downloader EXCEPT ![w] = [at |-> "ended", key |-> NoKey]]
    /\ UNCHANGED <<call, magnets, inflight, resolved, futureOf, stopping, magnetStopper,
                   brought, handed>>

\* The cache forgets its oldest entry.
Prune(m) ==
    /\ m \in resolved /\ resolved' = resolved \ {m}
    /\ UNCHANGED <<call, magnets, jobs, magnetUnfinished, downloader, inflight, futureOf,
                   stopping, magnetStopper, brought, handed>>

----------------------------------------------------------------------------
\* stop()
StopMagnets ==
    /\ magnetStopper = "none" /\ stopping' = TRUE
    /\ IF \A w \in MagnetWorker : downloader[w] = NoWorker
       THEN magnetStopper' = "stopped" /\ magnets' = <<>>
       ELSE magnetStopper' = "draining" /\ UNCHANGED magnets
    /\ UNCHANGED <<call, jobs, magnetUnfinished, downloader, inflight, resolved, futureOf,
                   brought, handed>>

\* _wait_for_tracked_queue_drain(): join() has returned, and at that moment no
\* call waits for room.
Drained == magnetUnfinished = 0 /\ Waiters = {}

PutStops ==
    /\ magnetStopper = "draining" /\ Drained /\ magnetStopper' = "stops"
    /\ UNCHANGED <<call, magnets, jobs, magnetUnfinished, downloader, inflight, resolved,
                   futureOf, stopping, brought, handed>>

Stops == {i \in DOMAIN jobs : jobs[i] = StopJob}
Ended == {w \in MagnetWorker : downloader[w].at = "ended"}

\* stop() puts one STOP for each downloader.
StopsMissing == Cardinality(Stops) + Cardinality(Ended) < Cardinality(MagnetWorker)

PutMagnetStop ==
    /\ magnetStopper = "stops" /\ Len(jobs) < QueueSize /\ StopsMissing
    /\ jobs' = Append(jobs, StopJob) /\ magnetUnfinished' = magnetUnfinished + 1
    /\ UNCHANGED <<call, magnets, downloader, inflight, resolved, futureOf, stopping,
                   magnetStopper, brought, handed>>

ReturnFromStop ==
    /\ magnetStopper = "stops" /\ Ended = MagnetWorker
    /\ magnetStopper' = "stopped" /\ magnets' = <<>>
    /\ UNCHANGED <<call, jobs, magnetUnfinished, downloader, inflight, resolved, futureOf,
                   stopping, brought, handed>>

MagnetWorks(w) ==
    \/ TakeMagnet(w) \/ Handed(w) \/ TakeStopJob(w)
    \/ \E found \in BOOLEAN : Download(w, found) \/ Resume(w, found)

MagnetStops == PutStops \/ PutMagnetStop \/ ReturnFromStop

MagnetNext ==
    \/ \E c \in MagnetCall : Merge(c) \/ Enter(c) \/ PutMagnet(c) \/ CancelCall(c) \/ TooLate(c)
    \/ \E w \in MagnetWorker : MagnetWorks(w)
    \/ \E k \in Key : Prune(MagnetOf[k])
    \/ StopMagnets \/ MagnetStops

\* Downloads end by their timeout; tasks are scheduled, and a call that waits is
\* woken when there is room.
MagnetFairness ==
    /\ \A w \in MagnetWorker : WF_magnetVars(MagnetWorks(w))
    /\ \A c \in MagnetCall : WF_magnetVars(PutMagnet(c))
    /\ WF_magnetVars(MagnetStops)

MagnetSpec == MagnetInit /\ [][MagnetNext]_magnetVars /\ MagnetFairness

----------------------------------------------------------------------------
\* Type invariant.
MagnetTypeOK ==
    /\ Pending \subseteq Key /\ Len(jobs) <= QueueSize
    /\ magnetUnfinished = Len(jobs) + Cardinality({w \in MagnetWorker : Busy(w)})
    /\ \A w \in MagnetWorker : downloader[w].key \in Key \cup {NoKey}
    /\ inflight = {MagnetOf[downloader[w].key] :
                      w \in {v \in MagnetWorker : downloader[v].at = "download"}}
    /\ futureOf \in [MagnetWorker -> {"open", "found", "missing"}]
    /\ magnetStopper \in {"none", "draining", "stops", "stopped"}

\* Every entry has exactly one job, in a call that waits, in the queue or at a
\* downloader: an entry without one would swallow all later calls for its key.
PendingHasJob ==
    magnetStopper # "stopped" =>
        \A k \in Key :
            LET waiting == {c \in Waiters : KeyOf[c] = k}
                queued == {i \in DOMAIN jobs : jobs[i] = k}
                working == {w \in MagnetWorker : Busy(w) /\ downloader[w].key = k}
            IN  Cardinality(waiting) + Cardinality(queued) + Cardinality(working) =
                    IF k \in Pending THEN 1 ELSE 0

\* A torrent is handed over with the most seeders of all the calls that were
\* merged before.
HandedIsMost ==
    \A w \in MagnetWorker :
        downloader[w].at = "hand" => handed[downloader[w].key] = brought[downloader[w].key]

\* When stop() returns, nothing that was accepted is left behind: no job, and no
\* call that waits for room.
MagnetsDrained ==
    magnetStopper = "stopped" => jobs = <<>> /\ Waiters = {} /\ ~\E w \in MagnetWorker : Busy(w)

\* Every entry is done in the end, although downloads fail and workers wait for
\* each other's.
PendingEnds == <>[](Pending = {})

\* A stop() that was called returns.
MagnetStopReturns == <>[](magnetStopper \in {"none", "stopped"})

\* What holds of the queue in every state: its counters, one job per entry, the
\* seeders that are handed over, and an empty queue after stop().
MagnetInv == MagnetTypeOK /\ PendingHasJob /\ HandedIsMost /\ MagnetsDrained
=============================================================================
