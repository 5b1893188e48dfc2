----------------------------- MODULE RelayBatch -----------------------------
(***************************************************************************)
(* cometnet/relay.py, class CometNetRelay: torrents are collected in a     *)
(* batch that is posted to the standalone service by a loop, by a task of  *)
(* its own when the batch is full, and once more by stop().                *)
(*                                                                         *)
(* Nothing is awaited while _batch_lock is held, so each critical section  *)
(* is one action.  A flush is a coroutine: it takes the batch, then awaits *)
(* the answer of the service.                                              *)
(***************************************************************************)
EXTENDS Integers, FiniteSets

CONSTANTS
    Torrent,        \* the torrents that callers relay, each once
    RelayBatchSize, \* batch_size
    Task            \* bound: flush tasks that may exist at a time

Loop == "loop"      \* _batch_flush_loop(), which runs flushes itself
Stopper == "stop"   \* stop(), likewise

ASSUME RelayAssumption ==
    /\ IsFiniteSet(Torrent) /\ IsFiniteSet(Task)
    /\ RelayBatchSize \in Nat \ {0}
    /\ {Loop, Stopper} \cap Task = {}

Flusher == Task \cup {Loop, Stopper}

VARIABLES
    life,           \* "running" as long as _running; then how far stop() is
    relayBatch,     \* _batch
    flush,          \* state of each flusher: "none", "ready", "sending", ...
    sending,        \* batch_to_send of each flusher
    relayed,        \* _total_relayed
    failed,         \* _total_errors
    queued,         \* history: torrents that relay_torrent() accepted
    posted          \* history: torrents taken out of the batch to be sent

relayVars == <<life, relayBatch, flush, sending, relayed, failed, queued, posted>>

RelayInit ==
    /\ life = "running"
    /\ relayBatch = {}
    /\ flush = [f \in Flusher |-> "none"]
    /\ sending = [f \in Flusher |-> {}]
    /\ relayed = 0 /\ failed = 0
    /\ queued = {} /\ posted = {}

----------------------------------------------------------------------------
\* relay_torrent() and broadcast_torrents(): append, and start a task that
\* flushes when the batch is full.
Queue(ts) ==
    /\ life = "running"
    /\ ts # {} /\ ts \cap queued = {}
    /\ relayBatch' = relayBatch \cup ts
    /\ queued' = queued \cup ts
    /\ IF Cardinality(relayBatch') >= RelayBatchSize
       THEN \E f \in Task : flush[f] = "none" /\
                            flush' = [flush EXCEPT ![f] = "ready"]
       ELSE UNCHANGED flush
    /\ UNCHANGED <<life, sending, relayed, failed, posted>>

\* The locked part of _flush_batch(): the batch is swapped for an empty one.
TakeBatch(f) ==
    /\ relayBatch' = {}
    /\ sending' = [sending EXCEPT ![f] = relayBatch]
    /\ posted' = posted \cup relayBatch
    /\ flush' = [flush EXCEPT ![f] = IF relayBatch = {} THEN "none" ELSE "sending"]

\* A flush task runs, or the loop wakes up.
TaskFlushes(f) ==
    /\ f \in Task /\ flush[f] = "ready" /\ TakeBatch(f)
    /\ UNCHANGED <<life, relayed, failed, queued>>

LoopFlushes ==
    /\ life = "running" /\ flush[Loop] = "none" /\ TakeBatch(Loop)
    /\ UNCHANGED <<life, relayed, failed, queued>>

\* _flush_batch() returns to its caller.
Return(f) ==
    /\ flush' = [flush EXCEPT ![f] = "none"]
    /\ sending' = [sending EXCEPT ![f] = {}]
    /\ UNCHANGED <<life, relayBatch, queued, posted>>

\* Status 200: of a batch, the service queues some and reports the others as
\* errors; a single torrent it has queued.
Answered(f, n) ==
    /\ flush[f] = "sending" /\ Return(f)
    /\ Cardinality(sending[f]) = 1 => n = 1
    /\ relayed' = relayed + n
    /\ failed' = failed + Cardinality(sending[f]) - n

\* Mutant of RelaySendFails: counted in the sender and by its caller.
SendFailsTwice(f) ==
    /\ flush[f] = "sending" /\ Return(f)
    /\ failed' = failed + 2 * Cardinality(sending[f])
    /\ UNCHANGED relayed

\* Another status, a connection error, an unreadable answer, a timeout: each
\* counts all that was sent, in one place only.
RelaySendFails(f) ==
    /\ flush[f] = "sending" /\ Return(f)
    /\ failed' = failed + Cardinality(sending[f])
    /\ UNCHANGED relayed

----------------------------------------------------------------------------
\* stop(): _running is cleared and the batch is flushed, ...
BeginRelayStop ==
    /\ life = "running" /\ life' = "flushing"
    /\ TakeBatch(Stopper)
    /\ UNCHANGED <<relayed, failed, queued>>

\* ... then the loop is cancelled and awaited: what it is sending is dropped
\* without being counted, ...
CancelLoop ==
    /\ life = "flushing" /\ flush[Stopper] = "none" /\ life' = "cancelling"
    /\ flush' = [flush EXCEPT ![Loop] = "ended"]
    /\ sending' = [sending EXCEPT ![Loop] = {}]
    /\ UNCHANGED <<relayBatch, relayed, failed, queued, posted>>

\* ... then the flush tasks, those that have not begun included, and the
\* session is closed.
CancelTasks ==
    /\ life = "cancelling" /\ life' = "stopped"
    /\ flush' = [f \in Flusher |-> IF f \in Task THEN "none" ELSE flush[f]]
    /\ sending' = [f \in Flusher |-> {}]
    /\ UNCHANGED <<relayBatch, relayed, failed, queued, posted>>

Flushing(f) ==
    \/ TaskFlushes(f) \/ RelaySendFails(f)
    \/ \E n \in 0..Cardinality(sending[f]) : Answered(f, n)

RelayNext ==
    \/ \E ts \in SUBSET Torrent : Queue(ts)
    \/ \E f \in Flusher : Flushing(f)
    \/ LoopFlushes
    \/ BeginRelayStop \/ CancelLoop \/ CancelTasks

RelaySpec == RelayInit /\ [][RelayNext]_relayVars

\* Tasks are run, requests end (they have a timeout), the loop wakes up every
\* two seconds, and a stop() that was called goes on.
RelayFairness ==
    /\ \A f \in Flusher : WF_relayVars(Flushing(f))
    /\ WF_relayVars(LoopFlushes)
    /\ WF_relayVars(CancelLoop \/ CancelTasks)

RelayFairSpec == RelaySpec /\ RelayFairness

----------------------------------------------------------------------------
\* Type invariant.
RelayTypeOK ==
    /\ life \in {"running", "flushing", "cancelling", "stopped"}
    /\ relayBatch \subseteq Torrent
    /\ flush \in [Flusher -> {"none", "ready", "sending", "ended"}]
    /\ sending \in [Flusher -> SUBSET Torrent]
    /\ relayed \in Nat /\ failed \in Nat
    /\ queued \subseteq Torrent /\ posted \subseteq Torrent

InFlight == UNION {sending[f] : f \in Flusher}

\* Every torrent accepted is in the batch, in one request or in the counters,
\* until stop() cancels: concurrent flushes neither drop nor repeat one.
EachInOnePlace ==
    /\ \A f, g \in Flusher : f # g => sending[f] \cap sending[g] = {}
    /\ relayBatch \cap posted = {} /\ relayBatch \cup posted = queued
    /\ life \in {"running", "flushing"} =>
          Cardinality(posted) = Cardinality(InFlight) + relayed + failed

\* A full batch does not wait for the loop: a flush of it is due, or it has
\* been taken.
FullBatchIsDue ==
    Cardinality(relayBatch) >= RelayBatchSize =>
        \E f \in Task : flush[f] = "ready"

\* Nothing accepted stays in the batch, not even across stop().
BatchIsSent == <>[](queued \subseteq posted)

\* What holds of the batch in every state: each torrent is in one place, and a
\* full batch is due.
RelayInv == RelayTypeOK /\ EachInOnePlace /\ FullBatchIsDue
=============================================================================
