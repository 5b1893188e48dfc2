--------------------------- MODULE TorrentUpdates ---------------------------
(***************************************************************************)
(* The queue of torrent updates (services/torrent_manager.py,              *)
(* TorrentUpdateQueue): calls of add_torrent_infos() and its kin stage     *)
(* updates of rows; a worker collects them into batches, upserts them and  *)
(* hands them to the network; a batch whose upsert failed for a reason     *)
(* that may pass goes back through the retry worker; stop() drains all of  *)
(* it.                                                                     *)
(*                                                                         *)
(* An update is an object of the code, and u is its own first content.     *)
(* While an object waits in the queue, the updates of the same row are     *)
(* merged into it.  One action is what a task does between two awaits that *)
(* may suspend it: the asyncio locks of the class are never contended, as  *)
(* nothing is awaited while one is held.                                   *)
(***************************************************************************)
EXTENDS Integers, SequencesExt

CONSTANTS
    Update, Row, RowOf,     \* RowOf[u] is the row_key of u
    Call, Items,            \* Items[c] are the updates of call c, in order
    Retrier,                \* the retry worker, as one who puts in the queue
    Network,                \* updates received from the network
    Unfit,                  \* updates that are no valid TorrentMetadata
    QueueMax,               \* DEFAULT_TORRENT_UPDATE_QUEUE_MAXSIZE
    BatchSize,
    BroadcastMax,           \* maxsize of _broadcast_queue
    MaxAttempts,            \* broadcast_max_retries
    MaxFailures,            \* bound on the upserts that fail in a behaviour
    STOP, None

\* Each update is an object of the code that one call makes.
ASSUME UpdatesAssumption ==
    /\ RowOf \in [Update -> Row] /\ Items \in [Call -> Seq(Update)]
    /\ \A c1, c2 \in Call : \A n1 \in DOMAIN Items[c1], n2 \in DOMAIN Items[c2] :
          Items[c1][n1] = Items[c2][n2] => c1 = c2 /\ n1 = n2
    /\ STOP \notin Update /\ None \notin Update
    /\ Retrier \notin Call
    /\ QueueMax \in Nat \ {0} /\ BatchSize \in Nat \ {0}
    /\ BroadcastMax \in Nat \ {0} /\ MaxAttempts \in Nat \ {0}
    /\ MaxFailures \in Nat

VARIABLES
    pending,     \* _pending_updates
    data,        \* data[u]: the update whose fields object u carries
    queue,       \* queue
    unfinished,  \* queue._unfinished_tasks
    called,      \* calls that have been made
    slow,        \* slow[p]: what p has still to put into the full queue
    worker,      \* what _process_queue() is doing
    batch,       \* its batch: keys taken from the queue, items to write
    heap,        \* _retry_heap
    retrying,    \* is there a _retry_worker?
    idle,        \* _retry_idle_event
    outbox,      \* number of batches in _broadcast_queue
    sender,      \* what _process_broadcast_queue() is doing
    tries,       \* its attempts with the present batch
    stopper,     \* how far stop() is
    woken,       \* has the future that stop() awaits in join() its result?
    db,          \* db[r]: the update whose fields row r has
    failures,    \* number of failed upserts
    content,     \* history: the updates merged into each object
    arrived,     \* history: the accepted updates, in order
    written,     \* history: updates whose object was upserted
    dropped,     \* history: updates given up
    again,       \* history: rows with an object that was tried again
    killed       \* history: has the worker died, and no other been started?

queueVars == <<pending, data, queue, unfinished, slow, content>>
callVars == <<called, arrived>>
workVars == <<worker, batch, db, failures, written, again, killed>>
retryVars == <<heap, retrying, idle>>
sendVars == <<outbox, sender, tries>>
stopVars == <<stopper, woken>>
vars == <<queueVars, callVars, workVars, retryVars, sendVars, stopVars, dropped>>

Putter == Call \cup {Retrier}
Stopping == stopper # "no"
NoBatch == [keys |-> 0, items |-> <<>>]

Contents(objects) == UNION {content[u] : u \in objects}
RetryIdle == heap = {} /\ slow[Retrier] = <<>>      \* _retry_is_idle()

Init ==
    /\ pending = [r \in Row |-> None]
    /\ data = [u \in Update |-> u] /\ content = [u \in Update |-> {u}]
    /\ queue = <<>> /\ unfinished = 0
    /\ called = {} /\ slow = [p \in Putter |-> <<>>]
    /\ worker = "none" /\ batch = NoBatch
    /\ heap = {} /\ retrying = FALSE /\ idle = TRUE
    /\ outbox = 0 /\ sender = "none" /\ tries = 0
    /\ stopper = "no" /\ woken = FALSE
    /\ db = [r \in Row |-> None] /\ failures = 0
    /\ arrived = <<>> /\ written = {} /\ dropped = {} /\ again = {}
    /\ killed = FALSE

----------------------------------------------------------------------------
Full(q) == Len(q) >= QueueMax

\* _merge_torrent_updates(): the fields of the incoming update replace those
\* of the object that waits, even when the incoming one is an older object
\* that is tried again.
Merged(s, at, u) == [s EXCEPT !.data[at] = s.data[u],
                              !.content[at] = @ \cup s.content[u]]

\* _stage_pending_items(), one item: merged, queued, or slow.
StageOne(s, u) ==
    LET r == RowOf[u] IN
    CASE s.pending[r] # None -> Merged(s, s.pending[r], u)
      [] s.pending[r] = None /\ Full(s.queue) ->
            [s EXCEPT !.pending[r] = u, !.slow = Append(@, u)]
      [] s.pending[r] = None /\ ~Full(s.queue) ->
            [s EXCEPT !.pending[r] = u, !.queue = Append(@, u)]

Staged(items) ==
    FoldLeft(StageOne, [pending |-> pending, data |-> data, content |-> content,
                        queue |-> queue, slow |-> <<>>], items)

\* _queue_items(), up to the first put() that has to wait.
Stage(p, items) ==
    LET s == Staged(items) IN
    /\ pending' = s.pending /\ data' = s.data /\ content' = s.content
    /\ queue' = s.queue /\ unfinished' = unfinished + Len(s.queue) - Len(queue)
    /\ slow' = [slow EXCEPT ![p] = s.slow]

\* A call, with _ensure_task() for the worker.
Add(c) ==
    /\ c \notin called /\ called' = called \cup {c}
    /\ ~Stopping
    /\ Stage(c, Items[c]) /\ arrived' = arrived \o Items[c]
    /\ worker' = IF worker = "none" THEN "idle" ELSE worker
    /\ killed' = FALSE
    /\ UNCHANGED <<batch, db, failures, written, again, dropped, retryVars,
                   sendVars, stopVars>>

Refuse(c) ==
    /\ c \notin called /\ called' = called \cup {c}
    /\ Stopping
    /\ UNCHANGED <<arrived, queueVars, workVars, retryVars, sendVars, stopVars,
                   dropped>>

\* await queue.put(item), for as many of the slow items as there is room.
PutSlow(p) ==
    LET room == QueueMax - Len(queue)
        n == IF room < Len(slow[p]) THEN room ELSE Len(slow[p])
    IN
    /\ slow[p] # <<>> /\ ~Full(queue)
    /\ queue' = queue \o SubSeq(slow[p], 1, n)
    /\ unfinished' = unfinished + n
    /\ slow' = [slow EXCEPT ![p] = SubSeq(@, n + 1, Len(@))]
    /\ UNCHANGED <<pending, data, content>>

Put(c) ==
    /\ PutSlow(c)
    /\ UNCHANGED <<callVars, workVars, retryVars, sendVars, stopVars, dropped>>

\* Mutant of Discarded: the rows stay pending.
DiscardedNot(items) == pending

\* _discard_pending_item() for each of the items.
Discarded(items) ==
    [r \in Row |-> IF pending[r] \in ToSet(items) THEN None ELSE pending[r]]

\* The task that made the call is cancelled while it waits; with the object
\* goes what other calls have merged into it.
Cancel(c) ==
    /\ slow[c] # <<>> /\ slow' = [slow EXCEPT ![c] = <<>>]
    /\ pending' = Discarded(slow[c])
    /\ dropped' = dropped \cup Contents(ToSet(slow[c]))
    /\ UNCHANGED <<data, content, queue, unfinished, callVars, workVars,
                   retryVars, sendVars, stopVars>>

----------------------------------------------------------------------------
\* _process_queue()
\* Mutant of TaskDone: called once for a batch.
TaskDoneOnce(n) ==
    /\ unfinished' = unfinished - 1
    /\ woken' = (woken \/ (stopper = "join" /\ unfinished = 1))

\* queue.task_done(), n times; join() is over once nothing is unfinished, even
\* if something is put before its caller runs.
TaskDone(n) ==
    /\ unfinished' = unfinished - n
    /\ woken' = (woken \/ (stopper = "join" /\ unfinished = n))

Kept(kept, u) == IF u # STOP /\ pending[RowOf[u]] = u THEN Append(kept, u) ELSE kept
Ready(taken) == FoldLeft(Kept, <<>>, taken)

\* _finalize_batch_items(): the rows are no longer pending.  The STOP of
\* stop(), collected behind an item, has no row_key: the worker dies of it.
Finalize(taken) ==
    /\ pending' = [r \in Row |-> IF pending[r] \in ToSet(Ready(taken))
                                 THEN None ELSE pending[r]]
    /\ \/ /\ STOP \notin ToSet(taken)
          /\ worker' = "writing"
          /\ batch' = [keys |-> Len(taken), items |-> Ready(taken)]
          /\ UNCHANGED dropped
       \/ /\ STOP \in ToSet(taken)
          /\ worker' = "none" /\ batch' = NoBatch
          /\ dropped' = dropped \cup Contents(ToSet(Ready(taken)))

\* _collect_queue_batch(): what is there, up to the size of a batch; then it
\* waits for more until flush_interval is over, unless the queue is stopping.
Collect(waits) ==
    LET room == BatchSize - Len(batch.items)
        n == IF room < Len(queue) THEN room ELSE Len(queue)
        taken == batch.items \o SubSeq(queue, 1, n)
    IN
    /\ queue # <<>> /\ queue' = SubSeq(queue, n + 1, Len(queue))
    /\ IF Len(taken) < BatchSize /\ waits
       THEN /\ worker' = "collecting"
            /\ batch' = [keys |-> Len(taken), items |-> taken]
            /\ UNCHANGED <<pending, dropped>>
       ELSE Finalize(taken)
    /\ UNCHANGED <<data, content, unfinished, slow, callVars, db, failures,
                   written, again, killed, retryVars, sendVars, stopVars>>

Take ==
    /\ worker = "idle" /\ queue # <<>> /\ Head(queue) # STOP
    /\ Collect(~Stopping)

TakeMore == worker = "collecting" /\ Collect(TRUE)

FlushTimeout ==
    /\ worker = "collecting" /\ Finalize(batch.items)
    /\ UNCHANGED <<data, content, queue, unfinished, slow, callVars, db,
                   failures, written, again, killed, retryVars, sendVars,
                   stopVars>>

TakeStop ==
    /\ worker = "idle" /\ queue # <<>> /\ Head(queue) = STOP
    /\ queue' = Tail(queue) /\ TaskDone(1) /\ worker' = "none"
    /\ UNCHANGED <<pending, data, content, slow, stopper, callVars, batch, db,
                   failures, written, again, killed, retryVars, sendVars,
                   dropped>>

\* The rows as the upsert of the batch leaves them.
Upserted ==
    [r \in Row |->
        LET of == {u \in ToSet(batch.items) : RowOf[u] = r} IN
        IF of = {} THEN db[r] ELSE data[CHOOSE u \in of : TRUE]]

Own == {u \in ToSet(batch.items) : ~(content[u] \subseteq Network)}

BatchOver(at) == worker' = at /\ batch' = NoBatch /\ TaskDone(batch.keys)

\* The upsert is done, and _enqueue_broadcast_items() follows: without a
\* backend, or with nothing but network torrents, there is nothing to send;
\* TorrentMetadata refuses an unfit item, which ends the worker; else the
\* broadcast worker gets the batch, or this worker waits for room.
Write ==
    /\ worker = "writing"
    /\ db' = Upserted
    /\ written' = written \cup Contents(ToSet(batch.items))
    /\ \/ BatchOver("idle") /\ UNCHANGED <<killed, sendVars>>
       \/ /\ \E u \in Own : data[u] \in Unfit
          /\ BatchOver("none") /\ killed' = TRUE /\ UNCHANGED sendVars
       \/ /\ Own # {} /\ outbox < BroadcastMax
          /\ BatchOver("idle") /\ outbox' = outbox + 1
          /\ sender' = IF sender = "none" THEN "idle" ELSE sender
          /\ UNCHANGED <<killed, tries>>
       \/ /\ Own # {} /\ outbox = BroadcastMax
          /\ worker' = "handing"
          /\ UNCHANGED <<batch, unfinished, woken, killed, sendVars>>
    /\ UNCHANGED <<pending, data, content, queue, slow, callVars, failures,
                   again, retryVars, stopper, dropped>>

Hand ==
    /\ worker = "handing" /\ outbox < BroadcastMax
    /\ outbox' = outbox + 1 /\ BatchOver("idle")
    /\ UNCHANGED <<pending, data, content, queue, slow, callVars, db, failures,
                   written, again, killed, retryVars, sender, tries, stopper,
                   dropped>>

\* Mutant of Requeue: the worker for the batch is not started.
RequeueAlone(items) ==
    /\ heap' = heap \cup {items} /\ idle' = FALSE /\ UNCHANGED retrying

\* _schedule_requeue_batch(); max_retries is None.
Requeue(items) ==
    /\ heap' = heap \cup {items} /\ idle' = FALSE /\ retrying' = TRUE

\* The upsert raises, its transaction committed or not.  Unless stopping, the
\* batch is kept for the retry worker when the error may pass.
WriteFails ==
    /\ worker = "writing" /\ failures < MaxFailures
    /\ failures' = failures + 1
    /\ db' \in {db, Upserted}
    /\ BatchOver("idle")
    /\ \/ /\ ~Stopping /\ Requeue(batch.items)
          /\ again' = again \cup {RowOf[u] : u \in ToSet(batch.items)}
          /\ UNCHANGED dropped
       \/ /\ dropped' = dropped \cup Contents(ToSet(batch.items))
          /\ UNCHANGED <<again, retryVars>>
    /\ UNCHANGED <<pending, data, content, queue, slow, callVars, written,
                   killed, sendVars, stopper>>

----------------------------------------------------------------------------
\* _process_retry_queue(): a batch whose delay is over is staged again.
\* Mutant of IdleAfter: what is still being put is not looked at.
IdleAfterPop(h, q) == h = {}

IdleAfter(h, q) == h = {} /\ q = <<>>

RetryStages ==
    /\ retrying /\ slow[Retrier] = <<>>
    /\ \E items \in heap :
          /\ Stage(Retrier, items)
          /\ heap' = heap \ {items}
    /\ idle' = (idle \/ IdleAfter(heap', slow'[Retrier]))
    /\ UNCHANGED <<retrying, callVars, workVars, sendVars, stopVars, dropped>>

RetryPuts ==
    /\ retrying /\ PutSlow(Retrier)
    /\ idle' = (idle \/ IdleAfter(heap, slow'[Retrier]))
    /\ UNCHANGED <<heap, retrying, callVars, workVars, sendVars, stopVars,
                   dropped>>

----------------------------------------------------------------------------
\* _process_broadcast_queue()
SenderTakes ==
    /\ sender = "idle" /\ outbox > 0
    /\ outbox' = outbox - 1 /\ sender' = "sending" /\ tries' = 1
    /\ UNCHANGED <<queueVars, callVars, workVars, retryVars, stopVars, dropped>>

\* broadcast_torrents() returns, or raises for the last time.
Sent ==
    /\ sender = "sending" /\ sender' = "idle" /\ tries' = 0
    /\ UNCHANGED <<outbox, queueVars, callVars, workVars, retryVars, stopVars,
                   dropped>>

SendFails ==
    /\ sender = "sending" /\ ~Stopping /\ tries < MaxAttempts
    /\ sender' = "pausing"
    /\ UNCHANGED <<outbox, tries, queueVars, callVars, workVars, retryVars,
                   stopVars, dropped>>

SendAgain ==
    /\ sender = "pausing" /\ sender' = "sending" /\ tries' = tries + 1
    /\ UNCHANGED <<outbox, queueVars, callVars, workVars, retryVars, stopVars,
                   dropped>>

----------------------------------------------------------------------------
\* stop().  Where it finds no task to wait for it goes on without a pause in
\* the code; a step between is harmless.
BeginStop ==
    /\ ~Stopping
    /\ stopper' = IF worker = "none" THEN "sender" ELSE "drain"
    /\ UNCHANGED <<queueVars, callVars, workVars, retryVars, sendVars, woken,
                   dropped>>

PutStop ==
    IF Full(queue) THEN stopper' = "put" /\ UNCHANGED <<queue, unfinished>>
    ELSE /\ stopper' = "gather"
         /\ queue' = Append(queue, STOP) /\ unfinished' = unfinished + 1

Putting == \E p \in Putter : slow[p] # <<>>     \* _queue_waiters > 0

\* Mutant of AfterJoin: the retry worker is forgotten.
AfterJoinHasty ==
    IF Putting THEN stopper' = "drain" /\ UNCHANGED <<queue, unfinished>>
    ELSE PutStop

\* _wait_for_tracked_queue_drain(), when join() has returned.
AfterJoin ==
    CASE Putting -> stopper' = "drain" /\ UNCHANGED <<queue, unfinished>>
      [] ~Putting /\ ~RetryIdle ->
            stopper' = "retry" /\ UNCHANGED <<queue, unfinished>>
      [] ~Putting /\ RetryIdle -> PutStop

Drain ==
    /\ stopper = "drain" /\ ~Putting
    /\ IF unfinished = 0 THEN AfterJoin
       ELSE stopper' = "join" /\ UNCHANGED <<queue, unfinished>>
    /\ UNCHANGED <<pending, data, content, slow, callVars, workVars, retryVars,
                   sendVars, woken, dropped>>

Joined ==
    /\ stopper = "join" /\ woken /\ woken' = FALSE
    /\ AfterJoin
    /\ UNCHANGED <<pending, data, content, slow, callVars, workVars, retryVars,
                   sendVars, dropped>>

RetryDrained ==
    /\ stopper = "retry" /\ RetryIdle /\ stopper' = "drain"
    /\ idle' = TRUE
    /\ UNCHANGED <<queueVars, callVars, workVars, heap, retrying, sendVars,
                   woken, dropped>>

StopPut ==
    /\ stopper = "put" /\ ~Full(queue) /\ PutStop
    /\ UNCHANGED <<pending, data, content, slow, callVars, workVars, retryVars,
                   sendVars, woken, dropped>>

Gathered ==
    /\ stopper = "gather" /\ worker = "none" /\ stopper' = "sender"
    /\ UNCHANGED <<queueVars, callVars, workVars, retryVars, sendVars, woken,
                   dropped>>

\* The broadcast queue is drained in the same way; the STOP finds it empty.
SenderStops ==
    /\ stopper = "sender" /\ sender \in {"none", "idle"} /\ outbox = 0
    /\ sender' = "none" /\ stopper' = "retrier"
    /\ UNCHANGED <<queueVars, callVars, workVars, retryVars, outbox, tries,
                   woken, dropped>>

\* The retry worker is cancelled, and forgotten what is left.
StopEnds ==
    /\ stopper = "retrier" /\ stopper' = "stopped"
    /\ heap' = {} /\ retrying' = FALSE /\ idle' = TRUE
    /\ pending' = [r \in Row |-> None]
    /\ slow' = [slow EXCEPT ![Retrier] = <<>>]
    /\ UNCHANGED <<data, content, queue, unfinished, callVars, workVars,
                   sendVars, woken, dropped>>

----------------------------------------------------------------------------
Work == Take \/ TakeMore \/ FlushTimeout \/ TakeStop \/ Write \/ Hand
Retry == RetryStages \/ RetryPuts
Send == SenderTakes \/ Sent \/ SendAgain
Stop == \/ Drain \/ Joined \/ RetryDrained \/ StopPut \/ Gathered
        \/ SenderStops \/ StopEnds

Next ==
    \/ \E c \in Call : Add(c) \/ Refuse(c) \/ Put(c) \/ Cancel(c)
    \/ Work \/ WriteFails \/ Retry \/ Send \/ SendFails
    \/ BeginStop \/ Stop

Spec == Init /\ [][Next]_vars

\* The event loop runs every task that is ready, delays end, and the database
\* and the backend answer or raise.  Nobody has to call or to stop.
UpdateFairness ==
    /\ WF_vars(Work) /\ WF_vars(Retry)
    /\ WF_vars(Send) /\ WF_vars(Stop)
    /\ \A c \in Call : WF_vars(Put(c))

FairSpec == Spec /\ UpdateFairness

----------------------------------------------------------------------------
Accepted == ToSet(arrived)
Settled == written \cup dropped

\* Where an object is that somebody will take.
Places ==
    (ToSet(queue) \ {STOP}) \cup ToSet(batch.items)
        \cup (UNION {ToSet(slow[p]) : p \in Putter}) \cup (UNION {ToSet(h) : h \in heap})

\* Type invariant; and join() counts all that is queued or in the batch.
TypeOK ==
    /\ \A r \in Row : pending[r] # None => pending[r] \in Update /\ RowOf[pending[r]] = r
    /\ \A r \in Row : db[r] # None => db[r] \in Update /\ RowOf[db[r]] = r
    /\ \A u \in Update : data[u] \in content[u] /\ content[u] \subseteq Update
    /\ queue \in Seq(Update \cup {STOP}) /\ Len(queue) <= QueueMax
    /\ unfinished >= Len(queue) + batch.keys
    /\ called \subseteq Call /\ slow \in [Putter -> Seq(Update)]
    /\ worker \in {"none", "idle", "collecting", "writing", "handing"}
    /\ batch.keys \in 0..BatchSize /\ batch.items \in Seq(Update)
    /\ \A h \in heap : h \in Seq(Update)
    /\ retrying \in BOOLEAN /\ idle \in BOOLEAN /\ woken \in BOOLEAN
    /\ outbox \in 0..BroadcastMax /\ tries \in 0..MaxAttempts
    /\ sender \in {"none", "idle", "sending", "pausing"}
    /\ stopper \in {"no", "drain", "join", "retry", "put", "gather", "sender",
                    "retrier", "stopped"}
    /\ failures \in 0..MaxFailures
    /\ again \subseteq Row /\ killed \in BOOLEAN
    /\ Accepted \cup written \cup dropped \subseteq Update

\* However updates are merged, delayed, cancelled and tried again: until the
\* queue is stopped, an accepted update is written, given up, or part of an
\* object that is in the queue, in the batch, on its way into the queue or
\* waiting for another try.  In particular an update is never merged into an
\* object that nobody will take.
AcceptedHasPlace ==
    stopper # "stopped" => Accepted \subseteq Settled \cup Contents(Places)

\* When nothing of a row is under way, the row has the fields of the update
\* accepted last, unless one was given up or tried again: batches keep the order
\* of their row.  (An object that is tried again may overwrite a newer one.)
SettledIsNewest ==
    \A r \in Row \ again :
        LET of == {u \in Accepted : RowOf[u] = r} IN
        of # {} /\ of \cap dropped = {} /\ (\A u \in Places : RowOf[u] # r)
                /\ stopper # "stopped"
            => \E n \in DOMAIN arrived :
                  /\ arrived[n] \in of /\ db[r] = arrived[n]
                  /\ \A m \in n + 1..Len(arrived) : arrived[m] \notin of

\* The event that stop() awaits is set only when the retry worker has nothing
\* left: stop() would else look again and again without a pause, and no other
\* task could run.
RetryEventTrue == idle => RetryIdle

\* stop() leaves nothing behind: every update accepted is written, or was given
\* up by its caller or after an error, however calls, retries and the drain
\* overlap - unless the worker had died of an unfit update.
StopDrains == stopper = "stopped" /\ ~killed => Accepted \subseteq Settled

\* Every accepted update is written or given up in the end, although the queues
\* are bounded, producers wait and upserts fail, as long as the worker lives.
AcceptedSettles == <>[](Accepted \subseteq Settled \/ worker = "none")

\* A stop() that was called returns, unless the worker has died of an unfit
\* update.
StopReturns == <>[](Stopping => stopper = "stopped" \/ killed)

\* What holds of the queue in every state: its parts fit together and nothing
\* that was accepted has got lost.
UpdatesInv == TypeOK /\ AcceptedHasPlace /\ SettledIsNewest
=============================================================================
