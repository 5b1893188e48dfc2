----------------------------- MODULE ScrapeLock -----------------------------
(***************************************************************************)
(* comet/services/lock.py: DistributedLock objects that contend for one    *)
(* lock_key, that is, for one row of the table scrape_locks, together with *)
(* the periodic deletion of expired rows (core/database.py).               *)
(*                                                                         *)
(* Every await of the code separates two actions: a query is sent with the *)
(* time read before it, is executed by the database at some later moment,  *)
(* and its result is acted upon at a still later one.  A query may raise   *)
(* before or after the database has executed it, and a process may die at  *)
(* any point.                                                              *)
(*                                                                         *)
(* Time is counted in ticks.  expires_at is computed in whole seconds and  *)
(* kept, and compared, as the column keeps it (RealColumn).                *)
(***************************************************************************)
EXTENDS RealColumn

CONSTANTS
    Client,         \* the DistributedLock objects, each with its own uuid4
    NoClient,       \* "there is no row for the key"
    TTL,            \* self.timeout, in ticks
    Second,         \* ticks in a second: int() drops the rest
    RetryInterval,  \* self.retry_interval, in ticks
    WaitTimeouts,   \* the wait_timeout arguments each client may pass
    Ahead,          \* how far each client's clock runs ahead of the slowest
    MaxAhead,       \* the largest such lead, the cleanup's included
    LastStart,      \* bound: no acquire() starts later than this
    Horizon         \* bound: the clock stops here

NoWait == -1        \* wait_timeout=None: one attempt only

ASSUME LockAssumption ==
    /\ NoClient \notin Client
    /\ TTL \in Nat /\ Second \in Nat \ {0}
    /\ RetryInterval \in Nat \ {0}
    /\ WaitTimeouts \in [Client -> SUBSET Int]
    /\ MaxAhead \in Nat /\ Ahead \in [Client -> 0..MaxAhead]
    /\ LastStart \in Nat /\ Horizon \in Nat

VARIABLES
    clock,          \* the slowest process clock; time.time() is never 0
    rowOwner,       \* scrape_locks.instance_id, or NoClient
    rowExpires,     \* scrape_locks.expires_at as stored
    pc,             \* what each client awaits
    acquired,       \* self.acquired
    stamp,          \* loop_time of the attempt under way
    started,        \* start_time of the acquire() under way
    wait,           \* its wait_timeout
    reply,          \* the result of the upsert: did it return a row?
    lease           \* history: the expires_at up to which the caller was
                    \* promised the lock; 0 when it was not, or gave it up

lockVars == <<clock, rowOwner, rowExpires, pc, acquired, stamp, started,
              wait, reply, lease>>

----------------------------------------------------------------------------
Now(i) == clock + Ahead[i]
LatestNow == clock + MaxAhead

\* int(loop_time + self.timeout)
ExpiryFrom(t) == ((t + TTL) \div Second) * Second

Waiting == {"query", "reply", "sleep"}     \* inside acquire()
Releasing == {"delete", "deleted"}         \* inside release()

Goto(i, at) == pc' = [pc EXCEPT ![i] = at]

----------------------------------------------------------------------------
Init ==
    /\ clock = 1
    /\ rowOwner = NoClient /\ rowExpires = 0
    /\ pc = [i \in Client |-> "idle"]
    /\ acquired = [i \in Client |-> FALSE]
    /\ stamp = [i \in Client |-> 0]
    /\ started = [i \in Client |-> 0]
    /\ wait = [i \in Client |-> NoWait]
    /\ reply = [i \in Client |-> FALSE]
    /\ lease = [i \in Client |-> 0]

\* acquire(wait_timeout=w) reads start_time and the first loop_time and sends
\* the upsert.  Calling it while the lock is held is how a lease is renewed.
BeginAcquire(i, w) ==
    /\ pc[i] = "idle" /\ clock <= LastStart
    /\ Goto(i, "query")
    /\ stamp' = [stamp EXCEPT ![i] = Now(i)]
    /\ started' = [started EXCEPT ![i] = Now(i)]
    /\ wait' = [wait EXCEPT ![i] = w]
    /\ UNCHANGED <<clock, rowOwner, rowExpires, acquired, reply, lease>>

\* INSERT ... ON CONFLICT DO UPDATE ... WHERE expired OR own row RETURNING 1,
\* executed by the database with the time the client read before sending it.
Upsert(i) ==
    LET free == \/ rowOwner \in {NoClient, i}
                \/ rowExpires < Stored(stamp[i])
    IN  /\ pc[i] = "query"
        /\ Goto(i, "reply")
        /\ reply' = [reply EXCEPT ![i] = free]
        /\ rowOwner' = IF free THEN i ELSE rowOwner
        /\ rowExpires' = IF free THEN Stored(ExpiryFrom(stamp[i]))
                                 ELSE rowExpires
        /\ UNCHANGED <<clock, acquired, stamp, started, wait, lease>>

\* acquire() sees the returned row and returns True.
Granted(i) ==
    /\ pc[i] = "reply" /\ reply[i]
    /\ Goto(i, "idle")
    /\ acquired' = [acquired EXCEPT ![i] = TRUE]
    /\ lease' = [lease EXCEPT ![i] = ExpiryFrom(stamp[i])]
    /\ reply' = [reply EXCEPT ![i] = FALSE]
    /\ UNCHANGED <<clock, rowOwner, rowExpires, stamp, started, wait>>

GivesUp(i) ==
    \/ wait[i] = NoWait
    \/ wait[i] > 0 /\ stamp[i] - started[i] >= wait[i]

\* acquire() sees no row: it returns False or sleeps before the next attempt.
Refused(i) ==
    /\ pc[i] = "reply" /\ ~reply[i]
    /\ Goto(i, IF GivesUp(i) THEN "idle" ELSE "sleep")
    /\ acquired' = [acquired EXCEPT ![i] = FALSE]
    /\ lease' = [lease EXCEPT ![i] = 0]
    /\ UNCHANGED <<clock, rowOwner, rowExpires, stamp, started, wait, reply>>

\* Mutant of Retry: the loop does not send the query again.
RetryStale(i) ==
    /\ pc[i] = "sleep" /\ Now(i) >= stamp[i] + RetryInterval
    /\ Goto(i, "reply")
    /\ stamp' = [stamp EXCEPT ![i] = Now(i)]
    /\ UNCHANGED <<clock, rowOwner, rowExpires, acquired, started, wait,
                   reply, lease>>

\* asyncio.sleep(retry_interval) is over: the loop starts again.
Retry(i) ==
    /\ pc[i] = "sleep" /\ Now(i) >= stamp[i] + RetryInterval
    /\ Goto(i, "query")
    /\ stamp' = [stamp EXCEPT ![i] = Now(i)]
    /\ UNCHANGED <<clock, rowOwner, rowExpires, acquired, started, wait,
                   reply, lease>>

\* release() by a client that holds the lock, or believes it does.
BeginRelease(i) ==
    /\ pc[i] = "idle" /\ acquired[i]
    /\ Goto(i, "delete")
    /\ lease' = [lease EXCEPT ![i] = 0]
    /\ UNCHANGED <<clock, rowOwner, rowExpires, acquired, stamp, started,
                   wait, reply>>

\* Mutant of Delete: without "AND instance_id = :instance_id".
DeleteAnyones(i) ==
    /\ pc[i] = "delete"
    /\ Goto(i, "deleted")
    /\ rowOwner' = NoClient /\ rowExpires' = 0
    /\ UNCHANGED <<clock, acquired, stamp, started, wait, reply, lease>>

\* DELETE ... WHERE lock_key = ... AND instance_id = ..., executed.
Delete(i) ==
    /\ pc[i] = "delete"
    /\ Goto(i, "deleted")
    /\ rowOwner' = IF rowOwner = i THEN NoClient ELSE rowOwner
    /\ rowExpires' = IF rowOwner = i THEN 0 ELSE rowExpires
    /\ UNCHANGED <<clock, acquired, stamp, started, wait, reply, lease>>

Released(i) ==
    /\ pc[i] = "deleted"
    /\ Goto(i, "idle")
    /\ acquired' = [acquired EXCEPT ![i] = FALSE]
    /\ UNCHANGED <<clock, rowOwner, rowExpires, stamp, started, wait, reply,
                   lease>>

\* The await raises, or its task is cancelled there, before or after the
\* database has executed the statement: acquired keeps its value.
Fail(i) ==
    /\ pc[i] \in Waiting \cup Releasing
    /\ Goto(i, "idle")
    /\ reply' = [reply EXCEPT ![i] = FALSE]
    /\ UNCHANGED <<clock, rowOwner, rowExpires, acquired, stamp, started,
                   wait, lease>>

\* The process dies; its row, if any, stays.
Crash(i) ==
    /\ pc[i] # "crashed"
    /\ Goto(i, "crashed")
    /\ acquired' = [acquired EXCEPT ![i] = FALSE]
    /\ reply' = [reply EXCEPT ![i] = FALSE]
    /\ lease' = [lease EXCEPT ![i] = 0]
    /\ UNCHANGED <<clock, rowOwner, rowExpires, stamp, started, wait>>

\* Mutant of Cleanup: a row goes as it expires.
CleanupEarly ==
    /\ rowOwner # NoClient /\ rowExpires <= Stored(LatestNow)
    /\ rowOwner' = NoClient /\ rowExpires' = 0
    /\ UNCHANGED <<clock, pc, acquired, stamp, started, wait, reply, lease>>

\* cleanup_expired_locks: DELETE ... WHERE expires_at < :current_time, by some
\* process, with a time it read earlier.  A row that qualifies for any such
\* time qualifies for the latest.
Cleanup ==
    /\ rowOwner # NoClient /\ rowExpires < Stored(LatestNow)
    /\ rowOwner' = NoClient /\ rowExpires' = 0
    /\ UNCHANGED <<clock, pc, acquired, stamp, started, wait, reply, lease>>

Tick ==
    /\ clock < Horizon
    /\ clock' = clock + 1
    /\ UNCHANGED <<rowOwner, rowExpires, pc, acquired, stamp, started, wait,
                   reply, lease>>

\* What a client does without the caller's or the environment's choosing.
ClientStep(i) ==
    \/ Upsert(i) \/ Granted(i) \/ Refused(i) \/ Retry(i)
    \/ Delete(i) \/ Released(i)

Next ==
    \/ \E i \in Client :
          \/ \E w \in WaitTimeouts[i] : BeginAcquire(i, w)
          \/ ClientStep(i)
          \/ BeginRelease(i)
          \/ Fail(i)
          \/ Crash(i)
    \/ Cleanup
    \/ Tick

Spec == Init /\ [][Next]_lockVars

\* Sent statements are executed and answered, sleeps end, the cleanup task
\* of some process runs every 60 seconds, and time passes.
LockFairness ==
    /\ \A i \in Client : WF_lockVars(ClientStep(i))
    /\ WF_lockVars(Cleanup)
    /\ WF_lockVars(Tick)

FairSpec == Spec /\ LockFairness

----------------------------------------------------------------------------
\* Type invariant of the row, of every client's attributes and of the clock.
TypeOK ==
    /\ clock \in Nat \ {0}
    /\ rowOwner \in Client \cup {NoClient}
    /\ rowExpires \in Nat
    /\ pc \in [Client -> {"idle", "crashed"} \cup Waiting \cup Releasing]
    /\ acquired \in [Client -> BOOLEAN]
    /\ stamp \in [Client -> Nat] /\ started \in [Client -> Nat]
    /\ wait \in [Client -> Int]
    /\ reply \in [Client -> BOOLEAN]
    /\ lease \in [Client -> Nat]

\* The clients whose promised time has not passed on any clock.
Protected == {i \in Client : lease[i] # 0 /\ LatestNow <= lease[i]}

\* A client that acquire() told True, and that has not called release(), owns
\* the row until the expires_at it asked for has passed on the fastest clock:
\* nobody's upsert, release or cleanup takes it earlier, however late the
\* statements of the others are executed and however the column rounds.
LeaseHonoured ==
    \A i \in Protected : rowOwner = i /\ rowExpires >= Stored(lease[i])

\* The strengthening of LeaseHonoured that every step preserves: clients act
\* on times read no later than now, a renewal never asks for less than was
\* already promised, a result True not yet seen is as good as one seen, and
\* nobody is promised anything once it has begun to give the lock up.
LeaseInv ==
    /\ LeaseHonoured
    /\ \A i \in Client :
          /\ stamp[i] <= Now(i)
          /\ lease[i] <= ExpiryFrom(stamp[i])
          /\ pc[i] \in Releasing \cup {"crashed"} => lease[i] = 0
          /\ (pc[i] = "reply" /\ reply[i] /\ LatestNow <= ExpiryFrom(stamp[i]))
                => rowOwner = i /\ rowExpires >= Stored(ExpiryFrom(stamp[i]))

\* The docstring's promise ("to prevent concurrent scraping"), as far as a
\* lease can give it: two clients are never protected at the same time.
Mutex == INSTANCE LeaseMutex WITH holder <- Protected
ImplementsLeaseMutex == Mutex!Spec

\* A lock whose holder died is not held for ever: once its expires_at passes,
\* the cleanup or a competitor's upsert removes the dead client's row.
OrphanFreed ==
    []<>(\A i \in Client : rowOwner = i /\ pc[i] = "crashed" =>
                              rowExpires >= Stored(Horizon + MaxAhead))

\* Every acquire() returns: at once without a wait_timeout, after the timeout
\* with one, and with wait_timeout=0, which waits without limit, because the
\* row it waits for is released or expires.
AcquireReturns ==
    \A i \in Client : []<>(pc[i] \notin Waiting)

\* Nobody is stuck with a lock: dead clients' rows go and acquire() returns.
NobodyStuck == OrphanFreed /\ AcquireReturns
=============================================================================
