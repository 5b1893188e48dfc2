---------------------------- MODULE BackgroundRun ----------------------------
(***************************************************************************)
(* background_scraper/worker.py: BackgroundScraperWorker on several        *)
(* processes that share a database, each with at most one main task        *)
(* (_run_continuous) that competes for the lock background_scraper_lock,   *)
(* renews it by a task of its own and runs one scraping cycle at a time.   *)
(*                                                                         *)
(* Task.cancel() takes effect where the task awaits: a cancelled task does *)
(* nothing more until CancelledError is raised there, and what is raised   *)
(* in a finally clause leaves the rest of that clause out.  A statement    *)
(* whose await is cancelled or fails may have been executed or not.        *)
(*                                                                         *)
(* The lock is its row: ScrapeLock has the statements it stands for.       *)
(* Discovery is left to DiscoveryPolicy, the episodes of a series and the  *)
(* scrapers to what becomes of the item.                                   *)
(***************************************************************************)
EXTENDS Integers, FiniteSets

CONSTANTS
    Worker,         \* the processes, each with its background_scraper
    Item,           \* rows of background_scraper_items
    Concurrency,    \* BACKGROUND_SCRAPER_CONCURRENT_WORKERS
    PerRun,         \* BACKGROUND_SCRAPER_MAX_MOVIES_PER_RUN, ..._SERIES_...
    Free, Orphan,   \* no row; the row of a lock object nobody uses any more
    MaxUpsets       \* bound: failures, crashes, lost leases, stops, pauses
                    \* and requeues of dead items

ASSUME BackgroundAssumption ==
    /\ IsFiniteSet(Worker) /\ IsFiniteSet(Item)
    /\ Free \notin Worker /\ Orphan \notin Worker /\ Free # Orphan
    /\ Concurrency \in Nat \ {0} /\ PerRun \in Nat /\ MaxUpsets \in Nat

VARIABLES
    leader,         \* the row of the lock
    lapsed,         \* history: workers whose lease ran out while they held it
    main,           \* where _run_continuous() is
    outcome,        \* what leaves its inner try statement
    running,        \* is_running
    paused,         \* is_paused, and not pause_event.is_set()
    stopping,       \* where stop() is
    halted,         \* main tasks that have been cancelled
    cycle,          \* where _run_scraping_cycle() is, or how it ended
    aborted,        \* cycles that will raise CancelledError again
    cancelled,      \* cycles that have been cancelled
    left,           \* remaining_movies, remaining_series
    todo,           \* planned items that have not been started
    inFlight,       \* items with a _scrape_single_media() task
    item,           \* the items: "waiting", "resting", "running" or "dead"
    openRuns,       \* workers with a run whose row is 'running'
    overlapped,     \* history: have two cycles been under way together?
    upsets          \* bound: see MaxUpsets

mainVars == <<main, outcome, running, paused, stopping, halted>>
cycleVars == <<cycle, aborted, cancelled, left, todo, inFlight>>
rowVars == <<item, openRuns>>
leaseVars == <<leader, lapsed, overlapped>>
vars == <<mainVars, cycleVars, rowVars, leaseVars, upsets>>

Ended == {"none", "over", "cancelled", "raised"}
Alive(w) == cycle[w] \notin Ended

Upset == upsets < MaxUpsets /\ upsets' = upsets + 1

Init ==
    /\ leader = Free /\ lapsed = {} /\ overlapped = FALSE
    /\ main = [w \in Worker |-> "off"] /\ outcome = [w \in Worker |-> "go"]
    /\ running = [w \in Worker |-> FALSE]
    /\ paused = [w \in Worker |-> FALSE]
    /\ stopping = [w \in Worker |-> "no"] /\ halted = {}
    /\ cycle = [w \in Worker |-> "none"] /\ aborted = {} /\ cancelled = {}
    /\ left = [w \in Worker |-> 0]
    /\ todo = [w \in Worker |-> {}] /\ inFlight = [w \in Worker |-> {}]
    /\ item \in [Item -> {"waiting", "dead"}] /\ openRuns = {}
    /\ upsets = 0

----------------------------------------------------------------------------
(* The statements of a cycle. *)

\* Mutant of ResetItems: the statement is missing.
ResetNothing == item' = item

\* _reset_running_items(): those of every worker.
ResetItems ==
    item' = [x \in Item |-> IF item[x] = "running" THEN "waiting" ELSE item[x]]

\* The first half of _insert_run_row(): no run that is 'running' can be alive.
ClearRuns == openRuns' = {}

\* What the statement that worker w awaits does in the database.
Statement(w) ==
    \/ cycle[w] = "clearing" /\ ClearRuns /\ UNCHANGED item
    \/ /\ cycle[w] = "inserting"
       /\ openRuns' = openRuns \cup {w} /\ UNCHANGED item
    \/ cycle[w] \in {"resetting", "lastReset"} /\ ResetItems /\ UNCHANGED openRuns
    \/ /\ cycle[w] = "marking" /\ UNCHANGED openRuns
       /\ item' = [x \in Item |-> IF x \in todo[w] THEN "running" ELSE item[x]]
    \/ /\ cycle[w] = "finalizing"
       /\ openRuns' = openRuns \ {w} /\ UNCHANGED item

MaybeStatement(w) == Statement(w) \/ UNCHANGED rowVars

Enters(w, at) == cycle' = [cycle EXCEPT ![w] = at]

\* The statements that are followed by another step of the cycle.
Following == [clearing |-> "inserting", inserting |-> "waking",
              resetting |-> "planning", marking |-> "scraping",
              lastReset |-> "finalizing"]

Executes(w) ==
    /\ w \notin cancelled /\ cycle[w] \in DOMAIN Following
    /\ Statement(w) /\ Enters(w, Following[cycle[w]])
    /\ UNCHANGED <<mainVars, leaseVars, aborted, cancelled, left, todo,
                   inFlight, upsets>>

\* The last one: the run's row is finished, and a cancellation raised again.
Finalizes(w) ==
    /\ w \notin cancelled /\ cycle[w] = "finalizing"
    /\ Statement(w)
    /\ Enters(w, IF w \in aborted THEN "cancelled" ELSE "over")
    /\ aborted' = aborted \ {w}
    /\ UNCHANGED <<mainVars, leaseVars, cancelled, left, todo, inFlight,
                   upsets>>

\* Inside the try statement an exception leads to the finally clause.
Guarded(w) == cycle[w] \in {"waking", "resetting", "planning", "marking",
                            "scraping"}

\* The variables of the try statement are of no use any more.
Drop(w) == /\ todo' = [todo EXCEPT ![w] = {}]
           /\ inFlight' = [inFlight EXCEPT ![w] = {}]
           /\ left' = [left EXCEPT ![w] = 0]

\* A statement raises: the run fails, or the exception leaves the cycle.
StatementRaises(w) ==
    /\ w \notin cancelled /\ Alive(w) /\ cycle[w] # "waking" /\ Upset
    /\ MaybeStatement(w)
    /\ Enters(w, IF Guarded(w) THEN "lastReset" ELSE "raised")
    /\ Drop(w) /\ aborted' = aborted \ {w}
    /\ UNCHANGED <<mainVars, leaseVars, cancelled>>

\* CancelledError is raised in the cycle: the tasks of the items in flight are
\* cancelled with it and the finally clause is run, which it may interrupt.
Interrupted(w) ==
    /\ w \in cancelled /\ Alive(w)
    /\ cancelled' = cancelled \ {w}
    /\ MaybeStatement(w)
    /\ IF Guarded(w)
       THEN Enters(w, "lastReset") /\ aborted' = aborted \cup {w}
       ELSE Enters(w, "cancelled") /\ aborted' = aborted \ {w}
    /\ Drop(w)
    /\ UNCHANGED <<mainVars, leaseVars, upsets>>

----------------------------------------------------------------------------
(* The rest of a cycle. *)

\* _wait_if_paused(), before anything is read.
PauseEnds(w) ==
    /\ w \notin cancelled /\ cycle[w] = "waking" /\ ~paused[w]
    /\ Enters(w, "resetting")
    /\ UNCHANGED <<mainVars, leaseVars, rowVars, aborted, cancelled, left, todo,
                   inFlight, upsets>>

Eligible == {x \in Item : item[x] \in {"waiting", "running"}}

\* _plan_items(): items that are due, not dead and important enough, up to the
\* limit; a 'running' one is as good as any.
Plan(w) ==
    /\ w \notin cancelled /\ cycle[w] = "planning" /\ left[w] > 0 /\ ~paused[w]
    /\ \E xs \in SUBSET Eligible :
          /\ xs # {} /\ Cardinality(xs) <= left[w]
          /\ todo' = [todo EXCEPT ![w] = xs]
          /\ left' = [left EXCEPT ![w] = @ - Cardinality(xs)]
    /\ Enters(w, "marking")
    /\ UNCHANGED <<mainVars, leaseVars, rowVars, aborted, cancelled, inFlight,
                   upsets>>

\* Nothing is planned, the limits are used up, or time is over.
EndPlanning(w) ==
    /\ w \notin cancelled /\ cycle[w] = "planning"
    /\ Enters(w, "lastReset") /\ Drop(w)
    /\ UNCHANGED <<mainVars, leaseVars, rowVars, aborted, cancelled, upsets>>

\* _start_next_item()
StartItem(w, x) ==
    /\ w \notin cancelled /\ cycle[w] = "scraping" /\ ~paused[w]
    /\ x \in todo[w] /\ Cardinality(inFlight[w]) < Concurrency
    /\ todo' = [todo EXCEPT ![w] = @ \ {x}]
    /\ inFlight' = [inFlight EXCEPT ![w] = @ \cup {x}]
    /\ UNCHANGED <<mainVars, leaseVars, rowVars, cycle, aborted, cancelled,
                   left, upsets>>

\* _update_item_state(), whatever the row has become: success and failure give
\* the item a next_retry_at, the last failure allowed makes it dead.
EndItem(w, x) ==
    /\ w \notin cancelled /\ x \in inFlight[w]
    /\ \E next \in {"resting", "dead"} : item' = [item EXCEPT ![x] = next]
    /\ inFlight' = [inFlight EXCEPT ![w] = @ \ {x}]
    /\ UNCHANGED <<mainVars, leaseVars, openRuns, cycle, aborted, cancelled,
                   left, todo, upsets>>

\* The update raises: the exception is logged, and the item stays 'running'.
ItemRaises(w, x) ==
    /\ w \notin cancelled /\ x \in inFlight[w] /\ Upset
    /\ inFlight' = [inFlight EXCEPT ![w] = @ \ {x}]
    /\ UNCHANGED <<mainVars, leaseVars, rowVars, cycle, aborted, cancelled,
                   left, todo>>

\* The deadline has passed: _defer_items(), for those still 'running'.
Defer(w, xs) ==
    /\ w \notin cancelled /\ cycle[w] = "scraping"
    /\ item' = [x \in Item |-> IF x \in xs /\ item[x] = "running"
                               THEN "resting" ELSE item[x]]
    /\ UNCHANGED <<mainVars, leaseVars, openRuns, cycle, aborted, cancelled,
                   left, upsets>>

DeferRemaining(w) ==
    /\ todo[w] # {} /\ Defer(w, todo[w])
    /\ todo' = [todo EXCEPT ![w] = {}] /\ UNCHANGED inFlight

DeferItem(w, x) ==
    /\ x \in inFlight[w] /\ Defer(w, {x})
    /\ inFlight' = [inFlight EXCEPT ![w] = @ \ {x}] /\ UNCHANGED todo

EndBatch(w) ==
    /\ w \notin cancelled /\ cycle[w] = "scraping"
    /\ todo[w] = {} /\ inFlight[w] = {}
    /\ Enters(w, "planning")
    /\ UNCHANGED <<mainVars, leaseVars, rowVars, aborted, cancelled, left, todo,
                   inFlight, upsets>>

----------------------------------------------------------------------------
(* _run_continuous(). *)

At(w, where) == main' = [main EXCEPT ![w] = where]
Leaves(w, what) == outcome' = [outcome EXCEPT ![w] = what]
Runs(w, yes) == running' = [running EXCEPT ![w] = yes]

\* "if self.is_running: await asyncio.sleep(...)", and the end of the loop.
Sleeps(w) == At(w, IF running[w] THEN "sleeping" ELSE "off")

\* acquire() by a new lock object returns True: the tasks are created.
Granted(w) ==
    /\ main[w] = "asking" /\ w \notin halted /\ leader = Free
    /\ leader' = w /\ lapsed' = lapsed \ {w}
    /\ overlapped' = (overlapped \/ \E v \in Worker : Alive(v))
    /\ At(w, "working") /\ Enters(w, "clearing")
    /\ left' = [left EXCEPT ![w] = PerRun]
    /\ UNCHANGED <<outcome, running, paused, stopping, halted, aborted,
                   cancelled, todo, inFlight, rowVars, upsets>>

\* Another instance is running background scraping.
Refused(w) ==
    /\ main[w] = "asking" /\ w \notin halted /\ leader # Free
    /\ Sleeps(w)
    /\ UNCHANGED <<outcome, running, paused, stopping, halted, cycleVars,
                   rowVars, leaseVars, upsets>>

\* The row is left to a lock object that is gone, if it was ours.
Orphaned(w) == leader' = IF leader = w THEN Orphan ELSE leader

\* acquire() raises inside and returns False; the row may have been taken.
AcquireFails(w) ==
    /\ main[w] = "asking" /\ w \notin halted /\ Upset
    /\ leader' \in {leader, IF leader = Free THEN Orphan ELSE leader}
    /\ Sleeps(w)
    /\ UNCHANGED <<outcome, running, paused, stopping, halted, cycleVars,
                   rowVars, lapsed, overlapped>>

\* _maintain_lock(): the row has expired and is taken again, ...
Renews(w) ==
    /\ main[w] = "working" /\ leader = Free
    /\ leader' = w /\ lapsed' = lapsed \ {w}
    /\ UNCHANGED <<mainVars, cycleVars, rowVars, overlapped, upsets>>

\* _cancel_task(scrape_task): an ended cycle is passed over, whatever it raised.
CancelsCycle(w) ==
    /\ At(w, IF Alive(w) THEN "awaiting" ELSE "releasing")
    /\ cancelled' = IF Alive(w) THEN cancelled \cup {w} ELSE cancelled

\* ... or the task ends, and the cycle is cancelled in the finally clause.
AbortsCycle(w) ==
    /\ main[w] = "working" /\ w \notin halted
    /\ CancelsCycle(w)
    /\ UNCHANGED <<outcome, running, paused, stopping, halted, cycle, aborted,
                   left, todo, inFlight, rowVars, leaseVars>>

LosesLock(w) == leader \notin {w, Free} /\ AbortsCycle(w) /\ UNCHANGED upsets
RenewalFails(w) == Upset /\ AbortsCycle(w)

\* asyncio.wait() returns: the cycle's own exception goes on in the main task.
CycleEnds(w) ==
    /\ main[w] = "working" /\ w \notin halted /\ ~Alive(w)
    /\ At(w, "closing")
    /\ Leaves(w, CASE cycle[w] = "over" -> "go"
                   [] cycle[w] = "cancelled" -> "cancelled"
                   [] cycle[w] = "raised" -> "raised")
    /\ UNCHANGED <<running, paused, stopping, halted, cycleVars, rowVars,
                   leaseVars, upsets>>

\* The finally clause: the lock task has been cancelled and awaited.
Closes(w) ==
    /\ main[w] = "closing" /\ w \notin halted
    /\ CancelsCycle(w)
    /\ UNCHANGED <<outcome, running, paused, stopping, halted, cycle, aborted,
                   left, todo, inFlight, rowVars, leaseVars, upsets>>

\* Mutant of Awaited: only the lock task is cancelled and awaited.
AwaitedNot(w) ==
    /\ main[w] = "awaiting" /\ w \notin halted
    /\ At(w, "releasing")
    /\ UNCHANGED <<outcome, running, paused, stopping, halted, cycleVars,
                   rowVars, leaseVars, upsets>>

\* The aborted cycle has ended.  If it raised, the clause ends there: the lock
\* is not released.
Awaited(w) ==
    /\ main[w] = "awaiting" /\ w \notin halted /\ ~Alive(w)
    /\ IF cycle[w] = "raised"
       THEN At(w, "recovering") /\ Orphaned(w)
       ELSE At(w, "releasing") /\ UNCHANGED leader
    /\ UNCHANGED <<outcome, running, paused, stopping, halted, cycleVars,
                   rowVars, lapsed, overlapped, upsets>>

\* What follows the inner try statement.
GoesOn(w) ==
    /\ Leaves(w, "go")
    /\ \/ outcome[w] = "go" /\ Sleeps(w) /\ UNCHANGED running
       \/ outcome[w] = "raised" /\ At(w, "recovering") /\ UNCHANGED running
       \/ outcome[w] = "cancelled" /\ At(w, "off") /\ Runs(w, FALSE)

\* release(); an exception inside it is logged.
Released(w) ==
    /\ main[w] = "releasing" /\ w \notin halted
    /\ leader' = IF leader = w THEN Free ELSE leader
    /\ GoesOn(w)
    /\ UNCHANGED <<paused, stopping, halted, cycleVars, rowVars, lapsed,
                   overlapped, upsets>>

ReleaseFails(w) ==
    /\ main[w] = "releasing" /\ w \notin halted /\ leader = w /\ Upset
    /\ Orphaned(w) /\ GoesOn(w)
    /\ UNCHANGED <<paused, stopping, halted, cycleVars, rowVars, lapsed,
                   overlapped>>

\* A sleep is over: BACKGROUND_SCRAPER_INTERVAL, or 300 s after an exception.
Wakes(w) ==
    /\ main[w] \in {"sleeping", "recovering"} /\ w \notin halted
    /\ At(w, IF running[w] THEN "asking" ELSE "off")
    /\ UNCHANGED <<outcome, running, paused, stopping, halted, cycleVars,
                   rowVars, leaseVars, upsets>>

\* CancelledError is raised in the main task, which ends ...
HaltsLoop(w) ==
    /\ main[w] \in {"asking", "releasing", "sleeping", "recovering"}
    /\ At(w, "off") /\ Leaves(w, "go")
    /\ Runs(w, main[w] = "recovering" /\ running[w])
    /\ \/ main[w] # "releasing" /\ UNCHANGED leader
       \/ main[w] = "asking" /\ leader = Free /\ leader' = Orphan
       \/ main[w] = "releasing" /\ leader = w /\ leader' = Free
       \/ main[w] = "releasing" /\ Orphaned(w)
    /\ UNCHANGED cancelled

\* ... or is in asyncio.wait() and goes through the finally clause, ...
HaltsWait(w) ==
    /\ main[w] = "working" /\ At(w, "closing") /\ Leaves(w, "cancelled")
    /\ UNCHANGED <<running, leader, cancelled>>

\* ... or is in _cancel_task(), which takes the CancelledError for that of the
\* task it awaits, and goes on.
HaltSwallowed(w) ==
    /\ main[w] \in {"closing", "awaiting"} /\ CancelsCycle(w)
    /\ UNCHANGED <<outcome, running, leader>>

Halts(w) ==
    /\ w \in halted /\ halted' = halted \ {w}
    /\ HaltsLoop(w) \/ HaltsWait(w) \/ HaltSwallowed(w)
    /\ UNCHANGED <<paused, stopping, cycle, aborted, left, todo, inFlight,
                   rowVars, lapsed, overlapped, upsets>>

----------------------------------------------------------------------------
(* The admin's requests, and the environment. *)

\* start(), unless there is a task.
Start(w) ==
    /\ main[w] = "off" /\ stopping[w] = "no" /\ ~running[w]
    /\ At(w, "asking") /\ Runs(w, TRUE)
    /\ UNCHANGED <<outcome, paused, stopping, halted, cycleVars, rowVars,
                   leaseVars, upsets>>

Stops(w, where) == stopping' = [stopping EXCEPT ![w] = where]

\* Mutant of BeginStop: is_running keeps its value.
BeginStopRunning(w) ==
    /\ main[w] # "off" /\ stopping[w] = "no" /\ Upset
    /\ paused' = [paused EXCEPT ![w] = FALSE]
    /\ IF Alive(w)
       THEN Stops(w, "cycle") /\ cancelled' = cancelled \cup {w} /\ UNCHANGED halted
       ELSE Stops(w, "main") /\ halted' = halted \cup {w} /\ UNCHANGED cancelled
    /\ UNCHANGED <<main, outcome, running, cycle, aborted, left, todo,
                   inFlight, rowVars, leaseVars>>

\* stop(): the flags, then the cycle is cancelled and awaited, ...
BeginStop(w) ==
    /\ main[w] # "off" /\ stopping[w] = "no" /\ Upset
    /\ Runs(w, FALSE) /\ paused' = [paused EXCEPT ![w] = FALSE]
    /\ IF Alive(w)
       THEN Stops(w, "cycle") /\ cancelled' = cancelled \cup {w} /\ UNCHANGED halted
       ELSE Stops(w, "main") /\ halted' = halted \cup {w} /\ UNCHANGED cancelled
    /\ UNCHANGED <<main, outcome, cycle, aborted, left, todo, inFlight,
                   rowVars, leaseVars>>

\* ... then the main task, ...
StopHalts(w) ==
    /\ stopping[w] = "cycle" /\ ~Alive(w) /\ cycle[w] # "raised"
    /\ Stops(w, "main")
    /\ halted' = IF main[w] = "off" THEN halted ELSE halted \cup {w}
    /\ UNCHANGED <<main, outcome, running, paused, cycleVars, rowVars,
                   leaseVars, upsets>>

\* ... unless the cycle's exception ends stop(), which leaves the main task.
StopRaises(w) ==
    /\ stopping[w] = "cycle" /\ cycle[w] = "raised"
    /\ Stops(w, "no")
    /\ UNCHANGED <<main, outcome, running, paused, halted, cycleVars, rowVars,
                   leaseVars, upsets>>

StopReturnsNow(w) ==
    /\ stopping[w] = "main" /\ main[w] = "off"
    /\ Stops(w, "no")
    /\ UNCHANGED <<main, outcome, running, paused, halted, cycleVars, rowVars,
                   leaseVars, upsets>>

Pause(w) ==
    /\ running[w] /\ ~paused[w] /\ Upset
    /\ paused' = [paused EXCEPT ![w] = TRUE]
    /\ UNCHANGED <<main, outcome, running, stopping, halted, cycleVars, rowVars,
                   leaseVars>>

Resume(w) ==
    /\ running[w] /\ paused[w]
    /\ paused' = [paused EXCEPT ![w] = FALSE]
    /\ UNCHANGED <<main, outcome, running, stopping, halted, cycleVars, rowVars,
                   leaseVars, upsets>>

\* requeue_dead_items()
RequeueDead ==
    /\ \E x \in Item : item[x] = "dead"
    /\ item' = [x \in Item |-> IF item[x] = "dead" THEN "waiting" ELSE item[x]]
    /\ Upset
    /\ UNCHANGED <<mainVars, cycleVars, openRuns, leaseVars>>

\* next_retry_at and the success cutoff pass.
Due(x) ==
    /\ item[x] = "resting" /\ item' = [item EXCEPT ![x] = "waiting"]
    /\ UNCHANGED <<mainVars, cycleVars, openRuns, leaseVars, upsets>>

\* The renewal is late: the row expires, and whoever asks next gets it.
LeaseExpires(w) ==
    /\ leader = w /\ main[w] # "off" /\ Upset
    /\ leader' = Free /\ lapsed' = lapsed \cup {w}
    /\ UNCHANGED <<mainVars, cycleVars, rowVars, overlapped>>

OrphanExpires ==
    /\ leader = Orphan /\ leader' = Free
    /\ UNCHANGED <<mainVars, cycleVars, rowVars, lapsed, overlapped, upsets>>

\* The process dies; its supervisor may start it again.
Crash(w) ==
    /\ main[w] # "off" /\ Upset
    /\ At(w, "off") /\ Leaves(w, "go") /\ Runs(w, FALSE) /\ Stops(w, "no")
    /\ paused' = [paused EXCEPT ![w] = FALSE] /\ halted' = halted \ {w}
    /\ Enters(w, "none") /\ Drop(w)
    /\ aborted' = aborted \ {w} /\ cancelled' = cancelled \ {w}
    /\ Orphaned(w)
    /\ UNCHANGED <<rowVars, lapsed, overlapped>>

----------------------------------------------------------------------------
CycleStep(w) ==
    \/ Executes(w) \/ Finalizes(w) \/ Interrupted(w)
    \/ PauseEnds(w) \/ Plan(w) \/ EndPlanning(w) \/ EndBatch(w)
    \/ \E x \in Item : StartItem(w, x) \/ EndItem(w, x)

MainStep(w) ==
    \/ Granted(w) \/ Refused(w) \/ LosesLock(w) \/ CycleEnds(w)
    \/ Closes(w) \/ Awaited(w) \/ Released(w) \/ Wakes(w) \/ Halts(w)

StopStep(w) == StopHalts(w) \/ StopRaises(w) \/ StopReturnsNow(w)

Trouble(w) ==
    \/ StatementRaises(w) \/ \E x \in Item : ItemRaises(w, x)
    \/ AcquireFails(w) \/ RenewalFails(w) \/ ReleaseFails(w)
    \/ LeaseExpires(w) \/ Crash(w)

Next ==
    \/ \E w \in Worker :
          \/ CycleStep(w) \/ MainStep(w) \/ StopStep(w) \/ Trouble(w)
          \/ DeferRemaining(w) \/ \E x \in Item : DeferItem(w, x)
          \/ Start(w) \/ BeginStop(w) \/ Pause(w) \/ Resume(w) \/ Renews(w)
    \/ RequeueDead \/ OrphanExpires
    \/ \E x \in Item : Due(x)

Spec == Init /\ [][Next]_vars

\* Statements are answered, scrapers and sleeps end, cancelled tasks get to
\* run, and an abandoned row expires after 60 seconds.
RunFairness ==
    /\ \A w \in Worker : /\ WF_vars(CycleStep(w)) /\ WF_vars(MainStep(w))
                          /\ WF_vars(StopStep(w))
    /\ WF_vars(OrphanExpires)

FairSpec == Spec /\ RunFairness

----------------------------------------------------------------------------
\* Type invariant.
TypeOK ==
    /\ leader \in Worker \cup {Free, Orphan} /\ lapsed \subseteq Worker
    /\ overlapped \in BOOLEAN /\ upsets \in 0..MaxUpsets
    /\ main \in [Worker -> {"off", "asking", "working", "closing",
                            "awaiting", "releasing", "sleeping", "recovering"}]
    /\ outcome \in [Worker -> {"go", "cancelled", "raised"}]
    /\ running \in [Worker -> BOOLEAN] /\ paused \in [Worker -> BOOLEAN]
    /\ stopping \in [Worker -> {"no", "cycle", "main"}]
    /\ halted \subseteq Worker
    /\ cycle \in [Worker -> Ended \cup DOMAIN Following
                             \cup {"waking", "planning", "scraping",
                                   "finalizing"}]
    /\ aborted \subseteq Worker /\ cancelled \subseteq Worker
    /\ left \in [Worker -> 0..PerRun]
    /\ todo \in [Worker -> SUBSET Item] /\ inFlight \in [Worker -> SUBSET Item]
    /\ item \in [Item -> {"waiting", "resting", "running", "dead"}]
    /\ openRuns \subseteq Worker

\* Leadership: as long as a worker's lease has not run out, its cycle is under
\* way only while the row of the lock is its own; no exception, cancellation
\* or stop() releases the lock before the cycle has ended.
CycleUnderLease ==
    \A w \in Worker : Alive(w) /\ w \notin lapsed => leader = w

\* Unless two cycles have overlapped, at most one run is shown as 'running',
\* whatever crashes and failures the earlier ones ended with.
OneRunOpen == ~overlapped => Cardinality(openRuns) <= 1

\* Tasks of items do not outlive their cycle.  Unless two cycles have
\* overlapped, no item is scraped twice at a time, although a 'running' item
\* may be planned, and each is 'running' while it is scraped.
ScrapedOnce ==
    /\ \A w \in Worker : inFlight[w] # {} => cycle[w] = "scraping"
    /\ ~overlapped =>
          /\ \A w \in Worker : \A x \in inFlight[w] : item[x] = "running"
          /\ \A v, w \in Worker : v # w => inFlight[v] \cap inFlight[w] = {}

\* What holds of the workers in every state: a cycle runs under its own lease,
\* one run is open and no item is scraped twice at a time.
WorkerInv == TypeOK /\ CycleUnderLease /\ OneRunOpen /\ ScrapedOnce

\* Nobody scrapes, or the admin has paused a worker.
Idle == \/ \A w \in Worker : main[w] = "off"
        \/ \E w \in Worker : paused[w]

\* "Recovered stale running row": what a crash, a failure or a stop left as
\* 'running' does not stay so while some worker goes on.
StaleRecovered ==
    /\ \A x \in Item : []<>(item[x] # "running" \/ Idle)
    /\ \A w \in Worker : []<>(w \notin openRuns \/ Idle)

\* stop() returns, or raises, whenever it is called: also while the lock has
\* just been lost and its cancellation is swallowed.
StopReturns == \A w \in Worker : []<>(stopping[w] = "no")
=============================================================================
