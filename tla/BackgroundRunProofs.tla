------------------------- MODULE BackgroundRunProofs -------------------------
(***************************************************************************)
(* Theorems about BackgroundRun, for any workers, items, limits and upsets *)
(***************************************************************************)
EXTENDS BackgroundRun, FiniteSetTheorems, TLAPS

----------------------------------------------------------------------------
(* The inductive invariant. *)

\* A cycle that has not ended has a main task that still waits for it, and a
\* main task waits only for a cycle that has begun.
CycleIsAwaited ==
    \A w \in Worker :
        /\ Alive(w) => main[w] \in {"working", "closing", "awaiting"}
        /\ main[w] = "working" => cycle[w] # "none"

\* The lists of a cycle: an item is planned or in flight, not both.
ListsDisjoint ==
    \A w \in Worker : /\ inFlight[w] # {} => cycle[w] = "scraping"
                      /\ todo[w] \cap inFlight[w] = {}

\* As long as no two cycles have overlapped, a cycle is alone with the rows.
AloneWithRows ==
    ~overlapped =>
        /\ \A v, w \in Worker : Alive(v) /\ Alive(w) => v = w
        /\ \A w \in Worker : cycle[w] = "inserting" => openRuns = {}
        /\ \A v, w \in openRuns : v = w
        /\ \A w \in Worker : cycle[w] = "scraping" =>
              \A x \in todo[w] \cup inFlight[w] : item[x] = "running"

RunInv ==
    TypeOK /\ CycleIsAwaited /\ CycleUnderLease /\ ListsDisjoint /\ AloneWithRows

LEMMA RunInit == Init => RunInv
<1> SUFFICES ASSUME Init PROVE RunInv
  OBVIOUS
<1>1. TypeOK
  <2>1. item \in [Item -> {"waiting", "resting", "running", "dead"}]
    BY DEF Init
  <2>2. "none" \in Ended /\ 0 \in 0..PerRun /\ 0 \in 0..MaxUpsets
    BY BackgroundAssumption DEF Ended
  <2> QED
    BY <2>1, <2>2 DEF Init, TypeOK
<1>2. \A w \in Worker : ~Alive(w) /\ cycle[w] = "none" /\ main[w] = "off"
  BY DEF Init, Alive, Ended
<1>3. CycleIsAwaited /\ CycleUnderLease /\ ListsDisjoint /\ AloneWithRows
  BY <1>2 DEF Init, CycleIsAwaited, CycleUnderLease, ListsDisjoint, AloneWithRows
<1> QED
  BY <1>1, <1>3 DEF RunInv

----------------------------------------------------------------------------
(* Types. *)

\* Where a cycle may be, spelled out.
LEMMA CyclePlaces ==
    Ended \cup DOMAIN Following \cup {"waking", "planning", "scraping", "finalizing"}
      = {"none", "over", "cancelled", "raised", "clearing", "inserting",
         "waking", "resetting", "planning", "marking", "scraping",
         "lastReset", "finalizing"}
  BY DEF Ended, Following

\* What follows a statement is a place of the cycle.
LEMMA FollowingType ==
    ASSUME NEW at \in DOMAIN Following
    PROVE  Following[at] \in {"inserting", "waking", "planning", "scraping",
                              "finalizing"}
  BY DEF Following

\* A flag that is set or cleared stays a flag.
LEMMA FlagSet ==
    ASSUME NEW f \in [Worker -> BOOLEAN], NEW w \in Worker, NEW yes \in BOOLEAN
    PROVE  [f EXCEPT ![w] = yes] \in [Worker -> BOOLEAN]
  OBVIOUS

LEMMA TypeNext == TypeOK /\ CycleIsAwaited /\ [Next]_vars => TypeOK'
<1> SUFFICES ASSUME TypeOK, CycleIsAwaited, [Next]_vars PROVE TypeOK'
  OBVIOUS
<1> USE BackgroundAssumption, CyclePlaces
    DEF TypeOK, mainVars, cycleVars, rowVars, leaseVars, Enters, Drop, At, Leaves,
        Runs, Stops, Upset, Orphaned
<1>1. ASSUME NEW w \in Worker, Statement(w)
      PROVE  /\ item' \in [Item -> {"waiting", "resting", "running", "dead"}]
             /\ openRuns' \subseteq Worker
  BY <1>1 DEF Statement, ClearRuns, ResetItems
<1>2. ASSUME NEW w \in Worker, CycleStep(w)
      PROVE  TypeOK'
  <2>1. CASE Executes(w)
    BY <2>1, <1>1, FollowingType DEF Executes
  <2>2. CASE Finalizes(w)
    BY <2>2, <1>1 DEF Finalizes
  <2>3. CASE Interrupted(w)
    BY <2>3, <1>1 DEF Interrupted, MaybeStatement
  <2>4. CASE PauseEnds(w) \/ EndPlanning(w) \/ EndBatch(w)
    BY <2>4 DEF PauseEnds, EndPlanning, EndBatch
  <2>5. CASE Plan(w)
    <3>1. PICK xs \in SUBSET Eligible :
             /\ Cardinality(xs) <= left[w]
             /\ todo' = [todo EXCEPT ![w] = xs]
             /\ left' = [left EXCEPT ![w] = @ - Cardinality(xs)]
      BY <2>5 DEF Plan
    <3>2. xs \subseteq Item /\ Cardinality(xs) \in Nat
      BY FS_Subset, FS_CardinalityType DEF Eligible
    <3>3. left[w] - Cardinality(xs) \in 0..PerRun
      BY <3>1, <3>2
    <3> QED
      BY <2>5, <3>1, <3>2, <3>3 DEF Plan
  <2>6. ASSUME NEW i \in Item, StartItem(w, i) \/ EndItem(w, i)
        PROVE  TypeOK'
    BY <2>6 DEF StartItem, EndItem
  <2> QED
    BY <1>2, <2>1, <2>2, <2>3, <2>4, <2>5, <2>6 DEF CycleStep
<1>3. ASSUME NEW w \in Worker, MainStep(w)
      PROVE  TypeOK'
  <2>1. CASE Granted(w)
    BY <2>1 DEF Granted, Alive
  <2>2. CASE Refused(w) \/ Wakes(w)
    BY <2>2 DEF Refused, Wakes, Sleeps
  <2>3. CASE LosesLock(w) \/ Closes(w)
    BY <2>3 DEF LosesLock, AbortsCycle, Closes, CancelsCycle
  <2>4. CASE CycleEnds(w)
    <3>1. cycle[w] \in {"over", "cancelled", "raised"}
      BY <2>4 DEF CycleEnds, CycleIsAwaited, Alive, Ended
    <3> QED
      BY <2>4, <3>1 DEF CycleEnds
  <2>5. CASE Awaited(w)
    BY <2>5 DEF Awaited
  <2>6. CASE Released(w)
    <3>1. running' \in [Worker -> BOOLEAN]
      BY <2>6, FlagSet DEF Released, GoesOn
    <3>2. main' \in [Worker -> {"off", "asking", "working", "closing",
                            "awaiting", "releasing", "sleeping", "recovering"}] /\ outcome' \in [Worker -> {"go", "cancelled", "raised"}]
      BY <2>6 DEF Released, GoesOn, Sleeps
    <3> QED
      BY <2>6, <3>1, <3>2 DEF Released
  <2>7. CASE Halts(w)
    <3>1. UNCHANGED <<paused, stopping, cycle, aborted, left, todo, inFlight,
                      rowVars, lapsed, overlapped, upsets>>
          /\ halted' = halted \ {w}
      BY <2>7 DEF Halts
    <3>2. CASE HaltsLoop(w)
      BY <3>1, <3>2 DEF HaltsLoop
    <3>3. CASE HaltsWait(w)
      BY <3>1, <3>3 DEF HaltsWait
    <3>4. CASE HaltSwallowed(w)
      BY <3>1, <3>4 DEF HaltSwallowed, CancelsCycle
    <3> QED
      BY <2>7, <3>2, <3>3, <3>4 DEF Halts
  <2> QED
    BY <1>3, <2>1, <2>2, <2>3, <2>4, <2>5, <2>6, <2>7 DEF MainStep
<1>4. ASSUME NEW w \in Worker, StopStep(w)
      PROVE  TypeOK'
  BY <1>4 DEF StopStep, StopHalts, StopRaises, StopReturnsNow
<1>5. ASSUME NEW w \in Worker, Trouble(w)
      PROVE  TypeOK'
  <2>1. CASE StatementRaises(w)
    BY <2>1, <1>1 DEF StatementRaises, MaybeStatement
  <2>2. ASSUME NEW i \in Item, ItemRaises(w, i)
        PROVE  TypeOK'
    BY <2>2 DEF ItemRaises
  <2>3. CASE AcquireFails(w) \/ RenewalFails(w)
    BY <2>3 DEF AcquireFails, Sleeps, RenewalFails, AbortsCycle, CancelsCycle
  <2>4. CASE ReleaseFails(w)
    <3>1. running' \in [Worker -> BOOLEAN]
      BY <2>4, FlagSet DEF ReleaseFails, GoesOn
    <3>2. main' \in [Worker -> {"off", "asking", "working", "closing",
                            "awaiting", "releasing", "sleeping", "recovering"}] /\ outcome' \in [Worker -> {"go", "cancelled", "raised"}]
      BY <2>4 DEF ReleaseFails, GoesOn, Sleeps
    <3> QED
      BY <2>4, <3>1, <3>2 DEF ReleaseFails
  <2>5. CASE LeaseExpires(w)
    BY <2>5 DEF LeaseExpires
  <2>6. CASE Crash(w)
    <3>1. running' \in [Worker -> BOOLEAN] /\ paused' \in [Worker -> BOOLEAN]
      BY <2>6, FlagSet DEF Crash
    <3>2. /\ main' \in [Worker -> {"off", "asking", "working", "closing",
                            "awaiting", "releasing", "sleeping", "recovering"}]
          /\ stopping' \in [Worker -> {"no", "cycle", "main"}]
          /\ cycle' \in [Worker -> Ended \cup DOMAIN Following
                             \cup {"waking", "planning", "scraping",
                                   "finalizing"}]
      BY <2>6 DEF Crash
    <3> QED
      BY <2>6, <3>1, <3>2 DEF Crash
  <2> QED
    BY <1>5, <2>1, <2>2, <2>3, <2>4, <2>5, <2>6 DEF Trouble
<1>6. ASSUME NEW w \in Worker,
             \/ DeferRemaining(w) \/ \E i \in Item : DeferItem(w, i)
             \/ Start(w) \/ BeginStop(w) \/ Pause(w) \/ Resume(w) \/ Renews(w)
      PROVE  TypeOK'
  <2>1. CASE DeferRemaining(w)
    BY <2>1 DEF DeferRemaining, Defer
  <2>2. ASSUME NEW i \in Item, DeferItem(w, i)
        PROVE  TypeOK'
    BY <2>2 DEF DeferItem, Defer
  <2>3. CASE Pause(w) \/ Resume(w) \/ Renews(w)
    <3>1. paused' \in [Worker -> BOOLEAN]
      BY <2>3, FlagSet DEF Pause, Resume, Renews
    <3> QED
      BY <2>3, <3>1 DEF Pause, Resume, Renews
  <2>5. CASE Start(w)
    <3>1. running' \in [Worker -> BOOLEAN]
      BY <2>5, FlagSet DEF Start
    <3> QED
      BY <2>5, <3>1 DEF Start
  <2>4. CASE BeginStop(w)
    <3>1. running' \in [Worker -> BOOLEAN] /\ paused' \in [Worker -> BOOLEAN]
      BY <2>4, FlagSet DEF BeginStop
    <3> QED
      BY <2>4, <3>1 DEF BeginStop
  <2> QED
    BY <1>6, <2>1, <2>2, <2>3, <2>4, <2>5
<1>7. CASE RequeueDead \/ OrphanExpires \/ \E i \in Item : Due(i)
  BY <1>7 DEF RequeueDead, OrphanExpires, Due
<1>8. CASE UNCHANGED vars
  BY <1>8 DEF vars
<1> QED
  BY <1>2, <1>3, <1>4, <1>5, <1>6, <1>7, <1>8 DEF Next

----------------------------------------------------------------------------
(* A main task and its cycle. *)

\* The steps of a cycle, and the others as far as they concern it.
CycleMoves(w) ==
    \/ Executes(w) \/ Finalizes(w) \/ Interrupted(w) \/ StatementRaises(w)
    \/ PauseEnds(w) \/ Plan(w) \/ EndPlanning(w) \/ EndBatch(w)

MainMoves(w) ==
    \/ Refused(w) \/ LosesLock(w) \/ CycleEnds(w) \/ Closes(w) \/ Awaited(w)
    \/ Released(w) \/ Wakes(w) \/ Halts(w) \/ AcquireFails(w) \/ RenewalFails(w)
    \/ ReleaseFails(w) \/ Start(w)

\* Every step is a cycle's, a main task's, the beginning of a cycle, a crash, or
\* leaves both where they are.
LEMMA Moves ==
    ASSUME [Next]_vars
    PROVE  \/ \E w \in Worker : CycleMoves(w)
           \/ \E w \in Worker : MainMoves(w)
           \/ \E w \in Worker : Granted(w)
           \/ \E w \in Worker : Crash(w)
           \/ UNCHANGED <<main, cycle>>
<1> USE DEF mainVars, cycleVars, rowVars, leaseVars
<1>1. ASSUME NEW w \in Worker,
             \/ \E i \in Item : StartItem(w, i) \/ EndItem(w, i) \/ ItemRaises(w, i)
             \/ StopStep(w) \/ LeaseExpires(w) \/ DeferRemaining(w)
             \/ \E i \in Item : DeferItem(w, i)
             \/ BeginStop(w) \/ Pause(w) \/ Resume(w) \/ Renews(w)
      PROVE  UNCHANGED <<main, cycle>>
  BY <1>1 DEF StartItem, EndItem, ItemRaises, StopStep, StopHalts, StopRaises,
              StopReturnsNow, LeaseExpires, DeferRemaining, DeferItem, Defer,
              BeginStop, Pause, Resume, Renews
<1>2. CASE RequeueDead \/ OrphanExpires \/ \E i \in Item : Due(i)
  BY <1>2 DEF RequeueDead, OrphanExpires, Due
<1>3. CASE UNCHANGED vars
  BY <1>3 DEF vars
<1> QED
  BY <1>1, <1>2, <1>3
     DEF Next, CycleStep, MainStep, Trouble, CycleMoves, MainMoves

\* A step of a cycle is made by one that is alive, and leads to no other's.
LEMMA CycleMove ==
    ASSUME TypeOK, NEW w \in Worker, CycleMoves(w)
    PROVE  /\ Alive(w) /\ cycle' = [cycle EXCEPT ![w] = cycle'[w]]
           /\ cycle'[w] # "none"
           /\ UNCHANGED <<mainVars, leaseVars>>
<1> USE DEF TypeOK, mainVars, cycleVars, rowVars, leaseVars, Enters, Drop, Alive, Ended
<1>1. CASE Executes(w)
  <2>1. cycle[w] \in {"clearing", "inserting", "resetting", "marking", "lastReset"}
    BY <1>1 DEF Executes, Following
  <2>2. Following[cycle[w]] # "none"
    BY <2>1 DEF Following
  <2> QED
    BY <1>1, <2>1, <2>2 DEF Executes
<1>2. CASE Finalizes(w)
  BY <1>2 DEF Finalizes
<1>3. CASE Interrupted(w)
  BY <1>3 DEF Interrupted
<1>4. CASE StatementRaises(w)
  BY <1>4 DEF StatementRaises, Upset
<1>5. CASE PauseEnds(w) \/ Plan(w) \/ EndPlanning(w) \/ EndBatch(w)
  BY <1>5 DEF PauseEnds, Plan, EndPlanning, EndBatch
<1> QED
  BY <1>1, <1>2, <1>3, <1>4, <1>5 DEF CycleMoves

\* A step of a main task leaves the cycles where they are, and gives up its own
\* only when that has ended.
LEMMA MainMove ==
    ASSUME TypeOK, NEW w \in Worker, MainMoves(w)
    PROVE  /\ UNCHANGED <<cycle, lapsed, overlapped, rowVars, todo, inFlight>>
           /\ main' = [main EXCEPT ![w] = main'[w]] /\ main'[w] # "working"
           /\ Alive(w) /\ main[w] \in {"working", "closing", "awaiting"} =>
                 main'[w] \in {"closing", "awaiting"}
<1> USE DEF TypeOK, mainVars, cycleVars, rowVars, leaseVars, At
<1>1. CASE Refused(w) \/ Wakes(w) \/ Start(w) \/ AcquireFails(w)
  BY <1>1 DEF Refused, Wakes, Start, AcquireFails, Sleeps
<1>2. CASE LosesLock(w) \/ RenewalFails(w) \/ Closes(w)
  BY <1>2 DEF LosesLock, RenewalFails, AbortsCycle, Closes, CancelsCycle
<1>3. CASE CycleEnds(w) \/ Awaited(w)
  BY <1>3 DEF CycleEnds, Awaited
<1>4. CASE Released(w) \/ ReleaseFails(w)
  BY <1>4 DEF Released, ReleaseFails, GoesOn, Sleeps
<1>5. CASE Halts(w)
  BY <1>5 DEF Halts, HaltsLoop, HaltsWait, HaltSwallowed, CancelsCycle
<1> QED
  BY <1>1, <1>2, <1>3, <1>4, <1>5 DEF MainMoves

LEMMA AwaitedNext ==
    TypeOK /\ CycleIsAwaited /\ [Next]_vars => CycleIsAwaited'
<1> SUFFICES ASSUME TypeOK, CycleIsAwaited, [Next]_vars PROVE CycleIsAwaited'
  OBVIOUS
<1> USE DEF CycleIsAwaited, Alive, TypeOK
<1>1. ASSUME NEW w \in Worker, CycleMoves(w) PROVE CycleIsAwaited'
  BY <1>1, CycleMove DEF mainVars
<1>2. ASSUME NEW w \in Worker, MainMoves(w) PROVE CycleIsAwaited'
  BY <1>2, MainMove
<1>3. ASSUME NEW w \in Worker, Granted(w) PROVE CycleIsAwaited'
  BY <1>3 DEF Granted, At, Enters
<1>4. ASSUME NEW w \in Worker, Crash(w) PROVE CycleIsAwaited'
  BY <1>4 DEF Crash, At, Enters, Ended
<1>5. CASE UNCHANGED <<main, cycle>>
  BY <1>5
<1> QED
  BY <1>1, <1>2, <1>3, <1>4, <1>5, Moves

----------------------------------------------------------------------------
(* The lease. *)

\* A main task gives up the row when its cycle has ended, or touches a free one.
LEMMA MainLeavesLease ==
    ASSUME TypeOK, CycleIsAwaited, NEW w \in Worker, MainMoves(w),
           leader' # leader
    PROVE  leader = Free \/ (leader = w /\ ~Alive(w))
<1> USE DEF TypeOK, leaseVars
<1>1. CASE AcquireFails(w)
  BY <1>1 DEF AcquireFails
<1>2. CASE Awaited(w)
  BY <1>2 DEF Awaited, Orphaned
<1>3. CASE Released(w) \/ ReleaseFails(w)
  BY <1>3 DEF Released, ReleaseFails, Orphaned, CycleIsAwaited
<1>4. CASE Halts(w)
  BY <1>4 DEF Halts, HaltsLoop, HaltsWait, HaltSwallowed, Orphaned, CycleIsAwaited
<1>5. CASE \/ Refused(w) \/ LosesLock(w) \/ CycleEnds(w) \/ Closes(w)
           \/ Wakes(w) \/ RenewalFails(w) \/ Start(w)
  BY <1>5 DEF Refused, LosesLock, RenewalFails, AbortsCycle, CycleEnds, Closes,
              Wakes, Start
<1> QED
  BY <1>1, <1>2, <1>3, <1>4, <1>5 DEF MainMoves

\* What else becomes of the row of the lock.
LEMMA RowMoves ==
    ASSUME [Next]_vars
    PROVE  \/ \E w \in Worker : \/ CycleMoves(w) \/ MainMoves(w) \/ Granted(w)
                                \/ Crash(w) \/ LeaseExpires(w) \/ Renews(w)
           \/ OrphanExpires
           \/ UNCHANGED <<cycle, leader, lapsed, overlapped>>
<1> USE DEF mainVars, cycleVars, rowVars, leaseVars
<1>1. ASSUME NEW w \in Worker,
             \/ \E i \in Item : StartItem(w, i) \/ EndItem(w, i) \/ ItemRaises(w, i)
             \/ StopStep(w) \/ DeferRemaining(w)
             \/ \E i \in Item : DeferItem(w, i)
             \/ BeginStop(w) \/ Pause(w) \/ Resume(w)
      PROVE  UNCHANGED <<cycle, leader, lapsed, overlapped>>
  BY <1>1 DEF StartItem, EndItem, ItemRaises, StopStep, StopHalts, StopRaises,
              StopReturnsNow, DeferRemaining, DeferItem, Defer, BeginStop, Pause,
              Resume
<1>2. CASE RequeueDead \/ \E i \in Item : Due(i)
  BY <1>2 DEF RequeueDead, Due
<1>3. CASE UNCHANGED vars
  BY <1>3 DEF vars
<1> QED
  BY <1>1, <1>2, <1>3
     DEF Next, CycleStep, MainStep, Trouble, CycleMoves, MainMoves

LEMMA LeaseNext ==
    TypeOK /\ CycleIsAwaited /\ CycleUnderLease /\ [Next]_vars => CycleUnderLease'
<1> SUFFICES ASSUME TypeOK, CycleIsAwaited, CycleUnderLease, [Next]_vars
             PROVE  CycleUnderLease'
  OBVIOUS
<1> USE BackgroundAssumption DEF CycleUnderLease, Alive, TypeOK
<1>1. ASSUME NEW w \in Worker, CycleMoves(w) PROVE CycleUnderLease'
  BY <1>1, CycleMove DEF leaseVars
<1>2. ASSUME NEW w \in Worker, MainMoves(w) PROVE CycleUnderLease'
  BY <1>2, MainMove, MainLeavesLease
<1>3. ASSUME NEW w \in Worker, Granted(w) PROVE CycleUnderLease'
  BY <1>3 DEF Granted, Enters
<1>4. ASSUME NEW w \in Worker, Crash(w) PROVE CycleUnderLease'
  BY <1>4 DEF Crash, Enters, Orphaned, Ended
<1>5. ASSUME NEW w \in Worker, LeaseExpires(w) \/ Renews(w)
      PROVE  CycleUnderLease'
  BY <1>5 DEF LeaseExpires, Renews, cycleVars
<1>6. CASE OrphanExpires
  BY <1>6 DEF OrphanExpires, cycleVars
<1>7. CASE UNCHANGED <<cycle, leader, lapsed, overlapped>>
  BY <1>7
<1> QED
  BY <1>1, <1>2, <1>3, <1>4, <1>5, <1>6, <1>7, RowMoves

----------------------------------------------------------------------------
(* The items and the rows of the runs. *)

\* Every step is one of these, as far as lists, items and runs are concerned.
LEMMA ListMoves ==
    ASSUME [Next]_vars
    PROVE  \/ \E w \in Worker : CycleMoves(w)
           \/ \E w \in Worker : Granted(w) \/ Crash(w)
           \/ \E w \in Worker, i \in Item :
                 StartItem(w, i) \/ EndItem(w, i) \/ ItemRaises(w, i) \/ DeferItem(w, i)
           \/ \E w \in Worker : DeferRemaining(w)
           \/ RequeueDead
           \/ \E i \in Item : Due(i)
           \/ UNCHANGED <<cycle, todo, inFlight, item, openRuns, overlapped>>
<1> USE DEF mainVars, cycleVars, rowVars, leaseVars
<1>1. ASSUME NEW w \in Worker, MainMoves(w)
      PROVE  UNCHANGED <<cycle, todo, inFlight, item, openRuns, overlapped>>
  BY <1>1 DEF MainMoves, Refused, LosesLock, AbortsCycle, CycleEnds, Closes, Awaited,
              Released, Wakes, Halts, AcquireFails, RenewalFails, ReleaseFails, Start
<1>2. ASSUME NEW w \in Worker,
             \/ StopStep(w) \/ LeaseExpires(w) \/ BeginStop(w) \/ Pause(w)
             \/ Resume(w) \/ Renews(w)
      PROVE  UNCHANGED <<cycle, todo, inFlight, item, openRuns, overlapped>>
  BY <1>2 DEF StopStep, StopHalts, StopRaises, StopReturnsNow, LeaseExpires,
              BeginStop, Pause, Resume, Renews
<1>3. CASE OrphanExpires \/ UNCHANGED vars
  BY <1>3 DEF OrphanExpires, vars
<1> QED
  BY <1>1, <1>2, <1>3
     DEF Next, CycleStep, MainStep, Trouble, CycleMoves, MainMoves

LEMMA ListsNext ==
    TypeOK /\ CycleIsAwaited /\ ListsDisjoint /\ [Next]_vars => ListsDisjoint'
<1> SUFFICES ASSUME TypeOK, CycleIsAwaited, ListsDisjoint, [Next]_vars PROVE ListsDisjoint'
  OBVIOUS
<1> USE DEF ListsDisjoint, TypeOK, Enters, Drop, cycleVars
<1>1. ASSUME NEW w \in Worker, CycleMoves(w) PROVE ListsDisjoint'
  <2>1. CASE Executes(w)
    <3>1. cycle[w] # "scraping"
      BY <2>1 DEF Executes, Following
    <3> QED
      BY <2>1, <3>1 DEF Executes
  <2>2. CASE Finalizes(w) \/ PauseEnds(w)
    BY <2>2 DEF Finalizes, PauseEnds
  <2>3. CASE Interrupted(w)
    BY <2>3 DEF Interrupted
  <2>4. CASE StatementRaises(w)
    BY <2>4 DEF StatementRaises
  <2>5. CASE Plan(w)
    BY <2>5 DEF Plan
  <2>6. CASE EndPlanning(w) \/ EndBatch(w)
    BY <2>6 DEF EndPlanning, EndBatch
  <2> QED
    BY <1>1, <2>1, <2>2, <2>3, <2>4, <2>5, <2>6 DEF CycleMoves
<1>2. ASSUME NEW w \in Worker, Granted(w) \/ Crash(w) PROVE ListsDisjoint'
  <2>1. CASE Granted(w)
    <3>1. ~Alive(w) /\ inFlight[w] = {}
      BY <2>1 DEF Granted, CycleIsAwaited, Alive, Ended
    <3> QED
      BY <2>1, <3>1 DEF Granted
  <2>2. CASE Crash(w)
    <3>1. /\ todo'[w] = {} /\ inFlight'[w] = {}
          /\ \A v \in Worker \ {w} : /\ cycle'[v] = cycle[v] /\ todo'[v] = todo[v]
                                     /\ inFlight'[v] = inFlight[v]
      BY <2>2 DEF Crash
    <3> QED
      BY <3>1
  <2> QED
    BY <1>2, <2>1, <2>2
<1>3. ASSUME NEW w \in Worker, NEW i \in Item, StartItem(w, i)
      PROVE  ListsDisjoint'
  <2>1. /\ cycle' = cycle /\ cycle[w] = "scraping"
        /\ todo'[w] = todo[w] \ {i} /\ inFlight'[w] = inFlight[w] \cup {i}
        /\ \A v \in Worker \ {w} : todo'[v] = todo[v] /\ inFlight'[v] = inFlight[v]
    BY <1>3 DEF StartItem
  <2> QED
    BY <2>1
<1>4. ASSUME NEW w \in Worker, NEW i \in Item,
             EndItem(w, i) \/ ItemRaises(w, i) \/ DeferItem(w, i)
      PROVE  ListsDisjoint'
  BY <1>4 DEF EndItem, ItemRaises, DeferItem, Defer
<1>5. ASSUME NEW w \in Worker, DeferRemaining(w) PROVE ListsDisjoint'
  BY <1>5 DEF DeferRemaining, Defer
<1>6. CASE RequeueDead \/ \E i \in Item : Due(i)
  BY <1>6 DEF RequeueDead, Due
<1>7. CASE UNCHANGED <<cycle, todo, inFlight, item, openRuns, overlapped>>
  BY <1>7
<1> QED
  BY <1>1, <1>2, <1>3, <1>4, <1>5, <1>6, <1>7, ListMoves

\* What a statement of w does to the rows, by where w awaits it.
LEMMA StatementEffect ==
    ASSUME TypeOK, NEW w \in Worker, Statement(w)
    PROVE  /\ openRuns' \subseteq openRuns \cup {w}
           /\ openRuns' # openRuns => cycle[w] \in {"clearing", "inserting", "finalizing"}
           /\ cycle[w] = "clearing" => openRuns' = {}
           /\ cycle[w] # "inserting" => openRuns' \subseteq openRuns
           /\ cycle[w] = "marking" => \A x \in todo[w] : item'[x] = "running"
  BY DEF Statement, ClearRuns, ResetItems, TypeOK

LEMMA AloneNext ==
    ASSUME TypeOK, ListsDisjoint, AloneWithRows, [Next]_vars
    PROVE  AloneWithRows'
<1> SUFFICES ASSUME ~overlapped' PROVE AloneWithRows'
  BY DEF AloneWithRows
<1> USE DEF TypeOK, cycleVars, rowVars, leaseVars
<1>0. ~overlapped
  BY ListMoves, CycleMove
     DEF Granted, Crash, StartItem, EndItem, ItemRaises, DeferItem, DeferRemaining,
         Defer, RequeueDead, Due
<1>1. /\ \A v, u \in Worker : Alive(v) /\ Alive(u) => v = u
      /\ \A v \in Worker : cycle[v] = "inserting" => openRuns = {}
      /\ \A v, u \in openRuns : v = u
      /\ \A v \in Worker : cycle[v] = "scraping" =>
            \A x \in todo[v] \cup inFlight[v] : item[x] = "running"
  BY <1>0 DEF AloneWithRows
<1>2. ASSUME NEW w \in Worker, CycleMoves(w) PROVE AloneWithRows'
  <2>1. /\ Alive(w) /\ \A v \in Worker \ {w} : ~Alive(v) /\ cycle'[v] = cycle[v]
    BY <1>1, <1>2, CycleMove
  <2>2. \A v, u \in Worker : Alive(v)' /\ Alive(u)' => v = u
    BY <2>1 DEF Alive
  <2>3. \A v \in Worker \ {w} : cycle'[v] \notin {"inserting", "scraping"}
    BY <2>1 DEF Alive, Ended
  <2>4. SUFFICES /\ cycle'[w] = "inserting" => openRuns' = {}
                 /\ \A v, u \in openRuns' : v = u
                 /\ cycle'[w] = "scraping" =>
                       \A x \in todo'[w] \cup inFlight'[w] : item'[x] = "running"
    BY <2>2, <2>3 DEF AloneWithRows
  <2>5. ASSUME Statement(w) PROVE \A v, u \in openRuns' : v = u
    BY <1>1, <2>5, StatementEffect
  <2>6. CASE Executes(w)
    <3>1. cycle'[w] = Following[cycle[w]] /\ Statement(w)
          /\ UNCHANGED <<todo, inFlight>> /\ cycle[w] \in DOMAIN Following
      BY <2>6 DEF Executes, Enters
    <3>2. /\ cycle'[w] = "inserting" => cycle[w] = "clearing"
          /\ cycle'[w] = "scraping" => cycle[w] = "marking"
      BY <3>1 DEF Following
    <3>3. cycle[w] = "marking" => inFlight[w] = {}
      BY DEF ListsDisjoint
    <3> QED
      BY <2>5, <3>1, <3>2, <3>3, StatementEffect
  <2>7. CASE Finalizes(w)
    BY <2>5, <2>7 DEF Finalizes, Enters
  <2>8. CASE Interrupted(w) \/ StatementRaises(w)
    <3>1. MaybeStatement(w) /\ cycle'[w] \notin {"inserting", "scraping"}
      BY <2>8 DEF Interrupted, StatementRaises, Enters
    <3> QED
      BY <1>1, <2>5, <3>1 DEF MaybeStatement
  <2>9. CASE PauseEnds(w) \/ Plan(w) \/ EndPlanning(w) \/ EndBatch(w)
    BY <1>1, <2>9 DEF PauseEnds, Plan, EndPlanning, EndBatch, Enters
  <2> QED
    BY <1>2, <2>6, <2>7, <2>8, <2>9 DEF CycleMoves
<1>3. ASSUME NEW w \in Worker, Granted(w) PROVE AloneWithRows'
  <2>1. /\ \A v \in Worker : ~Alive(v)
        /\ cycle' = [cycle EXCEPT ![w] = "clearing"]
        /\ UNCHANGED <<todo, inFlight, item, openRuns>>
    BY <1>3 DEF Granted, Enters
  <2> QED
    BY <1>1, <2>1 DEF AloneWithRows, Alive, Ended
<1>4. ASSUME NEW w \in Worker, Crash(w) PROVE AloneWithRows'
  BY <1>1, <1>4 DEF Crash, Enters, Drop, AloneWithRows, Alive, Ended
<1>5. ASSUME NEW w \in Worker, NEW i \in Item, UNCHANGED <<cycle, openRuns>>,
             Alive(w) => \A x \in todo'[w] \cup inFlight'[w] : item'[x] = "running",
             \A v \in Worker \ {w} : todo'[v] = todo[v] /\ inFlight'[v] = inFlight[v]
      PROVE  cycle[w] = "scraping" => AloneWithRows'
  BY <1>1, <1>5 DEF AloneWithRows, Alive, Ended
<1>6. ASSUME NEW w \in Worker, NEW i \in Item,
             StartItem(w, i) \/ EndItem(w, i) \/ ItemRaises(w, i) \/ DeferItem(w, i)
      PROVE  AloneWithRows'
  <2>1. cycle[w] = "scraping" /\ UNCHANGED <<cycle, openRuns>>
    BY <1>6 DEF StartItem, EndItem, ItemRaises, DeferItem, Defer, ListsDisjoint
  <2>2. \A v \in Worker \ {w} : todo'[v] = todo[v] /\ inFlight'[v] = inFlight[v]
    BY <1>6 DEF StartItem, EndItem, ItemRaises, DeferItem, Defer
  <2>3. CASE StartItem(w, i)
    <3>1. item' = item /\ todo'[w] \cup inFlight'[w] = todo[w] \cup inFlight[w]
      BY <2>3 DEF StartItem
    <3> QED
      BY <1>1, <1>5, <2>1, <2>2, <3>1
  <2>4. CASE EndItem(w, i) \/ ItemRaises(w, i) \/ DeferItem(w, i)
    <3>1. /\ todo'[w] = todo[w] /\ inFlight'[w] = inFlight[w] \ {i}
          /\ i \in inFlight[w]
      BY <2>4 DEF EndItem, ItemRaises, DeferItem, Defer
    <3>2. \A x \in Item \ {i} : item'[x] = item[x]
      BY <2>4 DEF EndItem, ItemRaises, DeferItem, Defer
    <3>3. i \notin todo[w] /\ todo[w] \subseteq Item /\ inFlight[w] \subseteq Item
      BY <3>1 DEF ListsDisjoint
    <3> QED
      BY <1>1, <1>5, <2>1, <2>2, <3>1, <3>2, <3>3
  <2> QED
    BY <1>6, <2>3, <2>4
<1>7. ASSUME NEW w \in Worker, DeferRemaining(w) PROVE AloneWithRows'
  <2>1. /\ cycle[w] = "scraping" /\ UNCHANGED <<cycle, openRuns, inFlight>>
        /\ todo' = [todo EXCEPT ![w] = {}]
        /\ \A x \in Item \ todo[w] : item'[x] = item[x]
    BY <1>7 DEF DeferRemaining, Defer
  <2>2. inFlight[w] \subseteq Item \ todo[w]
    BY DEF ListsDisjoint
  <2>3. \A v \in Worker \ {w} : cycle[v] # "scraping"
    BY <1>1, <2>1 DEF Alive, Ended
  <2> QED
    BY <1>1, <2>1, <2>2, <2>3 DEF AloneWithRows, Alive
<1>8. CASE RequeueDead \/ \E i \in Item : Due(i)
  <2>1. /\ UNCHANGED <<cycle, todo, inFlight, openRuns>>
        /\ \A x \in Item : item[x] = "running" => item'[x] = "running"
    BY <1>8 DEF RequeueDead, Due
  <2> QED
    BY <1>1, <2>1 DEF AloneWithRows, Alive
<1>9. CASE UNCHANGED <<cycle, todo, inFlight, item, openRuns, overlapped>>
  BY <1>1, <1>9 DEF AloneWithRows, Alive
<1> QED
  BY <1>2, <1>3, <1>4, <1>6, <1>7, <1>8, <1>9, ListMoves

----------------------------------------------------------------------------
LEMMA RunNext == RunInv /\ [Next]_vars => RunInv'
  BY TypeNext, AwaitedNext, LeaseNext, ListsNext, AloneNext DEF RunInv

\* A set without two different members has at most one.
LEMMA AtMostOne ==
    ASSUME NEW S, \A v, w \in S : v = w
    PROVE  Cardinality(S) <= 1
<1>1. CASE S = {}
  BY <1>1, FS_EmptySet
<1>2. CASE S # {}
  <2>1. PICK v \in S : S = {v}
    BY <1>2
  <2> QED
    BY <2>1, FS_Singleton
<1> QED
  BY <1>1, <1>2

\* Leadership and rows: for any workers and items, a cycle is under way only
\* under the lease of its worker, and as long as no two cycles have overlapped,
\* one run is shown as running and no item is scraped twice at a time.
THEOREM WorkersAreSound == Spec => []WorkerInv
<1>1. RunInv => WorkerInv
  <2> SUFFICES ASSUME RunInv PROVE WorkerInv
    OBVIOUS
  <2>1. TypeOK /\ CycleUnderLease
    BY DEF RunInv
  <2>2. OneRunOpen
    BY AtMostOne DEF RunInv, AloneWithRows, OneRunOpen
  <2>3. ScrapedOnce
    BY DEF RunInv, ListsDisjoint, AloneWithRows, ScrapedOnce, Alive, Ended
  <2> QED
    BY <2>1, <2>2, <2>3 DEF WorkerInv
<1> QED
  BY RunInit, RunNext, <1>1, PTL DEF Spec
=============================================================================
