---------------------------- MODULE DatabaseSetup ----------------------------
(***************************************************************************)
(* setup_database() (core/database.py): processes that start on one        *)
(* database, each of which migrates the schema under one lock of the       *)
(* backend and may sweep old rows under another.  The lock is an advisory  *)
(* lock of PostgreSQL, flock() on a file, or, where there is no fcntl, a   *)
(* file whose existence is the lock.                                       *)
(*                                                                         *)
(* The systems without fcntl are Windows, whose files cannot be removed    *)
(* while somebody has them open; the death of a process closes its files,  *)
(* and frees its locks of the other two kinds.  No process gets the PID of *)
(* one that has ended.  What a version does is SchemaMigration's.          *)
(***************************************************************************)
EXTENDS Integers, FiniteSets

CONSTANTS
    Process,
    LockKind,       \* of "advisory", "flock" and "lockfile"
    Versions,       \* how many migrations there are
    Row, Stamp,     \* rowids of a table that is swept, and when each was written
    RowTtl,         \* how long they are kept
    BatchSize,      \* _SQLITE_CLEANUP_BATCH_SIZE
    Interval,       \* values of DATABASE_STARTUP_CLEANUP_INTERVAL
    Beginning, End, \* bound: the clock's ticks
    MaxMishaps,     \* bound: statements that fail and processes that die
    NoProcess, NoFile

ASSUME SetupAssumption ==
    /\ IsFiniteSet(Process) /\ NoProcess \notin Process
    /\ NoFile \notin [by : Process, pid : BOOLEAN]
    /\ Versions \in Nat /\ Row \subseteq Nat \ {0} /\ Stamp \in [Row -> Nat]
    /\ RowTtl \in Nat /\ BatchSize \in Nat \ {0} /\ Interval \subseteq Int
    /\ Beginning \in Nat \ {0} /\ End \in Nat /\ Beginning <= End
    /\ MaxMishaps \in Nat

VARIABLES
    kind, interval, \* how this installation is configured
    stage,          \* how far each process is in setup_database()
    lockAt,         \* how far it is in backend_lock()
    holder,         \* who holds each lock, of the first two kinds
    file,           \* each lock file: who made it, and has it its PID?
    opened,         \* who has it open
    aged,           \* is it older than _SQLITE_INVALID_LOCKFILE_GRACE_SECONDS?
    versions,       \* how many versions are recorded
    known,          \* what a process has read or recorded of them
    applying,       \* it is in the middle of one
    time,           \* current_time of its sweep
    removed,        \* what its sweep's transaction has deleted
    lastRow,        \* last_rowid
    rows,           \* the rows there are
    lastCleanup,    \* last_startup_cleanup_at, 0 when there is none
    clockNow, mishaps

backendVars == <<holder, file, opened, aged>>
schemaRows == <<versions, known, applying>>
sweepVars == <<time, removed, lastRow, rows, lastCleanup>>
setupVars == <<kind, interval, stage, lockAt, backendVars, schemaRows, sweepVars,
               clockNow, mishaps>>

Lock == {"migration", "sweep"}
NotRead == -1

SetupInit ==
    /\ kind \in LockKind /\ interval \in Interval
    /\ stage = [p \in Process |-> "off"] /\ lockAt = [p \in Process |-> "out"]
    /\ holder = [l \in Lock |-> NoProcess] /\ file = [l \in Lock |-> NoFile]
    /\ opened = [l \in Lock |-> {}] /\ aged = [l \in Lock |-> FALSE]
    /\ versions = 0 /\ known = [p \in Process |-> NotRead]
    /\ applying = [p \in Process |-> FALSE]
    /\ time = [p \in Process |-> 0] /\ removed = [p \in Process |-> {}]
    /\ lastRow = [p \in Process |-> 0] /\ rows = Row /\ lastCleanup = 0
    /\ clockNow = Beginning /\ mishaps = 0

\* _is_process_running()
IsRunning(p) == stage[p] # "dead"

Enter(p, where) == lockAt' = [lockAt EXCEPT ![p] = where]
Reach(p, where) == stage' = [stage EXCEPT ![p] = where]
\* The lock that p is at, which has the name of its stage.
At(p, where) == lockAt[p] = where /\ stage[p] \in Lock
Mishap == mishaps < MaxMishaps /\ mishaps' = mishaps + 1

----------------------------------------------------------------------------
(* backend_lock() *)

\* A migration waits and tries again; a sweep is left to whoever is at it.
TurnedAway(p) ==
    IF stage[p] = "migration" THEN Enter(p, "trying") /\ UNCHANGED stage
    ELSE Enter(p, "out") /\ Reach(p, "ready")

Unchanged(p) == UNCHANGED <<kind, interval, schemaRows, sweepVars, clockNow>>

\* pg_try_advisory_lock(), flock(LOCK_NB)
TryLock(p) ==
    /\ At(p, "trying") /\ kind # "lockfile"
    /\ IF holder[stage[p]] = NoProcess
       THEN /\ holder' = [holder EXCEPT ![stage[p]] = p]
            /\ Enter(p, "in") /\ UNCHANGED stage
       ELSE TurnedAway(p) /\ UNCHANGED holder
    /\ UNCHANGED <<file, opened, aged, mishaps>> /\ Unchanged(p)

\* os.open(O_CREAT | O_EXCL): the second time when a stale file was removed.
CreateLockfile(p) ==
    /\ At(p, "trying") \/ At(p, "trying again")
    /\ kind = "lockfile"
    /\ IF file[stage[p]] = NoFile
       THEN /\ file' = [file EXCEPT ![stage[p]] = [by |-> p, pid |-> FALSE]]
            /\ opened' = [opened EXCEPT ![stage[p]] = @ \cup {p}]
            /\ aged' = [aged EXCEPT ![stage[p]] = FALSE]
            /\ Enter(p, "writing") /\ UNCHANGED stage
       ELSE /\ IF lockAt[p] = "trying" THEN Enter(p, "opening") /\ UNCHANGED stage
               ELSE TurnedAway(p)
            /\ UNCHANGED <<file, opened, aged>>
    /\ UNCHANGED <<holder, mishaps>> /\ Unchanged(p)

WritePid(p) ==
    /\ At(p, "writing")
    /\ file' = [file EXCEPT ![stage[p]].pid = TRUE]
    /\ aged' = [aged EXCEPT ![stage[p]] = FALSE]
    /\ Enter(p, "in")
    /\ UNCHANGED <<stage, holder, opened, mishaps>> /\ Unchanged(p)

\* The file is closed, and removed unless somebody else is reading it.
WritePidFails(p) ==
    /\ At(p, "writing") /\ Mishap
    /\ opened' = [opened EXCEPT ![stage[p]] = @ \ {p}]
    /\ file' = IF opened[stage[p]] = {p} THEN [file EXCEPT ![stage[p]] = NoFile] ELSE file
    /\ Enter(p, "out")
    /\ Reach(p, IF stage[p] = "migration" THEN "failed" ELSE "ready")
    /\ UNCHANGED <<holder, aged>> /\ Unchanged(p)

\* _read_sqlite_lockfile_pid(): the file may be gone, or be another by now.
OpenLockfile(p) ==
    /\ At(p, "opening")
    /\ IF file[stage[p]] = NoFile THEN Enter(p, "dating") /\ UNCHANGED opened
       ELSE Enter(p, "reading") /\ opened' = [opened EXCEPT ![stage[p]] = @ \cup {p}]
    /\ UNCHANGED <<stage, holder, file, aged, mishaps>> /\ Unchanged(p)

\* Mutant of ReadPid: the file of a process that has died is left.
ReadPidLeft(p) ==
    /\ At(p, "reading")
    /\ opened' = [opened EXCEPT ![stage[p]] = @ \ {p}]
    /\ IF file[stage[p]].pid THEN TurnedAway(p) ELSE Enter(p, "dating") /\ UNCHANGED stage
    /\ UNCHANGED <<holder, file, aged, mishaps>> /\ Unchanged(p)

ReadPid(p) ==
    /\ At(p, "reading")
    /\ opened' = [opened EXCEPT ![stage[p]] = @ \ {p}]
    /\ IF file[stage[p]].pid /\ IsRunning(file[stage[p]].by) THEN TurnedAway(p)
       ELSE /\ Enter(p, IF file[stage[p]].pid THEN "unlinking" ELSE "dating")
            /\ UNCHANGED stage
    /\ UNCHANGED <<holder, file, aged, mishaps>> /\ Unchanged(p)

\* A file without a PID must be older than a second.
DateLockfile(p) ==
    /\ At(p, "dating")
    /\ IF file[stage[p]] = NoFile \/ ~aged[stage[p]] THEN TurnedAway(p)
       ELSE Enter(p, "unlinking") /\ UNCHANGED stage
    /\ UNCHANGED <<backendVars, mishaps>> /\ Unchanged(p)

\* The file at that path now, whatever was read of it.
UnlinkStale(p) ==
    /\ At(p, "unlinking")
    /\ IF opened[stage[p]] # {} THEN TurnedAway(p) /\ UNCHANGED file
       ELSE /\ file' = [file EXCEPT ![stage[p]] = NoFile]
            /\ Enter(p, "trying again") /\ UNCHANGED stage
    /\ UNCHANGED <<holder, opened, aged, mishaps>> /\ Unchanged(p)

\* Where a process goes on when it has given its lock up, after an exception
\* or without: that of a sweep is only logged.
Left(p, raised) ==
    /\ Enter(p, "out")
    /\ Reach(p, IF stage[p] = "sweep" THEN "ready"
                ELSE IF raised THEN "failed" ELSE "clearing")

\* The end of the block.  A lock file is closed first, and removed afterwards.
Release(p, raised) ==
    IF kind = "lockfile"
    THEN /\ Enter(p, IF raised THEN "raising" ELSE "closed") /\ UNCHANGED stage
         /\ opened' = [opened EXCEPT ![stage[p]] = @ \ {p}]
         /\ UNCHANGED <<holder, file, aged>>
    ELSE /\ Left(p, raised)
         /\ holder' = [holder EXCEPT ![stage[p]] = NoProcess]
         /\ UNCHANGED <<file, opened, aged>>

\* _unlink_if_exists(): that the file is open elsewhere is an error.
UnlinkOwn(p) ==
    /\ At(p, "closed") \/ At(p, "raising")
    /\ IF opened[stage[p]] # {} THEN Left(p, TRUE) /\ UNCHANGED file
       ELSE /\ file' = [file EXCEPT ![stage[p]] = NoFile]
            /\ Left(p, lockAt[p] = "raising")
    /\ UNCHANGED <<holder, opened, aged, mishaps>> /\ Unchanged(p)

----------------------------------------------------------------------------
(* setup_database() and _run_startup_cleanup() *)

Begin(p) ==
    /\ stage[p] = "off"
    /\ Reach(p, "migration") /\ Enter(p, "trying")
    /\ UNCHANGED <<backendVars, mishaps>> /\ Unchanged(p)

Migrating(p) == At(p, "in") /\ stage[p] = "migration"
UnchangedButSchema(p) ==
    UNCHANGED <<kind, interval, sweepVars, clockNow, mishaps>>

\* run_schema_migrations(): the versions that are recorded, each of the others,
\* and its record (ON CONFLICT DO NOTHING).
ReadVersions(p) ==
    /\ Migrating(p) /\ known[p] = NotRead
    /\ known' = [known EXCEPT ![p] = versions]
    /\ UNCHANGED <<stage, lockAt, backendVars, versions, applying>>
    /\ UnchangedButSchema(p)

ApplyVersion(p) ==
    /\ Migrating(p) /\ known[p] \in 0..Versions - 1 /\ ~applying[p]
    /\ applying' = [applying EXCEPT ![p] = TRUE]
    /\ UNCHANGED <<stage, lockAt, backendVars, versions, known>>
    /\ UnchangedButSchema(p)

RecordVersion(p) ==
    /\ Migrating(p) /\ applying[p]
    /\ known' = [known EXCEPT ![p] = @ + 1]
    /\ applying' = [applying EXCEPT ![p] = FALSE]
    /\ versions' = IF known'[p] > versions THEN known'[p] ELSE versions
    /\ UNCHANGED <<stage, lockAt, backendVars>> /\ UnchangedButSchema(p)

Migrated(p) ==
    /\ Migrating(p) /\ known[p] = Versions
    /\ Release(p, FALSE)
    /\ UNCHANGED schemaRows /\ UnchangedButSchema(p)

MigrationFails(p) ==
    /\ Migrating(p) /\ Mishap /\ Release(p, TRUE)
    /\ applying' = [applying EXCEPT ![p] = FALSE]
    /\ UNCHANGED <<kind, interval, versions, known, sweepVars, clockNow>>

\* DELETE FROM active_connections, and metrics_cache.
Clear(p) ==
    /\ stage[p] = "clearing"
    /\ \/ Reach(p, "deciding") /\ UNCHANGED mishaps
       \/ Mishap /\ Reach(p, "failed")
    /\ UNCHANGED <<lockAt, backendVars>> /\ Unchanged(p)

ReadTime(p) ==
    /\ stage[p] = "deciding"
    /\ IF interval < 0 THEN Reach(p, "ready") /\ UNCHANGED time
       ELSE Reach(p, "comparing") /\ time' = [time EXCEPT ![p] = clockNow]
    /\ UNCHANGED <<kind, interval, lockAt, backendVars, schemaRows, removed, lastRow,
                   rows, lastCleanup, clockNow, mishaps>>

\* _should_run_startup_cleanup()
ShouldRun(p) == \/ interval = 0 \/ lastCleanup = 0
                \/ time[p] - lastCleanup >= interval
Compare(p) ==
    /\ stage[p] = "comparing"
    /\ IF ShouldRun(p) THEN Reach(p, "sweep") /\ Enter(p, "trying")
       ELSE Reach(p, "ready") /\ UNCHANGED lockAt
    /\ UNCHANGED <<backendVars, mishaps>> /\ Unchanged(p)

Sweeping(p) == At(p, "in") /\ stage[p] = "sweep"
UnchangedButSweep(p) == UNCHANGED <<kind, interval, schemaRows, clockNow>>

Matching(p) == {r \in rows \ removed[p] : Stamp[r] < time[p] - RowTtl}

\* Mutant of Batch: the next one begins where the last would have ended.
BatchSkips(p) ==
    {r \in Matching(p) : /\ r > lastRow[p] + BatchSize
                         /\ Cardinality({s \in Matching(p) : lastRow[p] < s /\ s < r}) < BatchSize}

\* _sqlite_batched_delete(): the first rows that match, after the last ones.
Batch(p) ==
    {r \in Matching(p) : /\ r > lastRow[p]
                         /\ Cardinality({s \in Matching(p) : lastRow[p] < s /\ s < r}) < BatchSize}

\* _delete_where(): in batches on SQLite.
Doomed(p) == IF kind = "advisory" THEN Matching(p) ELSE Batch(p)

DeleteRows(p) ==
    /\ Sweeping(p) /\ Doomed(p) # {}
    /\ removed' = [removed EXCEPT ![p] = @ \cup Doomed(p)]
    /\ lastRow' = [lastRow EXCEPT ![p] = CHOOSE r \in Doomed(p) : \A s \in Doomed(p) : s <= r]
    /\ UNCHANGED <<stage, lockAt, backendVars, time, rows, lastCleanup, mishaps>>
    /\ UnchangedButSweep(p)

\* _record_startup_cleanup() and the end of the transaction.
CommitSweep(p) ==
    /\ Sweeping(p) /\ Doomed(p) = {}
    /\ rows' = rows \ removed[p] /\ lastCleanup' = time[p]
    /\ Release(p, FALSE)
    /\ UNCHANGED <<time, removed, lastRow, mishaps>> /\ UnchangedButSweep(p)

SweepFails(p) ==
    /\ Sweeping(p) /\ Mishap
    /\ Release(p, TRUE)
    /\ UNCHANGED sweepVars /\ UnchangedButSweep(p)

----------------------------------------------------------------------------
(* The process, the clock. *)

\* A process whose setup has raised an exception ends; any may die.
Ends(p) ==
    /\ Reach(p, "dead") /\ Enter(p, "out")
    /\ holder' = [l \in Lock |-> IF holder[l] = p THEN NoProcess ELSE holder[l]]
    /\ opened' = [l \in Lock |-> opened[l] \ {p}]
    /\ UNCHANGED <<file, aged>> /\ Unchanged(p)
Exit(p) == stage[p] = "failed" /\ Ends(p) /\ UNCHANGED mishaps
Die(p) == stage[p] \notin {"off", "dead"} /\ Mishap /\ Ends(p)

Age(l) ==
    /\ file[l] # NoFile /\ ~aged[l]
    /\ aged' = [aged EXCEPT ![l] = TRUE]
    /\ UNCHANGED <<stage, lockAt, holder, file, opened, mishaps>> /\ Unchanged(l)

TimePasses ==
    /\ clockNow < End /\ clockNow' = clockNow + 1
    /\ UNCHANGED <<kind, interval, stage, lockAt, backendVars, schemaRows, sweepVars,
                   mishaps>>

LockStep(p) ==
    \/ TryLock(p) \/ CreateLockfile(p) \/ WritePid(p) \/ OpenLockfile(p)
    \/ ReadPid(p) \/ DateLockfile(p) \/ UnlinkStale(p) \/ UnlinkOwn(p)
SetupStep(p) ==
    \/ LockStep(p) \/ ReadVersions(p) \/ ApplyVersion(p) \/ RecordVersion(p)
    \/ Migrated(p) \/ Clear(p) \/ ReadTime(p) \/ Compare(p) \/ DeleteRows(p)
    \/ CommitSweep(p) \/ Exit(p)

SetupNext ==
    \/ \E p \in Process :
           \/ Begin(p) \/ SetupStep(p) \/ WritePidFails(p) \/ MigrationFails(p)
           \/ SweepFails(p) \/ Die(p)
    \/ (\E l \in Lock : Age(l)) \/ TimePasses

\* Statements and calls are answered, sleeps end, and a file that nobody
\* writes grows old.
SetupFairness ==
    /\ \A p \in Process : WF_setupVars(SetupStep(p))
    /\ \A l \in Lock : WF_setupVars(Age(l))

SetupSpec == SetupInit /\ [][SetupNext]_setupVars /\ SetupFairness

----------------------------------------------------------------------------
\* However starts, deaths and failures overlap, and whichever kind the lock is
\* of, one process at a time is between the two ends of a lock's block.
OneInside ==
    \A p, q \in Process :
        lockAt[p] = "in" /\ lockAt[q] = "in" /\ stage[p] = stage[q] => p = q

\* What a process has read of the versions still holds when it applies the
\* next one, so that no version is applied over itself; and no process serves
\* requests, or deletes a row, before all of them are recorded.
VersionsHold ==
    \A p \in Process :
        /\ Migrating(p) /\ known[p] # NotRead => known[p] = versions
        /\ stage[p] \in {"clearing", "deciding", "comparing", "sweep", "ready"}
              => versions = Versions

\* A sweep that is recorded has deleted every row that was old by its time, in
\* however many batches, and none that a later sweep of that time would keep.
SweptWhole ==
    /\ \A r \in rows : Stamp[r] >= lastCleanup - RowTtl
    /\ \A r \in Row \ rows : Stamp[r] < End - RowTtl

SetupInv == OneInside /\ VersionsHold /\ SweptWhole

\* Several processes poll the lock file of one that is no more: each finds it
\* open by another when it would remove it, as long as their reads overlap.
KeptOpen ==
    /\ kind = "lockfile" /\ file["migration"] # NoFile
    /\ ~IsRunning(file["migration"].by)
    /\ Cardinality({p \in Process : stage[p] = "migration"}) > 1

\* Whoever has begun is ready in the end, or has failed: no lock that a dead
\* process has left, a file without its PID among them, keeps a start waiting;
\* but for a lock file that two or more poll for ever, and keep open.
SetupEnds ==
    \/ <>[](\A p \in Process : stage[p] \in {"off", "ready", "dead"})
    \/ <>[]KeptOpen
=============================================================================
