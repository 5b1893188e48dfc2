------------------------------ MODULE DmmIngest ------------------------------
(***************************************************************************)
(* services/dmm_ingester.py: several workers of one installation take      *)
(* turns, by a lease (ScrapeLock has its details), in downloading an       *)
(* archive of hash lists, extracting it to a directory that they share,    *)
(* inserting the entries of each new file and marking the file as done.    *)
(*                                                                         *)
(* The extraction runs in a process of the executor, which goes on when    *)
(* the coroutine that waits for it is cancelled.  The lease is renewed     *)
(* now and then, with nobody looking at the result.                        *)
(***************************************************************************)
EXTENDS Integers, FiniteSets, FiniteSetsExt

CONSTANTS
    Ingester,       \* worker processes with DMM_INGEST_ENABLED
    HashList,       \* the files of the archive, each with entries
    IngestBatch,      \* DMM_INGEST_BATCH_SIZE
    MaxMishaps      \* bound: failures, shutdowns and leases that run out

Free == "free"
Dead == "of a process that is no more"
NoZip == [by |-> Free, whole |-> FALSE]
NotUnzipping == [left |-> {}, now |-> {}]

ASSUME DmmAssumption ==
    /\ IsFiniteSet(HashList) /\ IngestBatch \in Nat \ {0} /\ MaxMishaps \in Nat
    /\ Ingester \cap {Free, Dead} = {}

VARIABLES
    dmmLease,       \* who holds the row of the lock
    ingester,       \* where each worker is
    temp,           \* does TEMP_DIR exist?
    zip,            \* dmm.zip: who opened it last, and is it complete?
    disk,           \* the extracted files: "none", "part" or "whole"
    unzip,          \* what the extraction of each worker has yet to write
    todo,           \* new_files that are left
    toRead, entries, \* of the batch: files not read yet, files with entries
    inserted,       \* files whose entries are in dmm_entries
    marked,         \* dmm_ingested_files
    mishaps,        \* see the bound
    spoiled,        \* history: could two have used the directory at once?
    unread,         \* history: the files whose last reading raised an exception,
    lost            \* and those that were marked as such

dmmVars == <<dmmLease, ingester, temp, zip, disk, unzip, todo, toRead, entries,
             inserted, marked, mishaps, spoiled, unread, lost>>

Nowhere == [f \in HashList |-> "none"]

DmmInit ==
    /\ dmmLease = Free
    /\ \E place \in {"sleep", "down"} :
          ingester = [i \in Ingester |-> [at |-> place, batch |-> {}, ends |-> FALSE]]
    /\ temp = FALSE /\ zip = NoZip /\ disk = Nowhere
    /\ unzip = [i \in Ingester |-> NotUnzipping]
    /\ todo = [i \in Ingester |-> {}]
    /\ toRead = [i \in Ingester |-> {}] /\ entries = [i \in Ingester |-> {}]
    /\ inserted = {} /\ marked = {}
    /\ mishaps = 0 /\ spoiled = FALSE /\ unread = {} /\ lost = {}

At(i, place) == ingester[i].at = place
Goes(i, place) == ingester' = [ingester EXCEPT ![i].at = place]
Cycling(i) == ingester[i].at \notin {"sleep", "release", "down"}
Mishap == mishaps < MaxMishaps /\ mishaps' = mishaps + 1

files == <<temp, zip, disk>>
work == <<todo, toRead, entries>>
tables == <<inserted, marked, unread, lost>>    \* with what is noted of them

----------------------------------------------------------------------------
\* What acquire() does to a lock that one may hold, or not any more.
Renewed(i) == dmmLease' = IF dmmLease = Free THEN i ELSE dmmLease

\* The lock is acquired without waiting; otherwise the worker sleeps again.
MayIngest == dmmLease = Free

Acquire(i) ==
    /\ At(i, "sleep") /\ MayIngest /\ Renewed(i)
    /\ temp' = TRUE /\ Goes(i, "ask")
    /\ UNCHANGED <<zip, disk, unzip, work, tables, mishaps, spoiled>>

\* open() needs the directory.
Writable == temp

\* The archive's file is opened, if there is still a directory for it.
OpenZip(i) ==
    /\ At(i, "ask")
    /\ IF Writable THEN zip' = [by |-> i, whole |-> FALSE] /\ Goes(i, "load")
                   ELSE UNCHANGED zip /\ Goes(i, "clean")
    /\ UNCHANGED <<dmmLease, temp, disk, unzip, work, tables, mishaps, spoiled>>

\* A chunk is awaited after renewing the lock.
LoadChunk(i) ==
    /\ At(i, "load") /\ dmmLease = Free /\ Renewed(i)
    /\ UNCHANGED <<ingester, files, unzip, work, tables, mishaps, spoiled>>

\* The last one has been written, to the file that was opened.
LoadEnds(i) ==
    /\ At(i, "load") /\ Renewed(i)
    /\ zip' = IF zip.by = i THEN [zip EXCEPT !.whole = TRUE] ELSE zip
    /\ Goes(i, "loaded")
    /\ UNCHANGED <<temp, disk, unzip, work, tables, mishaps, spoiled>>

\* What an earlier extraction left is removed.
BeginUnzip(i) ==
    /\ At(i, "loaded") /\ disk' = Nowhere
    /\ IF zip.whole THEN /\ unzip' = [unzip EXCEPT ![i].left = HashList]
                         /\ Goes(i, "unzip")
                    ELSE UNCHANGED unzip /\ Goes(i, "clean")
    /\ UNCHANGED <<dmmLease, temp, zip, work, tables, mishaps, spoiled>>

\* extract_zip_sync(): a file is created, with its directories, and written;
\* if it was removed meanwhile nobody finds it.
UnzipOpens(i, f) ==
    /\ unzip[i].now = {} /\ f \in unzip[i].left
    /\ unzip' = [unzip EXCEPT ![i] = [left |-> @.left \ {f}, now |-> {f}]]
    /\ temp' = TRUE /\ disk' = [disk EXCEPT ![f] = "part"]
    /\ UNCHANGED <<dmmLease, ingester, zip, work, tables, mishaps, spoiled>>

UnzipWrites(i, f) ==
    /\ unzip[i].now = {f}
    /\ unzip' = [unzip EXCEPT ![i].now = {}]
    /\ disk' = [disk EXCEPT ![f] = IF @ = "part" THEN "whole" ELSE @]
    /\ UNCHANGED <<dmmLease, ingester, temp, zip, work, tables, mishaps, spoiled>>

\* The archive is removed and the extracted files are listed; todo holds them
\* until they are compared with those that were ingested.
EndUnzip(i) ==
    /\ At(i, "unzip") /\ unzip[i] = NotUnzipping
    /\ IF zip.by = Free THEN Goes(i, "clean") /\ UNCHANGED <<zip, todo>>
       ELSE /\ zip' = NoZip /\ Goes(i, "filter")
            /\ todo' = [todo EXCEPT ![i] = {f \in HashList : disk[f] # "none"}]
    /\ UNCHANGED <<dmmLease, temp, disk, unzip, toRead, entries, tables, mishaps,
                   spoiled>>

\* _filter_new_files()
Filter(i) ==
    /\ At(i, "filter") /\ todo' = [todo EXCEPT ![i] = @ \ marked]
    /\ Goes(i, "batch")
    /\ UNCHANGED <<dmmLease, files, unzip, toRead, entries, tables, mishaps, spoiled>>

----------------------------------------------------------------------------
NoMore(i) == todo[i] = {}

\* The next batch, after renewing the lock; with none left, the cycle ends.
Batch(i) ==
    /\ At(i, "batch")
    /\ IF NoMore(i) THEN Goes(i, "clean") /\ UNCHANGED <<dmmLease, work>>
       ELSE \E b \in kSubset(Min({IngestBatch, Cardinality(todo[i])}), todo[i]) :
              /\ Renewed(i)
              /\ ingester' = [ingester EXCEPT ![i] = [@ EXCEPT !.at = "read", !.batch = b]]
              /\ toRead' = [toRead EXCEPT ![i] = b]
              /\ entries' = [entries EXCEPT ![i] = {}]
              /\ todo' = [todo EXCEPT ![i] = @ \ b]
    /\ UNCHANGED <<files, unzip, tables, mishaps, spoiled>>

\* process_file_sync() answers no entries for what it cannot read, and for a file
\* in whose reading anything is raised.
ReadFile(i, f) ==
    /\ At(i, "read") /\ f \in toRead[i]
    /\ toRead' = [toRead EXCEPT ![i] = @ \ {f}]
    /\ \/ /\ entries' = [entries EXCEPT ![i] = IF disk[f] = "whole" THEN @ \cup {f} ELSE @]
          /\ unread' = unread \ {f} /\ UNCHANGED mishaps
       \/ Mishap /\ unread' = unread \cup {f} /\ UNCHANGED entries
    /\ IF toRead[i] = {f} THEN Goes(i, "insert") ELSE UNCHANGED ingester
    /\ UNCHANGED <<dmmLease, files, unzip, todo, inserted, marked, lost, spoiled>>

\* The entries are inserted, or some chunks of them are before an error: then
\* the batch is tried again if the database was locked, and left otherwise.
Insert(i) ==
    /\ At(i, "insert") /\ inserted' = inserted \cup entries[i] /\ Goes(i, "mark")
    /\ UNCHANGED <<dmmLease, files, unzip, work, marked, unread, lost, mishaps, spoiled>>

\* Mutant of AfterError: the retry continues with the files.
AfterErrorOn == {"mark", "batch"}

\* Where an error leads to; with MaxMishaps < 3 another attempt is always left.
AfterError == {"insert", "batch"}

InsertFails(i) ==
    /\ At(i, "insert") /\ Mishap
    /\ \E some \in SUBSET entries[i] : inserted' = inserted \cup some
    /\ \E place \in AfterError : Goes(i, place)
    /\ UNCHANGED <<dmmLease, files, unzip, work, marked, unread, lost, spoiled>>

\* All files of the batch are marked, those that gave nothing too.
Mark(i) ==
    /\ At(i, "mark") /\ marked' = marked \cup ingester[i].batch /\ Goes(i, "batch")
    /\ lost' = lost \cup (ingester[i].batch \cap unread)
    /\ UNCHANGED <<dmmLease, files, unzip, work, inserted, unread, mishaps, spoiled>>

MarkFails(i) ==
    /\ At(i, "mark") /\ Mishap
    /\ \E place \in AfterError : Goes(i, place)
    /\ UNCHANGED <<dmmLease, files, unzip, work, tables, spoiled>>

----------------------------------------------------------------------------
\* The finally blocks: the directory is removed, and then the lock released.
Clean(i) ==
    /\ At(i, "clean") /\ temp' = FALSE /\ zip' = NoZip /\ disk' = Nowhere
    /\ ingester' = [ingester EXCEPT ![i] = [@ EXCEPT !.at = "release", !.batch = {}]]
    /\ todo' = [todo EXCEPT ![i] = {}]
    /\ toRead' = [toRead EXCEPT ![i] = {}] /\ entries' = [entries EXCEPT ![i] = {}]
    /\ UNCHANGED <<dmmLease, unzip, tables, mishaps, spoiled>>

Release(i) ==
    /\ At(i, "release")
    /\ dmmLease' = IF dmmLease = i THEN Free ELSE dmmLease
    /\ Goes(i, IF ingester[i].ends THEN "down" ELSE "sleep")
    /\ UNCHANGED <<files, unzip, work, tables, mishaps, spoiled>>

\* The download fails, or the extraction or the query of _filter_new_files().
CycleFails(i) ==
    /\ ingester[i].at \in {"ask", "load", "filter"} /\ Mishap /\ Goes(i, "clean")
    /\ UNCHANGED <<dmmLease, files, unzip, work, tables, spoiled>>

Unzipping(i) == unzip[i] # NotUnzipping

\* stop() and cancel() of the application: the cycle cleans up, while its
\* extraction goes on.
Shutdown(i) ==
    /\ Mishap
    /\ ingester[i].at \notin {"release", "clean", "down"}
    /\ ingester' = [ingester EXCEPT ![i].at = IF At(i, "sleep") THEN "down" ELSE "clean",
                                    ![i].ends = TRUE]
    /\ spoiled' = (spoiled \/ Unzipping(i))
    /\ UNCHANGED <<dmmLease, files, unzip, work, tables>>

\* The process dies anywhere; its directory and its row stay.
Crash(i) ==
    /\ Mishap /\ ~At(i, "down")
    /\ ingester' = [ingester EXCEPT ![i].at = "down"]
    /\ dmmLease' = IF dmmLease = i THEN Dead ELSE dmmLease
    /\ spoiled' = (spoiled \/ Unzipping(i))
    /\ UNCHANGED <<files, unzip, work, tables>>

\* It starts again; bound: after its extraction has ended.
Restart(i) ==
    /\ At(i, "down") /\ ~Unzipping(i)
    /\ ingester' = [ingester EXCEPT ![i] = [at |-> "sleep", batch |-> {}, ends |-> FALSE]]
    /\ todo' = [todo EXCEPT ![i] = {}]
    /\ toRead' = [toRead EXCEPT ![i] = {}] /\ entries' = [entries EXCEPT ![i] = {}]
    /\ UNCHANGED <<dmmLease, files, unzip, tables, mishaps, spoiled>>

\* The lease runs out, of a dead process or of one that works on.
LapseDead ==
    /\ dmmLease = Dead /\ dmmLease' = Free
    /\ UNCHANGED <<ingester, files, unzip, work, tables, mishaps, spoiled>>

Lapse ==
    /\ dmmLease \in Ingester /\ Mishap
    /\ dmmLease' = Free /\ spoiled' = TRUE
    /\ UNCHANGED <<ingester, files, unzip, work, tables>>

Ingests(i) ==
    \/ Acquire(i) \/ OpenZip(i) \/ LoadEnds(i) \/ BeginUnzip(i)
    \/ EndUnzip(i) \/ Filter(i) \/ Batch(i) \/ Insert(i) \/ Mark(i) \/ Clean(i)
    \/ Release(i)
    \/ \E f \in HashList : UnzipOpens(i, f) \/ UnzipWrites(i, f) \/ ReadFile(i, f)

DmmNext ==
    \/ \E i \in Ingester :
          \/ Ingests(i) \/ LoadChunk(i) \/ InsertFails(i) \/ MarkFails(i)
          \/ CycleFails(i) \/ Shutdown(i) \/ Crash(i) \/ Restart(i)
    \/ LapseDead \/ Lapse

\* Coroutines and the executor go on, and the row of a dead process expires.
DmmFairness ==
    /\ \A i \in Ingester : WF_dmmVars(Ingests(i))
    /\ WF_dmmVars(LapseDead)

DmmSpec == DmmInit /\ [][DmmNext]_dmmVars /\ DmmFairness

----------------------------------------------------------------------------
\* Type invariant.
DmmTypeOK ==
    /\ dmmLease \in Ingester \cup {Free, Dead}
    /\ zip.by # Free => temp
    /\ (\E f \in HashList : disk[f] # "none") => temp
    /\ \A i \in Ingester :
          /\ ingester[i].batch \subseteq HashList
          /\ toRead[i] \subseteq ingester[i].batch /\ entries[i] \subseteq HashList
    /\ inserted \cup marked \cup unread \cup lost \subseteq HashList
    /\ mishaps \in 0..MaxMishaps /\ spoiled \in BOOLEAN

\* Whatever fails or dies, a file is marked as ingested, and so never looked at
\* again, only with its entries in the database or because its reading raised an
\* exception in that same cycle: unless a lease ran out during a cycle, or an
\* extraction outlived its own.
MarkedIsIngested == spoiled \/ marked \subseteq inserted \cup lost

\* As long as no lease ran out, one worker at a time uses the directory, and it
\* holds the lease from the download to the removal of the directory.
OneIngester ==
    \A i, j \in Ingester :
        Cycling(i) /\ ~spoiled => dmmLease = i /\ (Cycling(j) => i = j)

\* Every file is marked in the end, although cycles fail and processes die in
\* them, unless all stay down.
AllMarked == []<>(marked = HashList \/ \A i \in Ingester : At(i, "down"))

\* What holds of the ingesters in every state: one at a time, and what they
\* marked is in the database or could not be read.
DmmInv == DmmTypeOK /\ OneIngester /\ MarkedIsIngested
=============================================================================
