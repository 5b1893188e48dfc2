----------------------------- MODULE DbTransfer -----------------------------
(***************************************************************************)
(* The export and the import of tables (core/db_manager.py, db_cli.py):    *)
(* tables are written to files page by page, while the application goes on *)
(* changing them, and read into another database in batches.  A table may  *)
(* have a foreign key: its rows are deleted with the rows they refer to,   *)
(* and cannot be inserted without them.                                    *)
(*                                                                         *)
(* Rows are their primary keys; a row of the same key in the target is the *)
(* conflict of ON CONFLICT DO NOTHING.  A statement of SQLite may find the *)
(* database locked.                                                        *)
(***************************************************************************)
EXTENDS Sorting

CONSTANTS
    Table, Key,     \* Key is a set of numbers
    Parent,         \* the table a table refers to, or itself
    ParentKey,      \* the row of that table a row refers to
    ExportBatch,    \* batch_size of the export, which has an ORDER BY
    ImportBatch,    \* DATABASE_BATCH_SIZE
    MinBatch,       \* the 1000 that lock contention reduces a batch to
    MaxRetries,     \* max_retries
    ManyLocks,      \* the 3 locked statements that a batch is reduced after
    FirstSource, FirstTarget,   \* sets of databases
    MaxEdits,       \* bound: changes of the application
    MaxLocked       \* bound: statements that find the database locked

HasParent(t) == Parent[t] # t
HasRowFor(rows, t, k) == HasParent(t) => ParentKey[k] \in rows[Parent[t]]

\* What a database may hold: it lets in no row without the one that it refers to.
IsDatabase(rows) ==
    /\ rows \in [Table -> SUBSET Key]
    /\ \A t \in Table : IsFiniteSet(rows[t]) /\ \A k \in rows[t] : HasRowFor(rows, t, k)

ASSUME TransferAssumption ==
    /\ IsFiniteSet(Table) /\ Key \subseteq Nat /\ Parent \in [Table -> Table]
    /\ ParentKey \in [Key -> Key] /\ ExportBatch \in Nat \ {0}
    /\ ImportBatch \in Nat \ {0} /\ MinBatch \in Nat \ {0}
    /\ MaxRetries \in Nat /\ ManyLocks \in Nat
    /\ MaxEdits \in Nat /\ MaxLocked \in Nat
    /\ \A d \in FirstSource \cup FirstTarget : IsDatabase(d)

VARIABLES
    source,         \* the rows of each table
    parallel,       \* are tables imported at the same time?
    outfile,        \* the rows of each file
    offset,
    exported,       \* tables whose export is complete
    target, found,  \* the rows of the target: now, and before the import
    importing,      \* where import_table() is
    position,       \* rows read of the file
    pending,        \* current_batch, what is left of it
    attempt,        \* attempts of this batch, 0 for single inserts
    batchSize,      \* adaptive_batch_size
    lockRetries,    \* _lock_retry_count, of all tables
    inserted, conflicts,        \* ImportStats
    steady,         \* history: rows that are in the source since the beginning
    rowsDeleted,    \* history: tables with rows deleted during the export
    early,          \* history: tables imported before the one they refer to
    unlucky,        \* history: rows whose single insert found a lock
    changesMade, locksFound

exportVars == <<source, outfile, offset, exported, steady, rowsDeleted, changesMade>>
importVars == <<target, importing, position, pending, attempt, batchSize, lockRetries,
                inserted, conflicts, early, unlucky, locksFound>>
transferVars == <<exportVars, importVars, parallel, found>>

TransferInit ==
    /\ source \in FirstSource /\ target \in FirstTarget /\ found = target
    /\ parallel \in BOOLEAN
    /\ outfile = [t \in Table |-> <<>>] /\ offset = [t \in Table |-> 0]
    /\ exported = {} /\ steady = source /\ rowsDeleted = {}
    /\ importing = [t \in Table |-> "no"] /\ position = [t \in Table |-> 0]
    /\ pending = [t \in Table |-> <<>>] /\ attempt = [t \in Table |-> 0]
    /\ batchSize = [t \in Table |-> ImportBatch] /\ lockRetries = 0
    /\ inserted = [t \in Table |-> 0] /\ conflicts = [t \in Table |-> 0]
    /\ early = {} /\ unlucky = [t \in Table |-> {}]
    /\ changesMade = 0 /\ locksFound = 0

\* Up to n elements of s, after the first ones.
Slice(s, first, n) ==
    [i \in 1..Cardinality({j \in 1..n : first + j <= Len(s)}) |-> s[first + i]]

----------------------------------------------------------------------------
(* export_tables() and the application *)

Changes ==
    /\ exported # Table /\ changesMade < MaxEdits /\ changesMade' = changesMade + 1
    /\ UNCHANGED <<outfile, offset, exported, importVars, parallel, found>>

InsertRow(t, k) ==
    /\ k \notin source[t] /\ HasRowFor(source, t, k)
    /\ Changes
    /\ source' = [source EXCEPT ![t] = @ \cup {k}]
    /\ UNCHANGED <<steady, rowsDeleted>>

\* ON DELETE CASCADE
Cascaded(t, k) ==
    [u \in Table |-> source[u] \ {j \in Key : \/ u = t /\ j = k
                                              \/ u # t /\ Parent[u] = t /\ ParentKey[j] = k}]
DeleteRow(t, k) ==
    /\ k \in source[t] /\ Changes
    /\ source' = Cascaded(t, k)
    /\ steady' = [u \in Table |-> steady[u] \cap source'[u]]
    /\ rowsDeleted' = rowsDeleted \cup {u \in Table : source'[u] # source[u]}

\* ORDER BY the primary key, LIMIT batch_size OFFSET offset
NextPage(t) == Slice(Ascending(source[t]), offset[t], ExportBatch)

ExportPage(t) ==
    /\ t \notin exported
    /\ IF NextPage(t) = <<>> THEN exported' = exported \cup {t} /\ UNCHANGED <<outfile, offset>>
       ELSE /\ outfile' = [outfile EXCEPT ![t] = @ \o NextPage(t)]
            /\ offset' = [offset EXCEPT ![t] = @ + ExportBatch]
            /\ UNCHANGED exported
    /\ UNCHANGED <<source, steady, rowsDeleted, changesMade, importVars, parallel, found>>

----------------------------------------------------------------------------
(* import_tables() *)

\* In the order in which the files are found, or all at once.
BeginImport(t) ==
    /\ exported = Table /\ importing[t] = "no"
    /\ parallel \/ \A u \in Table : importing[u] \in {"no", "done"}
    /\ importing' = [importing EXCEPT ![t] = "reading"]
    /\ early' = IF HasParent(t) /\ importing[Parent[t]] # "done" THEN early \cup {t} ELSE early
    /\ UNCHANGED <<exportVars, parallel, found, target, position, pending, attempt, batchSize,
                   lockRetries, inserted, conflicts, unlucky, locksFound>>

\* Mutant of UpcomingRows: rows that do not fill a batch are left.
UpcomingRowsFull(t) ==
    IF position[t] + batchSize[t] > Len(outfile[t]) THEN <<>>
    ELSE Slice(outfile[t], position[t], batchSize[t])

\* A full batch, or what is left.
UpcomingRows(t) == Slice(outfile[t], position[t], batchSize[t])

ReadBatch(t) ==
    /\ importing[t] = "reading"
    /\ pending' = [pending EXCEPT ![t] = UpcomingRows(t)]
    /\ position' = [position EXCEPT ![t] = @ + Len(UpcomingRows(t))]
    /\ importing' = [importing EXCEPT ![t] = IF UpcomingRows(t) = <<>> THEN "done" ELSE "batch"]
    /\ attempt' = [attempt EXCEPT ![t] = 1]
    /\ UNCHANGED <<exportVars, parallel, found, target, batchSize, lockRetries, inserted,
                   conflicts, early, unlucky, locksFound>>

\* After a full batch its size follows the number of locked statements.
Adapted(t, locks) ==
    LET size == batchSize[t]
    IN  IF locks > ManyLocks
        THEN IF size \div 2 > MinBatch THEN size \div 2 ELSE MinBatch
        ELSE IF locks = 0 /\ size < ImportBatch
        THEN IF (size * 3) \div 2 < ImportBatch THEN (size * 3) \div 2 ELSE ImportBatch
        ELSE size

\* The batch is counted: rows that did not raise an error as inserted, whether
\* or not they were there before, and the others as conflicts.
EndBatch(t, rows, good, locks) ==
    /\ inserted' = [inserted EXCEPT ![t] = @ + good]
    /\ conflicts' = [conflicts EXCEPT ![t] = @ + rows - good]
    /\ importing' = [importing EXCEPT ![t] = "reading"]
    /\ IF rows >= batchSize[t]
       THEN /\ batchSize' = [batchSize EXCEPT ![t] = Adapted(t, locks)]
            /\ lockRetries' = IF locks > ManyLocks THEN 0 ELSE locks
       ELSE lockRetries' = locks /\ UNCHANGED batchSize

Insertable(t, k) == k \in target[t] \/ HasRowFor(target, t, k)

\* _process_batch_with_retry(): one transaction.
ExecuteMany(t) ==
    /\ importing[t] = "batch" /\ (\A i \in DOMAIN pending[t] : Insertable(t, pending[t][i]))
    /\ target' = [target EXCEPT ![t] = @ \cup {pending[t][i] : i \in DOMAIN pending[t]}]
    /\ pending' = [pending EXCEPT ![t] = <<>>]
    /\ EndBatch(t, Len(pending[t]), Len(pending[t]),
                IF attempt[t] > 1 /\ lockRetries > 0 THEN lockRetries - 1 ELSE lockRetries)
    /\ UNCHANGED <<exportVars, parallel, found, position, attempt, early, unlucky, locksFound>>

\* It is tried again, and given up after so many attempts.
BatchLocked(t) ==
    /\ importing[t] = "batch" /\ locksFound < MaxLocked /\ locksFound' = locksFound + 1
    /\ lockRetries' = lockRetries + 1
    /\ IF attempt[t] <= MaxRetries
       THEN attempt' = [attempt EXCEPT ![t] = @ + 1] /\ UNCHANGED importing
       ELSE importing' = [importing EXCEPT ![t] = "single"] /\ UNCHANGED attempt
    /\ UNCHANGED <<exportVars, parallel, found, target, position, pending, batchSize, inserted,
                   conflicts, early, unlucky>>

\* Any other error: the transaction is rolled back, the rows follow one by one.
BatchFails(t) ==
    /\ importing[t] = "batch" /\ (\E i \in DOMAIN pending[t] : ~Insertable(t, pending[t][i]))
    /\ importing' = [importing EXCEPT ![t] = "single"]
    /\ UNCHANGED <<exportVars, parallel, found, target, position, pending, attempt, batchSize,
                   lockRetries, inserted, conflicts, early, unlucky, locksFound>>

\* _process_batch_individual(): whatever an insert raises is passed over.
InsertSingles(t) ==
    /\ importing[t] = "single"
    /\ LET rows == pending[t]
           all == DOMAIN rows
       IN  \E locked \in SUBSET all :
               LET good == {i \in all \ locked : Insertable(t, rows[i])}
               IN  /\ locksFound' = locksFound + Cardinality(locked) /\ locksFound' <= MaxLocked
                   /\ target' = [target EXCEPT ![t] = @ \cup {rows[i] : i \in good}]
                   /\ unlucky' = [unlucky EXCEPT ![t] = @ \cup {rows[i] : i \in locked}]
                   /\ EndBatch(t, Len(rows), Cardinality(good), lockRetries)
    /\ pending' = [pending EXCEPT ![t] = <<>>]
    /\ UNCHANGED <<exportVars, parallel, found, position, attempt, early>>

TransferNext ==
    \E t \in Table :
        \/ ExportPage(t) \/ \E k \in Key : InsertRow(t, k) \/ DeleteRow(t, k)
        \/ BeginImport(t) \/ ReadBatch(t) \/ ExecuteMany(t) \/ BatchLocked(t)
        \/ BatchFails(t) \/ InsertSingles(t)

TransferSpec == TransferInit /\ [][TransferNext]_transferVars

----------------------------------------------------------------------------
Filed(t) == {outfile[t][i] : i \in DOMAIN outfile[t]}

\* A row that is in its table during the whole export is in the file, although
\* each page is a statement of its own and rows come meanwhile; only where
\* rows were deleted may the offset have gone past it.
ExportKeeps == \A t \in exported \ rowsDeleted : steady[t] \subseteq Filed(t)

\* Each row of a file is in the target in the end, whatever fell back on single
\* inserts; one is given up only when it refers to a row that is not there, its
\* table came before the one it refers to, or its single insert met a lock.
ImportKeeps ==
    \A t \in Table :
        importing[t] = "done" =>
            \A k \in Filed(t) \ (target[t] \cup unlucky[t]) :
                t \in early \/ ~HasRowFor(target, t, k)

\* No row of the target is lost or left without the row that it refers to, no
\* batch is empty, and the rows that are reported add up to the file's.
ImportSound ==
    \A t \in Table :
        /\ found[t] \subseteq target[t] /\ batchSize[t] > 0
        /\ \A k \in target[t] : HasRowFor(target, t, k)
        /\ inserted[t] + conflicts[t] + Len(pending[t]) = position[t]

TransferInv == ExportKeeps /\ ImportKeeps /\ ImportSound
=============================================================================
