----------------------------- MODULE MCDatabase -----------------------------
(* The database: the lock of the scrapes, the setup of a process, the        *)
(* migrations of the schema and the transfer of tables, each on its own.     *)
EXTENDS ScrapeLock, MCSchemaMigration, DatabaseSetup, DbTransfer

CONSTANTS c1, c2,   \* clients of the lock
          u1, u2, u3    \* processes that start

\* Two hosts: c1's clock leads c2's by one tick.
TwoHosts == [i \in Client |-> IF i = c1 THEN 1 ELSE 0]

\* c1 makes one attempt, as all the callers do; c2 waits, without limit.
LongWait == [i \in Client |-> IF i = c1 THEN {NoWait} ELSE {0}]

\* Old rows, of both times and of the later one, on both sides of a new one.
Stamps == <<0, 3, 1>>

\* None, at every start, and every other tick.
Intervals == {-1, 0, 1}

\* Episodes refer to items: two to the first, one to the last.
Parents == [t \in Table |-> "items"]
ParentKeys == [k \in Key |-> IF k = 3 THEN 3 ELSE 1]

TablesOf(items, episodes) == [t \in Table |-> IF t = "items" THEN items ELSE episodes]
FullSource == {TablesOf({1, 3}, {1, 3})}

\* A new database to import into, and one with a row of the source.
NewOrUsed == {TablesOf({}, {}), TablesOf({1}, {2})}

\* A third process joins others where the lock is a file, rows are not swept
\* and one statement fails or process dies.
ThirdStarts ==
    /\ kind = "lockfile" /\ interval < 0 /\ mishaps' < 2
    /\ stage[u1] # "off" \/ stage[u2] # "off"

VARIABLE part   \* the component that runs

SuiteInit ==
    /\ part \in {"lock", "setup", "schema", "transfer"}
    /\ Init /\ SetupInit /\ SchemaInit /\ TransferInit
    /\ part = "setup" \/ (kind = "advisory" /\ interval = 0)
    /\ part = "schema" \/ (backend = "postgres" /\ first = NewDatabase)
    /\ part = "transfer" \/ (target = TablesOf({}, {}) /\ ~parallel)
SuiteNext ==
    /\ UNCHANGED part
    /\ \/ part = "lock" /\ Next /\ UNCHANGED <<setupVars, schemaVars, transferVars>>
       \/ part = "setup" /\ SetupNext /\ (stage'[u3] = "off" \/ ThirdStarts)
              /\ UNCHANGED <<lockVars, schemaVars, transferVars>>
       \/ part = "schema" /\ SchemaNext /\ UNCHANGED <<lockVars, setupVars, transferVars>>
       \/ part = "transfer" /\ TransferNext
              /\ UNCHANGED <<lockVars, setupVars, schemaVars>>

\* LockFairness and SetupFairness, each of its part.
SuiteSpec ==
    /\ SuiteInit /\ [][SuiteNext]_<<part, lockVars, setupVars, schemaVars, transferVars>>
    /\ \A i \in Client : WF_lockVars(part = "lock" /\ ClientStep(i))
    /\ WF_lockVars(part = "lock" /\ Cleanup) /\ WF_lockVars(part = "lock" /\ Tick)
    /\ \A p \in Process : WF_setupVars(part = "setup" /\ SetupStep(p))
    /\ \A l \in Lock : WF_setupVars(part = "setup" /\ Age(l))
=============================================================================
