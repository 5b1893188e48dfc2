----------------------------- MODULE AccountSync -----------------------------
(***************************************************************************)
(* services/debrid_account_scraper.py for one debrid account: its snapshot *)
(* (debrid_account_magnets, debrid_account_sync_state), the syncs that     *)
(* write it under a lock, and the requests that wait for it or start one   *)
(* (api/endpoints/stream.py, api/endpoints/debrid_sync.py).                *)
(*                                                                         *)
(* A sync reads the time, fetches the account page by page while it        *)
(* changes, and writes with three statements of their own.  The lock is    *)
(* what ScrapeLock shows it to be: a lease that somebody else can take     *)
(* when its time is over.  Each request runs in a process of its own.      *)
(***************************************************************************)
EXTENDS RealColumn, Sequences, FiniteSets

CONSTANTS
    Request,
    Magnet,         \* the torrents of the account
    PageSize,       \* the limit of list_magnets()
    MaxSnapshot,    \* DEBRID_ACCOUNT_SCRAPE_MAX_SNAPSHOT_ITEMS
    LeaseTime,      \* timeout of the lock
    SnapshotTtl,    \* _debrid_account_snapshot_ttl()
    RefreshTime,    \* DEBRID_ACCOUNT_SCRAPE_REFRESH_INTERVAL
    LastTick,       \* bound: the clock stops here
    MaxChanges      \* bound: changes of the account, failures and crashes

Nobody == "nobody"
Never == 0          \* there is no row of the sync state

ASSUME SyncAssumption ==
    /\ IsFiniteSet(Magnet) /\ Nobody \notin Request
    /\ Quantum <= 2 * SnapshotTtl + 1     \* a time is not kept as 0
    /\ PageSize \in Nat \ {0} /\ MaxSnapshot \in Nat \ {0}
    /\ LeaseTime \in Nat \ {0} /\ SnapshotTtl \in Nat /\ RefreshTime \in Nat
    /\ RefreshTime <= SnapshotTtl /\ LastTick \in Nat /\ MaxChanges \in Nat

VARIABLES
    tick,
    account,        \* the account's list, newest first
    magnets,        \* the rows: a function from magnets to synced_at
    lastSync,       \* last_sync_at
    lockRow,        \* who owns the lock's row, and until when
    req,            \* where each request is
    sync,           \* what the sync is at that the request has started
    changes,        \* see MaxChanges
    overrun         \* history: a lock was taken from a sync that went on

syncVars == <<tick, account, magnets, lastSync, lockRow, req, sync, changes, overrun>>

NoSync == [at |-> "none"]
FirstTick == SnapshotTtl + 1

SyncInit ==
    /\ tick = FirstTick
    /\ account \in {<<>>} \cup {<<m>> : m \in Magnet}
    /\ magnets = <<>> /\ lastSync = Never
    /\ lockRow = [owner |-> Nobody, until |-> 0]
    /\ req = [r \in Request |-> "idle"]
    /\ sync = [r \in Request |-> NoSync]
    /\ changes = 0 /\ overrun = FALSE

----------------------------------------------------------------------------
Rows == DOMAIN magnets
RequestAt(r, at) == req' = [req EXCEPT ![r] = at]
SyncAt(r, rec) == sync' = [sync EXCEPT ![r] = rec]
Working(r) == sync[r].at \in {"fetch", "upsert", "clean", "mark"}

\* _has_fresh_snapshot(): the state or a row is young enough.
FreshSnapshot ==
    LET oldest == Stored(tick - SnapshotTtl)
    IN  \/ lastSync # Never /\ lastSync >= oldest
        \/ \E m \in Rows : magnets[m] >= oldest

\* acquire() with one attempt, of a lock object that is new
LockIsFree == lockRow.owner = Nobody \/ lockRow.until <= tick
Acquired(r) ==
    /\ lockRow' = [owner |-> r, until |-> tick + LeaseTime]
    /\ overrun' = (overrun \/ \E k \in Request :
                      lockRow.owner = k /\ (Working(k) \/ sync[k].at = "scheduled"))
Refused == UNCHANGED <<lockRow, overrun>>

\* A sync begins: the time is read, which all that it writes will bear.
Begun(by) ==
    [at |-> "fetch", by |-> by, time |-> Stored(tick), offset |-> 0, items |-> {},
     same |-> TRUE]

\* ---- ensure_account_snapshot_ready()
Ensure(r) ==
    /\ req[r] = "idle"
    /\ RequestAt(r, IF FreshSnapshot THEN "ready" ELSE "missing")
    /\ UNCHANGED <<tick, account, magnets, lastSync, lockRow, sync, changes, overrun>>

\* Who gets the lock syncs, with the time that is left to wait for it or, if
\* none is left, in the background; the others wait for the snapshot.
LockAccount(r) ==
    /\ req[r] = "missing"
    /\ IF LockIsFree
       THEN /\ sync[r] = NoSync /\ Acquired(r)
            /\ \E by \in {"warm", "background"} :
                  /\ SyncAt(r, Begun(by))
                  /\ RequestAt(r, IF by = "warm" THEN "warming" ELSE "ready")
       ELSE Refused /\ RequestAt(r, "polling") /\ UNCHANGED sync
    /\ UNCHANGED <<tick, account, magnets, lastSync, changes>>

Warmed(r) ==
    /\ req[r] = "warming" /\ sync[r] = NoSync /\ RequestAt(r, "ready")
    /\ UNCHANGED <<tick, account, magnets, lastSync, lockRow, sync, changes, overrun>>

\* The timeout cancels the sync: between two of its statements, or with one
\* under way, executed or not; it releases the lock all the same.
Cancelled(r) == SyncAt(r, [at |-> "release", done |-> FALSE])

WarmTimeout(r) ==
    /\ req[r] = "warming" /\ Working(r)
    /\ Cancelled(r)
    /\ UNCHANGED <<tick, account, magnets, lastSync, lockRow, req, changes, overrun>>

\* The snapshot is fresh, or the deadline is over.
PollAccount(r) ==
    /\ req[r] = "polling" /\ RequestAt(r, "ready")
    /\ UNCHANGED <<tick, account, magnets, lastSync, lockRow, sync, changes, overrun>>

\* ---- schedule_account_snapshot_refresh()
MaySync(r) == LockIsFree

\* Unless the last sync is recent or somebody has the lock, one is run after
\* the response.
Schedule(r) ==
    /\ req[r] = "ready" /\ RequestAt(r, "idle")
    /\ IF (lastSync # Never /\ tick - Quantum * lastSync < RefreshTime) \/ ~MaySync(r)
       THEN Refused /\ UNCHANGED sync
       ELSE /\ sync[r] = NoSync
            /\ IF LockIsFree THEN Acquired(r) ELSE Refused
            /\ SyncAt(r, [at |-> "scheduled"])
    /\ UNCHANGED <<tick, account, magnets, lastSync, changes>>

StartScheduled(r) ==
    /\ sync[r].at = "scheduled" /\ SyncAt(r, Begun("background"))
    /\ UNCHANGED <<tick, account, magnets, lastSync, lockRow, req, changes, overrun>>

\* ---- trigger_account_snapshot_sync()
Trigger(r) ==
    /\ req[r] = "idle" /\ LockIsFree /\ sync[r] = NoSync
    /\ Acquired(r) /\ SyncAt(r, Begun("background"))
    /\ UNCHANGED <<tick, account, magnets, lastSync, req, changes>>

----------------------------------------------------------------------------
\* _sync_single_account()

PageLimit(s) ==
    LET left == MaxSnapshot - Cardinality(s.items)
    IN  IF PageSize < left THEN PageSize ELSE left

\* _fetch_all_magnets(): one page.
Fetch(r) ==
    LET s == sync[r]
        limit == PageLimit(s)
        page == {account[i] : i \in {j \in DOMAIN account : j \in s.offset + 1..s.offset + limit}}
        next == [s EXCEPT !.items = @ \cup page, !.offset = @ + limit]
        last == Cardinality(page) < limit \/ next.offset >= Len(account)
                \/ Cardinality(next.items) >= MaxSnapshot
    IN
    /\ s.at = "fetch"
    /\ SyncAt(r, IF last THEN [next EXCEPT !.at = "upsert"] ELSE next)
    /\ UNCHANGED <<tick, account, magnets, lastSync, lockRow, req, changes, overrun>>

\* _upsert_snapshot_rows(), or a part of it: not all databases execute many
\* rows as one.
Upsert(r, part) ==
    LET s == sync[r] IN
    /\ s.at = "upsert" /\ part \subseteq s.items
    /\ magnets' = [m \in Rows \cup part |-> IF m \in part THEN s.time ELSE magnets[m]]
    /\ IF part = s.items THEN SyncAt(r, [s EXCEPT !.at = "clean"])
       ELSE SyncAt(r, [at |-> "release", done |-> FALSE])
    /\ changes' = IF part = s.items THEN changes ELSE changes + 1
    /\ changes' <= MaxChanges
    /\ UNCHANGED <<tick, account, lastSync, lockRow, req, overrun>>

\* Mutant of Outdated: the rows of this sync are.
OutdatedAll(s) == {m \in Rows : magnets[m] <= s.time}

\* The older rows are those of before.
Outdated(s) == {m \in Rows : magnets[m] < s.time}

Clean(r) ==
    LET s == sync[r] IN
    /\ s.at = "clean"
    /\ magnets' = [m \in Rows \ Outdated(s) |-> magnets[m]]
    /\ SyncAt(r, [s EXCEPT !.at = "mark"])
    /\ UNCHANGED <<tick, account, lastSync, lockRow, req, changes, overrun>>

\* _set_last_sync()
Mark(r) ==
    LET s == sync[r] IN
    /\ s.at = "mark"
    /\ lastSync' = s.time
    /\ SyncAt(r, [at |-> "release", done |-> TRUE, time |-> s.time, items |-> s.items,
                  same |-> s.same])
    /\ UNCHANGED <<tick, account, magnets, lockRow, req, changes, overrun>>

\* The service does not answer, or a statement fails.
SyncFails(r) ==
    /\ Working(r) /\ changes < MaxChanges /\ changes' = changes + 1
    /\ SyncAt(r, [at |-> "release", done |-> FALSE])
    /\ UNCHANGED <<tick, account, magnets, lastSync, lockRow, req, overrun>>

\* _sync_task() releases the lock, if it is still its own.
Release(r) ==
    /\ sync[r].at = "release" /\ SyncAt(r, NoSync)
    /\ lockRow' = IF lockRow.owner = r THEN [owner |-> Nobody, until |-> 0] ELSE lockRow
    /\ UNCHANGED <<tick, account, magnets, lastSync, req, changes, overrun>>

----------------------------------------------------------------------------
\* The account changes, which syncs under way do not see.
SetAccount(list) ==
    /\ changes < MaxChanges /\ changes' = changes + 1
    /\ account' = list
    /\ sync' = [r \in Request |->
                  IF "same" \in DOMAIN sync[r] THEN [sync[r] EXCEPT !.same = FALSE]
                  ELSE sync[r]]
    /\ UNCHANGED <<tick, magnets, lastSync, lockRow, req, overrun>>

Add(m) == m \notin {account[i] : i \in DOMAIN account} /\ SetAccount(<<m>> \o account)
Remove(i) ==
    /\ i \in DOMAIN account
    /\ SetAccount(SubSeq(account, 1, i - 1) \o SubSeq(account, i + 1, Len(account)))

\* A process dies, or does not run what was scheduled after its response.
SyncCrash(r) ==
    /\ changes < MaxChanges /\ changes' = changes + 1
    /\ RequestAt(r, "idle") /\ SyncAt(r, NoSync)
    /\ UNCHANGED <<tick, account, magnets, lastSync, lockRow, overrun>>

\* core/database.py, the cleanup of expired rows
CleanExpired ==
    /\ magnets' = [m \in {k \in Rows : magnets[k] >= Stored(tick - SnapshotTtl)} |-> magnets[m]]
    /\ lastSync' = IF lastSync # Never /\ tick > 2 * SnapshotTtl
                      /\ lastSync < Stored(tick - 2 * SnapshotTtl) THEN Never ELSE lastSync
    /\ UNCHANGED <<tick, account, lockRow, req, sync, changes, overrun>>

TimePasses ==
    /\ tick < LastTick /\ tick' = tick + 1
    /\ UNCHANGED <<account, magnets, lastSync, lockRow, req, sync, changes, overrun>>

SyncStep(r) ==
    \/ StartScheduled(r) \/ Fetch(r) \/ Upsert(r, sync[r].items)
    \/ Clean(r) \/ Mark(r) \/ Release(r)

RequestStep(r) ==
    Ensure(r) \/ LockAccount(r) \/ Warmed(r) \/ WarmTimeout(r) \/ PollAccount(r) \/ Schedule(r)

AccountSyncNext ==
    \/ \E r \in Request :
          \/ SyncStep(r) \/ RequestStep(r) \/ Trigger(r)
          \/ \E part \in SUBSET Magnet : Upsert(r, part)
          \/ SyncFails(r) \/ SyncCrash(r)
    \/ \E m \in Magnet : Add(m)
    \/ \E i \in 1..Cardinality(Magnet) : Remove(i)
    \/ CleanExpired \/ TimePasses

AccountSyncSpec == SyncInit /\ [][AccountSyncNext]_syncVars

----------------------------------------------------------------------------
\* Type invariant.
SyncTypeOK ==
    /\ Rows \subseteq Magnet /\ \A m \in Rows : magnets[m] \in 1..Stored(tick)
    /\ lastSync \in {Never} \cup 1..Stored(tick)
    /\ lockRow.owner \in Request \cup {Nobody}
    /\ \A r \in Request : Working(r) => Cardinality(sync[r].items) <= MaxSnapshot

\* Two syncs of the account write at a time only if the lock was taken from one
\* of them, whatever is cancelled, scheduled, lost or dies.
OneSyncAtATime ==
    overrun \/ \A r, k \in Request : Working(r) /\ Working(k) => r = k

\* A sync that came to its end with its lock, of an account that did not change
\* and is not too long, leaves all of it in the snapshot, and besides only rows
\* whose time the column cannot tell from its own.
EndedIsExact ==
    \A r \in Request :
        sync[r].at = "release" /\ lockRow.owner = r /\ ~overrun =>
            \/ ~sync[r].done \/ ~sync[r].same \/ Len(account) > MaxSnapshot
            \/ sync[r].time < Stored(tick - SnapshotTtl)
            \/ /\ \A i \in DOMAIN account : account[i] \in Rows
               /\ \A m \in Rows : magnets[m] = sync[r].time

\* What holds of the syncs in every state: one at a time, and the one that has
\* ended leaves exactly the account.
SyncInv == SyncTypeOK /\ OneSyncAtATime /\ EndedIsExact
=============================================================================
