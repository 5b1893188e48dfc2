# A formal model of torrin-addon (Comet)

TLA+ models of the stateful parts of this repository, the TLC configurations
that check them on small instances, and theorems about them proved with TLAPS
for all values of the constants. Paths are relative to `src/`.

Run a configuration with `tlc -config <run>.cfg <MC module>.tla`, a proof with
`tlapm <module>.tla`. `PROJECT.json` lists components, runs, theorems, hazards,
and for every definition that stands for code the lines it was translated from.
For each property it names a mutated definition, kept in the module beside the
original under a comment "Mutant of ...", which makes TLC refute the property.

## 1. The system

Comet answers a media player's request for streams of a film or an episode. One
process runs one asyncio event loop; several processes, possibly on several
hosts, share one SQL database (SQLite or PostgreSQL) and nothing else.
Interleaving therefore happens in two places: between coroutines of a process
wherever one awaits, and between processes wherever one statement follows
another. There are few transactions around sequences of statements. With
CometNet, processes of different owners exchange torrents over websockets.

| Component | State | Operations | Talks to |
|---|---|---|---|
| Scrape lock (`comet/services/lock.py`) | a row of `scrape_locks` per key; `acquired` of each lock object | `acquire`, `release`; periodic cleanup (`core/database.py`) | every component that scrapes |
| Stream request (`api/endpoints/stream.py`, `services/cache_state.py`, `services/orchestration.py`) | rows of `torrents`, `media_demand`; what the request has read of them | read cache, decide, scrape in the foreground or after the answer, write results, select and list streams | lock, scrapers, debrid services |
| Debrid availability (`services/debrid.py`, `debrid_cache.py`, `debrid/stremthru.py`) | `debrid_availability`; what a request merged of the answers | read rows, ask services, write back, choose the file of a link | debrid services |
| Debrid account sync (`services/debrid_account_scraper.py`) | snapshot rows and sync times per account | warm, sync, upsert, delete old rows | lock, debrid services |
| Playback proxy, bandwidth (`services/streaming/`, `services/bandwidth.py`) | `active_connections`, `bandwidth_stats`, a monitor per process | check the limit, stream, count, clean up | database |
| Background scraper (`background_scraper/worker.py`) | `background_scraper_runs`, `_items`, `_episodes`; `is_running`, `is_paused`, tasks | start, stop, pause, resume, cycle, claim, finish, defer, requeue; discovery with watermarks | lock, catalogue, scrapers |
| Torrent queues (`services/torrent_manager.py`) | bounded in-memory queues, batches | enqueue, batch, write, retry, resolve magnets, stop | database, CometNet |
| DMM ingester (`services/dmm_ingester.py`) | a directory, `dmm_entries`, `dmm_ingested_files` | download, extract, insert, mark | lock, external archive |
| Anime mapping (`services/anime.py`) | `anime_*` tables; caches per process | load, refresh, persist | lock, external lists |
| CometNet transport (`cometnet/transport.py`) | `_connections`, `_connections_per_ip`, `_connecting`, the lock of the limits | dial, accept, handshake, receive loop, disconnect | peers; gossip |
| CometNet gossip (`cometnet/gossip.py`) | outgoing queue, announcements under way | queue, announce, check, store, forward with a TTL | transport, torrent queue |
| CometNet reputation, key store | scores, public keys, the state file | rate, ban, evict, load, save | gossip |
| CometNet discovery (`cometnet/discovery.py`) | known peers, failures, backoff | learn, dial, forget | transport |
| CometNet pools (`cometnet/pools.py`, `manager.py`) | manifests, invites, memberships | create, join, update, leave, delete, replicate | gossip |
| CometNet relay client (`cometnet/relay.py`) | `_batch`, flush tasks, counters | relay, flush, stop | the standalone service |
| Kodi pairing (`services/kodi_pairing.py`, `api/endpoints/kodi.py`, `kodi/.../custom_settings_window.py`) | `kodi_setup_codes`; the add-on's polling loop | generate, associate, consume, clean up | browser page, add-on |
| Database layer (`core/database.py`, `schema_*.py`, `db_manager.py`, `db_cli.py`, `db_router.py`) | schema, versions, locks of the setup | migrate, sweep, export, import, route | everything |
| Scrapers, metadata, debrid clients | none of their own beyond caches | HTTP requests | external sites |
| Parsing, filtering, ranking, formatting | none | pure functions | requests |
| API, admin, configuration | settings, sessions | HTTP handlers | everything |

### What is hard about it

- **Leases without fencing.** A lock is a row with an expiry. The time a
  statement compares with was read before the statement was sent; clocks differ
  between hosts; and the column is a `REAL`, which PostgreSQL stores in four
  bytes, so that two of today's times less than 128 seconds apart may be equal.
- **Statements that fail.** `acquire()` and `release()` turn every exception
  into `False` or nothing, whatever the database did; a refresh or a sweep is
  several statements, of which one may fail.
- **asyncio cancellation.** `stop()`, time limits and lost leases cancel tasks
  inside `try`/`finally` clauses which themselves await, and may be cancelled
  again there; `_cancel_task()` cannot tell the cancellation of its caller from
  that of the task it awaits.
- **State read before an await** and used after it: registry checks of the
  handshake, cached rows of a request, peer limits, codes of the pairing, the
  manifest of a pool while it is signed or checked.
- **Messages** that overtake each other, arrive in copies over several
  connections or are lost with one.
- **Bounds**: connections per IP, streams per IP, watermarks and maximal sizes of
  queues, uses of an invite, attempts at a free code.
- **Crashes** leave rows, half a migration, half a directory or an empty state
  file behind that somebody else has to recover.

`PROJECT.json` lists these as hazards, each at its line, with the properties
that cover it or the reason that none does.

### What makes each component correct

| Component | Properties |
|---|---|
| Scrape lock | a granted lease is honoured until it expires; never two protected holders; rows of dead holders go; `acquire()` returns |
| Stream request | nobody scrapes without the lock; no path leaves it behind; one first search; every request ends; a limit is fair and what is cached is shown |
| Debrid availability | what the table says is not older than its rows live; the file shown is one file; the file played is the best and the one that is remembered |
| Account sync | one at a time; a sync that ended leaves exactly the account |
| Playback proxy | every row has a stream, every slot is given back, the total is not lost |
| Background scraper | a cycle is under way only under its worker's lease; one run is shown as running; an item is scraped by one task; stale rows are recovered; `stop()` returns; a process that paused discovery resumes it at the low watermark |
| Torrent queues | an accepted update is always in somebody's hands until it is written or given up; the newest of a row wins; a pending magnet has one job; stopping drains, and ends |
| DMM ingester | one at a time; a file is marked only with its entries inserted, or because its reading raised an exception |
| Anime mapping | what is read is of one version; lists are downloaded once |
| Transport | the per-IP limit holds and is not reached early; what is registered is open, what is open is registered; no attempt hangs |
| Gossip | no copy comes to a node twice, its TTL is finite, and it reaches those that trust it |
| Reputation, key store | of a banned peer nothing more is accepted, so that it rises by what was under way at most; keys are evicted by age |
| Discovery | configured peers stay known and are dialled again while peers are wanted; dead ones are forgotten |
| Pools | nobody has a role that no admin gave; an invite admits no more than its maximum; replicas converge |
| Relay | no torrent is dropped or repeated; a full batch is flushed at once; stopping flushes |
| Kodi pairing | a configuration reaches one add-on, with the code it was made for; no two add-ons have one code while both may use it; a code is valid for its lifetime |
| Database layer | one process migrates; every start ends, unless others keep a stale lock file open; migrations lose nothing, whenever they are cut off; an export imported again keeps the rows |

## 2. The modules

| Module | Models | Extends / instances |
|---|---|---|
| `RealColumn` | rounding of a time stored in a `REAL` column | |
| `LeaseMutex` | abstract specification: a mutex with leases | |
| `ScrapeLock` | `DistributedLock` and its row | `RealColumn`; implements `LeaseMutex` |
| `Schema`, `SchemaMigration` | tables and the migrations of older schemas | |
| `DatabaseSetup` | processes that start on one database: locks, versions, startup cleanup | |
| `Sorting` | sorting and filtering as the code's `sorted()`, `ORDER BY` and comprehensions do it | |
| `DbTransfer` | export and import of tables | `Sorting` |
| `ScrapeRequest` | stream requests over the lock | `ScrapeLock` |
| `StreamAnswer` | the streams of an answer | `Sorting` |
| `DebridAvailability` | what services have cached, as asked, written back and merged | |
| `LinkSelection` | the file that is played, and the rows it leaves | `Sorting` |
| `StreamProxy` | slots, streams and the total of bytes | |
| `AccountSync` | snapshot of a debrid account | `RealColumn` |
| `BackgroundRun` | main task, cycle, lock refresh, `stop()` of the background scraper | |
| `DiscoveryPolicy` | its discovery watermarks | |
| `KodiPairing` | setup codes and the add-on | `RealColumn` |
| `AnimeMapping` | the anime mapping of several processes | |
| `TorrentUpdates` | the queue of torrent updates: batches, retries, hand-over to the network, `stop()` | |
| `MagnetQueue` | the queue of magnets and its workers | |
| `RelayBatch` | batches of the relay client | |
| `DmmIngest` | the ingester's cycle and its extraction | |
| `PeerRegistry` | registry of connections of CometNet | |
| `PeerBook` | discovery | |
| `PeerTrust` | reputation and key store | `Sorting` |
| `Gossip` | announcements on several nodes | |
| `PoolSync` | one pool on several nodes | |
| `...Proofs` | theorems, see section 4 | the modules they are about, `Lemmas` |
| `Lemmas` | what the proofs of several components rest on | `Sorting` |
| `MC...` | instances for TLC | |

Most components share nothing but the lock and the update queue, whose promises
are stated by theorems and checked properties; each is modelled with as much of
its surroundings as it can observe. `ScrapeRequest` composes a component with the
lock itself. An instance module such as `MCQueues` joins several components for
checking: a variable `part` chooses one at the start, its steps are taken, and
the variables of the others keep a fixed initial value. So a run is the union of
the components' behaviours and nothing of one restricts another. Fairness is
stated for the component that was chosen, and never more than its own.

### RealColumn, LeaseMutex, ScrapeLock

`Stored(t)` is the number of the multiple of `Quantum` nearest to `t`, ties to
the even one: round-to-nearest of a float whose neighbours are `Quantum` apart.
`Quantum = 1` is SQLite, whose `REAL` has eight bytes.

State of `ScrapeLock`: the row (`rowOwner`, `rowExpires`), and per lock object
the attribute `acquired`, the local variables of `acquire()` (`stamp` =
`loop_time`, `started` = `start_time`, `wait` = `wait_timeout`) and where it
awaits (`pc`, `reply`). `BeginAcquire` reads the time and sends the upsert,
`Upsert` is its execution, `Granted` and `Refused` act on its result, `Retry`
ends the sleep; `BeginRelease`, `Delete`, `Released` likewise. `Fail` is an
exception or a cancellation at any await, before or after the statement was
executed; `Crash` the end of the process. `Cleanup` is `cleanup_expired_locks()`
of some process. The time it compares with was read earlier, but a row that
qualifies for an earlier time qualifies for the latest, so the action uses that.
`Ahead` gives each host's clock a constant lead, `MaxAhead` is the largest.

`lease` is a history variable: the `expires_at` a caller was promised by `True`,
cleared when it begins to release. `Protected` is the set of clients whose
promise has not passed on the fastest clock; `LeaseMutex` is instantiated with
`holder <- Protected`. A client may renew by calling `acquire()` again, as the
background scraper and the ingester do; renewal keeps the old promise until
the new one is known.

### Schema, SchemaMigration, DatabaseSetup, DbTransfer

What the code sorts or filters is `Sorting`: the n-th element is the one that n - 1
others precede, so that nothing but the relation decides.

`Schema` lists per table the canonical columns and the legacy names.
`SchemaMigration` executes the versions of `schema_migrations.py` statement by
statement on databases of earlier releases (a table is a set of columns and a
set of rows); a start may end between any two statements, and the next begins
the version it was in again. `Contents` is what a database says whatever its
layout, `ContentsKept` that no statement changes it.

In `DatabaseSetup` a process goes through the stages of `setup_database()`;
`lockAt` is where it is in the lock of the stage. The lock is one of three
kinds, as `backend_lock()` has them: an advisory lock, `flock()`, or a lock file
with a PID, whose steps (create, write PID, read it, date it, unlink) are
actions; a file that some process has open cannot be removed. `KeptOpen` is a stale
file that two or more processes poll. Versions are abstract numbers here, rows of the sweep have an age.

In `DbTransfer` an export reads pages by `OFFSET` while the application inserts
and deletes; the import puts the file's rows into another database in batches
that shrink when SQLite finds it locked, drops what its foreign keys refuse, and
fails or ends.

### ScrapeRequest

A request is a client of `ScrapeLock`, with the phases of `stream()`:
`ReadCache`, `ReadFresh`, `CheckFirst` are its three awaits before the decision;
`AcquireWhenEmpty`, `ForceAcquire` and `AcquireInBackground` the places that ask
for the lock; `LockGranted`, `LockRefused`, `LockError` compose a step of the
lock with the step of the request that it returns to; `Scrape`, `EndScrape`,
`LockReleased`, `ReleaseError` the scrape with its `finally`; `WriteCache` is
`cache_torrents()`, a task of its own that may end after the release.
The decision is made by the source's conditions on what was read (`Empty`,
`FirstSearch`, `Stale`, `Fresh`, `ForceScrapeNow`). Of the cached rows, only the
kinds those conditions can tell apart are kept: rows of the media that pass the
episode filter, rows that do not, and rows cached under another id.

### StreamAnswer, DebridAvailability, LinkSelection, StreamProxy, AccountSync

`StreamAnswer` is a function of its request: `SelectInfoHashes` applies the limit
per resolution, `DebridStream` and its kin make streams, which go to three lists
and are deduplicated. Wording is reduced to the length of the description, which
the deduplication compares.

In `DebridAvailability` a request (`asker`) reads the rows, asks each service, and
applies the answers in the order they come; `writes` are the tasks that write
them back, each with the time its answer was made. `held` is what the services
have, `lastHeld` and `confirmed` are history. `Title` are the names of files; a
torrent is its own name where it was scraped, and `None` the absence of one.

`LinkSelection` has the scoring of files of `generate_download_link()` with the
numbers of the source, the rows it leaves for the cache, and the link.

In `StreamProxy` the check of the limit, the insert, the registration in the
process's monitor, chunks and the end of a stream are steps of their own; rows
are removed by the end of the stream, by the monitor when it has fallen silent,
or by the next setup. `sum` of all bytes is read at the start and written at the end.

In `AccountSync` a sync is: lock, read time, fetch page by page while the account
changes, upsert, delete of older rows, mark, release; requests wait for one, or
schedule one that inherits the lock. `overrun` remembers that a lock was taken
from a sync that went on.

### BackgroundRun

Per worker: `main` is where `_run_continuous()` is, `outcome` what leaves its
inner `try` (`go`, `raised`, `cancelled`), `running` and `paused` the flags,
`stopping` where `stop()` is; `cycle` where `_run_scraping_cycle()` is, `left`
what remains of the limits of the run, `todo` the planned items, `inFlight` those
with a task. Shared are `leader`, the row of the lock (`ScrapeLock` says how it
gets there; `Orphan` is a row of a lock object that nobody uses any more),
`item`, the status of the items with `next_retry_at` folded in (`waiting`: due;
`resting`: not yet due), and `openRuns`, the rows with status `running`.

A cancelled task does nothing until `CancelledError` is raised where it awaits:
`cancelled` and `halted` are the cycles and main tasks in that state.
`Interrupted` raises it in a cycle: inside the `try` statement it leads to the
`finally` clause and is raised again at its end (`aborted`), inside the `finally`
clause it leaves out the rest. `HaltsLoop`, `HaltsWait` and `HaltSwallowed` are
the three places it can hit the main task; in the last, `_cancel_task()` takes
it for the cancellation of the task it awaits. `Statement(w)` is the effect of
the statement a cycle awaits; failing and cancelled statements take effect or
not. `Awaited` contains the code's exit for a cycle that raised while being
aborted, which skips `lock.release()`; the row then waits for its expiry.

Not in it: episodes of a series, scrapers, the rows discovery writes, status
queries. The lock is atomic here; the `acquire()` whose answer is lost is there.

### DiscoveryPolicy

The settings `low`, `high`, `hard` (0 or negative: none), the flag
`_discovery_paused_for_backlog` of each process, the length of the one queue that they
share. `High`, `Low`, `Hard` are the normalised limits; `Blocked` the decision and the
flag; `Allowance` the two targets left by the headroom. `Cycle(w, ...)` is the cycle
of one process, of which the lock lets one run at a time, `Reset` its `stop()` or
restart, which forgets the flag. `backlog` is history, per process as the flag is: a
cycle of the process saw the queue at the high watermark and none of its own saw it
at the low one since.

### AnimeMapping

`catalog` is the version of the entries and of the ids in the database, written
in one transaction whose statements are separate steps; `overrides` is another.
Each process has its caches (`imdbIds`, `kitsuCache`, `isLoaded`) and a place in
`mapper`. A refresh takes the lock, looks again whether the cache is stale,
downloads what is `published` and persists it. `faulty` are processes whose
loading failed.

### KodiPairing

The row per code, the add-on's loop, and pages that post a configuration with
the code they were opened with. `Insert` is one attempt, with its conflict;
`Poll` reads the time and `Consume` executes the `DELETE ... RETURNING`;
`Receive` and `LoseAnswer` are what becomes of the answer. Any code may be drawn at
any time: also one whose row was used or cleaned up while the add-on that it was
given to still polls for it. `issued`, `openedFor`, `rowFor` (the add-on which a row
was inserted for), `consumed` (the add-ons whose row was delivered) are history.

### TorrentUpdates

An update is the object `_TorrentUpdate` that a call stages; `content[u]` is the
history of what has been merged into object `u`, `data[u]` the update whose
fields it carries now. `pending`, `queue`, `unfinished`, `heap`, `idle` are the
attributes of `TorrentUpdateQueue`; `slow[p]` is what a call, or the retry
worker, has still to put into the full queue. The locks of the class are never
held across an await that suspends, so a step is what a task does between two
awaits that may: `queue.put()` on a full queue, `queue.get()` on an empty one,
the upsert, the backend, delays and events. `Take`, `TakeMore` and
`FlushTimeout` are `_collect_queue_batch()`; `Write` is a successful upsert with
the hand-over that follows it, `WriteFails` one that raised, committed or not.
`woken` says that the future `stop()` awaits in `join()` has its result: what is
put before `stop()` runs again is not waited for. Then `STOP` may be collected
behind an item, of which the worker dies (`Finalize`). It also dies of an update
that `TorrentMetadata` refuses (`Unfit`, in `Write`); `killed` remembers that.
The broadcast queue is a number, as nothing depends on what is in it.

### MagnetQueue

A call is merged into the pending entry of its key, or makes one and puts a job
into the bounded queue. Workers take jobs, share the download of one magnet
(`inflight`), and hand over the seeders that were merged until then. `stop()`
refuses new calls, joins the queue and puts one `STOP` per worker. A worker that
waits for another's download gets what its future was set to (`futureOf`), whatever
has become of the cache since.

### RelayBatch

`batch`, the flushers (tasks, the loop, `stop()`) with the batch each is
sending, the counters. Nothing is awaited under `_batch_lock`, so a critical
section is one action. `Answered(f, n)` is an answer by which `n` torrents were
queued by the service; `RelaySendFails` has the code's two ways of counting a failed
request. `stop()` is three actions: flush, cancel the loop, cancel the tasks.

### DmmIngest

`ingester` is where each worker is in its cycle; `zip`, `temp` and `disk` are the
shared directory; `unzip` is what the executor's process has still to write,
which goes on when its coroutine is cancelled or its worker has died. `ReadFile`
gives the entries of a file that is whole, or none when anything is raised in
`process_file_sync()`; `unread` has the files whose last reading raised and `lost`
those that were marked so. `spoiled` remembers that a lease ran out in a cycle or that
an extraction outlived its own.

### PeerRegistry

A member of `Conn` is one websocket; `pc` says where its coroutine is. Steps are
separated at awaits: the lock of the limits (`LockHeld` while a refused websocket
is closed under it), the handshake messages, the validation of the peer's
address (`resolving`), a close. `connections` is `_connections`, `perIp`
`_connections_per_ip`, `connecting` `_connecting`. `Register` is unconditional,
as in the code; `LoopEnds` is the `finally` clause of the receive loop, which
asks whether the *node* is registered; `StartKick` and `EndKick` are the two
sides of the await in `disconnect_peer()`.

### Gossip, PeerTrust, PeerBook, PoolSync

`Gossip`: `outgoing` is the queue of a node, `sendoff` what its loop is sending,
`mail` announcements on their way (with TTL and visited nodes), `work` what the
receive loop of a connection awaits. `lossy` is history: a connection ended, a
queue dropped an item, or the fanout left out a peer.

`PeerTrust`: `rep` and `keys` are the dictionaries of the two stores, `handling`
the message that each receive loop has in hand, and of whom; several loops may be of
one peer, as handshakes of one node overlap (`PeerRegistry`). The loop awaits three
times, before `AcceptAnnounce`, `Screen` and `Judge`. `kept` says whether the object
of the sender's reputation is still in the store. `disk` is the state file, which is
empty after a crash that tore it. The effective score adds a bonus per day.

`PeerBook`: `book` is `_known_peers` (source, id, failures, remaining backoff, age),
`sweep` the discovery loop between its awaits, `bookFile` the state file. A dial of a
node that is connected already succeeds, as `connect_to_peer()` answers its id.

`PoolSync`: nodes keep manifests as objects in slots, because coroutines share
them: an administrator changes the stored object in place and awaits its
signature, a handler awaits the check of a received one and then replaces what
is stored. A join takes three steps: the member is added and the invite counted
(`TakeJoin`), the bytes are read after the invite was saved (`SignJoin`), and signed
and stored (`AnswerJoin`). `chan` holds the messages of each connection in order, `pend` what
each receive loop awaits, `op` the API's operation. `admitted` is history: the
roles that somebody entitled granted.

## 3. The runs

A property whose name ends in `Inv` is a conjunction of the type invariant and
the named parts below it in its module; each part has its comment there.

| Run | Module | Properties |
|---|---|---|
| `database` | `MCDatabase` | `LeaseHonoured SetupInv SchemaInv TransferInv ImplementsLeaseMutex NobodyStuck SetupEnds` |
| `request` | `MCScrapeRequest` | `RequestInv ProxyInv RequestEnds SlotsFreed` |
| `background` | `MCBackgroundRun` | `WorkerInv StaleRecovered StopReturns` |
| `queues` | `MCQueues` | `UpdatesInv RetryEventTrue MagnetInv RelayInv DmmInv StopDrains QueuesSettle StopsReturn` |
| `cometnet` | `MCCometNet` | `PeersInv GossipInv BookInv PeersSettle ReachesAll BookSettles` |
| `pools` | `MCPools` | `PoolInv TrustInv BanHolds` |
| `services` | `MCServices` | `KodiInv PolicyInv SyncInv AnimeInv ValidForLifetime ResumesAtLow` |
| `playback` | `MCPlayback` | `AnswerInv AvailabilityInv LinkInv` |
| `schema_sqlite` | `MCSchemaMigration` | `StartsOnEveryBackend` is violated |
| `peers_ip` | `MCPeerRegistry` | `RejectedAtLimit` is violated |
| `peers_active` | `MCPeerRegistry` | `ActiveIsRegistered` is violated |
| `pools_sync` | `MCPoolSync` | `PoolsConverge` is violated |

What they show:

- `database`. Whatever is delayed, rounded, lost or crashed, the owner of a lease
  owns the row until the lease has passed on the fastest clock, so no two
  clients are protected together, and the lock refines `LeaseMutex`; a dead
  owner's row goes, and an `acquire()` that waits without limit gets its turn
  (`NobodyStuck`). With each of its three locks, one starting process at a time
  migrates or sweeps, what it has read of the versions still holds when it acts,
  and every start ends although others die with their locks. The exception is in the
  property: with lock files, two processes that poll a dead one's file may keep it open
  for each other at every attempt, and never end (section 5). Every earlier
  schema comes to the current one, cut off and begun again at any statement, and
  says the same as before. An import adds rows of the export only, and all that
  the foreign keys admit.
- `request`. On every path through the three acquisitions, a scrape is made
  with the lock, two scrapes overlap only when a lease has run out under one of
  them, and a request that has ended owns no row unless one of its own
  statements failed. At most one of the racing requests is the first search, and
  each request ends, whoever else holds the lock or has died with it. A proxied
  stream gives its slot back, however it ends, unless a statement failed.
- `background`. The lock is not released before the cycle has ended, by no
  combination of two of failure, crash, lost lease, `stop()` and pause; as
  long as leases are kept, items have one task and runs one row. What was left
  as `running` does not stay so while some worker goes on, and `stop()` returns
  even when its cancellation is swallowed.
- `queues`. Whatever overlaps, an accepted update is in an object that somebody
  will take, and rows end with what was accepted last unless a batch was tried
  again. `stop()` leaves nothing behind and ends, although the retry worker can
  put a batch between `join()` and its caller, which costs that batch. All of
  this while the worker lives: an unfit update ends it, and a `stop()` that is
  draining then waits for ever. A pending magnet has one job and is handed over
  with the most seeders; a relay batch is taken once, however flushes overlap;
  the DMM archive is marked file by file with its entries, except for files whose
  reading raised an exception, which are marked without any.
- `cometnet`. The counter of an IP never falls below its live connections, so the
  limit holds; nothing that is gone is registered. Copies of an announcement go
  along simple paths and reach the neighbours of neighbours that trust the
  contributor. Configured addresses stay known over failures, cleanups, saves and
  torn restarts, and are dialled again as long as peers are wanted; dead ones go.
- `pools`. Handlers that overwrite each other's manifest give nobody a role that
  no admin gave. Nothing more is accepted of a peer below the threshold. It can rise
  over it again, by a message that another of its receive loops had in hand when it
  fell, and not otherwise.
- `services`. A configuration is delivered once, to an add-on that has the code of
  its page. Two add-ons have one code only when that of one was used or is over; then
  what was made for the newer may reach the older, which is not excluded (section 5).
  A process that has paused discovery resumes it at the low watermark only; what
  others do between the watermarks is not restricted, and neither is it in the code.
  The rest as in the table of section 1.
- `playback`. The same; these three are computations on the inputs of a request,
  and the table of availability in between.

### Bounds

Model values are few but every race needs two actors and one moment between
them. `SYMMETRY` is used for the codes and add-ons of the pairing, and for the
requests and magnets of the account sync, whose values no property tells apart.

| Component | Instance |
|---|---|
| lock | 2 clients with clocks one tick apart; `Quantum` 4, a second 2 ticks, TTL 2, clock to 12: beyond the first expiry, its rounding and a second acquisition. A row outlives its lease by rounding, `int()` shortens one |
| setup | 2 processes, each kind of lock, 2 versions, 3 old rows in batches, 2 mishaps (a failure or a death each); 3 processes on lock files, one of which may die and two poll, without rows to sweep |
| migrations | a new, an old and a half-migrated database; PostgreSQL (SQLite ends at the statement of the finding) |
| transfer | 2 tables, one referring to the other, 3 keys, pages of one row, batches of two, one edit, 2 locked statements |
| requests | 2 requests; no rows, stale rows of the media, or stale rows under another id; TTL 1, clock to 3 |
| proxy | 2 streams in two processes, limit 1 or none, one chunk, one mishap |
| background | 2 workers, 2 items (one dead), one task at a time, up to 2 items in a run, 2 upsets: one hits the recovery from the other |
| updates | 4 updates of 3 rows in 3 calls, one from the network, one unfit; queue of 2, batches of 2, one failed upsert. One call fills the queue, so that the others have to wait, one of them for the row of the other |
| magnets | 4 calls, queue of 1, 2 workers |
| relay | 3 torrents, batches of 2, two tasks, loop and `stop()` |
| DMM | 2 workers, 2 files, batches of 1, 2 mishaps |
| registry | 3 inbound websockets from one IP with limit 2, 2 outbound to one address, 2 nodes: two of one node race while a third competes for the slot |
| gossip | 4 nodes (a triangle and one more), 2 contributions of one torrent, TTL 3, fanout 2, queue of 2 |
| discovery | a manual and a learned address, one restart |
| pools | 3 nodes, a creator alone or with a second admin, an invite of one use, versions to 3, one message per direction, 2 calls |
| trust | 3 ids, one sender with two receive loops, room for 2 keys, 2 days |
| pairing | 2 add-ons, 2 codes, 1 page, `Quantum` 2, TTL 1, clock to 4; a page posts once |
| policy | 2 processes that take turns, all triples of five settings, three targets, queues to 5 |
| account | 2 requests, 2 magnets, pages of 1, 2 ticks, one change |
| anime | 2 processes, 2 versions, one fault, clock to 3 |
| answer | 3 torrents under the limits, or 2 that may be duplicates; 2 services |
| availability | 2 services, 1 torrent, 1 asker that asks twice, 2 changes, 4 ticks |
| link | 2 files, with every combination of matches and sizes |

`CHECK_DEADLOCK FALSE` is set where the modelled system does stop: when a clock
is at its end, all websockets are over, all requests answered, a queue is
stopped, all calls are made or nobody may be started again.

### Fairness

Always weak fairness, on steps that the event loop, the database or a timeout
performs by itself, never on requests of users, crashes or failures:

- `ScrapeLock`: statements sent are executed and answered (the driver raises
  otherwise, which is `Fail`), sleeps end, `cleanup_expired_locks()` loops every
  60 seconds and catches every exception, time passes.
- `DatabaseSetup`: statements and sleeps; a file that nobody writes grows old.
- `ScrapeRequest`: the steps of a request; none on time or on the cleanup, so
  `RequestEnds` shows that no request depends on a lease running out.
- `StreamProxy`: the server's steps and the monitor's loop; not the sending side.
- `BackgroundRun`: the steps of cycles, main tasks and `stop()`; an orphaned row
  expires after its 60 seconds. Not on `Start`, `Resume` or `Renews`:
  `StaleRecovered` excludes a system that is off or paused.
- `TorrentUpdates`, `MagnetQueue`: workers, calls that wait for room, and `stop()`
  once it was called; not calls, cancellations, failures.
- `RelayBatch`: requests have a timeout, the loop wakes every two seconds; a
  `stop()` that was called goes on.
- `DmmIngest`: coroutines and the executor; the row of a dead process expires.
- `PeerRegistry`: handshakes and closes have timeouts in the code; a closed
  websocket makes `recv()` raise.
- `Gossip`: the loop wakes every second, coroutines go on, and what a connection
  carries arrives unless it ends (that end makes `lossy` true).
- `PeerBook`: the discovery loop, whose dials have a timeout.

## 4. What is proved

For every value of the constants that satisfies the named assumption of the
component's module:

| Theorem | Statement | Assumption |
|---|---|---|
| `StreamProofs!TypeCorrect` | `Spec => []TypeOK` | `LockAssumption`, `QuantumAssumption` |
| `StreamProofs!LeaseIsHonoured` | `Spec => []LeaseHonoured` | the same |
| `StreamProofs!LockImplementsMutex` | `Spec => ImplementsLeaseMutex` | the same |
| `StreamProofs!RequestsUseTheLock` | `ReqSpec` implies the safety part of the lock's specification | the same |
| `StreamProofs!RequestsAreSound` | `ReqSpec => []RequestInv` | the same, `RequestAssumption` |
| `StreamProofs!ProxyIsSound` | `[]ProxyInv` | `ProxyAssumption` |
| `StreamProofs!ScoreIsLexicographic` | a higher score comes first by the documented priorities | none |
| `StreamProofs!LinksAreBest` | `[]LinkInv` | `LinkAssumption` |
| `StreamProofs!AvailabilityIsSound` | `[]AvailabilityInv` | `AvailabilityAssumption` |
| `StreamProofs!AnswersAreFair` | `[]AnswerInv` | `AnswerAssumption` |
| `SetupProofs!SetupIsSound` | `[]SetupInv` | `SetupAssumption` |
| `SetupProofs!TransfersAreSound` | `[]TransferInv` | `TransferAssumption` |
| `BackgroundRunProofs!WorkersAreSound` | `[]WorkerInv` | `BackgroundAssumption` |
| `TorrentUpdatesProofs!RetryEventNeverLies` | `[]RetryEventTrue` | `UpdatesAssumption` |
| `TorrentUpdatesProofs!UpdatesKeepOrder` | `[]UpdatesInv` | the same |
| `TorrentUpdatesProofs!StoppedQueueIsEmpty` | `[]StopDrains` | the same |
| `QueuesProofs!MagnetsHaveOneJob` | `[]MagnetInv` | `MagnetAssumption` |
| `QueuesProofs!RelayKeepsAll` | `[]RelayInv` | `RelayAssumption` |
| `QueuesProofs!OneIngestsAtATime` | `[]DmmInv` | `DmmAssumption` |
| `CometNetProofs!RegistrySound` | `[]PeersInv` | `PeerAssumption` |
| `CometNetProofs!AnnouncementsEnd` | `[]GossipInv` | `GossipAssumption` |
| `CometNetProofs!TrustIsKept` | `[]TrustInv` | `TrustAssumption` |
| `CometNetProofs!BansHold` | `BanHolds` | `TrustAssumption`, `Untrusted <= Initial` |
| `CometNetProofs!ConfiguredAreKept` | `[]BookInv` | `BookAssumption` |
| `CometNetProofs!RolesAreGranted` | `[]PoolInv` | `PoolAssumption` |
| `ServicesProofs!LimitsAlwaysOrdered` | `[]LimitsOrdered` | `PolicyAssumption` |
| `ServicesProofs!RoomAlwaysShared` | `[]RoomIsShared` | the same |
| `ServicesProofs!PolicySound` | `[]PolicyInv` | the same |
| `ServicesProofs!ResumesOnlyAtLow` | `ResumesAtLow` | the same |
| `ServicesProofs!MappingSound` | `[]AnimeInv` | `AnimeAssumption` |
| `ServicesProofs!CodesServeOneAddon` | `[]KodiInv` | `KodiAssumption`, `QuantumAssumption` |
| `ServicesProofs!CodesLiveTheirLifetime` | `ValidForLifetime` | the same |
| `ServicesProofs!SyncsAreExact` | `[]SyncInv` | `SyncAssumption`, `QuantumAssumption` |

The assumptions give constants their types and sizes. Six of them say more, and the
theorems fail without it. `Untrusted <= Initial`: the settings of reputation are not
validated against each other, and when a new peer is below the threshold it is
banned before it has done anything and rises with its first valid torrent.
`Quantum <= 2 * TTL` in `KodiAssumption` and `Quantum <= 2 * SnapshotTtl + 1` in
`SyncAssumption`: a stored time must not be rounded down to zero, which today's
times are far from. `BookAssumption`: no address of the state file at the first start
is configured, as one that was learned before it was configured keeps the source
that lets a cleanup drop it. `UpdatesAssumption`: an update is one item of one call,
as each call builds its own objects, which the code compares by identity.
`AnswerAssumption`: no debrid service is called as `P2P` is, whose streams are put
among the cached ones; the configuration accepts only the services of a list
(`core/models.py:1018`).

**The lease.** `LeaseHonoured` is not inductive: that a competitor's upsert
leaves a protected row alone depends on the time the competitor carries, and
that a grant is safe depends on what happened between the execution and the
answer. `LeaseInv` adds: times carried are not in the future (`stamp[i] <=
Now(i)`), a renewal asks for no less than is already promised (`lease[i] <=
ExpiryFrom(stamp[i])`), nothing is promised to who is releasing or dead, and an
unseen `True` already owns its row. Rounding enters through one lemma,
`StoredMonotone`: `a <= b => Stored(a) <= Stored(b)`. A row is taken when
`rowExpires < Stored(stamp)`; as `stamp <= LatestNow <= lease`, monotony gives
`Stored(stamp) <= Stored(lease) <= rowExpires`, so a protected row is never
taken, whatever the precision. `int()` enters through `ExpiryMonotone`. The
refinement follows: two protected clients would own one row, and a step that
protects a client finds nobody protected.

**Requests over the lock.** Each step of a request is shown to be a step of
`ScrapeLock`, or to leave the lock's variables alone; so the lock's theorems hold
under it. `IndInv` of `RequestsAreSound` adds to the types and `LeaseInv` of the
lock: a request is asked for the lock at most once (`AsksOnce`), a row belongs
to a request that is between its acquisition and its release or has one of its
statements failed (`RowAccounted`), and the first search is known from the row
of `media_demand` (`FirstIsKnown`).

**The setup.** Three invariants, for any number of processes and each kind of
lock. `HoldersKept`: who is in a lock's block holds the lock; that a lock file is
still there rests on its owner having it open, so that nobody can remove it, whatever
PID or age was read before. `KnowledgeKept` needs it: as nobody else is inside, what
was read of the versions is so until the next is recorded, and who has left the
block without an exception has left all of them recorded. `SweepKept`: a sweep has
taken old rows only, and everything old up to the last row of its last batch. That
an empty batch means that nothing is left (`NothingLeft`), and that a batch leaves
nothing out below its last row (`BatchIsWhole`), are facts about sets of natural numbers
that are proved with least elements and cardinalities; `Row` is any set of
positive numbers.

**The transfer.** That the file has every row which is there from the export's
beginning to its end rests on a count: such a row is in the file already, or no
fewer rows precede it than the offset says (`NotPassed`); a deletion can break
that, an insertion cannot. Of the import, a row that was read and is not in the
batch any more is in the table, was refused by chance or has no parent (`Dealt`), for
which the batch must be the last rows that were read, whatever has become of its size
(`Reading`), and the parent's table must be complete before (`ParentDone`).

**The proxy.** A row of `active_connections` is handed from the request to the
entry, from there to the end of the stream or to the cleanup, and to `leaked` when
a statement fails: `RowsHaveOwners` is inductive with the types, by one lemma for
the steps of a stream and one for those of the monitor. For the total, what is being written lies between what was written last and
what there is (`WritesBetween`), and a process that has transferred nothing writes
nothing.

**The background run.** `CycleUnderLease` depends on who awaits whom: a cycle
that is under way is awaited by its main task or by `stop()`, or the worker is
dead (`CycleIsAwaited`); the lists of a cycle are disjoint and their items exist
(`ListsDisjoint`), and rows marked as running belong to the one worker alone
unless leases lapsed (`AloneWithRows`).

**The update queue.** `RetryEventTrue` is inductive with the shape of `slow`: a
step of the retry worker needs something in the heap or in its hands, so the
event was clear, and it is set only by `IdleAfter`; steps of calls assign other
components of `slow`. The event is awaited in a loop that does not suspend when
it is set, so that a false one would stop the process. `UpdatesInv` needs
`UpdIndInv`. An object is in one place only (`Apart`) and has come with a call
(`Fresh`). The objects that wait, in the queue, before it or in a batch that is
still being collected, are exactly those that are pending for their rows, and no
object of a batch in work or in the heap is (`PendingKept`): this is why an update
is never merged into an object that nobody will take. For a row none of whose
updates was given up or tried again, the fields of the newest update are in the
pending object; without one, in the batch that is being written; without that, in
the database (`OrderKept`). Every accepted update is settled or part of an object
that is still owed to the database (`PlaceKept`). What `stop()` has established at
each of its phases is `StopPhases`: from `put` on nobody puts and the heap is
empty, and `STOP` is the last in the queue, so that the worker that takes it
leaves nothing behind. A call stages its items in a fold, and what the fold comes
to (`StagedTo`: which rows are pending, which object carries the last item of its row,
what has entered the queue and what waits for room) is proved item by item, by
induction.

**The other queues.** For magnets,
`PendingHasJob` counts the jobs of a key; the proof says instead where the one job is
(`JobWaits`, `JobQueued`, `JobWorked`), and each step moves it. `MostKept` extends
`HandedIsMost` to entries that are not handed over yet, and `StopKept` says what
the drain of `stop()` has established: from the first `STOP` on nothing else is in the
queue, no call waits and no worker is busy, and there are no more `STOP`s than
workers, so that none is left when all have ended. The relay needs that the
flushers which are sending are those whose batch is not empty (`FlushersKept`),
and cardinalities of disjoint batches. The ingester needs that its extraction
ends within its cycle (`UnzipIsAwaited`), and that the batch it marks is the one
it has read, but for files that raised (`BatchIsWhole`), each only as long as nothing is `spoiled`.

**CometNet.** The registry's counter is compared with the websockets by the
cardinality of a set that one step changes by one element. For announcements,
`PathsAreSimple` must be carried through what a receive loop holds and what a
queue is sent with: `MailKept`, `WorkKept`, `QueuesKept`, `RecordsKept`. The keys of
`TrustInv` are in the order of their last use, each node's once (`KeyList`): a touch
moves one to the end, an eviction takes the first, a cleanup filters, and a load
does not sort, so that the file must have been in that order, too (`TrustIndInv`),
and a torn one is empty. For a ban, each step of a receive loop is looked at: one that
takes a message in hand asks for the threshold first; in the middle of a message
scores only fall; and the step that gives the bonus ends the message, so that the
set of those in hand has become smaller (`StepOfLoop`). That configured
addresses stay in the book needs their sources, which a cleanup asks for, in the book
and in the file from which a restart takes them (`BookKept`, `FileKept`); that
backoffs are numbers, a fact about powers of two (`PowerOfTwo`, by counting
subsets). For the pools
the stored manifests are not enough: a handler stores what it checked earlier, and
an administrator signs bytes of an object that others change. `AllFair` says of
everything that is stored, on its way, awaited or about to be signed that its
roles were granted and that the contents it bears signatures of had granted roles,
so that what is confirmed by any of them is fair, too; `HeldFair`, that the objects
which coroutines still refer to are manifests and not empty slots.

**Services.** `LimitsOrdered` and `RoomIsShared` are facts about operators of
integers, whose difficulty is the integer division in `Shares`: the first
rounded share is at most the room, so that the hand-out of the rest neither
exceeds the room nor leaves any of it. `ResumesAtLow` needs that each process' flag
equals its history `backlog` (`PausedIsBacklog`). `CatalogWhole` needs the local
state of the process in its transaction (`LocalTypes`, `MapperKept`) and that
its lock outlives it (`SharedTypes`). For the pairing, `CodeGiven`,
`StampGiven`, `PagesKept`, `RowsKept`, `RowsOwned` and `LivesKept` connect the row of
a code with the history of its generation: a row is that of the add-on it was
inserted for last and has the lifetime of its code, and an add-on whose code has no
row, or another's, was served or is past its lifetime; a configuration is in one
place, the row, an answer or an add-on;
the lifetime follows from `StoredMonotone` and from a bound on the error
of `Stored`.

**The account sync.** `EndedIsExact` speaks of the end of a sync; `Good` says what
is true on the way there: what was fetched is the first part of an account that
did not change (`PagesRead`), whose size is the number of items read because the
account lists each torrent once; the rows bear times that are not later than the
sync's own, and after its upsert those of its items bear exactly it, unless they
have expired (`RowsOf`). That nobody else writes meanwhile is `BusyOwns`: the
lock's row belongs to the sync, as long as no lock was taken from one that went on.

**The link.** The score is a sum of weights; that it orders files as the list
of priorities does is arithmetic with each part's bound (`ScoreIsLexicographic`).
`IsAhead` is then a strict total order of the candidates, what is sorted by one
begins with an element that precedes all others (`FirstIsBest`), and of the rows for
the requested episode the chosen file's is written last.

**The availability.** A row is no older than the last moment when the service held
its torrent, but for the delay between its answer and the write (`RowsOk`). That is
inductive only together with what writes bear (`WriteOk`) and what answers told
(`ToldOk`); times of an answer lie within `Lag` as long as somebody waits for it. What
is shown of a torrent is replaced as a whole by files that have all their columns
(`OverIs`), so that it is one of the files that were seen and none of the merged ones
is larger (`Shows`); this is shown for each loop over rows, services and files by an
induction of its own.

**The answer.** All of it is what one function returns, so the proof is about loops.
`Better` is a strict order by which the limit tries the torrents (`TriesAll`), and
after each, `SelectsWell` says: every limit is kept, and who was left out had as many
better ones as the limit. For the streams, `StreamsOfAre` and `AllStreamsAre` say
which there are, and `FinalStreamsAre` that the three lists together have the same
ones, the uncached last. So the first stream of a torrent that has its file for
itself is that of the first service which has it, and none of its others has a longer
description to replace it with (`KeepsOne`).

**Sorting and loops.** `Lemmas` has what these proofs share. Sorting by a strict total
order gives each element once and in order (`InOrderIs`, `AscendingIs`), and filtering
keeps order (`PickedIs`); the least number (`LeastNumber`) gives an induction up to a
bound (`ReachesEnd`), by which a loop over a sequence has a value after each of its
items (`StepsExist`).

**Only model-checked.**
- Liveness, which needs `ENABLED`: `NobodyStuck`, `SetupEnds`, `RequestEnds`,
  `SlotsFreed`, `StaleRecovered`, `StopReturns`, `QueuesSettle`, `StopsReturn`,
  `PeersSettle`, `ReachesAll`, `BookSettles`.
- `SchemaInv`. It follows some hundred and fifty statements through seven kinds of
  contents, and for databases in general it needs an assumption about what every
  earlier release may have left; the run has one of each kind.

No module declares a `RECURSIVE` operator, so that all of them can be proved about.

## 5. Where code and documentation differ

Each of the first four has a run whose property states what the documentation
says, and which TLC refutes:

- `schema_sqlite`: a server on SQLite does not start on a new database, because
  the migration of the indexes executes `CREATE EXTENSION` there, too; the
  documentation lists SQLite among the supported backends.
- `peers_ip`: slots of an IP are lost when a node is already connected or was
  unregistered before its receive loop ended, so an IP is refused below its
  limit.
- `peers_active`: the second of two overlapping handshakes of one node replaces
  the first, whose loop continues unregistered, and whose end then removes the
  second.
- `pools_sync`: members of a pool that are connected keep different versions of
  its manifest when all messages are handled: no node asks for a manifest it
  missed, and a handler that has checked an older one stores it over a newer.

Seen while modelling, modelled, and without a run of their own:

- Lock: on PostgreSQL it can outlive "Lock lifetime in seconds" (`lock.py:29`) by
  the distance of two `REAL` values; a database error in `acquire()` is answered
  like a scrape that is under way; the lock of a stream's scrape is never renewed.
- Setup: a lock file's release fails when another process has it open; the
  startup cleanup may run twice within its interval and its time go back; a lock
  file waits for ever when the PID in it was reused. Two processes that poll a dead
  one's lock file may keep it open for each other (`database.py:163`), so that neither
  can remove it (197): one at a time is still inside, but a start may wait for ever,
  which `SetupEnds` excludes by name (`KeptOpen`).
- Transfer: pages by `OFFSET` miss rows when others are deleted; children
  imported before their parents are dropped and reported as expected
  (`db_cli.py:150`); a batch size below 1000 is raised to 1000 when it should
  shrink; the setup of `db_cli` deletes a running server's `active_connections`.
- Proxy: the check of the limit and the insert are two statements; rows stay when
  a delete fails; each worker's setup deletes the rows of all; a total that
  could not be read is overwritten later, and workers overwrite each other's.
- Background run: the exception of an aborted cycle leaves its lock to expire, and
  is raised by `stop()`, which then leaves the main task alone.
- Queues: an update that `TorrentMetadata` refuses ends the update worker, and a
  retried batch overwrites newer rows; seeders merged after they were read are
  lost with the pending entry, as is what was merged into the entry of a
  cancelled call; `stop()` of the relay cancels requests under way, whose
  torrents are counted neither as relayed nor as errors.
- DMM: results of renewals are not looked at, and an extraction outlives a
  cancelled cycle. A file in whose reading anything is raised counts as one without
  entries (`dmm_ingester.py:274`) and is marked (147), so that it is never read again.
- Transport: the peer limit is not looked at again after a handshake, and calls
  that wait for the lock together dial one address.
- Gossip: results of sends are dropped, so that the count of propagated torrents
  is wrong; a full queue drops its oldest; torrents taken when there are no
  peers are lost; the "Message deduplication" of the class's documentation
  (`gossip.py:56`) does not exist beyond the database.
- Reputation: of a node with two receive loops, one may give the bonus of a message
  (`gossip.py:358`) after a penalty of the other has banned the node
  (`validation.py:76`), which lifts the ban.
- Pools: a manifest is not signed again when a member leaves; pools that were left
  or deleted come back with a late message; forwarded updates of members are
  rejected and held against who forwards them.
- Discovery: "trusted peers to always connect to" (`docs/cometnet.md:137`) are
  dialled only below the minimum of peers; an address that was learned before it
  was configured keeps its source; failures are not in the state file.
- Discovery of media: "Resume discovery only when queue drops to or below this level"
  (`.env-sample:114`) holds for each process by itself: the flag is in its memory
  (`worker.py:218`), so that another process, or the same one after a restart, discovers
  between the watermarks of the queue they share.
- Kodi: a code is drawn among all (`kodi_pairing.py:46`), also one whose row was cleaned
  up (`database.py:799`) while its add-on still polls, by a deadline of its own that
  began later (`custom_settings_window.py:126`); it then receives the configuration
  that was made for the new owner of the code.
- State file: written in place, so that a crash empties it.
- Account sync: on PostgreSQL rows of a sync within one quantum are not deleted; a
  scheduled sync that never runs holds its lock until it expires.
- Anime: failures of persisting are swallowed, and other processes keep their old
  caches until they start again.
- Answers: with cached-only, torrents enabled and mixed sorting, uncached torrents
  use up the limit; "shows only one result per torrent"
  (`templates/index.html:651`) is by name and size of the file, so that an
  uncached stream may replace a cached one and torrents of unknown size are
  shown several times.
- Availability: `cache_tier` and `fileIndex` are shared between services; an older
  answer written late overwrites a newer row; a file without an index lends its
  title to the index of another.
- Links: "Episode match without season info" really is a match with another
  season; "Cap at 10GB" caps at 100 GB.

## 6. Not modelled

Pure functions of names and strings (parsing, filtering, ranking, formatting);
scrapers, metadata and the catalogue, which are requests without shared state;
settings, pages and logging; cryptography, UPnP and address parsing; the choice
of a replica, which no component relies on. In the modelled components: texts of
streams, exceptions of a request before it asks for the lock (they end it),
`stop()` of the transport, message routing and rate limits, episodes and
discovery rows of the background scraper, files of the pool store.
The executor's processes are assumed to live: an exception for a broken pool ends a
cycle or a message as another does. An empty list of anime in a download
(`anime.py:410`) is not among the versions that are published. Of the items that StremThru
can accelerate, those that already have files are left out (`stremthru.py:318`): they
use up names that belong to cached items (335), which only shifts titles.
`PROJECT.json` says for each component what is left out.

## 7. Plan

Done: the modules of section 2 and their runs, and the theorems of section 4.

Every invariant and action property of a run is proved but `SchemaInv`. Next: its
proof. An invariant for it says that what a statement has set up stays so, by the
statement's kind (a column that was added is there, one that was filled equals its
`COALESCE`, a table that was copied is contained), over the versions in order.
