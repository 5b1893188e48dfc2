---------------------------- MODULE AnimeMapping ----------------------------
(***************************************************************************)
(* AnimeMapper (services/anime.py): the ids of anime are downloaded from   *)
(* three lists, kept in the database that the processes share, and cached  *)
(* in each of them.  The first start downloads them before it serves       *)
(* requests; later ones serve what the database holds, and refresh it      *)
(* behind, one process at a time under a lock of the backend.              *)
(*                                                                         *)
(* A version of the lists is a number; 0 stands for none.  The mapping is  *)
(* enabled, and load_anime_mapping() is called once, when a process        *)
(* starts, so that its own _refresh_lock is never contended.               *)
(***************************************************************************)
EXTENDS Integers, FiniteSets

CONSTANTS
    Mapper,         \* processes
    Period,         \* values of ANIME_MAPPING_REFRESH_INTERVAL
    LastVersion,    \* bound: versions that are published
    Cacheless,      \* those without an override that the cache takes up
    AnimeEnd,       \* bound: the clock stops here
    MaxFaults,      \* bound: what fails, and processes that die
    NoMapper

ASSUME AnimeAssumption ==
    /\ IsFiniteSet(Mapper) /\ NoMapper \notin Mapper /\ Period \subseteq Int
    /\ LastVersion \in Nat \ {0} /\ Cacheless \subseteq 1..LastVersion
    /\ AnimeEnd \in Nat /\ MaxFaults \in Nat

VARIABLES
    period,
    published,      \* the version that can be downloaded
    catalog,        \* versions of anime_entries and of anime_ids
    overrides,      \* of anime_provider_overrides
    refreshedAt,    \* anime_mapping_state, 0 without a row
    refresher,      \* who holds the lock of _ANIME_REFRESH_LOCK_ID
    mapper,         \* how far each process is
    isLoaded, imdbIds, kitsuCache,  \* loaded, anime_imdb_ids, _kitsu_mapping_cache
    fetched,        \* what it has downloaded
    begunAt,        \* timestamp of _persist_mapping()
    draft,          \* what its transaction makes of the catalog
    faulty,         \* history: the caches it could not load since its start, or
                    \* the mapping it could not write
    hour, faults

cacheVars == <<isLoaded, imdbIds, kitsuCache>>
storeVars == <<catalog, overrides, refreshedAt>>
workVars == <<fetched, begunAt, draft>>
animeVars == <<period, published, storeVars, refresher, mapper, cacheVars, workVars, faulty,
               hour, faults>>

Whole(v) == [entries |-> v, ids |-> v]

AnimeInit ==
    /\ period \in Period /\ published = 1
    /\ catalog = Whole(0) /\ overrides = 0 /\ refreshedAt = 0 /\ refresher = NoMapper
    /\ mapper = [p \in Mapper |-> "off"] /\ isLoaded = [p \in Mapper |-> FALSE]
    /\ imdbIds = [p \in Mapper |-> 0] /\ kitsuCache = [p \in Mapper |-> 0]
    /\ fetched = [p \in Mapper |-> 0] /\ begunAt = [p \in Mapper |-> 0]
    /\ draft = [p \in Mapper |-> Whole(0)] /\ faulty = [p \in Mapper |-> FALSE]
    /\ hour = 1 /\ faults = 0

Goes(p, where) == mapper' = [mapper EXCEPT ![p] = where]
Fault == faults < MaxFaults /\ faults' = faults + 1
Elsewhere == UNCHANGED <<period, published, hour>>

\* The end of _refresh_from_remote(): the lock is released with it.
Ends(p) ==
    /\ Goes(p, "up")
    /\ refresher' = IF refresher = p THEN NoMapper ELSE refresher

----------------------------------------------------------------------------
(* load_anime_mapping() and _load_from_database() *)

StartMapper(p) ==
    /\ mapper[p] = "off" /\ Goes(p, "counting")
    /\ UNCHANGED <<storeVars, refresher, cacheVars, workVars, faulty, faults>> /\ Elsewhere

\* SELECT COUNT(*) FROM anime_entries: without entries they are downloaded, by
\* whoever gets the lock, which looks again.
CountEntries(p) ==
    /\ mapper[p] = "counting"
    /\ Goes(p, IF catalog.entries # 0 THEN "loading ids"
               ELSE IF refresher = p THEN "downloading" ELSE "waiting")
    /\ UNCHANGED <<storeVars, refresher, cacheVars, workVars, faulty, faults>> /\ Elsewhere

\* Of an error each cache stays as it was.
LoadProviderIds(p) ==
    /\ mapper[p] \in {"loading ids", "reloading ids"}
    /\ Goes(p, IF mapper[p] = "loading ids" THEN "loading kitsu" ELSE "reloading kitsu")
    /\ \/ imdbIds' = [imdbIds EXCEPT ![p] = catalog.ids] /\ UNCHANGED <<faulty, faults>>
       \/ Fault /\ faulty' = [faulty EXCEPT ![p] = TRUE] /\ UNCHANGED imdbIds
    /\ UNCHANGED <<storeVars, refresher, isLoaded, kitsuCache, workVars>> /\ Elsewhere

\* After a refresh, the reload is the last step.
LoadKitsuMapping(p) ==
    /\ mapper[p] \in {"loading kitsu", "reloading kitsu"}
    /\ \/ kitsuCache' = [kitsuCache EXCEPT ![p] = overrides] /\ UNCHANGED <<faulty, faults>>
       \/ Fault /\ faulty' = [faulty EXCEPT ![p] = TRUE] /\ UNCHANGED kitsuCache
    /\ IF mapper[p] = "loading kitsu"
       THEN /\ Goes(p, "deciding") /\ UNCHANGED refresher
            \* Under the lock nothing is awaited before loaded is set.
            /\ isLoaded' = [isLoaded EXCEPT ![p] = @ \/ refresher = p]
       ELSE Ends(p) /\ isLoaded' = [isLoaded EXCEPT ![p] = TRUE]
    /\ UNCHANGED <<storeVars, imdbIds, workVars>> /\ Elsewhere

\* _is_cache_stale(): an interval of 0 or less is never over.
IsCacheStale == period > 0 /\ (refreshedAt = 0 \/ hour - refreshedAt >= period)

\* _needs_refresh(): also when no override was taken up.
NeedsRefresh(p) ==
    IsCacheStale \/ overrides = 0 \/ kitsuCache[p] \in {0} \cup Cacheless

\* Mutant of Decided: what was decided before the lock was awaited still holds.
DecidedBefore(p) ==
    IF refresher = p THEN "downloading" ELSE IF NeedsRefresh(p) THEN "waiting" ELSE "up"

\* At the start a refresh goes on behind, and the process is up; under the lock
\* it is done, unless another process has done it.
Decided(p) ==
    IF ~NeedsRefresh(p) THEN "up" ELSE IF refresher = p THEN "downloading" ELSE "waiting"

Decide(p) ==
    /\ mapper[p] = "deciding"
    /\ isLoaded' = [isLoaded EXCEPT ![p] = TRUE]
    /\ IF Decided(p) = "up" THEN Ends(p) ELSE Goes(p, Decided(p)) /\ UNCHANGED refresher
    /\ UNCHANGED <<storeVars, imdbIds, kitsuCache, workVars, faulty, faults>> /\ Elsewhere

----------------------------------------------------------------------------
(* _refresh_from_remote() *)

TakeRefreshLock(p) ==
    /\ mapper[p] = "waiting" /\ refresher = NoMapper
    /\ refresher' = p /\ Goes(p, "counting")
    /\ UNCHANGED <<storeVars, cacheVars, workVars, faulty, faults>> /\ Elsewhere

\* The three lists; a status that is not 200, or no answer, ends the refresh.
Download(p) ==
    /\ mapper[p] = "downloading"
    /\ \/ /\ fetched' = [fetched EXCEPT ![p] = published] /\ Goes(p, "persisting")
          /\ UNCHANGED <<refresher, faults>>
       \/ Fault /\ Ends(p) /\ UNCHANGED fetched
    /\ UNCHANGED <<storeVars, cacheVars, begunAt, draft, faulty>> /\ Elsewhere

\* A query of the load or of the decision raises: a refresh returns; a start
\* is the end of the process (KillMapper).
QueryFails(p) ==
    /\ mapper[p] \in {"counting", "deciding"} /\ refresher = p /\ Fault
    /\ Ends(p)
    /\ UNCHANGED <<storeVars, cacheVars, workVars, faulty>> /\ Elsewhere

\* _persist_mapping(): a transaction of several statements.
BeginPersist(p) ==
    /\ mapper[p] = "persisting"
    /\ begunAt' = [begunAt EXCEPT ![p] = hour]
    /\ draft' = [draft EXCEPT ![p] = catalog] /\ Goes(p, "deleting")
    /\ UNCHANGED <<storeVars, refresher, cacheVars, fetched, faulty, faults>> /\ Elsewhere

\* What others read while the transaction is open.
Shown(new) == catalog

Writes(p, new, next) ==
    /\ draft' = [draft EXCEPT ![p] = new] /\ catalog' = Shown(new) /\ Goes(p, next)
    /\ UNCHANGED <<overrides, refreshedAt, refresher, cacheVars, fetched, begunAt, faulty,
                   faults>>
    /\ Elsewhere
DeleteOldIds(p) == mapper[p] = "deleting" /\ Writes(p, Whole(0), "inserting entries")
InsertEntries(p) ==
    mapper[p] = "inserting entries"
        /\ Writes(p, [draft[p] EXCEPT !.entries = fetched[p]], "inserting ids")
InsertIds(p) ==
    mapper[p] = "inserting ids"
        /\ Writes(p, [draft[p] EXCEPT !.ids = fetched[p]], "committing")

CommitMapping(p) ==
    /\ mapper[p] = "committing"
    /\ catalog' = draft[p] /\ refreshedAt' = begunAt[p] /\ Goes(p, "overriding")
    /\ UNCHANGED <<overrides, refresher, cacheVars, workVars, faulty, faults>> /\ Elsewhere

\* The error is logged, and the refresh goes on with the overrides.
PersistFails(p) ==
    /\ mapper[p] \in {"deleting", "inserting entries", "inserting ids", "committing"} /\ Fault
    /\ Goes(p, "overriding") /\ faulty' = [faulty EXCEPT ![p] = TRUE]
    /\ UNCHANGED <<storeVars, refresher, cacheVars, workVars>> /\ Elsewhere

\* _persist_provider_overrides(): a transaction of its own.
PersistOverrides(p) ==
    /\ mapper[p] = "overriding" /\ Goes(p, "reloading ids")
    /\ \/ overrides' = fetched[p] /\ UNCHANGED <<faulty, faults>>
       \/ Fault /\ faulty' = [faulty EXCEPT ![p] = TRUE] /\ UNCHANGED overrides
    /\ UNCHANGED <<catalog, refreshedAt, refresher, cacheVars, workVars>> /\ Elsewhere

----------------------------------------------------------------------------

\* The process ends, and may start again; the backend drops its lock and its
\* transaction.
KillMapper(p) ==
    /\ mapper[p] # "off" /\ Fault /\ Goes(p, "off")
    /\ refresher' = IF refresher = p THEN NoMapper ELSE refresher
    /\ isLoaded' = [isLoaded EXCEPT ![p] = FALSE]
    /\ imdbIds' = [imdbIds EXCEPT ![p] = 0] /\ kitsuCache' = [kitsuCache EXCEPT ![p] = 0]
    /\ faulty' = [faulty EXCEPT ![p] = FALSE]
    /\ UNCHANGED <<storeVars, workVars>> /\ Elsewhere

Publish ==
    /\ published < LastVersion /\ published' = published + 1
    /\ UNCHANGED <<period, storeVars, refresher, mapper, cacheVars, workVars, faulty, hour, faults>>
HourPasses ==
    /\ hour < AnimeEnd /\ hour' = hour + 1
    /\ UNCHANGED <<period, published, storeVars, refresher, mapper, cacheVars, workVars, faulty,
                   faults>>

AnimeNext ==
    \/ \E p \in Mapper :
           \/ StartMapper(p) \/ CountEntries(p) \/ LoadProviderIds(p) \/ LoadKitsuMapping(p)
           \/ Decide(p) \/ QueryFails(p) \/ TakeRefreshLock(p) \/ Download(p)
           \/ BeginPersist(p) \/ DeleteOldIds(p) \/ InsertEntries(p) \/ InsertIds(p)
           \/ CommitMapping(p) \/ PersistFails(p) \/ PersistOverrides(p) \/ KillMapper(p)
    \/ Publish \/ HourPasses

AnimeSpec == AnimeInit /\ [][AnimeNext]_animeVars

----------------------------------------------------------------------------
\* Entries and ids that are read belong to one version, however a refresh ends
\* and whoever reads meanwhile; and there is a time of a refresh only with them.
CatalogWhole ==
    /\ catalog.entries = catalog.ids
    /\ refreshedAt # 0 <=> catalog.entries # 0

\* Processes that start together, or in turn, download the lists once: whoever
\* waited for the lock while another refreshed finds them fresh.  (One that
\* could not load its own cache, or whose lists had nothing for it, downloads
\* them at every start.)
DownloadedOnce ==
    \A p \in Mapper :
        mapper[p] = "downloading" /\ overrides # 0 /\ kitsuCache[p] \notin {0} \cup Cacheless
            => IsCacheStale

\* A process that says it has loaded the mapping has ids of anime, of a version
\* no newer than the shared ones; else it would take no media for anime.
LoadedIsUsable ==
    \A p \in Mapper :
        isLoaded[p] /\ ~faulty[p] => imdbIds[p] \in 1..catalog.ids

AnimeInv == CatalogWhole /\ DownloadedOnce /\ LoadedIsUsable
=============================================================================
