--------------------------- MODULE ScrapeRequest ---------------------------
(***************************************************************************)
(* Stream requests for one media (api/endpoints/stream.py), with the       *)
(* decision of services/cache_state.py, the scrape and the cached rows of  *)
(* services/orchestration.py, over the lock of ScrapeLock.                 *)
(*                                                                         *)
(* Request i uses one DistributedLock, client i of ScrapeLock: that of its *)
(* CacheStateManager when it scrapes before answering, that of             *)
(* background_scrape() when it scrapes after having answered from the      *)
(* cache.  What it read of the cache is old when it decides.               *)
(*                                                                         *)
(* The cached rows matter by kind only: rows of the requested media, rows  *)
(* of it that the requested episode's filter drops, and rows of another    *)
(* media id under which the same title is cached.                          *)
(***************************************************************************)
EXTENDS ScrapeLock

CONSTANTS
    MayAge,     \* the kinds of rows that may become stale or disappear here
    FirstCache  \* the caches a run starts with

Kind == {"own", "offscope", "alias"}

\* Requests ask once, for at least a second; caches are of these kinds.
ASSUME RequestAssumption ==
    /\ \A i \in Client : NoWait \in WaitTimeouts[i]
    /\ TTL >= Second
    /\ MayAge \subseteq Kind
    /\ FirstCache \subseteq [Kind -> {"none", "stale", "fresh"}]

VARIABLES
    cache,      \* cache[k]: are there rows of kind k, and is one fresh?
    demand,     \* is there a media_demand row for the media?
    phase,      \* how far each request is
    count,      \* did get_cached_torrents() find usable torrents?
    primary,    \* torrent_manager.primary_cached
    fresh,      \* get_fresh_torrent_count() = 1
    first,      \* is_first_search
    writing,    \* requests whose cache_torrents() task has not finished
    lost        \* history: requests that lost a statement of the lock

reqVars == <<cache, demand, phase, count, primary, fresh, first, writing,
             lost>>
vars == <<lockVars, reqVars>>

Scraping == {"scraping", "scraped", "refreshing", "refreshed"}
Answered == {"cached", "wait", "done"}    \* no step of the code is left
Asking == {"checking", "forcing", "asking"}     \* inside acquire()

----------------------------------------------------------------------------
\* _determine_state
Empty(i) == ~count[i]
FirstSearch(i) == count[i] /\ first[i]
Stale(i) == count[i] /\ ~first[i] /\ ~fresh[i]
Fresh(i) == count[i] /\ ~first[i] /\ fresh[i]

ForceScrapeNow(i) == ~primary[i]

Becomes(i, at) == phase' = [phase EXCEPT ![i] = at]

\* The answer is settled: what the request has read is of no use any more.
Forget(i) ==
    /\ count' = [count EXCEPT ![i] = FALSE]
    /\ primary' = [primary EXCEPT ![i] = FALSE]
    /\ fresh' = [fresh EXCEPT ![i] = FALSE]

ReqInit ==
    /\ Init
    /\ cache \in FirstCache
    /\ demand = FALSE
    /\ phase = [i \in Client |-> "new"]
    /\ count = [i \in Client |-> FALSE]
    /\ primary = [i \in Client |-> FALSE]
    /\ fresh = [i \in Client |-> FALSE]
    /\ first = [i \in Client |-> FALSE]
    /\ writing = {} /\ lost = {}

----------------------------------------------------------------------------
\* await torrent_manager.get_cached_torrents(): the rows that pass the
\* filter, and whether any row of the requested media came back at all.
ReadCache(i) ==
    /\ phase[i] = "new" /\ Becomes(i, "found")
    /\ count' = [count EXCEPT ![i] = \E k \in {"own", "alias"} :
                                        cache[k] # "none"]
    /\ primary' = [primary EXCEPT ![i] = \E k \in {"own", "offscope"} :
                                            cache[k] # "none"]
    /\ UNCHANGED <<lockVars, cache, demand, fresh, first, writing, lost>>

\* await get_fresh_torrent_count(): any row that is young enough.
ReadFresh(i) ==
    /\ phase[i] = "found" /\ Becomes(i, "counted")
    /\ fresh' = [fresh EXCEPT ![i] = \E k \in Kind : cache[k] = "fresh"]
    /\ UNCHANGED <<lockVars, cache, demand, count, primary, first, writing,
                   lost>>

\* await check_is_first_search(): INSERT ... ON CONFLICT DO NOTHING.  When the
\* statement raises, executed or not, the search does not count as the first.
CheckFirst(i) ==
    /\ phase[i] = "counted" /\ Becomes(i, "decide")
    /\ \/ demand' = TRUE /\ first' = [first EXCEPT ![i] = ~demand]
       \/ demand' \in {demand, TRUE} /\ UNCHANGED first
    /\ UNCHANGED <<lockVars, cache, count, primary, fresh, writing, lost>>

\* check_and_decide(), state EMPTY: try to become the one who scrapes.
AcquireWhenEmpty(i) ==
    /\ phase[i] = "decide" /\ Empty(i)
    /\ BeginAcquire(i, NoWait) /\ Becomes(i, "checking")
    /\ UNCHANGED <<cache, demand, count, primary, fresh, first, writing, lost>>

\* force_scrape_now and not lock_acquired: try_acquire_lock(), which comes
\* second when check_and_decide() has tried already.
ForceAcquire(i) ==
    /\ \/ phase[i] = "decide" /\ ~Empty(i)
       \/ phase[i] = "refused"
    /\ ForceScrapeNow(i)
    /\ BeginAcquire(i, NoWait) /\ Becomes(i, "forcing") /\ Forget(i)
    /\ UNCHANGED <<cache, demand, first, writing, lost>>

\* should_return_wait_message and not force_scrape_now
AnswerWait(i) ==
    /\ phase[i] = "refused" /\ ~ForceScrapeNow(i) /\ Becomes(i, "wait")
    /\ Forget(i)
    /\ UNCHANGED <<lockVars, cache, demand, first, writing, lost>>

\* The cached torrents are the answer: there is nothing more to do when they
\* are fresh, else background_scrape() runs once the response is sent.
AnswerFromCache(i) ==
    /\ phase[i] = "decide" /\ ~Empty(i) /\ ~ForceScrapeNow(i)
    /\ Becomes(i, IF Fresh(i) THEN "cached" ELSE "background")
    /\ Forget(i)
    /\ UNCHANGED <<lockVars, cache, demand, first, writing, lost>>

\* background_scrape(): its own lock, one attempt.
AcquireInBackground(i) ==
    /\ phase[i] = "background"
    /\ BeginAcquire(i, NoWait) /\ Becomes(i, "asking")
    /\ UNCHANGED <<cache, demand, count, primary, fresh, first, writing, lost>>

----------------------------------------------------------------------------
\* What the request does when acquire() returns.
AfterGrant(i) == Becomes(i, IF phase[i] = "asking" THEN "refreshing"
                                                   ELSE "scraping")

\* Mutants of AfterRefusal: a forced scrape goes on without the lock, or asks
\* for it again and again.
AfterRefusalScrapes(i) == Becomes(i, CASE phase[i] = "checking" -> "refused"
                                       [] phase[i] = "forcing" -> "scraping"
                                       [] phase[i] = "asking" -> "done")
AfterRefusalInsists(i) == Becomes(i, CASE phase[i] = "checking" -> "refused"
                                       [] phase[i] = "forcing" -> "refused"
                                       [] phase[i] = "asking" -> "done")

AfterRefusal(i) == Becomes(i, CASE phase[i] = "checking" -> "refused"
                                [] phase[i] = "forcing" -> "wait"
                                [] phase[i] = "asking" -> "done")

LockGranted(i) ==
    /\ phase[i] \in Asking /\ Granted(i) /\ AfterGrant(i) /\ Forget(i)
    /\ UNCHANGED <<cache, demand, first, writing, lost>>

LockRefused(i) ==
    /\ phase[i] \in Asking /\ Refused(i) /\ AfterRefusal(i)
    /\ UNCHANGED <<cache, demand, count, primary, fresh, first, writing, lost>>

\* acquire() turns an exception into False, whatever the database did.
LockError(i) ==
    /\ phase[i] \in Asking /\ Fail(i) /\ AfterRefusal(i)
    /\ lost' = lost \cup {i}
    /\ UNCHANGED <<cache, demand, count, primary, fresh, first, writing>>

\* scrape_torrents() returns; it leaves cache_torrents() running on its own.
Scrape(i) ==
    /\ \/ phase[i] = "scraping" /\ Becomes(i, "scraped")
       \/ phase[i] = "refreshing" /\ Becomes(i, "refreshed")
    /\ writing' = writing \cup {i}
    /\ UNCHANGED <<lockVars, cache, demand, count, primary, fresh, first, lost>>

\* finally: release().  The scrape raised, or it is over: what follows it
\* under the lock (account warm-up, availability checks) is over as well.
EndScrape(i) ==
    /\ phase[i] \in Scraping
    /\ BeginRelease(i) /\ Becomes(i, "releasing")
    /\ UNCHANGED <<cache, demand, count, primary, fresh, first, writing, lost>>

LockReleased(i) ==
    /\ phase[i] = "releasing" /\ Released(i) /\ Becomes(i, "done")
    /\ UNCHANGED <<cache, demand, count, primary, fresh, first, writing, lost>>

\* release() swallows the exception as well.
ReleaseError(i) ==
    /\ phase[i] = "releasing" /\ Fail(i) /\ Becomes(i, "done")
    /\ lost' = lost \cup {i}
    /\ UNCHANGED <<cache, demand, count, primary, fresh, first, writing>>

\* cache_torrents(): the results, if any, become rows of the requested media.
WriteCache(i) ==
    /\ i \in writing /\ writing' = writing \ {i}
    /\ \E kinds \in SUBSET {"own", "offscope"} :
          cache' = [k \in Kind |-> IF k \in kinds THEN "fresh" ELSE cache[k]]
    /\ UNCHANGED <<lockVars, demand, phase, count, primary, fresh, first, lost>>

Dies(i) ==
    /\ phase[i] # "crashed" /\ Crash(i) /\ Becomes(i, "crashed")
    /\ writing' = writing \ {i}
    /\ lost' = lost \cup {i} /\ Forget(i)
    /\ UNCHANGED <<cache, demand, first>>

----------------------------------------------------------------------------
\* The database and the time: statements of the lock, the lock cleanup, rows
\* that grow older than LIVE_TORRENT_CACHE_TTL or are deleted.
LockStatement(i) == (Upsert(i) \/ Delete(i)) /\ UNCHANGED reqVars

Age(k) ==
    /\ cache' \in {[cache EXCEPT ![k] = "stale"], [cache EXCEPT ![k] = "none"]}
    /\ cache[k] # "none"
    /\ cache' # cache
    /\ UNCHANGED <<lockVars, demand, phase, count, primary, fresh, first,
                   writing, lost>>

Step(i) ==
    \/ ReadCache(i) \/ ReadFresh(i) \/ CheckFirst(i)
    \/ AcquireWhenEmpty(i) \/ ForceAcquire(i) \/ AnswerWait(i)
    \/ AnswerFromCache(i) \/ AcquireInBackground(i)
    \/ LockGranted(i) \/ LockRefused(i) \/ LockReleased(i)
    \/ Scrape(i) \/ EndScrape(i) \/ WriteCache(i) \/ LockStatement(i)

ReqNext ==
    \/ \E i \in Client : Step(i) \/ LockError(i) \/ ReleaseError(i) \/ Dies(i)
    \/ \E k \in MayAge : Age(k)
    \/ Cleanup /\ UNCHANGED reqVars
    \/ Tick /\ UNCHANGED reqVars

ReqSpec == ReqInit /\ [][ReqNext]_vars

\* No request stops on its own and the database answers: the event loop runs
\* every ready task, each await has a result or raises.
ReqFairness == \A i \in Client : WF_vars(Step(i))

FairReqSpec == ReqSpec /\ ReqFairness

----------------------------------------------------------------------------
\* Type invariant; and each request awaits its lock object exactly in the phases
\* that call it.
ReqTypeOK ==
    /\ TypeOK
    /\ \A i \in Client :
          /\ phase[i] \in Asking <=> pc[i] \in Waiting
          /\ phase[i] = "releasing" <=> pc[i] \in Releasing
          /\ phase[i] = "crashed" <=> pc[i] = "crashed"
    /\ cache \in [Kind -> {"none", "stale", "fresh"}]
    /\ demand \in BOOLEAN
    /\ phase \in [Client -> {"new", "found", "counted", "decide", "refused",
                             "background", "releasing", "crashed"}
                            \cup Asking \cup Scraping \cup Answered]
    /\ count \in [Client -> BOOLEAN] /\ primary \in [Client -> BOOLEAN]
    /\ fresh \in [Client -> BOOLEAN] /\ first \in [Client -> BOOLEAN]
    /\ writing \subseteq Client /\ lost \subseteq Client

\* No path of the request reaches a scrape without the lock, and two requests
\* scrape the media together only when the lock of one of them has outlived
\* its TTL: nothing renews it while the scrapers run.
OneScrapePerLease ==
    \A i \in Client : phase[i] \in Scraping =>
        /\ acquired[i] /\ lease[i] # 0
        /\ \A j \in Client \ {i} :
              phase[j] \in Scraping => ~({i, j} \subseteq Protected)

\* A request that has ended leaves no row behind, on none of its paths, unless
\* one of its own statements failed: every acquire() that succeeds is followed
\* by the release() of the same lock object.
NoLockLeft ==
    \A i \in Client : phase[i] \in Answered /\ i \notin lost => rowOwner # i

\* However many requests race for it, at most one of them is told that it is
\* the first search for the media.
FirstSearchOnce ==
    \A i, j \in Client : first[i] /\ first[j] => i = j

\* Every request is answered, and ends its background scrape, whatever the
\* others do and however they die: none waits for another's lock.
RequestEnds ==
    <>[](\A i \in Client : phase[i] \in {"new", "crashed"} \cup Answered)

\* What holds of the requests and the lock in every state.
RequestInv == ReqTypeOK /\ OneScrapePerLease /\ FirstSearchOnce /\ NoLockLeft
=============================================================================
