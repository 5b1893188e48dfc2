--------------------------- MODULE ServicesProofs ---------------------------
(***************************************************************************)
(* Theorems about four services, whatever their settings: the discovery    *)
(* policy of the background scraper, the mapping of anime, the pairing of  *)
(* Kodi add-ons and the sync of a debrid account.                          *)
(***************************************************************************)
EXTENDS DiscoveryPolicy, AnimeMapping, KodiPairing, AccountSync, Lemmas, SequenceTheorems

----------------------------------------------------------------------------
(* What the precision of a REAL column does to a time. *)

\* A later time is never stored below an earlier one, however the column
\* rounds, ties included.
LEMMA StoredMonotone ==
    ASSUME NEW a \in Nat, NEW b \in Nat, a <= b
    PROVE  /\ Stored(a) \in Nat
           /\ Stored(a) <= Stored(b)
BY QuantumAssumption, NearestMonotone DEF Stored, Nearest

\* A time is kept to half the distance of two values of the column.
LEMMA StoredNear ==
    ASSUME NEW t \in Nat
    PROVE  /\ 2 * (Stored(t) * Quantum - t) <= Quantum
           /\ 2 * (t - Stored(t) * Quantum) <= Quantum
BY QuantumAssumption, NearestNear DEF Stored, Nearest

----------------------------------------------------------------------------
(* The discovery policy.  Only the settings enter into the limits, so what the *)
(* policy computes is stated first by itself, then for the states of Spec.     *)

\* Integer division of a share: no part is larger than what is shared.
LEMMA PartOfRoom ==
    ASSUME NEW m \in Nat, NEW s \in Nat, NEW room \in Nat, m + s > 0
    PROVE  (room * m) \div (m + s) \in 0..room
<1> DEFINE d == m + s
           x == room * m
           q == x \div d
<1>1. d \in Nat \ {0} /\ x \in Nat
  OBVIOUS
<1>2. x <= room * d
  OBVIOUS
<1> HIDE DEF x, d
<1>3. q \in Nat /\ d * q <= x
  BY <1>1
<1> HIDE DEF q
<1>4. d * q <= d * room
  BY <1>1, <1>2, <1>3
<1>5. q <= room
  BY <1>1, <1>3, <1>4
<1> QED
  BY <1>3, <1>5 DEF q, x, d

\* _discovery_queue_limits(): whatever the settings were, the limits it
\* returns are natural and in order.
LEMMA LimitsNormal ==
    ASSUME low \in Int, high \in Int, hard \in Int
    PROVE  /\ Low \in Nat /\ High \in Nat /\ Hard \in Nat
           /\ LimitsOrdered
<1>1. /\ Larger(0, low) \in Nat /\ Larger(0, high) \in Nat
      /\ Larger(0, hard) \in Nat
  BY DEF Larger
<1>2. High \in Nat
  BY <1>1 DEF High, HighFrom
<1>3. /\ Low \in Nat
      /\ High > 0 => 0 < Low /\ Low <= High
  <2>1. High \div 2 \in Nat /\ (High > 0 => High \div 2 <= High)
    BY <1>2
  <2> QED
    BY <1>1, <1>2, <2>1 DEF Low, LowFrom, Larger
<1>4. /\ Hard \in Nat
      /\ Hard = 0 \/ High <= Hard
  BY <1>1, <1>2 DEF Hard, HardFrom
<1>5. High = 0 => Hard = 0
  BY <1>1 DEF High, HighFrom, Hard, HardFrom
<1> QED
  BY <1>2, <1>3, <1>4, <1>5 DEF LimitsOrdered, Unlimited

\* The room left by integer division is given to movies, then to series, so
\* that nothing of it is lost.
LEMMA SharesFillRoom ==
    ASSUME NEW m \in Nat, NEW s \in Nat, NEW room \in Nat, room < m + s
    PROVE  /\ Shares(m, s, room).movies \in 0..m
           /\ Shares(m, s, room).series \in 0..s
           /\ Shares(m, s, room).movies + Shares(m, s, room).series = room
<1> DEFINE part == (room * m) \div (m + s)
           m1 == Smaller(m, part)
           s1 == Smaller(s, room - m1)
           m2 == m1 + Smaller(m - m1, room - m1 - s1)
           s2 == s1 + Smaller(s - s1, room - m2 - s1)
<1>1. part \in 0..room
  BY PartOfRoom
<1>2. Shares(m, s, room) = [movies |-> m2, series |-> s2]
  BY DEF Shares
<1> HIDE DEF part
<1>3. m1 \in 0..m /\ m1 <= room
  BY <1>1 DEF Smaller
<1> HIDE DEF m1
<1>4. s1 \in 0..s /\ s1 <= room - m1
  BY <1>3 DEF Smaller
<1>5. s1 = s \/ s1 = room - m1
  BY DEF Smaller
<1> HIDE DEF s1
<1>6. m2 \in 0..m /\ m2 <= room - s1 /\ (m2 = m \/ m2 = room - s1)
  BY <1>3, <1>4 DEF Smaller
<1> HIDE DEF m2
<1>7. s2 \in 0..s /\ m2 + s2 = room
  BY <1>4, <1>5, <1>6 DEF Smaller
<1> QED
  BY <1>2, <1>6, <1>7

\* What a cycle may discover, for any targets and any length of the queue.
LEMMA AllowanceFits ==
    ASSUME NEW m \in Nat, NEW s \in Nat, NEW q \in Nat,
           low \in Int, high \in Int, hard \in Int
    PROVE  /\ Allowance(m, s, q).movies \in 0..m
           /\ Allowance(m, s, q).series \in 0..s
           /\ Cap > 0 => Allowance(m, s, q).movies + Allowance(m, s, q).series
                            = Smaller(m + s, Headroom(q))
<1>1. Cap \in Nat
  BY LimitsNormal DEF Cap
<1>2. Headroom(q) \in Nat
  BY <1>1 DEF Headroom, Larger
<1>3. CASE m + s = 0
  BY <1>2, <1>3 DEF Allowance, Smaller
<1>4. CASE m + s > 0 /\ (Cap = 0 \/ Headroom(q) >= m + s)
  <2>1. Allowance(m, s, q) = [movies |-> m, series |-> s]
    BY <1>4 DEF Allowance
  <2> QED
    BY <1>2, <1>4, <2>1 DEF Smaller
<1>5. CASE m + s > 0 /\ Cap > 0 /\ Headroom(q) = 0
  <2>1. Allowance(m, s, q) = [movies |-> 0, series |-> 0]
    BY <1>5 DEF Allowance
  <2> QED
    BY <1>5, <2>1 DEF Smaller
<1>6. CASE m + s > 0 /\ Cap > 0 /\ Headroom(q) > 0 /\ Headroom(q) < m + s
  <2>1. Allowance(m, s, q) = Shares(m, s, Headroom(q))
    BY <1>2, <1>6 DEF Allowance
  <2> QED
    BY <1>2, <1>6, <2>1, SharesFillRoom DEF Smaller
<1> QED
  BY <1>1, <1>2, <1>3, <1>4, <1>5, <1>6

\* The settings stay integers, the queue a natural number: what every step
\* of the policy needs to know.
THEOREM PolicyTypeCorrect == Spec => []TypeOK
<1>1. Init => TypeOK
  <2>1. Init => queue \in Nat
    BY PolicyAssumption DEF Init
  <2>2. Init => paused \in [Scraper -> BOOLEAN] /\ backlog \in [Scraper -> BOOLEAN]
    BY DEF Init
  <2> QED
    BY <2>1, <2>2 DEF Init, TypeOK
<1>2. TypeOK /\ [Next]_vars => TypeOK'
  <2> SUFFICES ASSUME TypeOK, [Next]_vars PROVE TypeOK'
    OBVIOUS
  <2>1. ASSUME NEW w \in Scraper, NEW m \in Target, NEW s \in Target, Cycle(w, m, s)
        PROVE  TypeOK'
    <3>1. Blocked(w, queue) \in BOOLEAN /\ BacklogAt(w, queue) \in BOOLEAN
      BY DEF Blocked, BacklogAt
    <3>2. paused' \in [Scraper -> BOOLEAN] /\ backlog' \in [Scraper -> BOOLEAN]
      BY <2>1, <3>1 DEF Cycle, TypeOK
    <3>3. queue' \in Nat
      <4>1. CASE Blocked(w, queue)
        BY <2>1, <4>1 DEF Cycle, TypeOK
      <4>2. CASE ~Blocked(w, queue)
        <5>1. /\ Allowance(m, s, queue).movies \in Nat
              /\ Allowance(m, s, queue).series \in Nat
          BY AllowanceFits, PolicyAssumption DEF TypeOK
        <5>2. PICK n \in 0..(Allowance(m, s, queue).movies
                             + Allowance(m, s, queue).series) : queue' = queue + n
          BY <2>1, <4>2 DEF Cycle
        <5> QED
          BY <5>1, <5>2 DEF TypeOK
      <4> QED
        BY <4>1, <4>2
    <3> QED
      BY <2>1, <3>2, <3>3 DEF Cycle, settings, TypeOK
  <2>2. CASE QueueChanges
    BY <2>2, PolicyAssumption DEF QueueChanges, settings, TypeOK
  <2>3. ASSUME NEW w \in Scraper, Reset(w) PROVE TypeOK'
    BY <2>3 DEF Reset, settings, TypeOK
  <2>4. CASE UNCHANGED vars
    BY <2>4 DEF vars, TypeOK
  <2> QED
    BY <2>1, <2>2, <2>3, <2>4 DEF Next
<1> QED
  BY <1>1, <1>2, PTL DEF Spec

\* Hysteresis always has a gap to work in: _discovery_queue_limits() returns
\* 0 < low <= high <= hard, or no limit at all.
THEOREM LimitsAlwaysOrdered == Spec => []LimitsOrdered
<1>1. TypeOK => LimitsOrdered
  BY LimitsNormal, PolicyAssumption DEF TypeOK
<1> QED
  BY <1>1, PolicyTypeCorrect, PTL

\* _apply_discovery_headroom() never plans past the cap and wastes no room.
THEOREM RoomAlwaysShared == Spec => []RoomIsShared
<1>1. TypeOK => RoomIsShared
  BY AllowanceFits, PolicyAssumption DEF TypeOK, RoomIsShared
<1> QED
  BY <1>1, PolicyTypeCorrect, PTL

\* The whole invariant of the policy, from its parts.
THEOREM PolicySound == Spec => []PolicyInv
<1>1. TypeOK /\ LimitsOrdered /\ RoomIsShared => PolicyInv
  BY DEF PolicyInv
<1> QED
  BY <1>1, PolicyTypeCorrect, LimitsAlwaysOrdered, RoomAlwaysShared, PTL

\* The flag of a process is the history of its hysteresis: what the three tests of
\* _evaluate_discovery_policy() amount to, once the limits are in order.
LEMMA PausedIsBacklog == Spec => [](paused = backlog)
<1>1. Init => paused = backlog
  BY DEF Init
<1>2. TypeOK /\ paused = backlog /\ [Next]_vars => (paused = backlog)'
  <2> SUFFICES ASSUME TypeOK, paused = backlog, [Next]_vars
               PROVE  paused' = backlog'
    OBVIOUS
  <2>1. ASSUME NEW w \in Scraper, NEW m \in Target, NEW s \in Target, Cycle(w, m, s)
        PROVE  paused' = backlog'
    <3>1. Low \in Nat /\ High \in Nat /\ Hard \in Nat /\ LimitsOrdered
      BY LimitsNormal, PolicyAssumption DEF TypeOK
    <3>2. ~Unlimited => 0 < Low /\ 0 < High /\ (Hard = 0 \/ High <= Hard)
      BY <3>1 DEF LimitsOrdered
    <3>3. ~Unlimited => (Resumes(queue) <=> ~(queue > Low))
      BY <3>1, <3>2 DEF Resumes, TypeOK
    <3>4. ~Unlimited /\ AtHardCap(queue) => AtHigh(queue)
      BY <3>1, <3>2 DEF AtHardCap, AtHigh, TypeOK
    <3>5. Blocked(w, queue) <=> BacklogAt(w, queue)
      BY <3>3, <3>4 DEF Blocked, BacklogAt
    <3>6. Blocked(w, queue) \in BOOLEAN /\ BacklogAt(w, queue) \in BOOLEAN
      BY DEF Blocked, BacklogAt
    <3>7. Blocked(w, queue) = BacklogAt(w, queue)
      BY <3>5, <3>6
    <3> QED
      BY <2>1, <3>7 DEF Cycle
  <2>2. CASE QueueChanges
    BY <2>2 DEF QueueChanges
  <2>3. ASSUME NEW w \in Scraper, Reset(w) PROVE paused' = backlog'
    BY <2>3 DEF Reset
  <2>4. CASE UNCHANGED vars
    BY <2>4 DEF vars
  <2> QED
    BY <2>1, <2>2, <2>3, <2>4 DEF Next
<1> QED
  BY <1>1, <1>2, PolicyTypeCorrect, PTL DEF Spec

\* A process that saw the queue at the high watermark adds nothing to it before it
\* sees it at the low one or forgets (worker.py:218-267); other processes may.
THEOREM ResumesOnlyAtLow == Spec => ResumesAtLow
<1>1. (paused = backlog)' /\ TypeOK =>
        [\A w \in Scraper, m, s \in Target :
            queue' # queue /\ Cycle(w, m, s) => ~backlog'[w]]_vars
  <2> SUFFICES ASSUME paused' = backlog', TypeOK,
                      NEW w \in Scraper, NEW m \in Target, NEW s \in Target,
                      Cycle(w, m, s), queue' # queue
               PROVE  ~backlog'[w]
    OBVIOUS
  <2>1. ~Blocked(w, queue)
    BY DEF Cycle
  <2>2. paused'[w] = Blocked(w, queue)
    BY DEF Cycle, TypeOK
  <2> QED
    BY <2>1, <2>2
<1> QED
  BY <1>1, PausedIsBacklog, PolicyTypeCorrect, PTL DEF ResumesAtLow

----------------------------------------------------------------------------
(* The mapping of anime. *)

Version == [entries : Nat, ids : Nat]

Stages == {"off", "counting", "loading ids", "loading kitsu", "deciding", "waiting",
           "downloading", "persisting", "deleting", "inserting entries",
           "inserting ids", "committing", "overriding", "reloading ids",
           "reloading kitsu", "up"}

\* Truth values, as a set that the provers need not look into.
Flag == BOOLEAN

LEMMA FlagHas == TRUE \in Flag /\ FALSE \in Flag
  BY DEF Flag

SharedTypes ==
    /\ period \in Int /\ hour \in Nat \ {0} /\ published \in Nat \ {0}
    /\ catalog \in Version /\ overrides \in Nat /\ refreshedAt \in Nat

LocalTypes ==
    /\ mapper \in [Mapper -> Stages]
    /\ isLoaded \in [Mapper -> Flag] /\ faulty \in [Mapper -> Flag]
    /\ imdbIds \in [Mapper -> Nat] /\ kitsuCache \in [Mapper -> Nat]
    /\ fetched \in [Mapper -> Nat] /\ begunAt \in [Mapper -> Nat]
    /\ draft \in [Mapper -> Version]

\* While it has the lock, what a process downloads is not older than what the
\* database holds.
Refreshing == {"downloading", "persisting", "deleting", "inserting entries",
               "inserting ids", "committing", "overriding", "reloading ids",
               "reloading kitsu"}
Persisting == {"persisting", "deleting", "inserting entries", "inserting ids",
               "committing"}
Transacting == Persisting \ {"persisting"}

LockKept(p) == mapper[p] \in Refreshing => refresher = p

DownloadKept(p) ==
    /\ mapper[p] \in Persisting =>
          fetched[p] > 0 /\ catalog.ids <= fetched[p] /\ fetched[p] <= published
    /\ mapper[p] \in Transacting => begunAt[p] > 0
    /\ mapper[p] \in {"inserting ids", "committing"} => draft[p].entries = fetched[p]
    /\ mapper[p] = "committing" => draft[p].ids = fetched[p]

\* What it has cached comes from the database, which never loses its lists.
CachesKept(p) ==
    /\ imdbIds[p] <= catalog.ids
    /\ mapper[p] \in {"loading ids", "loading kitsu", "deciding"} => catalog.ids > 0
    /\ mapper[p] \in {"overriding", "reloading ids"} => faulty[p] \/ catalog.ids > 0
    /\ mapper[p] \in {"loading kitsu", "deciding", "reloading kitsu"} \/ isLoaded[p]
          => faulty[p] \/ imdbIds[p] > 0
    /\ kitsuCache[p] # 0 /\ mapper[p] # "up" => catalog.ids > 0

\* It downloads because of what holds as long as it has the lock.
ReasonKept(p) ==
    mapper[p] = "downloading" /\ overrides # 0 /\ kitsuCache[p] \notin {0} \cup Cacheless
        => IsCacheStale

MapperKept(p) == LockKept(p) /\ DownloadKept(p) /\ CachesKept(p) /\ ReasonKept(p)

AnimeIndInv ==
    /\ SharedTypes /\ LocalTypes /\ CatalogWhole /\ catalog.ids <= published
    /\ \A p \in Mapper : MapperKept(p)

\* What is as it was for a process that does not step.
Stands(q) ==
    /\ mapper'[q] = mapper[q] /\ isLoaded'[q] = isLoaded[q] /\ faulty'[q] = faulty[q]
    /\ imdbIds'[q] = imdbIds[q] /\ kitsuCache'[q] = kitsuCache[q]
    /\ fetched'[q] = fetched[q] /\ begunAt'[q] = begunAt[q] /\ draft'[q] = draft[q]

\* A process is not disturbed by others: what is stored changes only in the
\* hands of who has the lock, and versions, like hours, only grow.
LEMMA MoreIsLeft ==
    ASSUME NEW a \in Int, NEW b \in Int, NEW c \in Int, NEW d \in Int,
           a <= b, a - c >= d
    PROVE  b - c >= d
OBVIOUS

LEMMA OthersStand ==
    ASSUME AnimeIndInv, NEW q \in Mapper, Stands(q), SharedTypes',
           refresher = q => refresher' = q /\ UNCHANGED storeVars,
           period' = period, hour <= hour', published <= published',
           catalog.ids <= catalog'.ids
    PROVE  MapperKept(q)'
<1>1. MapperKept(q) /\ SharedTypes
  BY DEF AnimeIndInv
<1>2. LockKept(q)'
  BY <1>1 DEF MapperKept, LockKept, Stands
<1>3. mapper[q] \in Refreshing => UNCHANGED storeVars
  BY <1>1 DEF MapperKept, LockKept
<1>4. Persisting \subseteq Refreshing
  BY DEF Persisting, Refreshing
<1>5. fetched[q] \in Nat /\ imdbIds[q] \in Nat
  BY DEF AnimeIndInv, LocalTypes
<1>6. /\ catalog.ids \in Nat /\ catalog'.ids \in Nat
      /\ published \in Nat /\ published' \in Nat
  BY <1>1 DEF SharedTypes, Version
<1>7. DownloadKept(q)'
  <2>1. mapper[q] \in Persisting => UNCHANGED catalog
    BY <1>3, <1>4 DEF storeVars
  <2>2. DownloadKept(q)
    BY <1>1 DEF MapperKept
  <2>3. fetched[q] <= published => fetched[q] <= published'
    BY <1>5, <1>6
  <2> QED
    BY <2>1, <2>2, <2>3 DEF DownloadKept, Stands
<1>8. CachesKept(q)'
  <2>1. CachesKept(q)
    BY <1>1 DEF MapperKept
  <2>2. catalog.ids > 0 => catalog'.ids > 0
    BY <1>6
  <2>3. imdbIds[q] <= catalog.ids => imdbIds[q] <= catalog'.ids
    BY <1>5, <1>6
  <2>4. faulty[q] \/ catalog.ids > 0 => faulty[q] \/ catalog'.ids > 0
    BY <2>2
  <2> QED
    BY <2>1, <2>2, <2>3, <2>4 DEF CachesKept, Stands
<1>9. ReasonKept(q)'
  <2>1. "downloading" \in Refreshing
    BY DEF Refreshing
  <2>2. CASE mapper[q] = "downloading"
    <3>1. overrides' = overrides /\ refreshedAt' = refreshedAt
      BY <1>3, <2>1, <2>2 DEF storeVars
    <3>2. hour \in Int /\ hour' \in Int /\ period \in Int /\ refreshedAt \in Int
      BY <1>1 DEF SharedTypes
    <3>3. hour - refreshedAt >= period => hour' - refreshedAt >= period
      BY <3>2, MoreIsLeft
    <3>4. IsCacheStale => IsCacheStale'
      BY <3>1, <3>3 DEF IsCacheStale
    <3> QED
      BY <1>1, <3>1, <3>4 DEF MapperKept, ReasonKept, Stands
  <2> QED
    BY <2>2 DEF ReasonKept, Stands
<1> QED
  BY <1>2, <1>7, <1>8, <1>9 DEF MapperKept

LEMMA AnimeStarts == AnimeInit => AnimeIndInv
<1> SUFFICES ASSUME AnimeInit PROVE AnimeIndInv
  OBVIOUS
<1> USE AnimeAssumption, FlagHas DEF AnimeInit
<1>1. SharedTypes
  BY DEF SharedTypes, Version, Whole
<1>2. LocalTypes
  BY DEF LocalTypes, Version, Whole, Stages
<1>3. CatalogWhole /\ catalog.ids <= published
  BY DEF CatalogWhole, Whole
<1>4. ASSUME NEW p \in Mapper PROVE MapperKept(p)
  BY DEF MapperKept, LockKept, DownloadKept, CachesKept, ReasonKept, Refreshing,
         Persisting, Transacting, Whole
<1> QED
  BY <1>1, <1>2, <1>3, <1>4 DEF AnimeIndInv

\* The steps of a process.
OwnStep(p) ==
    \/ StartMapper(p) \/ CountEntries(p) \/ LoadProviderIds(p) \/ LoadKitsuMapping(p)
    \/ Decide(p) \/ QueryFails(p) \/ TakeRefreshLock(p) \/ Download(p)
    \/ BeginPersist(p) \/ DeleteOldIds(p) \/ InsertEntries(p) \/ InsertIds(p)
    \/ CommitMapping(p) \/ PersistFails(p) \/ PersistOverrides(p) \/ KillMapper(p)

Moved(p, where) ==
    mapper'[p] = where /\ \A q \in Mapper \ {p} : mapper'[q] = mapper[q]

LEMMA GoesMoves ==
    ASSUME LocalTypes, NEW p \in Mapper, NEW where \in Stages, Goes(p, where)
    PROVE  mapper' \in [Mapper -> Stages] /\ Moved(p, where)
  BY DEF LocalTypes, Goes, Moved

\* Each step keeps the types, and leaves what is local to the others.
LEMMA LocalNext ==
    ASSUME AnimeIndInv, NEW p \in Mapper, OwnStep(p)
    PROVE  LocalTypes' /\ \A q \in Mapper \ {p} : Stands(q)
<1> DEFINE Keeps(f, D) == f' \in [Mapper -> D] /\ \A q \in Mapper \ {p} : f'[q] = f[q]
<1>0. LocalTypes /\ SharedTypes
  BY DEF AnimeIndInv
<1>1. ASSUME NEW f, NEW g, NEW D, f \in [Mapper -> D], NEW v \in D,
             g = f \/ g = [f EXCEPT ![p] = v]
      PROVE  g \in [Mapper -> D] /\ \A q \in Mapper \ {p} : g[q] = f[q]
  BY <1>1
<1>2. Keeps(mapper, Stages)
  <2>1. \E where \in Stages : Goes(p, where)
    BY DEF OwnStep, StartMapper, CountEntries, LoadProviderIds, LoadKitsuMapping, Decide,
           QueryFails, TakeRefreshLock, Download, BeginPersist, DeleteOldIds, InsertEntries,
           InsertIds, CommitMapping, PersistFails, PersistOverrides, KillMapper, Writes,
           Ends, Decided, Stages
  <2> QED
    BY <1>0, <2>1, GoesMoves DEF Moved
<1>3. Keeps(isLoaded, Flag)
  <2>1. isLoaded' = isLoaded \/ \E v \in Flag : isLoaded' = [isLoaded EXCEPT ![p] = v]
    BY FlagHas DEF OwnStep, StartMapper, CountEntries, LoadProviderIds, LoadKitsuMapping,
           Decide, QueryFails, TakeRefreshLock, Download, BeginPersist, DeleteOldIds,
           InsertEntries, InsertIds, CommitMapping, PersistFails, PersistOverrides,
           KillMapper, Writes, cacheVars, Flag
  <2> QED
    BY <1>0, <1>1, <2>1 DEF LocalTypes
<1>4. Keeps(faulty, Flag)
  <2>1. faulty' = faulty \/ \E v \in Flag : faulty' = [faulty EXCEPT ![p] = v]
    BY FlagHas DEF OwnStep, StartMapper, CountEntries, LoadProviderIds, LoadKitsuMapping,
           Decide, QueryFails, TakeRefreshLock, Download, BeginPersist, DeleteOldIds,
           InsertEntries, InsertIds, CommitMapping, PersistFails, PersistOverrides,
           KillMapper, Writes
  <2> QED
    BY <1>0, <1>1, <2>1 DEF LocalTypes
<1>5. Keeps(imdbIds, Nat)
  <2>1. imdbIds' = imdbIds \/ \E v \in Nat : imdbIds' = [imdbIds EXCEPT ![p] = v]
    BY <1>0 DEF SharedTypes, Version, OwnStep, StartMapper, CountEntries, LoadProviderIds,
           LoadKitsuMapping, Decide, QueryFails, TakeRefreshLock, Download, BeginPersist,
           DeleteOldIds, InsertEntries, InsertIds, CommitMapping, PersistFails,
           PersistOverrides, KillMapper, Writes, cacheVars
  <2> QED
    BY <1>0, <1>1, <2>1 DEF LocalTypes
<1>6. Keeps(kitsuCache, Nat)
  <2>1. kitsuCache' = kitsuCache \/ \E v \in Nat : kitsuCache' = [kitsuCache EXCEPT ![p] = v]
    BY <1>0 DEF SharedTypes, OwnStep, StartMapper, CountEntries, LoadProviderIds,
           LoadKitsuMapping, Decide, QueryFails, TakeRefreshLock, Download, BeginPersist,
           DeleteOldIds, InsertEntries, InsertIds, CommitMapping, PersistFails,
           PersistOverrides, KillMapper, Writes, cacheVars
  <2> QED
    BY <1>0, <1>1, <2>1 DEF LocalTypes
<1>7. Keeps(fetched, Nat)
  <2>1. fetched' = fetched \/ \E v \in Nat : fetched' = [fetched EXCEPT ![p] = v]
    BY <1>0 DEF SharedTypes, OwnStep, StartMapper, CountEntries, LoadProviderIds,
           LoadKitsuMapping, Decide, QueryFails, TakeRefreshLock, Download, BeginPersist,
           DeleteOldIds, InsertEntries, InsertIds, CommitMapping, PersistFails,
           PersistOverrides, KillMapper, Writes, workVars
  <2> QED
    BY <1>0, <1>1, <2>1 DEF LocalTypes
<1>8. Keeps(begunAt, Nat)
  <2>1. begunAt' = begunAt \/ \E v \in Nat : begunAt' = [begunAt EXCEPT ![p] = v]
    BY <1>0 DEF SharedTypes, OwnStep, StartMapper, CountEntries, LoadProviderIds,
           LoadKitsuMapping, Decide, QueryFails, TakeRefreshLock, Download, BeginPersist,
           DeleteOldIds, InsertEntries, InsertIds, CommitMapping, PersistFails,
           PersistOverrides, KillMapper, Writes, workVars
  <2> QED
    BY <1>0, <1>1, <2>1 DEF LocalTypes
<1>9. Keeps(draft, Version)
  <2>1. ASSUME NEW v \in Version
        PROVE  /\ fetched[p] \in Nat /\ Whole(0) \in Version
               /\ [v EXCEPT !.entries = fetched[p]] \in Version
               /\ [v EXCEPT !.ids = fetched[p]] \in Version
    BY <1>0 DEF LocalTypes, Version, Whole
  <2>2. draft[p] \in Version /\ catalog \in Version
    BY <1>0 DEF LocalTypes, SharedTypes
  <2>3. draft' = draft \/ \E v \in Version : draft' = [draft EXCEPT ![p] = v]
    BY <2>1, <2>2 DEF OwnStep, StartMapper, CountEntries, LoadProviderIds,
           LoadKitsuMapping, Decide, QueryFails, TakeRefreshLock, Download, BeginPersist,
           DeleteOldIds, InsertEntries, InsertIds, CommitMapping, PersistFails,
           PersistOverrides, KillMapper, Writes, workVars
  <2> QED
    BY <1>0, <1>1, <2>3 DEF LocalTypes
<1> QED
  BY <1>2, <1>3, <1>4, <1>5, <1>6, <1>7, <1>8, <1>9 DEF LocalTypes, Stands

\* Only who has the lock changes what is stored, and gives up only its own
\* lock; a version that replaces another one is not older.
LEMMA SharedNext ==
    ASSUME AnimeIndInv, NEW p \in Mapper, OwnStep(p)
    PROVE  /\ SharedTypes' /\ CatalogWhole'
           /\ UNCHANGED <<period, hour, published>>
           /\ catalog.ids <= catalog'.ids /\ catalog'.ids <= published
           /\ \A q \in Mapper \ {p} :
                  refresher = q => refresher' = q /\ UNCHANGED storeVars
<1>0. LocalTypes /\ SharedTypes /\ MapperKept(p) /\ CatalogWhole /\ catalog.ids <= published
  BY DEF AnimeIndInv
<1>1. UNCHANGED <<period, hour, published>>
  BY DEF OwnStep, StartMapper, CountEntries, LoadProviderIds, LoadKitsuMapping, Decide,
         QueryFails, TakeRefreshLock, Download, BeginPersist, DeleteOldIds, InsertEntries,
         InsertIds, CommitMapping, PersistFails, PersistOverrides, KillMapper, Writes,
         Elsewhere
<1>2. catalog.ids \in Nat /\ catalog.ids <= catalog.ids
  BY <1>0 DEF SharedTypes, Version
<1>3. CASE UNCHANGED storeVars
  <2>1. \A q \in Mapper \ {p} : refresher = q => refresher' = q
    BY AnimeAssumption DEF OwnStep, StartMapper, CountEntries, LoadProviderIds,
       LoadKitsuMapping, Decide, QueryFails, TakeRefreshLock, Download, BeginPersist,
       DeleteOldIds, InsertEntries, InsertIds, CommitMapping, PersistFails,
       PersistOverrides, KillMapper, Writes, Ends
  <2> QED
    BY <1>0, <1>1, <1>2, <1>3, <2>1 DEF storeVars, SharedTypes, CatalogWhole
<1>4. CASE CommitMapping(p)
  <2>1. /\ draft[p] \in Version /\ draft[p].entries = fetched[p] /\ draft[p].ids = fetched[p]
        /\ fetched[p] > 0 /\ catalog.ids <= fetched[p] /\ fetched[p] <= published
        /\ fetched[p] \in Nat /\ begunAt[p] \in Nat /\ begunAt[p] > 0
    BY <1>0, <1>4 DEF CommitMapping, MapperKept, DownloadKept, LocalTypes, Persisting,
                      Transacting
  <2>2. refresher = p /\ UNCHANGED <<overrides, refresher>>
    BY <1>0, <1>4 DEF CommitMapping, MapperKept, LockKept, Refreshing
  <2>3. catalog' = draft[p] /\ refreshedAt' = begunAt[p]
    BY <1>4 DEF CommitMapping
  <2>4. SharedTypes'
    BY <1>0, <1>1, <2>1, <2>2, <2>3 DEF SharedTypes
  <2>5. CatalogWhole'
    BY <2>1, <2>3 DEF CatalogWhole
  <2> QED
    BY <1>1, <2>1, <2>2, <2>3, <2>4, <2>5
<1>5. CASE PersistOverrides(p)
  <2>1. refresher = p /\ UNCHANGED <<catalog, refreshedAt, refresher>>
    BY <1>0, <1>5 DEF PersistOverrides, MapperKept, LockKept, Refreshing
  <2>2. overrides' \in Nat
    BY <1>0, <1>5 DEF PersistOverrides, LocalTypes, SharedTypes
  <2> QED
    BY <1>0, <1>1, <1>2, <2>1, <2>2 DEF SharedTypes, CatalogWhole
<1> QED
  BY <1>3, <1>4, <1>5 DEF OwnStep, StartMapper, CountEntries, LoadProviderIds,
     LoadKitsuMapping, Decide, QueryFails, TakeRefreshLock, Download, BeginPersist,
     DeleteOldIds, InsertEntries, InsertIds, PersistFails, KillMapper, Writes, Shown,
     storeVars

LEMMA LockNext ==
    ASSUME AnimeIndInv, NEW p \in Mapper, OwnStep(p)
    PROVE  LockKept(p)'
<1>0. LocalTypes /\ LockKept(p)
  BY DEF AnimeIndInv, MapperKept
<1>1. ASSUME NEW where \in Stages, Goes(p, where) PROVE mapper'[p] = where
  BY <1>0, <1>1, GoesMoves DEF Moved
<1>2. CASE StartMapper(p) \/ CountEntries(p) \/ LoadProviderIds(p)
  BY <1>0, <1>1, <1>2 DEF StartMapper, CountEntries, LoadProviderIds, LockKept,
                          Refreshing, Stages
<1>3. CASE LoadKitsuMapping(p) \/ Decide(p) \/ QueryFails(p) \/ TakeRefreshLock(p)
  BY <1>0, <1>1, <1>3 DEF LoadKitsuMapping, Decide, Decided, QueryFails, TakeRefreshLock,
                          Ends, LockKept, Refreshing, Stages
<1>4. CASE Download(p) \/ BeginPersist(p) \/ DeleteOldIds(p) \/ InsertEntries(p)
  BY <1>0, <1>1, <1>4 DEF Download, BeginPersist, DeleteOldIds, InsertEntries, Writes,
                          Ends, LockKept, Refreshing, Stages
<1>5. CASE InsertIds(p) \/ CommitMapping(p) \/ PersistFails(p) \/ PersistOverrides(p)
  BY <1>0, <1>1, <1>5 DEF InsertIds, CommitMapping, PersistFails, PersistOverrides,
                          Writes, LockKept, Refreshing, Stages
<1>6. CASE KillMapper(p)
  BY <1>0, <1>1, <1>6 DEF KillMapper, LockKept, Refreshing, Stages
<1> QED
  BY <1>2, <1>3, <1>4, <1>5, <1>6 DEF OwnStep

\* What a process writes is what it has downloaded under the lock.
LEMMA DownloadNext ==
    ASSUME AnimeIndInv, NEW p \in Mapper, OwnStep(p)
    PROVE  DownloadKept(p)'
<1>0. /\ LocalTypes /\ SharedTypes /\ DownloadKept(p)
      /\ catalog.ids <= published /\ CatalogWhole /\ CachesKept(p)
  BY DEF AnimeIndInv, MapperKept
<1>1. ASSUME NEW where \in Stages, Goes(p, where) PROVE mapper'[p] = where
  BY <1>0, <1>1, GoesMoves DEF Moved
<1>2. ASSUME NEW where \in Stages \ Persisting, Goes(p, where) PROVE DownloadKept(p)'
  BY <1>1, <1>2 DEF DownloadKept, Persisting, Transacting
<1>3. ASSUME NEW f, NEW g, NEW v, f \in [Mapper -> Nat], g = [f EXCEPT ![p] = v]
      PROVE  g[p] = v
  BY <1>3
<1>4. CASE StartMapper(p) \/ CountEntries(p) \/ LoadProviderIds(p)
  BY <1>2, <1>4 DEF StartMapper, CountEntries, LoadProviderIds, Persisting, Stages
<1>5. CASE LoadKitsuMapping(p) \/ Decide(p) \/ QueryFails(p) \/ TakeRefreshLock(p)
  BY <1>2, <1>5 DEF LoadKitsuMapping, Decide, Decided, QueryFails, TakeRefreshLock, Ends,
                    Persisting, Stages
<1>6. CASE CommitMapping(p) \/ PersistFails(p) \/ PersistOverrides(p) \/ KillMapper(p)
  BY <1>2, <1>6 DEF CommitMapping, PersistFails, PersistOverrides, KillMapper, Persisting,
                    Stages
<1>7. CASE Download(p)
  <2>1. CASE Ends(p)
    BY <1>2, <2>1 DEF Ends, Persisting, Stages
  <2>2. CASE fetched' = [fetched EXCEPT ![p] = published] /\ Goes(p, "persisting")
    <3>1. fetched'[p] = published /\ mapper'[p] = "persisting"
      BY <1>0, <1>1, <2>2 DEF LocalTypes, Stages
    <3>2. UNCHANGED <<catalog, published>>
      BY <1>7 DEF Download, storeVars, Elsewhere
    <3>3. published > 0
      BY <1>0 DEF AnimeIndInv, SharedTypes
    <3>4. catalog'.ids <= fetched'[p] /\ fetched'[p] <= published' /\ fetched'[p] > 0
      BY <1>0, <3>1, <3>2, <3>3 DEF SharedTypes
    <3> QED
      BY <3>1, <3>4 DEF DownloadKept, Transacting
  <2> QED
    BY <1>7, <2>1, <2>2 DEF Download
<1>8. CASE BeginPersist(p)
  <2>1. mapper[p] = "persisting" /\ mapper'[p] = "deleting"
    BY <1>1, <1>8 DEF BeginPersist, Stages
  <2>2. begunAt'[p] = hour /\ UNCHANGED <<catalog, published, fetched>>
    BY <1>0, <1>8 DEF BeginPersist, storeVars, Elsewhere, LocalTypes
  <2>3. hour > 0
    BY <1>0 DEF SharedTypes
  <2> QED
    BY <1>0, <2>1, <2>2, <2>3 DEF DownloadKept, Persisting
<1>9. ASSUME NEW new \in Version, NEW next \in Stages, Writes(p, new, next)
      PROVE  /\ mapper'[p] = next /\ draft'[p] = new
             /\ UNCHANGED <<catalog, published, fetched, begunAt>>
  BY <1>0, <1>1, <1>9 DEF Writes, Shown, Elsewhere, LocalTypes
<1>10. CASE DeleteOldIds(p)
  <2>1. Whole(0) \in Version
    BY DEF Whole, Version
  <2> QED
    BY <1>0, <1>9, <1>10, <2>1 DEF DeleteOldIds, DownloadKept, Stages, Persisting,
                                   Transacting
<1>11. fetched[p] \in Nat /\ draft[p] \in Version
  BY <1>0 DEF LocalTypes
<1>12. CASE InsertEntries(p)
  <2>1. [draft[p] EXCEPT !.entries = fetched[p]] \in Version
    BY <1>11 DEF Version
  <2>2. [draft[p] EXCEPT !.entries = fetched[p]].entries = fetched[p]
    BY <1>11 DEF Version
  <2> QED
    BY <1>0, <1>9, <1>12, <2>1, <2>2 DEF InsertEntries, DownloadKept, Stages, Persisting,
                                        Transacting
<1>13. CASE InsertIds(p)
  <2>1. [draft[p] EXCEPT !.ids = fetched[p]] \in Version
    BY <1>11 DEF Version
  <2>2. /\ [draft[p] EXCEPT !.ids = fetched[p]].ids = fetched[p]
        /\ [draft[p] EXCEPT !.ids = fetched[p]].entries = draft[p].entries
    BY <1>11 DEF Version
  <2> QED
    BY <1>0, <1>9, <1>13, <2>1, <2>2 DEF InsertIds, DownloadKept, Stages, Persisting,
                                        Transacting
<1> QED
  BY <1>4, <1>5, <1>6, <1>7, <1>8, <1>10, <1>12, <1>13 DEF OwnStep

\* Caches are loaded from lists that are there, or the process knows of a fault.
LEMMA CachesNext ==
    ASSUME AnimeIndInv, NEW p \in Mapper, OwnStep(p)
    PROVE  CachesKept(p)'
<1>0. /\ LocalTypes /\ SharedTypes /\ CachesKept(p) /\ DownloadKept(p)
      /\ CatalogWhole
  BY DEF AnimeIndInv, MapperKept
<1>1. ASSUME NEW where \in Stages, Goes(p, where) PROVE mapper'[p] = where
  BY <1>0, <1>1, GoesMoves DEF Moved
<1>2. /\ catalog.ids \in Nat /\ catalog.entries = catalog.ids
      /\ imdbIds[p] \in Nat /\ kitsuCache[p] \in Nat
  BY <1>0 DEF SharedTypes, LocalTypes, Version, CatalogWhole
<1>2a. imdbIds[p] <= catalog.ids
  BY <1>0 DEF CachesKept
<1>3. ASSUME NEW f, NEW g, NEW D, f \in [Mapper -> D], NEW v, g = [f EXCEPT ![p] = v]
      PROVE  g[p] = v
  BY <1>3
\* Steps that touch no cache, and come to a stage that asks nothing new.
<1>4. ASSUME UNCHANGED <<catalog, imdbIds, kitsuCache, isLoaded, faulty>>,
             NEW where \in Stages, Goes(p, where), mapper[p] # "up",
             where = "loading ids" => catalog.ids > 0,
             where \notin {"loading kitsu", "deciding", "overriding", "reloading ids",
                          "reloading kitsu"}
      PROVE  CachesKept(p)'
  BY <1>0, <1>1, <1>4 DEF CachesKept
<1>5. CASE StartMapper(p)
  BY <1>4, <1>5 DEF StartMapper, storeVars, cacheVars, Stages
<1>6. CASE CountEntries(p)
  <2>1. /\ UNCHANGED <<catalog, imdbIds, kitsuCache, isLoaded, faulty>>
        /\ mapper[p] = "counting"
    BY <1>6 DEF CountEntries, storeVars, cacheVars
  <2>2. \/ Goes(p, "loading ids") /\ catalog.ids > 0
        \/ Goes(p, "downloading") \/ Goes(p, "waiting")
    <3>1. catalog.entries # 0 => catalog.ids > 0
      BY <1>2
    <3> QED
      BY <1>6, <3>1 DEF CountEntries
  <2> QED
    BY <1>4, <2>1, <2>2 DEF Stages
<1>7. CASE TakeRefreshLock(p) \/ Download(p) \/ QueryFails(p)
  BY <1>4, <1>7 DEF TakeRefreshLock, Download, QueryFails, Ends, storeVars, cacheVars,
                    Stages
<1>8. CASE BeginPersist(p) \/ DeleteOldIds(p) \/ InsertEntries(p) \/ InsertIds(p)
  BY <1>4, <1>8 DEF BeginPersist, DeleteOldIds, InsertEntries, InsertIds, Writes, Shown,
                    storeVars, cacheVars, Stages

<1>9. CASE LoadProviderIds(p)
  <2>1. \/ mapper[p] = "loading ids" /\ mapper'[p] = "loading kitsu"
        \/ mapper[p] = "reloading ids" /\ mapper'[p] = "reloading kitsu"
    BY <1>1, <1>9 DEF LoadProviderIds, Stages
  <2>2. \/ imdbIds'[p] = catalog.ids /\ UNCHANGED faulty
        \/ faulty'[p] = TRUE /\ UNCHANGED imdbIds
    BY <1>0, <1>3, <1>9 DEF LoadProviderIds, LocalTypes
  <2>3. UNCHANGED <<catalog, kitsuCache, isLoaded>>
    BY <1>9 DEF LoadProviderIds, storeVars
  <2>4. faulty[p] \/ catalog.ids > 0
    BY <1>0, <2>1 DEF CachesKept
  <2>5. mapper[p] = "loading ids" => catalog.ids > 0
    BY <1>0 DEF CachesKept
  <2>6. faulty'[p] \/ imdbIds'[p] > 0
    BY <2>2, <2>4
  <2>7. imdbIds'[p] <= catalog'.ids
    BY <1>2, <1>2a, <2>2, <2>3
  <2>8. kitsuCache'[p] # 0 => catalog'.ids > 0
    BY <1>0, <2>1, <2>3 DEF CachesKept
  <2> QED
    BY <2>1, <2>3, <2>5, <2>6, <2>7, <2>8 DEF CachesKept
<1>10. CASE LoadKitsuMapping(p)
  <2>1. /\ \/ kitsuCache'[p] = overrides /\ UNCHANGED faulty
           \/ faulty'[p] = TRUE /\ UNCHANGED kitsuCache
        /\ UNCHANGED <<catalog, imdbIds>>
    BY <1>0, <1>3, <1>10 DEF LoadKitsuMapping, LocalTypes, storeVars
  <2>2. faulty[p] \/ imdbIds[p] > 0
    BY <1>0, <1>10 DEF LoadKitsuMapping, CachesKept
  <2>3. faulty'[p] \/ imdbIds'[p] > 0
    BY <2>1, <2>2
  <2>4. imdbIds'[p] <= catalog'.ids
    BY <1>0, <2>1 DEF CachesKept
  <2>5. CASE mapper[p] = "loading kitsu"
    <3>1. catalog.ids > 0 /\ mapper'[p] = "deciding"
      BY <1>0, <1>1, <1>10, <2>5 DEF LoadKitsuMapping, CachesKept, Stages
    <3> QED
      BY <2>1, <2>3, <2>4, <3>1 DEF CachesKept
  <2>6. CASE mapper[p] = "reloading kitsu"
    <3>1. mapper'[p] = "up"
      BY <1>1, <1>10, <2>6 DEF LoadKitsuMapping, Ends, Stages
    <3> QED
      BY <2>3, <2>4, <3>1 DEF CachesKept
  <2> QED
    BY <1>10, <2>5, <2>6 DEF LoadKitsuMapping
<1>11. CASE Decide(p)
  <2>1. UNCHANGED <<catalog, imdbIds, kitsuCache, faulty>>
    BY <1>11 DEF Decide, storeVars
  <2>2. catalog.ids > 0 /\ (faulty[p] \/ imdbIds[p] > 0)
    BY <1>0, <1>11 DEF Decide, CachesKept
  <2>3. mapper'[p] \in {"up", "downloading", "waiting"}
    BY <1>1, <1>11 DEF Decide, Decided, Ends, Stages
  <2> QED
    BY <1>0, <2>1, <2>2, <2>3 DEF CachesKept
<1>12. CASE CommitMapping(p)
  <2>1. fetched[p] > 0 /\ draft[p].ids = fetched[p] /\ catalog.ids <= fetched[p]
    BY <1>0, <1>12 DEF CommitMapping, DownloadKept, Persisting
  <2>2. /\ catalog'.ids = fetched[p] /\ mapper'[p] = "overriding"
        /\ UNCHANGED <<imdbIds, kitsuCache, faulty, isLoaded>>
    BY <1>1, <1>12, <2>1 DEF CommitMapping, cacheVars, Stages
  <2>3. fetched[p] \in Nat
    BY <1>0 DEF LocalTypes
  <2>4. imdbIds[p] <= fetched[p]
    BY <1>2, <1>2a, <2>1, <2>3
  <2>5. isLoaded[p] => faulty[p] \/ imdbIds[p] > 0
    BY <1>0 DEF CachesKept
  <2> QED
    BY <2>1, <2>2, <2>4, <2>5 DEF CachesKept
<1>13. CASE PersistFails(p)
  <2>1. /\ mapper'[p] = "overriding" /\ faulty'[p] = TRUE /\ mapper[p] # "up"
        /\ UNCHANGED <<catalog, imdbIds, kitsuCache, isLoaded>>
    BY <1>0, <1>1, <1>3, <1>13 DEF PersistFails, storeVars, cacheVars, LocalTypes, Stages
  <2> QED
    BY <1>0, <2>1 DEF CachesKept
<1>14. CASE PersistOverrides(p)
  <2>1. /\ mapper'[p] = "reloading ids" /\ mapper[p] = "overriding"
        /\ faulty'[p] = faulty[p] \/ faulty'[p] = TRUE
        /\ UNCHANGED <<catalog, imdbIds, kitsuCache, isLoaded>>
    BY <1>0, <1>1, <1>3, <1>14 DEF PersistOverrides, cacheVars, LocalTypes, Stages
  <2>2. faulty'[p] \/ catalog.ids > 0
    BY <1>0, <2>1 DEF CachesKept
  <2>3. isLoaded[p] => faulty'[p] \/ imdbIds[p] > 0
    BY <1>0, <2>1 DEF CachesKept
  <2>4. imdbIds[p] <= catalog.ids /\ (kitsuCache[p] # 0 => catalog.ids > 0)
    BY <1>0, <2>1 DEF CachesKept
  <2> QED
    BY <2>1, <2>2, <2>3, <2>4 DEF CachesKept
<1>15. CASE KillMapper(p)
  <2>1. /\ mapper'[p] = "off" /\ isLoaded'[p] = FALSE /\ imdbIds'[p] = 0
        /\ kitsuCache'[p] = 0 /\ UNCHANGED catalog
    BY <1>0, <1>1, <1>3, <1>15 DEF KillMapper, storeVars, LocalTypes, Stages
  <2> QED
    BY <1>2, <2>1 DEF CachesKept
<1> QED
  BY <1>5, <1>6, <1>7, <1>8, <1>9, <1>10, <1>11, <1>12, <1>13, <1>14, <1>15 DEF OwnStep

\* The lists are downloaded when there are none, or for what was decided.
LEMMA ReasonNext ==
    ASSUME AnimeIndInv, NEW p \in Mapper, OwnStep(p)
    PROVE  ReasonKept(p)'
<1>0. LocalTypes /\ SharedTypes /\ CachesKept(p) /\ CatalogWhole
  BY DEF AnimeIndInv, MapperKept
<1>1. ASSUME NEW where \in Stages, Goes(p, where) PROVE mapper'[p] = where
  BY <1>0, <1>1, GoesMoves DEF Moved
<1>2. ASSUME NEW where \in Stages \ {"downloading"}, Goes(p, where) PROVE ReasonKept(p)'
  BY <1>1, <1>2 DEF ReasonKept
<1>3. CASE CountEntries(p)
  <2>1. CASE catalog.entries # 0
    BY <1>2, <1>3, <2>1 DEF CountEntries, Stages
  <2>2. CASE catalog.entries = 0
    <3>1. catalog.ids = 0 /\ mapper[p] = "counting" /\ UNCHANGED kitsuCache
      BY <1>0, <1>3, <2>2 DEF CountEntries, CatalogWhole, cacheVars
    <3>2. kitsuCache'[p] = 0
      BY <1>0, <3>1 DEF CachesKept
    <3> QED
      BY <3>2 DEF ReasonKept
  <2> QED
    BY <2>1, <2>2
<1>4. CASE Decide(p)
  <2>1. UNCHANGED <<period, hour, overrides, refreshedAt, kitsuCache>>
    BY <1>4 DEF Decide, storeVars, Elsewhere
  <2>2. CASE Decided(p) = "up"
    BY <1>2, <1>4, <2>2 DEF Decide, Ends, Stages
  <2>3. CASE Decided(p) # "up"
    <3>1. NeedsRefresh(p)
      BY <2>3 DEF Decided
    <3>2. overrides # 0 /\ kitsuCache[p] \notin {0} \cup Cacheless => IsCacheStale
      BY <3>1 DEF NeedsRefresh
    <3>3. IsCacheStale => IsCacheStale'
      BY <2>1 DEF IsCacheStale
    <3> QED
      BY <2>1, <3>2, <3>3 DEF ReasonKept
  <2> QED
    BY <2>2, <2>3
<1>5. CASE StartMapper(p) \/ LoadProviderIds(p) \/ LoadKitsuMapping(p) \/ QueryFails(p)
  BY <1>2, <1>5 DEF StartMapper, LoadProviderIds, LoadKitsuMapping, QueryFails, Ends, Stages
<1>6. CASE TakeRefreshLock(p) \/ Download(p) \/ BeginPersist(p) \/ DeleteOldIds(p)
  BY <1>2, <1>6 DEF TakeRefreshLock, Download, BeginPersist, DeleteOldIds, Writes, Ends,
                    Stages
<1>7. CASE InsertEntries(p) \/ InsertIds(p) \/ CommitMapping(p)
  BY <1>2, <1>7 DEF InsertEntries, InsertIds, CommitMapping, Writes, Stages
<1>8. CASE PersistFails(p) \/ PersistOverrides(p) \/ KillMapper(p)
  BY <1>2, <1>8 DEF PersistFails, PersistOverrides, KillMapper, Stages
<1> QED
  BY <1>3, <1>4, <1>5, <1>6, <1>7, <1>8 DEF OwnStep

\* For any processes, versions, intervals, faults and restarts: whoever reads
\* the mapping reads one version of it, the lists are downloaded once by
\* processes that start together, and a process that says it has loaded the
\* mapping has ids of it.
THEOREM MappingSound == AnimeSpec => []AnimeInv
<1>1. AnimeIndInv /\ [AnimeNext]_animeVars => AnimeIndInv'
  <2> SUFFICES ASSUME AnimeIndInv, [AnimeNext]_animeVars PROVE AnimeIndInv'
    OBVIOUS
  <2>1. ASSUME NEW p \in Mapper, OwnStep(p) PROVE AnimeIndInv'
    <3>1. /\ SharedTypes' /\ CatalogWhole' /\ catalog'.ids <= published'
          /\ period' = period /\ catalog.ids <= catalog'.ids
          /\ published' = published /\ hour' = hour
      BY <2>1, SharedNext
    <3>2. hour <= hour' /\ published <= published'
      BY <3>1 DEF AnimeIndInv, SharedTypes
    <3>3. ASSUME NEW q \in Mapper \ {p} PROVE MapperKept(q)'
      <4>1. Stands(q) /\ (refresher = q => refresher' = q /\ UNCHANGED storeVars)
        BY <2>1, LocalNext, SharedNext
      <4> QED
        BY <3>1, <3>2, <4>1, OthersStand
    <3>4. MapperKept(p)'
      BY <2>1, LockNext, DownloadNext, CachesNext, ReasonNext DEF MapperKept
    <3>5. LocalTypes'
      BY <2>1, LocalNext
    <3> QED
      BY <3>1, <3>3, <3>4, <3>5 DEF AnimeIndInv
  <2>2. CASE /\ UNCHANGED <<period, storeVars, refresher, mapper, cacheVars, workVars, faulty>>
             /\ hour' \in {hour, hour + 1} /\ published' \in {published, published + 1}
    <3>1. SharedTypes' /\ LocalTypes' /\ CatalogWhole'
      BY <2>2 DEF AnimeIndInv, SharedTypes, LocalTypes, CatalogWhole, storeVars, cacheVars,
                  workVars
    <3>2. hour <= hour' /\ published <= published'
      BY <2>2 DEF AnimeIndInv, SharedTypes
    <3>3. catalog.ids \in Nat /\ UNCHANGED catalog
      BY <2>2 DEF AnimeIndInv, SharedTypes, Version, storeVars
    <3>4. catalog.ids <= catalog'.ids /\ catalog'.ids <= published'
      BY <2>2, <3>3 DEF AnimeIndInv, SharedTypes
    <3>5. ASSUME NEW q \in Mapper PROVE MapperKept(q)'
      <4>1. Stands(q)
        BY <2>2 DEF Stands, cacheVars, workVars
      <4> QED
        BY <2>2, <3>1, <3>2, <3>4, <4>1, OthersStand
    <3> QED
      BY <3>1, <3>4, <3>5 DEF AnimeIndInv
  <2>3. CASE Publish \/ HourPasses \/ UNCHANGED animeVars
    BY <2>2, <2>3 DEF Publish, HourPasses, animeVars
  <2> QED
    BY <2>1, <2>3 DEF AnimeNext, OwnStep
<1>2. AnimeIndInv => AnimeInv
  <2> SUFFICES ASSUME AnimeIndInv PROVE AnimeInv
    OBVIOUS
  <2>1. DownloadedOnce
    BY DEF AnimeIndInv, MapperKept, ReasonKept, DownloadedOnce
  <2>2. ASSUME NEW p \in Mapper, isLoaded[p], ~faulty[p]
        PROVE  imdbIds[p] \in 1..catalog.ids
    <3>1. imdbIds[p] > 0 /\ imdbIds[p] <= catalog.ids
      BY <2>2 DEF AnimeIndInv, MapperKept, CachesKept
    <3>2. imdbIds[p] \in Nat /\ catalog.ids \in Nat
      BY DEF AnimeIndInv, LocalTypes, SharedTypes, Version
    <3> QED
      BY <3>1, <3>2
  <2>3. LoadedIsUsable
    BY <2>2 DEF LoadedIsUsable
  <2> QED
    BY <2>1, <2>3 DEF AnimeIndInv, AnimeInv
<1> QED
  BY AnimeStarts, <1>1, <1>2, PTL DEF AnimeSpec

----------------------------------------------------------------------------
(* The pairing of an add-on. *)

CodeGiven ==
    \A a \in Addon :
        /\ pc[a] \in {"new", "creating"} => code[a] = NoCode /\ tries[a] < MaxAttempts
        /\ pc[a] \in {"created", "polling", "asked", "answered"} => code[a] # NoCode

\* The time of a code about to be inserted was read from a clock that runs.
StampGiven == \A a \in Addon : pc[a] = "creating" => stamp[a] > 0

\* A page that was posted bears the code of its add-on, and a row the
\* configuration of a page that was posted for it.
PageKept(p) ==
    page[p] # "new" =>
        pageCode[p] = code[openedFor[p]] /\ pageCode[p] # NoCode /\ pageStamp[p] <= clock

PagesKept == \A p \in Page : PageKept(p)

RowKept(c) ==
    rowConfig[c] # NoPage =>
        /\ HasRow(c) /\ page[rowConfig[c]] = "success" /\ pageCode[rowConfig[c]] = c
        /\ \A a \in Addon : got[a] # rowConfig[c] /\ answer[a] # rowConfig[c]

RowsKept == \A c \in Code : RowKept(c)

\* A row is that of an add-on which was given its code.
RowOwned(c) == HasRow(c) => rowFor[c] \in Addon /\ code[rowFor[c]] = c

RowsOwned == \A c \in Code : RowOwned(c)

\* The row of an add-on has the lifetime of its code; when the code has no row, or
\* that of another add-on, its own row was delivered or its lifetime is over.
OwnsRow(a) == HasRow(code[a]) /\ rowFor[code[a]] = a

LifeKept(a) ==
    code[a] # NoCode =>
        IF OwnsRow(a) THEN rowExpires[code[a]] = Stored(issued[a] + TTL)
        ELSE a \in consumed \/ clock > issued[a] + TTL

LivesKept == \A a \in Addon : LifeKept(a)

\* What a step leaves to every add-on: the configurations it holds.
HoldsNoMore ==
    \A a \in Addon : {got'[a], answer'[a]} \subseteq {got[a], answer[a], NoPage}

KodiIndInv ==
    /\ KodiTypeOK /\ DeliveredByCode
    /\ CodeGiven /\ StampGiven /\ PagesKept /\ RowsKept /\ RowsOwned /\ LivesKept

\* Two times of the column are in the order of what is kept in them, up to one
\* step; the expiry of a code is kept as a number other than 0.
LEMMA ExpiryKept ==
    ASSUME NEW s \in Nat \ {0}
    PROVE  Stored(s + TTL) \in Nat \ {0}
<1> DEFINE t == s + TTL
<1>1. t \in Nat /\ Quantum \in Nat \ {0} /\ 2 * t > Quantum
  BY KodiAssumption, QuantumAssumption
<1> HIDE DEF t
<1>2. Stored(t) \in Nat /\ 2 * (t - Stored(t) * Quantum) <= Quantum
  BY <1>1, StoredMonotone, StoredNear
<1>3. Stored(t) # 0
  <2>1. Stored(t) = 0 => Stored(t) * Quantum = 0
    BY <1>1
  <2> QED
    BY <1>1, <1>2, <2>1
<1> QED
  BY <1>2, <1>3 DEF t

LEMMA LaterIfStoredLater ==
    ASSUME NEW a \in Nat, NEW b \in Nat, Stored(a) < Stored(b)
    PROVE  a < b
<1>1. Stored(a) \in Nat /\ Stored(b) \in Nat
  BY StoredMonotone
<1>2. ~(b <= a)
  BY <1>1, StoredMonotone
<1> QED
  BY <1>2

LEMMA StoredWithinStep ==
    ASSUME NEW a \in Nat, NEW b \in Nat, Stored(a) <= Stored(b)
    PROVE  a <= b + Quantum
<1>1. Quantum \in Nat \ {0} /\ Stored(a) \in Nat /\ Stored(b) \in Nat
  BY QuantumAssumption, StoredMonotone
<1>2. Stored(a) * Quantum \in Nat /\ Stored(b) * Quantum \in Nat
  BY <1>1
<1>3. Stored(a) * Quantum <= Stored(b) * Quantum
  BY <1>1
<1>4. /\ 2 * (a - Stored(a) * Quantum) <= Quantum
      /\ 2 * (Stored(b) * Quantum - b) <= Quantum
  BY StoredNear
<1> QED
  BY <1>1, <1>2, <1>3, <1>4

LEMMA KodiStarts == KodiInit => KodiIndInv
<1> SUFFICES ASSUME KodiInit PROVE KodiIndInv
  OBVIOUS
<1> USE KodiAssumption DEF KodiInit
<1>1. KodiTypeOK
  BY DEF KodiTypeOK
<1>2. DeliveredByCode
  BY DEF DeliveredByCode, Holds
<1>3. CodeGiven /\ StampGiven /\ PagesKept
  BY DEF CodeGiven, StampGiven, PagesKept, PageKept
<1>4. RowsKept /\ RowsOwned /\ LivesKept
  BY DEF RowsKept, RowKept, RowsOwned, RowOwned, HasRow, LivesKept, LifeKept
<1> QED
  BY <1>1, <1>2, <1>3, <1>4 DEF KodiIndInv

LEMMA KodiTypes == KodiIndInv /\ [KodiNext]_kodiVars => KodiTypeOK'
<1> SUFFICES ASSUME KodiTypeOK, CodeGiven, RowsOwned, [KodiNext]_kodiVars PROVE KodiTypeOK'
  BY DEF KodiIndInv
<1> USE KodiAssumption DEF KodiTypeOK, Goto, addonVars, pageVars, rowVars, history
<1>1. ASSUME NEW a \in Addon, Generate(a) \/ StartPolling(a) PROVE KodiTypeOK'
  BY <1>1 DEF Generate, StartPolling
<1>2. ASSUME NEW a \in Addon, NEW c \in Code, Insert(a, c) PROVE KodiTypeOK'
  <2>1. CASE HasRow(c)
    <3>1. tries[a] + 1 \in 0..MaxAttempts
      BY <1>2 DEF Insert, CodeGiven
    <3> QED
      BY <1>2, <2>1, <3>1 DEF Insert
  <2>2. CASE ~HasRow(c)
    <3>1. Stored(stamp[a] + TTL) \in Nat
      BY StoredMonotone
    <3> QED
      BY <1>2, <2>2, <3>1 DEF Insert, SetRow
  <2> QED
    BY <2>1, <2>2
<1>3. ASSUME NEW a \in Addon, Abandon(a) \/ GiveUp(a) PROVE KodiTypeOK'
  BY <1>3 DEF Abandon, GiveUp
<1>4. ASSUME NEW a \in Addon, Poll(a) \/ LoseAnswer(a) PROVE KodiTypeOK'
  BY <1>4 DEF Poll, LoseAnswer
<1>5. ASSUME NEW a \in Addon, Consume(a) PROVE KodiTypeOK'
  <2>1. code[a] \in Code
    BY <1>5 DEF Consume, CodeGiven
  <2>2. Unexpired(code[a], stamp[a]) => rowFor[code[a]] \in Addon
    BY <2>1 DEF Unexpired, RowsOwned, RowOwned
  <2> QED
    BY <1>5, <2>1, <2>2 DEF Consume, SetRow
<1>6. ASSUME NEW a \in Addon, Receive(a) PROVE KodiTypeOK'
  <2>1. CASE answer[a] = NoPage
    BY <1>6, <2>1 DEF Receive
  <2>2. CASE answer[a] # NoPage
    BY <1>6, <2>2 DEF Receive
  <2> QED
    BY <2>1, <2>2
<1>7. ASSUME NEW p \in Page, Post(p) PROVE KodiTypeOK'
  BY <1>7 DEF Post
<1>8. ASSUME NEW p \in Page, Associate(p) PROVE KodiTypeOK'
  BY <1>8 DEF Associate, SetRow
<1>9. ASSUME NEW c \in Code, Cleanup(c) PROVE KodiTypeOK'
  BY <1>9 DEF Cleanup, SetRow
<1>10. CASE Tick
  BY <1>10 DEF Tick
<1>11. CASE UNCHANGED kodiVars
  BY <1>11 DEF kodiVars
<1> QED
  BY <1>1, <1>2, <1>3, <1>4, <1>5, <1>6, <1>7, <1>8, <1>9, <1>10, <1>11 DEF KodiNext

\* An add-on is given a code once, as its row is inserted.
LEMMA CodesNext == KodiIndInv /\ [KodiNext]_kodiVars => CodeGiven'
<1> SUFFICES ASSUME KodiTypeOK, CodeGiven, [KodiNext]_kodiVars PROVE CodeGiven'
  BY DEF KodiIndInv
<1>1. CASE UNCHANGED <<pc, code, tries>>
  BY <1>1 DEF CodeGiven
<1>2. ASSUME NEW a \in Addon, NEW where, pc' = [pc EXCEPT ![a] = where],
             UNCHANGED <<code, tries>>,
             where = "creating" => pc[a] = "new",
             where \in {"created", "polling", "asked", "answered"} => code[a] # NoCode,
             where # "new"
      PROVE  CodeGiven'
  <2>1. /\ pc'[a] = where /\ \A b \in Addon \ {a} : pc'[b] = pc[b]
    BY <1>2 DEF KodiTypeOK
  <2> QED
    BY <1>2, <2>1 DEF CodeGiven
<1>3. ASSUME NEW a \in Addon,
             \/ Generate(a) \/ StartPolling(a) \/ Abandon(a) \/ Poll(a) \/ Consume(a)
             \/ Receive(a) \/ LoseAnswer(a) \/ GiveUp(a)
      PROVE  CodeGiven'
  <2>1. pc[a] \in {"polling", "asked", "answered", "created"} => code[a] # NoCode
    BY DEF CodeGiven
  <2>2. CASE Generate(a) \/ StartPolling(a) \/ Abandon(a) \/ Poll(a)
    BY <1>2, <2>1, <2>2 DEF Generate, StartPolling, Abandon, Poll, Goto
  <2>3. CASE Consume(a) \/ LoseAnswer(a) \/ GiveUp(a)
    BY <1>2, <2>1, <2>3 DEF Consume, LoseAnswer, GiveUp, Goto
  <2>4. CASE Receive(a)
    BY <1>2, <2>1, <2>4 DEF Receive, Goto
  <2> QED
    BY <1>3, <2>2, <2>3, <2>4
<1>4. ASSUME NEW a \in Addon, NEW c \in Code, Insert(a, c)
      PROVE  CodeGiven'
  <2>1. CASE HasRow(c)
    <3>1. /\ tries'[a] = tries[a] + 1 /\ \A b \in Addon \ {a} : tries'[b] = tries[b]
          /\ UNCHANGED code
      BY <1>4, <2>1 DEF Insert, KodiTypeOK
    <3>2. \/ tries'[a] = MaxAttempts /\ pc'[a] = "failed"
             /\ \A b \in Addon \ {a} : pc'[b] = pc[b]
          \/ tries'[a] # MaxAttempts /\ UNCHANGED pc
      BY <1>4, <2>1 DEF Insert, Goto, KodiTypeOK
    <3>3. tries[a] \in Nat /\ MaxAttempts \in Nat /\ tries[a] < MaxAttempts /\ code[a] = NoCode
          /\ pc[a] = "creating"
      BY <1>4, KodiAssumption DEF Insert, CodeGiven, KodiTypeOK
    <3>4. tries'[a] # MaxAttempts => tries'[a] < MaxAttempts
      BY <3>1, <3>3
    <3> QED
      BY <3>1, <3>2, <3>3, <3>4 DEF CodeGiven
  <2>2. CASE ~HasRow(c)
    <3>1. /\ code'[a] = c /\ \A b \in Addon \ {a} : code'[b] = code[b]
          /\ pc'[a] = "created" /\ \A b \in Addon \ {a} : pc'[b] = pc[b]
          /\ UNCHANGED tries
      BY <1>4, <2>2 DEF Insert, Goto, KodiTypeOK
    <3>2. c # NoCode
      BY KodiAssumption
    <3> QED
      BY <3>1, <3>2 DEF CodeGiven
  <2> QED
    BY <2>1, <2>2
<1>5. ASSUME NEW p \in Page, Post(p) \/ Associate(p) PROVE CodeGiven'
  BY <1>1, <1>5 DEF Post, Associate, addonVars
<1>6. ASSUME NEW c \in Code, Cleanup(c) PROVE CodeGiven'
  BY <1>1, <1>6 DEF Cleanup, addonVars
<1>7. CASE Tick \/ UNCHANGED kodiVars
  BY <1>1, <1>7 DEF Tick, kodiVars, addonVars
<1> QED
  BY <1>3, <1>4, <1>5, <1>6, <1>7 DEF KodiNext

LEMMA StampsNext == KodiIndInv /\ [KodiNext]_kodiVars => StampGiven'
<1> SUFFICES ASSUME KodiTypeOK, StampGiven, [KodiNext]_kodiVars, NEW a \in Addon,
                    pc'[a] = "creating"
             PROVE  stamp'[a] > 0
  BY DEF KodiIndInv, StampGiven
<1>1. ASSUME pc[a] = "creating", stamp'[a] = stamp[a] PROVE stamp'[a] > 0
  BY <1>1 DEF StampGiven
<1>2. CASE Generate(a)
  <2>1. stamp'[a] = clock
    BY <1>2 DEF Generate, KodiTypeOK
  <2> QED
    BY <2>1 DEF KodiTypeOK
<1>3. ASSUME NEW b \in Addon, (b # a /\ Generate(b)) \/ Poll(b) PROVE stamp'[a] > 0
  <2>1. a # b
    BY <1>3 DEF Poll, Goto, KodiTypeOK
  <2>2. pc'[a] = pc[a] /\ stamp'[a] = stamp[a]
    BY <1>3, <2>1 DEF Generate, Poll, Goto, KodiTypeOK
  <2> QED
    BY <1>1, <2>2
<1>4. ASSUME NEW b \in Addon,
             \/ (\E c \in Code : Insert(b, c)) \/ StartPolling(b) \/ Abandon(b)
             \/ Consume(b) \/ Receive(b) \/ LoseAnswer(b) \/ GiveUp(b)
      PROVE  stamp'[a] > 0
  <2>1. UNCHANGED stamp
    BY <1>4 DEF Insert, StartPolling, Abandon, Consume, Receive, LoseAnswer, GiveUp
  <2>2. pc[a] = "creating"
    BY <1>4 DEF Insert, StartPolling, Abandon, Consume, Receive, LoseAnswer, GiveUp,
                Goto, KodiTypeOK
  <2> QED
    BY <1>1, <2>1, <2>2
<1>5. CASE UNCHANGED <<pc, stamp>>
  BY <1>1, <1>5
<1>6. CASE (\E p \in Page : Post(p) \/ Associate(p)) \/ (\E c \in Code : Cleanup(c))
           \/ Tick \/ UNCHANGED kodiVars
  BY <1>5, <1>6 DEF Post, Associate, Cleanup, Tick, kodiVars, addonVars
<1> QED
  BY <1>2, <1>3, <1>4, <1>6 DEF KodiNext

\* A code that was given stays.
LEMMA CodesStay ==
    ASSUME KodiTypeOK, CodeGiven, [KodiNext]_kodiVars, NEW a \in Addon, code[a] # NoCode
    PROVE  code'[a] = code[a] /\ issued'[a] = issued[a]
<1>1. CASE UNCHANGED <<code, issued>>
  BY <1>1
<1>2. ASSUME NEW b \in Addon, NEW c \in Code, Insert(b, c)
      PROVE  code'[a] = code[a] /\ issued'[a] = issued[a]
  <2>1. a # b
    BY <1>2 DEF Insert, CodeGiven
  <2>2. /\ code' = code \/ code' = [code EXCEPT ![b] = c]
        /\ issued' = issued \/ issued' = [issued EXCEPT ![b] = stamp[b]]
    BY <1>2 DEF Insert
  <2>3. code'[a] = code[a]
    BY <2>1, <2>2 DEF KodiTypeOK
  <2>4. issued'[a] = issued[a]
    BY <2>1, <2>2 DEF KodiTypeOK
  <2> QED
    BY <2>3, <2>4
<1>3. ASSUME NEW b \in Addon,
             \/ Generate(b) \/ StartPolling(b) \/ Abandon(b) \/ Poll(b) \/ Consume(b)
             \/ Receive(b) \/ LoseAnswer(b) \/ GiveUp(b)
      PROVE  UNCHANGED <<code, issued>>
  BY <1>3 DEF Generate, StartPolling, Abandon, Poll, Consume, Receive, LoseAnswer, GiveUp,
              history
<1>4. ASSUME NEW p \in Page, Post(p) \/ Associate(p) PROVE UNCHANGED <<code, issued>>
  BY <1>4 DEF Post, Associate, addonVars, history
<1>5. ASSUME NEW c \in Code, Cleanup(c) PROVE UNCHANGED <<code, issued>>
  BY <1>5 DEF Cleanup, addonVars, history
<1>6. CASE Tick \/ UNCHANGED kodiVars
  BY <1>1, <1>6 DEF Tick, kodiVars, addonVars, history
<1> QED
  BY <1>1, <1>2, <1>3, <1>4, <1>5, <1>6 DEF KodiNext

LEMMA PagesNext == KodiIndInv /\ [KodiNext]_kodiVars => PagesKept'
<1> SUFFICES ASSUME KodiTypeOK, CodeGiven, PagesKept, [KodiNext]_kodiVars, NEW p \in Page
             PROVE  PageKept(p)'
  BY DEF KodiIndInv, PagesKept
<1>1. clock \in Nat /\ pageStamp[p] \in Nat /\ openedFor[p] \in Addon
  BY DEF KodiTypeOK
<1>2. clock' \in Nat /\ clock <= clock' /\ openedFor' = openedFor
  BY <1>1 DEF KodiNext, kodiVars, Generate, Insert, StartPolling, Abandon, Poll, Consume,
     Receive, LoseAnswer, GiveUp, Post, Associate, Cleanup, Tick, pageVars, addonVars
<1>3. ASSUME page'[p] # "new" => page[p] # "new",
             pageCode'[p] = pageCode[p], pageStamp'[p] = pageStamp[p]
      PROVE  PageKept(p)'
  <2>1. CASE page'[p] = "new"
    BY <2>1 DEF PageKept
  <2>2. CASE page[p] # "new"
    <3>1. pageCode[p] = code[openedFor[p]] /\ pageCode[p] # NoCode /\ pageStamp[p] <= clock
      BY <2>2 DEF PagesKept, PageKept
    <3>2. code'[openedFor[p]] = code[openedFor[p]]
      BY <1>1, <3>1, CodesStay
    <3>3. pageStamp[p] <= clock'
      BY <1>1, <1>2, <3>1
    <3> QED
      BY <1>2, <1>3, <3>1, <3>2, <3>3 DEF PageKept
  <2> QED
    BY <1>3, <2>1, <2>2
<1>4. CASE Post(p)
  <2>1. pageCode'[p] = code[openedFor[p]] /\ pageStamp'[p] = clock /\ code[openedFor[p]] # NoCode
    BY <1>4 DEF Post, KodiTypeOK
  <2>2. UNCHANGED <<code, clock>>
    BY <1>4 DEF Post, addonVars
  <2> QED
    BY <1>1, <1>2, <2>1, <2>2 DEF PageKept
<1>5. ASSUME NEW q \in Page \ {p}, Post(q) PROVE PageKept(p)'
  BY <1>3, <1>5 DEF Post, KodiTypeOK
<1>6. ASSUME NEW q \in Page, Associate(q) PROVE PageKept(p)'
  <2>1. page'[p] # "new" => page[p] # "new"
    BY <1>6 DEF Associate, KodiTypeOK
  <2>2. UNCHANGED <<pageCode, pageStamp>>
    BY <1>6 DEF Associate
  <2> QED
    BY <1>3, <2>1, <2>2
<1>7. CASE UNCHANGED pageVars
  BY <1>3, <1>7 DEF pageVars
<1>8. ASSUME NEW b \in Addon,
             \/ Generate(b) \/ (\E c \in Code : Insert(b, c)) \/ StartPolling(b)
             \/ Abandon(b) \/ Poll(b) \/ Consume(b) \/ Receive(b) \/ LoseAnswer(b)
             \/ GiveUp(b)
      PROVE  UNCHANGED pageVars
  BY <1>8 DEF Generate, StartPolling, Abandon, Poll, Consume, Receive, LoseAnswer, GiveUp,
              Insert
<1>9. CASE (\E c \in Code : Cleanup(c)) \/ Tick \/ UNCHANGED kodiVars
  BY <1>7, <1>9 DEF Cleanup, Tick, kodiVars
<1> QED
  BY <1>4, <1>5, <1>6, <1>7, <1>8, <1>9 DEF KodiNext

\* A page that succeeded stays as it is, and what an add-on is not given by its
\* own fetch it does not come to hold.
LEMMA SuccessStays ==
    ASSUME KodiTypeOK, [KodiNext]_kodiVars, NEW p \in Page, page[p] = "success"
    PROVE  page'[p] = "success" /\ pageCode'[p] = pageCode[p]
<1>1. ASSUME NEW q \in Page, Post(q) \/ Associate(q)
      PROVE  page'[p] = "success" /\ pageCode'[p] = pageCode[p]
  BY <1>1 DEF Post, Associate, KodiTypeOK
<1>2. CASE UNCHANGED pageVars
  BY <1>2 DEF pageVars
<1>3. ASSUME NEW b \in Addon,
             \/ Generate(b) \/ (\E c \in Code : Insert(b, c)) \/ StartPolling(b)
             \/ Abandon(b) \/ Poll(b) \/ Consume(b) \/ Receive(b) \/ LoseAnswer(b)
             \/ GiveUp(b)
      PROVE  UNCHANGED pageVars
  BY <1>3 DEF Generate, StartPolling, Abandon, Poll, Consume, Receive, LoseAnswer, GiveUp,
              Insert
<1>4. CASE (\E c \in Code : Cleanup(c)) \/ Tick \/ UNCHANGED kodiVars
  BY <1>2, <1>4 DEF Cleanup, Tick, kodiVars
<1> QED
  BY <1>1, <1>2, <1>3, <1>4 DEF KodiNext

LEMMA OnlyFetched ==
    ASSUME KodiTypeOK, [KodiNext]_kodiVars, \A a \in Addon : ~Consume(a)
    PROVE  HoldsNoMore
<1>1. CASE UNCHANGED <<got, answer>>
  BY <1>1 DEF HoldsNoMore
<1>2. ASSUME NEW a \in Addon, Receive(a) \/ LoseAnswer(a) PROVE HoldsNoMore
  BY <1>2 DEF Receive, LoseAnswer, KodiTypeOK, HoldsNoMore
<1>3. ASSUME NEW b \in Addon,
             \/ Generate(b) \/ (\E c \in Code : Insert(b, c)) \/ StartPolling(b)
             \/ Abandon(b) \/ Poll(b) \/ GiveUp(b)
      PROVE  UNCHANGED <<got, answer>>
  BY <1>3 DEF Generate, StartPolling, Abandon, Poll, GiveUp, Insert
<1>4. CASE (\E p \in Page : Post(p) \/ Associate(p)) \/ (\E c \in Code : Cleanup(c))
           \/ Tick \/ UNCHANGED kodiVars
  BY <1>1, <1>4 DEF Post, Associate, Cleanup, Tick, kodiVars, addonVars
<1> QED
  BY <1>1, <1>2, <1>3, <1>4 DEF KodiNext

\* A row is inserted empty, and filled by the page that finds it.
LEMMA RowStays ==
    ASSUME KodiTypeOK, RowsKept, [KodiNext]_kodiVars, HoldsNoMore, NEW c \in Code,
           rowConfig'[c] # NoPage => rowConfig'[c] = rowConfig[c] /\ rowExpires'[c] = rowExpires[c]
    PROVE  RowKept(c)'
<1> SUFFICES ASSUME rowConfig'[c] # NoPage PROVE RowKept(c)'
  BY DEF RowKept
<1>1. RowKept(c) /\ rowConfig[c] # NoPage /\ rowConfig'[c] = rowConfig[c]
  BY DEF RowsKept
<1>2. HasRow(c) /\ page[rowConfig[c]] = "success" /\ pageCode[rowConfig[c]] = c
  BY <1>1 DEF RowKept
<1>3. rowConfig[c] \in Page
  BY <1>1 DEF KodiTypeOK
<1>4. page'[rowConfig[c]] = "success" /\ pageCode'[rowConfig[c]] = c
  BY <1>2, <1>3, SuccessStays
<1>5. \A a \in Addon : got'[a] # rowConfig[c] /\ answer'[a] # rowConfig[c]
  BY <1>1 DEF RowKept, HoldsNoMore
<1> QED
  BY <1>1, <1>2, <1>4, <1>5 DEF RowKept, HasRow

LEMMA RowsNext == KodiIndInv /\ [KodiNext]_kodiVars => RowsKept'
<1> SUFFICES ASSUME KodiTypeOK, DeliveredByCode, CodeGiven, PagesKept, RowsKept,
                    [KodiNext]_kodiVars, NEW c \in Code
             PROVE  RowKept(c)'
  BY DEF KodiIndInv, RowsKept
<1> USE KodiAssumption
<1>1. CASE /\ \A a \in Addon : ~Consume(a)
           /\ rowConfig'[c] # NoPage =>
                 rowConfig'[c] = rowConfig[c] /\ rowExpires'[c] = rowExpires[c]
  BY <1>1, OnlyFetched, RowStays
<1>2. ASSUME NEW a \in Addon, Consume(a) PROVE RowKept(c)'
  <2> DEFINE d == code[a]
             p == rowConfig[d]
  <2>1. d \in Code
    BY <1>2 DEF Consume, CodeGiven, KodiTypeOK
  <2>2. CASE UNCHANGED <<answer, rowVars>>
    <3>1. HoldsNoMore
      BY <1>2, <2>2 DEF Consume, HoldsNoMore
    <3> QED
      BY <2>2, <3>1, RowStays DEF rowVars
  <2>3. CASE p # NoPage /\ answer' = [answer EXCEPT ![a] = p] /\ SetRow(d, NoPage, 0)
    <3> SUFFICES ASSUME rowConfig'[c] # NoPage PROVE RowKept(c)'
      BY DEF RowKept
    <3>1. c # d /\ rowConfig'[c] = rowConfig[c] /\ rowExpires'[c] = rowExpires[c]
      BY <2>1, <2>3 DEF SetRow, KodiTypeOK
    <3>2. RowKept(c) /\ RowKept(d)
      BY <2>1 DEF RowsKept
    <3>3. rowConfig[c] # p
      BY <2>3, <3>1, <3>2 DEF RowKept
    <3>4. \A b \in Addon : got'[b] # rowConfig[c] /\ answer'[b] # rowConfig[c]
      <4>1. got' = got /\ \A b \in Addon : answer'[b] = answer[b] \/ answer'[b] = p
        BY <1>2, <2>3 DEF Consume, KodiTypeOK
      <4>2. \A b \in Addon : got[b] # rowConfig[c] /\ answer[b] # rowConfig[c]
        BY <3>1, <3>2 DEF RowKept
      <4> QED
        BY <3>3, <4>1, <4>2
    <3>5. UNCHANGED <<page, pageCode>>
      BY <1>2 DEF Consume, pageVars
    <3> QED
      BY <3>1, <3>2, <3>4, <3>5 DEF RowKept, HasRow
  <2> QED
    BY <1>2, <2>2, <2>3 DEF Consume
<1>3. ASSUME \A a \in Addon : ~Consume(a), NEW p \in Page, Associate(p) PROVE RowKept(c)'
  <2>1. CASE UNCHANGED rowVars
    BY <1>1, <1>3, <2>1 DEF rowVars
  <2>2. CASE /\ Unexpired(pageCode[p], pageStamp[p]) /\ page' = [page EXCEPT ![p] = "success"]
             /\ SetRow(pageCode[p], p, rowExpires[pageCode[p]])
    <3>1. CASE c # pageCode[p]
      <4>1. rowConfig'[c] = rowConfig[c] /\ rowExpires'[c] = rowExpires[c]
        BY <2>2, <3>1 DEF SetRow, KodiTypeOK
      <4> QED
        BY <1>1, <1>3, <4>1
    <3>2. CASE c = pageCode[p]
      <4>1. rowConfig'[c] = p /\ rowExpires'[c] = rowExpires[c] /\ HasRow(c)
        BY <2>2, <3>2 DEF SetRow, Unexpired, KodiTypeOK
      <4>2. page'[p] = "success" /\ UNCHANGED <<pageCode, got, answer>> /\ page[p] = "posted"
        BY <1>3, <2>2 DEF Associate, addonVars, KodiTypeOK
      <4>3. \A a \in Addon : got[a] # p /\ answer[a] # p
        BY <4>2 DEF DeliveredByCode, Holds
      <4> QED
        BY <3>2, <4>1, <4>2, <4>3 DEF RowKept, HasRow
    <3> QED
      BY <3>1, <3>2
  <2> QED
    BY <1>3, <2>1, <2>2 DEF Associate
<1>4. ASSUME NEW d \in Code, NEW e, SetRow(d, NoPage, e)
      PROVE  rowConfig'[c] # NoPage =>
                rowConfig'[c] = rowConfig[c] /\ rowExpires'[c] = rowExpires[c]
  BY <1>4 DEF SetRow, KodiTypeOK
<1>5. ASSUME NEW b \in Addon, NEW d \in Code, Insert(b, d)
      PROVE  rowConfig'[c] # NoPage =>
                rowConfig'[c] = rowConfig[c] /\ rowExpires'[c] = rowExpires[c]
  BY <1>4, <1>5 DEF Insert, rowVars
<1>6. ASSUME NEW d \in Code, Cleanup(d)
      PROVE  rowConfig'[c] # NoPage =>
                rowConfig'[c] = rowConfig[c] /\ rowExpires'[c] = rowExpires[c]
  BY <1>4, <1>6 DEF Cleanup
<1>7. ASSUME NEW b \in Addon,
             \/ Generate(b) \/ StartPolling(b) \/ Abandon(b) \/ Poll(b)
             \/ Receive(b) \/ LoseAnswer(b) \/ GiveUp(b)
      PROVE  UNCHANGED rowVars
  BY <1>7 DEF Generate, StartPolling, Abandon, Poll, Receive, LoseAnswer, GiveUp
<1>8. ASSUME UNCHANGED rowVars
      PROVE  rowConfig'[c] # NoPage =>
                rowConfig'[c] = rowConfig[c] /\ rowExpires'[c] = rowExpires[c]
  BY <1>8 DEF rowVars
<1>9. CASE (\E p \in Page : Post(p)) \/ Tick \/ UNCHANGED kodiVars
  <2>1. UNCHANGED rowVars
    BY <1>9 DEF Post, Tick, kodiVars
  <2> QED
    BY <1>1, <1>2, <1>8, <2>1
<1>10. CASE \E d \in Code : Cleanup(d)
  BY <1>1, <1>2, <1>6, <1>10
<1>11. CASE \E b \in Addon, d \in Code : Insert(b, d)
  BY <1>1, <1>2, <1>5, <1>11
<1>12. ASSUME NEW b \in Addon,
              \/ Generate(b) \/ StartPolling(b) \/ Abandon(b) \/ Poll(b)
              \/ Receive(b) \/ LoseAnswer(b) \/ GiveUp(b)
       PROVE  RowKept(c)'
  BY <1>1, <1>2, <1>7, <1>8, <1>12
<1> QED
  BY <1>2, <1>3, <1>9, <1>10, <1>11, <1>12 DEF KodiNext

\* A row goes to the add-on for which it is inserted, and nobody changes a code.
LEMMA OwnedNext == KodiIndInv /\ [KodiNext]_kodiVars => RowsOwned'
<1> SUFFICES ASSUME KodiTypeOK, CodeGiven, RowsOwned, [KodiNext]_kodiVars, NEW c \in Code
             PROVE  RowOwned(c)'
  BY DEF KodiIndInv, RowsOwned
<1> USE KodiAssumption
<1>1. ASSUME rowFor'[c] = rowFor[c], rowExpires'[c] # 0 => rowExpires[c] # 0
      PROVE  RowOwned(c)'
  <2> SUFFICES ASSUME rowExpires'[c] # 0 PROVE RowOwned(c)'
    BY DEF RowOwned, HasRow
  <2>1. rowFor[c] \in Addon /\ code[rowFor[c]] = c /\ c # NoCode
    BY <1>1 DEF RowsOwned, RowOwned, HasRow
  <2>2. code'[rowFor[c]] = c
    BY <2>1, CodesStay
  <2> QED
    BY <1>1, <2>1, <2>2 DEF RowOwned
<1>2. ASSUME NEW b \in Addon, NEW d \in Code, Insert(b, d) PROVE RowOwned(c)'
  <2>1. CASE HasRow(d)
    BY <1>1, <1>2, <2>1 DEF Insert, rowVars
  <2>2. CASE ~HasRow(d)
    <3>1. CASE c = d
      BY <1>2, <2>2, <3>1 DEF Insert, RowOwned, KodiTypeOK
    <3>2. CASE c # d
      <4>1. rowFor'[c] = rowFor[c] /\ rowExpires'[c] = rowExpires[c]
        BY <1>2, <2>2, <3>2 DEF Insert, SetRow, KodiTypeOK
      <4> QED
        BY <1>1, <4>1
    <3> QED
      BY <3>1, <3>2
  <2> QED
    BY <2>1, <2>2
<1>3. ASSUME NEW b \in Addon, Consume(b) PROVE RowOwned(c)'
  <2>1. rowFor' = rowFor
    BY <1>3 DEF Consume
  <2>2. rowExpires'[c] = rowExpires[c] \/ rowExpires'[c] = 0
    BY <1>3 DEF Consume, SetRow, rowVars, KodiTypeOK
  <2> QED
    BY <1>1, <2>1, <2>2
<1>4. ASSUME NEW d \in Code, Cleanup(d) PROVE RowOwned(c)'
  <2>1. rowFor' = rowFor
    BY <1>4 DEF Cleanup, history
  <2>2. rowExpires'[c] = rowExpires[c] \/ rowExpires'[c] = 0
    BY <1>4 DEF Cleanup, SetRow, KodiTypeOK
  <2> QED
    BY <1>1, <2>1, <2>2
<1>5. ASSUME NEW p \in Page, Associate(p) PROVE RowOwned(c)'
  <2>1. rowFor' = rowFor
    BY <1>5 DEF Associate, history
  <2>2. rowExpires'[c] = rowExpires[c]
    BY <1>5 DEF Associate, SetRow, rowVars, KodiTypeOK
  <2> QED
    BY <1>1, <2>1, <2>2
<1>6. ASSUME NEW b \in Addon,
             \/ Generate(b) \/ StartPolling(b) \/ Abandon(b) \/ Poll(b)
             \/ Receive(b) \/ LoseAnswer(b) \/ GiveUp(b)
      PROVE  UNCHANGED <<rowFor, rowExpires>>
  BY <1>6 DEF Generate, StartPolling, Abandon, Poll, Receive, LoseAnswer, GiveUp,
              rowVars, history
<1>7. CASE (\E p \in Page : Post(p)) \/ Tick \/ UNCHANGED kodiVars
  BY <1>1, <1>7 DEF Post, Tick, kodiVars, rowVars, history
<1> QED
  BY <1>1, <1>2, <1>3, <1>4, <1>5, <1>6, <1>7 DEF KodiNext

\* A row loses its lifetime to the add-on that fetches it, or to the cleanup
\* when it is over.
LEMMA LivesNext == KodiIndInv /\ [KodiNext]_kodiVars => LivesKept'
<1> SUFFICES ASSUME KodiTypeOK, CodeGiven, StampGiven, LivesKept,
                    [KodiNext]_kodiVars,
                    NEW a \in Addon
             PROVE  LifeKept(a)'
  BY DEF KodiIndInv, LivesKept
<1> USE KodiAssumption
<1>1. /\ clock \in Nat /\ issued[a] \in Nat /\ TTL \in Nat /\ LifeKept(a)
      /\ issued[a] + TTL \in Nat
  BY DEF KodiTypeOK, LivesKept
<1>2. clock' \in Nat /\ clock <= clock' /\ consumed \subseteq consumed'
  BY <1>1 DEF KodiNext, kodiVars, Generate, Insert, StartPolling, Abandon, Poll, Consume,
     Receive, LoseAnswer, GiveUp, Post, Associate, Cleanup, Tick, history
<1>3. ASSUME code[a] # NoCode,
             \/ ~OwnsRow(a) /\ rowFor'[code[a]] # a
             \/ ~OwnsRow(a) /\ rowExpires'[code[a]] = 0
             \/ /\ rowExpires'[code[a]] = rowExpires[code[a]]
                /\ rowFor'[code[a]] = rowFor[code[a]]
      PROVE  LifeKept(a)'
  <2>1. code'[a] = code[a] /\ issued'[a] = issued[a]
    BY <1>3, CodesStay
  <2>2. OwnsRow(a) => rowExpires[code[a]] = Stored(issued[a] + TTL)
    BY <1>1, <1>3 DEF LifeKept
  <2>3. ~OwnsRow(a) => a \in consumed' \/ clock' > issued[a] + TTL
    BY <1>1, <1>2, <1>3 DEF LifeKept
  <2>4. OwnsRow(a)' => OwnsRow(a) /\ rowExpires'[code[a]] = rowExpires[code[a]]
    BY <1>3, <2>1 DEF OwnsRow, HasRow
  <2>5. OwnsRow(a) => OwnsRow(a)' /\ rowExpires'[code[a]] = rowExpires[code[a]]
    BY <1>3, <2>1 DEF OwnsRow, HasRow
  <2> QED
    BY <1>3, <2>1, <2>2, <2>3, <2>4, <2>5 DEF LifeKept
<1>4. ASSUME UNCHANGED <<rowExpires, rowFor, code>> PROVE LifeKept(a)'
  BY <1>3, <1>4 DEF LifeKept
<1>5. ASSUME NEW b \in Addon, NEW c \in Code, Insert(b, c) PROVE LifeKept(a)'
  <2>1. CASE HasRow(c)
    BY <1>4, <1>5, <2>1 DEF Insert, rowVars
  <2>2. CASE ~HasRow(c)
    <3>1. /\ code'[b] = c /\ issued'[b] = stamp[b] /\ rowExpires'[c] = Stored(stamp[b] + TTL)
          /\ \A d \in Addon \ {b} : code'[d] = code[d]
          /\ \A d \in Code \ {c} : rowExpires'[d] = rowExpires[d] /\ rowFor'[d] = rowFor[d]
          /\ rowFor'[c] = b
      BY <1>5, <2>2 DEF Insert, SetRow, KodiTypeOK
    <3>2. stamp[b] \in Nat \ {0}
      BY <1>5 DEF Insert, StampGiven, KodiTypeOK
    <3>3. Stored(stamp[b] + TTL) # 0
      BY <3>2, ExpiryKept
    <3>4. CASE a = b
      BY <3>1, <3>3, <3>4 DEF LifeKept, OwnsRow, HasRow
    <3>5. CASE a # b /\ code[a] = c
      <4>1. ~OwnsRow(a) /\ rowFor'[code[a]] # a /\ code[a] # NoCode
        BY <2>2, <3>1, <3>5 DEF OwnsRow
      <4> QED
        BY <1>3, <4>1
    <3>6. CASE a # b /\ code[a] # c
      <4>1. code[a] # NoCode => code[a] \in Code \ {c}
        BY <3>6 DEF KodiTypeOK
      <4> QED
        BY <1>3, <3>1, <3>6, <4>1 DEF LifeKept
    <3> QED
      BY <3>4, <3>5, <3>6
  <2> QED
    BY <2>1, <2>2
<1>6. ASSUME NEW b \in Addon, Consume(b) PROVE LifeKept(a)'
  <2>1. UNCHANGED <<code, rowFor, issued>> /\ code[b] \in Code
    BY <1>6 DEF Consume, CodeGiven, KodiTypeOK
  <2>2. CASE UNCHANGED rowVars
    BY <1>4, <2>1, <2>2 DEF rowVars
  <2>3. CASE SetRow(code[b], NoPage, 0) /\ consumed' = consumed \cup {rowFor[code[b]]}
    <3>1. \A d \in Code : rowExpires'[d] = IF d = code[b] THEN 0 ELSE rowExpires[d]
      BY <2>3 DEF SetRow, KodiTypeOK
    <3>2. CASE code[a] # code[b] /\ code[a] # NoCode
      <4>1. code[a] \in Code
        BY <3>2 DEF KodiTypeOK
      <4> QED
        BY <1>3, <2>1, <3>1, <3>2, <4>1
    <3>3. CASE code[a] = code[b] /\ OwnsRow(a)
      <4>1. a \in consumed' /\ ~OwnsRow(a)'
        BY <2>1, <2>3, <3>1, <3>3 DEF OwnsRow, HasRow
      <4> QED
        BY <4>1 DEF LifeKept
    <3>4. CASE code[a] = code[b] /\ ~OwnsRow(a)
      BY <1>3, <2>1, <3>1, <3>4
    <3> QED
      BY <2>1, <3>2, <3>3, <3>4 DEF LifeKept
  <2> QED
    BY <1>6, <2>2, <2>3 DEF Consume
<1>7. ASSUME NEW c \in Code, Cleanup(c) PROVE LifeKept(a)'
  <2>1. UNCHANGED <<code, issued, clock, consumed, rowFor>> /\ rowExpires[c] # 0
    BY <1>7 DEF Cleanup, addonVars, history, HasRow
  <2>2. \A d \in Code : rowExpires'[d] = IF d = c THEN 0 ELSE rowExpires[d]
    BY <1>7 DEF Cleanup, SetRow, KodiTypeOK
  <2>3. CASE code[a] # NoCode /\ code[a] # c
    <3>1. code[a] \in Code
      BY <2>3 DEF KodiTypeOK
    <3> QED
      BY <1>3, <2>1, <2>2, <2>3, <3>1
  <2>4. CASE code[a] = c /\ OwnsRow(a)
    <3>0. code[a] # NoCode
      BY <2>4
    <3>1. rowExpires[c] = Stored(issued[a] + TTL)
      BY <1>1, <2>4, <3>0 DEF LifeKept
    <3>2. Stored(issued[a] + TTL) < Stored(clock)
      BY <1>7, <3>1 DEF Cleanup
    <3>3. issued[a] + TTL < clock
      BY <1>1, <3>2, LaterIfStoredLater
    <3>4. ~OwnsRow(a)'
      BY <2>1, <2>2, <2>4 DEF OwnsRow, HasRow
    <3> QED
      BY <1>1, <2>1, <3>3, <3>4 DEF LifeKept
  <2>5. CASE code[a] = c /\ ~OwnsRow(a)
    BY <1>3, <2>2, <2>5
  <2> QED
    BY <2>1, <2>3, <2>4, <2>5 DEF LifeKept
<1>8. ASSUME NEW p \in Page, Associate(p) PROVE LifeKept(a)'
  <2>1. UNCHANGED rowExpires
    BY <1>8 DEF Associate, SetRow, rowVars, KodiTypeOK
  <2> QED
    BY <1>4, <1>8, <2>1 DEF Associate, addonVars, history
<1>9. ASSUME NEW b \in Addon,
             \/ Generate(b) \/ StartPolling(b) \/ Abandon(b) \/ Poll(b)
             \/ Receive(b) \/ LoseAnswer(b) \/ GiveUp(b)
      PROVE  UNCHANGED <<rowExpires, rowFor, code>>
  BY <1>9 DEF Generate, StartPolling, Abandon, Poll, Receive, LoseAnswer, GiveUp, rowVars,
              history
<1>10. CASE (\E p \in Page : Post(p)) \/ Tick \/ UNCHANGED kodiVars
  BY <1>4, <1>10 DEF Post, Tick, kodiVars, addonVars, rowVars, history
<1> QED
  BY <1>4, <1>5, <1>6, <1>7, <1>8, <1>9, <1>10 DEF KodiNext

\* What an add-on takes out of the row of its code nobody holds.
LEMMA DeliveryNext == KodiIndInv /\ [KodiNext]_kodiVars => DeliveredByCode'
<1> SUFFICES ASSUME KodiTypeOK, DeliveredByCode, CodeGiven, PagesKept,
                    RowsKept, [KodiNext]_kodiVars
             PROVE  DeliveredByCode'
  BY DEF KodiIndInv
<1> USE KodiAssumption
<1>1. ASSUME NEW a \in Addon, NEW p \in Page, page[p] = "success", pageCode[p] = code[a]
      PROVE  page'[p] = "success" /\ pageCode'[p] = code'[a]
  <2>1. code[a] # NoCode
    BY <1>1 DEF PagesKept, PageKept
  <2> QED
    BY <1>1, <2>1, CodesStay, SuccessStays
<1>2. \A a \in Addon : \A p \in Holds(a) :
         /\ p \in Page /\ page[p] = "success" /\ pageCode[p] = code[a]
         /\ \A b \in Addon \ {a} : p \notin Holds(b)
  <2> SUFFICES ASSUME NEW a \in Addon, NEW p \in Holds(a)
               PROVE  /\ p \in Page /\ page[p] = "success" /\ pageCode[p] = code[a]
                      /\ \A b \in Addon \ {a} : p \notin Holds(b)
    OBVIOUS
  <2>1. p \in Page
    BY DEF Holds, KodiTypeOK
  <2> QED
    BY <2>1 DEF DeliveredByCode
<1>3. CASE HoldsNoMore
  <2>1. \A a \in Addon : Holds(a)' \subseteq Holds(a)
    BY <1>3 DEF HoldsNoMore, Holds
  <2> QED
    BY <1>1, <1>2, <2>1 DEF DeliveredByCode
<1>4. ASSUME NEW a \in Addon, Consume(a) PROVE DeliveredByCode'
  <2>1. UNCHANGED <<got, code, page, pageCode>>
    BY <1>4 DEF Consume, pageVars
  <2>2. CASE UNCHANGED answer
    BY <1>3, <2>1, <2>2 DEF HoldsNoMore
  <2>3. CASE rowConfig[code[a]] # NoPage /\ answer' = [answer EXCEPT ![a] = rowConfig[code[a]]]
    <3> DEFINE p == rowConfig[code[a]]
    <3>1. code[a] \in Code
      BY <1>4 DEF Consume, CodeGiven, KodiTypeOK
    <3>2. p \in Page /\ page[p] = "success" /\ pageCode[p] = code[a]
      BY <2>3, <3>1 DEF RowsKept, RowKept, KodiTypeOK
    <3>3. \A b \in Addon : p \notin Holds(b)
      BY <2>3, <3>1 DEF RowsKept, RowKept, Holds
    <3> HIDE DEF p
    <3>4. answer'[a] = p /\ \A b \in Addon \ {a} : answer'[b] = answer[b]
      BY <2>3 DEF KodiTypeOK, p
    <3>5. Holds(a)' \subseteq Holds(a) \cup {p} /\ \A b \in Addon \ {a} : Holds(b)' = Holds(b)
      BY <2>1, <3>4 DEF Holds
    <3>6. ASSUME NEW b \in Addon, NEW q \in Holds(b)'
          PROVE  page'[q] = "success" /\ pageCode'[q] = code'[b]
      BY <1>2, <2>1, <3>2, <3>5
    <3>7. ASSUME NEW b \in Addon, NEW d \in Addon \ {b} PROVE Holds(b)' \cap Holds(d)' = {}
      BY <1>2, <3>3, <3>5
    <3> QED
      BY <3>6, <3>7 DEF DeliveredByCode
  <2> QED
    BY <1>4, <2>2, <2>3 DEF Consume
<1> QED
  BY <1>3, <1>4, OnlyFetched

LEMMA KodiHolds == KodiSpec => []KodiIndInv
<1>1. KodiIndInv /\ [KodiNext]_kodiVars => KodiIndInv'
  BY KodiTypes, CodesNext, StampsNext, PagesNext, RowsNext, OwnedNext, LivesNext, DeliveryNext
     DEF KodiIndInv
<1> QED
  BY KodiStarts, <1>1, PTL DEF KodiSpec

\* A code serves one add-on at a time, and a configuration one add-on
\* (kodi_pairing.py:26-110): whatever codes are drawn, those of deleted rows
\* included, and however requests, cleanups and the loss of answers interleave, a
\* configuration reaches at most one add-on, which was given the code its page was
\* opened with, and two add-ons share a code only when that of one is used or over.
THEOREM CodesServeOneAddon == KodiSpec => []KodiInv
<1>1. KodiIndInv => OneLiveOwner
  <2> SUFFICES ASSUME KodiTypeOK, LivesKept, NEW a \in Addon, NEW b \in Addon,
                      code[a] = code[b], Live(a), Live(b)
               PROVE  a = b
    BY DEF KodiIndInv, OneLiveOwner
  <2>1. ASSUME NEW d \in Addon, Live(d) PROVE OwnsRow(d)
    <3>1. LifeKept(d) /\ code[d] # NoCode /\ d \notin consumed /\ clock <= issued[d] + TTL
      BY <2>1 DEF LivesKept, Live
    <3>2. clock \in Nat /\ issued[d] + TTL \in Nat
      BY KodiAssumption DEF KodiTypeOK
    <3>3. ~(clock > issued[d] + TTL)
      BY <3>1, <3>2
    <3> QED
      BY <3>1, <3>3 DEF LifeKept
  <2> QED
    BY <2>1 DEF OwnsRow
<1>2. KodiIndInv => KodiInv
  BY <1>1 DEF KodiIndInv, KodiInv
<1> QED
  BY KodiHolds, <1>2, PTL

\* A code is refused only when it was used or its lifetime is over, and accepted
\* for no more than one step of the column beyond its lifetime, or that of the
\* add-on which it was given since (kodi_pairing.py:58-79).
THEOREM CodesLiveTheirLifetime == KodiSpec => ValidForLifetime
<1> DEFINE Right(p) ==
      page[p] = "posted" =>
        LET a == openedFor[p] IN
        /\ page'[p] = "refused" => a \in consumed \/ clock > issued[a] + TTL
        /\ page'[p] = "success" =>
              \E b \in Addon :
                  /\ b = rowFor[pageCode[p]] /\ code[b] = code[a]
                  /\ pageStamp[p] <= issued[b] + TTL + Quantum
<1>1. KodiIndInv /\ [KodiNext]_kodiVars => [\A p \in Page : Right(p)]_kodiVars
  <2> SUFFICES ASSUME KodiTypeOK, PagesKept, RowsOwned, LivesKept, [KodiNext]_kodiVars,
                      NEW p \in Page, page[p] = "posted",
                      page'[p] # "posted"
               PROVE  Right(p)
    BY DEF KodiIndInv
  <2> DEFINE a == openedFor[p]
  <2>1. Associate(p)
    <3>1. ASSUME NEW q \in Page, q # p, Post(q) \/ Associate(q) PROVE FALSE
      BY <3>1 DEF Post, Associate, KodiTypeOK
    <3>2. ~Post(p)
      BY DEF Post
    <3>3. CASE UNCHANGED page
      BY <3>3
    <3>4. ASSUME NEW b \in Addon,
                 \/ Generate(b) \/ (\E c \in Code : Insert(b, c)) \/ StartPolling(b)
                 \/ Abandon(b) \/ Poll(b) \/ Consume(b) \/ Receive(b) \/ LoseAnswer(b)
                 \/ GiveUp(b)
          PROVE  UNCHANGED page
      BY <3>4 DEF Generate, StartPolling, Abandon, Poll, Consume, Receive, LoseAnswer,
                  GiveUp, Insert, pageVars
    <3>5. CASE (\E c \in Code : Cleanup(c)) \/ Tick \/ UNCHANGED kodiVars
      BY <3>3, <3>5 DEF Cleanup, Tick, kodiVars, pageVars
    <3> QED
      BY <3>1, <3>2, <3>3, <3>4, <3>5 DEF KodiNext
  <2>2. /\ a \in Addon /\ issued[a] \in Nat /\ clock \in Nat /\ pageStamp[p] \in Nat
        /\ issued[a] + TTL \in Nat
    BY KodiAssumption DEF KodiTypeOK
  <2>3. /\ pageCode[p] = code[a] /\ code[a] # NoCode /\ pageStamp[p] <= clock
        /\ code[a] \in Code
    BY <2>2 DEF PagesKept, PageKept, KodiTypeOK
  <2>4. CASE Unexpired(code[a], pageStamp[p])
    <3> DEFINE b == rowFor[code[a]]
    <3>1. page'[p] = "success"
      BY <2>1, <2>3, <2>4 DEF Associate, KodiTypeOK
    <3>2. b \in Addon /\ code[b] = code[a] /\ OwnsRow(b)
      BY <2>3, <2>4 DEF Unexpired, RowsOwned, RowOwned, OwnsRow
    <3>3. LifeKept(b) /\ issued[b] \in Nat /\ issued[b] + TTL \in Nat
      BY <3>2, KodiAssumption DEF LivesKept, KodiTypeOK
    <3>4. rowExpires[code[a]] = Stored(issued[b] + TTL)
      BY <2>3, <3>2, <3>3 DEF LifeKept
    <3>5. Stored(pageStamp[p]) <= Stored(issued[b] + TTL)
      <4>1. Stored(issued[b] + TTL) \in Nat /\ Stored(pageStamp[p]) \in Nat
        BY <2>2, <3>3, StoredMonotone
      <4> QED
        BY <2>4, <3>4, <4>1 DEF Unexpired
    <3> DEFINE t == issued[b] + TTL
    <3> HIDE DEF t
    <3>6. pageStamp[p] <= t + Quantum
      BY <2>2, <3>3, <3>5, StoredWithinStep DEF t
    <3> QED
      BY <2>3, <3>1, <3>2, <3>6 DEF t
  <2>5. CASE ~Unexpired(code[a], pageStamp[p])
    <3>1. page'[p] = "refused"
      BY <2>1, <2>3, <2>5 DEF Associate, KodiTypeOK
    <3>2. IF OwnsRow(a) THEN rowExpires[code[a]] = Stored(issued[a] + TTL)
          ELSE a \in consumed \/ clock > issued[a] + TTL
      BY <2>2, <2>3 DEF LivesKept, LifeKept
    <3>3. OwnsRow(a) => clock > issued[a] + TTL
      <4>1. Stored(issued[a] + TTL) \in Nat /\ Stored(pageStamp[p]) \in Nat
        BY <2>2, StoredMonotone
      <4>2. OwnsRow(a) => Stored(issued[a] + TTL) < Stored(pageStamp[p])
        BY <2>5, <3>2, <4>1 DEF Unexpired, OwnsRow
      <4> DEFINE t == issued[a] + TTL
      <4> HIDE DEF t
      <4>3. OwnsRow(a) => t < pageStamp[p]
        BY <2>2, <4>2, LaterIfStoredLater DEF t
      <4>4. t \in Nat
        BY <2>2 DEF t
      <4> QED
        BY <2>2, <2>3, <4>3, <4>4 DEF t
    <3> QED
      BY <3>1, <3>2, <3>3
  <2> QED
    BY <2>4, <2>5
<1> QED
  BY KodiHolds, <1>1, PTL DEF KodiSpec, ValidForLifetime

----------------------------------------------------------------------------
(* The sync of a debrid account. *)

Underway == [at : {"fetch", "upsert", "clean", "mark"}, by : {"warm", "background"},
             time : Nat, offset : Nat, items : SUBSET Magnet, same : BOOLEAN]
Finished == [at : {"release"}, done : {TRUE}, time : Nat, items : SUBSET Magnet, same : BOOLEAN]
Scheduled == [at |-> "scheduled"]
GivenUp == [at |-> "release", done |-> FALSE]

SyncTypes ==
    /\ tick \in Nat /\ FirstTick <= tick
    /\ sync \in [Request -> {NoSync, Scheduled, GivenUp} \cup Underway \cup Finished]
    /\ overrun \in BOOLEAN

\* The account lists each torrent once.
AccountSound ==
    /\ account \in Seq(Magnet)
    /\ \A i, j \in DOMAIN account : account[i] = account[j] => i = j

\* As long as no lock was taken from a sync, the lock's row belongs to it.
BusyOwns ==
    overrun \/ \A r \in Request : Working(r) \/ sync[r].at = "scheduled" => lockRow.owner = r

First(n) == {account[i] : i \in 1..n}

\* The pages that were read are the first items of the account, unless that has
\* changed meanwhile.
PagesRead(r) ==
    LET s == sync[r] IN
    /\ s.at = "fetch" =>
          /\ Cardinality(s.items) < MaxSnapshot
          /\ s.same => s.offset <= Len(account) /\ s.offset < MaxSnapshot /\ s.items = First(s.offset)
    /\ s.at \in {"upsert", "clean", "mark"} =>
          /\ Cardinality(s.items) <= MaxSnapshot
          /\ s.same => Len(account) > MaxSnapshot \/ s.items = First(Len(account))

\* The rows are not younger than the sync; once it has written its own, they
\* are there as long as rows live, and once it has deleted the others, alone.
RowsOf(r) ==
    LET s == sync[r] IN
    Working(r) =>
        /\ s.time \in 1..Stored(tick)
        /\ ~overrun =>
              /\ \A m \in Rows : magnets[m] <= s.time
              /\ s.at \in {"clean", "mark"} =>
                     \/ s.time < Stored(tick - SnapshotTtl)
                     \/ \A m \in s.items : m \in Rows /\ magnets[m] = s.time
              /\ s.at = "mark" => \A m \in Rows : magnets[m] = s.time

\* EndedIsExact, of one request.
Exact(r) ==
    sync[r].at = "release" /\ lockRow.owner = r /\ ~overrun =>
        \/ ~sync[r].done \/ ~sync[r].same \/ Len(account) > MaxSnapshot
        \/ sync[r].time < Stored(tick - SnapshotTtl)
        \/ /\ \A i \in DOMAIN account : account[i] \in Rows
           /\ \A m \in Rows : magnets[m] = sync[r].time

Good(r) == PagesRead(r) /\ RowsOf(r) /\ Exact(r)

SyncIndInv ==
    /\ SyncTypes /\ SyncTypeOK /\ AccountSound /\ BusyOwns
    /\ \A r \in Request : Good(r)

\* ---- what is read of the account
LEMMA SliceCardinality ==
    ASSUME NEW s, NEW a \in Int, NEW b \in Int,
           \A i, j \in a..b : s[i] = s[j] => i = j
    PROVE  /\ IsFiniteSet({s[i] : i \in a..b})
           /\ Cardinality({s[i] : i \in a..b}) = IF a <= b THEN b - a + 1 ELSE 0
<1> DEFINE f == [i \in a..b |-> s[i]]
           S == {s[i] : i \in a..b}
<1>1. f \in [a..b -> S] /\ \A i, j \in a..b : f[i] = f[j] => i = j
  OBVIOUS
<1>2. \A m \in S : \E i \in a..b : f[i] = m
  OBVIOUS
<1> HIDE DEF f, S
<1>3. f \in Bijection(a..b, S)
  BY <1>1, <1>2 DEF Bijection, Injection, Surjection, IsInjective
<1>4. IsFiniteSet(a..b) /\ Cardinality(a..b) = IF a <= b THEN b - a + 1 ELSE 0
  BY FS_Interval
<1>5. IsFiniteSet(S) /\ Cardinality(S) = Cardinality(a..b)
  BY <1>3, <1>4, FS_Bijection DEF ExistsBijection
<1> QED
  BY <1>4, <1>5 DEF S

LEMMA FirstCardinality ==
    ASSUME NEW n \in Nat, AccountSound, n <= Len(account)
    PROVE  IsFiniteSet(First(n)) /\ Cardinality(First(n)) = n /\ First(n) \subseteq Magnet
<1>1. Len(account) \in Nat /\ DOMAIN account = 1..Len(account)
      /\ \A i \in 1..n : i \in DOMAIN account /\ account[i] \in Magnet
  BY DEF AccountSound
<1>2. \A i, j \in 1..n : account[i] = account[j] => i = j
  BY <1>1 DEF AccountSound
<1> DEFINE one == 1
           S == First(n)
<1>3. \A i, j \in one..n : account[i] = account[j] => i = j
  BY <1>2
<1>4. S = {account[i] : i \in one..n}
  BY DEF First
<1>5. one \in Int /\ n \in Int
  OBVIOUS
<1> HIDE DEF one
<1>6. /\ IsFiniteSet({account[i] : i \in one..n})
      /\ Cardinality({account[i] : i \in one..n}) = IF one <= n THEN n - one + 1 ELSE 0
  BY <1>3, <1>5, SliceCardinality
<1>7. IsFiniteSet(S) /\ Cardinality(S) = IF one <= n THEN n - one + 1 ELSE 0
  BY <1>4, <1>6
<1> QED
  BY <1>1, <1>4, <1>7 DEF one, S

\* A page has no more items than asked for; if the account did not change, it
\* ends with the item of its last offset or with the account.
PageOf(offset, limit) ==
    {account[i] : i \in {j \in DOMAIN account : j \in offset + 1..offset + limit}}

LEMMA PageIs ==
    ASSUME NEW offset \in Nat, NEW limit \in Nat, AccountSound
    PROVE  /\ PageOf(offset, limit) \subseteq Magnet
           /\ IsFiniteSet(PageOf(offset, limit)) /\ Cardinality(PageOf(offset, limit)) <= limit
           /\ offset <= Len(account) =>
                 IF offset + limit <= Len(account)
                 THEN /\ First(offset) \cup PageOf(offset, limit) = First(offset + limit)
                      /\ Cardinality(PageOf(offset, limit)) = limit
                 ELSE /\ First(offset) \cup PageOf(offset, limit) = First(Len(account))
                      /\ Cardinality(PageOf(offset, limit)) < limit
<1> DEFINE most == IF offset + limit <= Len(account) THEN offset + limit ELSE Len(account)
           P == PageOf(offset, limit)
<1>1. Len(account) \in Nat /\ DOMAIN account = 1..Len(account) /\ most \in Nat
      /\ \A i \in DOMAIN account : account[i] \in Magnet
  BY DEF AccountSound
<1>2. P \subseteq Magnet
  BY <1>1 DEF PageOf
<1>3. P = {account[i] : i \in offset + 1..most}
  BY <1>1 DEF PageOf
<1>4. IsFiniteSet(P) /\ Cardinality(P) = (IF offset + 1 <= most THEN most - offset ELSE 0)
  <2> DEFINE start == offset + 1
  <2>1. \A i, j \in start..most : account[i] = account[j] => i = j
    BY <1>1 DEF AccountSound
  <2>2. start \in Int /\ most \in Int
    BY <1>1
  <2>3. P = {account[i] : i \in start..most}
    BY <1>3
  <2> HIDE DEF start, most, P
  <2>4. IsFiniteSet(P) /\ Cardinality(P) = (IF start <= most THEN most - start + 1 ELSE 0)
    BY <2>1, <2>2, <2>3, SliceCardinality
  <2> QED
    BY <2>2, <2>4 DEF start
<1>5. offset <= Len(account) => First(offset) \cup P = First(most)
  BY <1>1, <1>3 DEF First
<1> HIDE DEF P
<1>6. Cardinality(P) <= limit
  BY <1>1, <1>4
<1>7. offset <= Len(account) /\ offset + limit <= Len(account) => Cardinality(P) = limit
  BY <1>1, <1>4
<1>8. offset <= Len(account) /\ ~(offset + limit <= Len(account)) => Cardinality(P) < limit
  BY <1>1, <1>4
<1> QED
  BY <1>2, <1>4, <1>5, <1>6, <1>7, <1>8 DEF P

\* Times of this century are not kept as 0.
LEMMA TimesKept ==
    ASSUME tick \in Nat, FirstTick <= tick
    PROVE  /\ Stored(tick) \in Nat /\ 1 <= Stored(tick)
           /\ Stored(tick - SnapshotTtl) \in Nat /\ tick - SnapshotTtl \in Nat
<1>1. SnapshotTtl \in Nat /\ Quantum \in Nat \ {0} /\ Quantum <= 2 * SnapshotTtl + 1
  BY SyncAssumption, QuantumAssumption
<1>2. 2 * tick > Quantum /\ tick - SnapshotTtl \in Nat
  BY <1>1 DEF FirstTick
<1>3. Stored(tick) \in Nat /\ 2 * (tick - Stored(tick) * Quantum) <= Quantum
  BY StoredMonotone, StoredNear
<1>4. Stored(tick) = 0 => Stored(tick) * Quantum = 0
  BY <1>1
<1>5. Stored(tick) # 0
  BY <1>1, <1>2, <1>3, <1>4
<1> DEFINE t == tick - SnapshotTtl
<1>6. Stored(t) \in Nat
  <2> t \in Nat /\ t <= t
    BY <1>2
  <2> HIDE DEF t
  <2> QED
    BY StoredMonotone
<1> QED
  BY <1>2, <1>3, <1>5, <1>6

LEMMA SyncStarts == SyncInit => SyncIndInv
<1> SUFFICES ASSUME SyncInit PROVE SyncIndInv
  OBVIOUS
<1> USE SyncAssumption DEF SyncInit
<1>1. SyncTypes
  <2>1. tick \in Nat /\ FirstTick <= tick
    BY DEF FirstTick
  <2>2. sync \in [Request -> {NoSync, Scheduled, GivenUp} \cup Underway \cup Finished]
    <3> SUFFICES [r \in Request |-> NoSync]
                   \in [Request -> {NoSync, Scheduled, GivenUp} \cup Underway \cup Finished]
      OBVIOUS
    <3> QED
      OBVIOUS
  <2> QED
    BY <2>1, <2>2 DEF SyncTypes
<1>2. AccountSound
  <2>1. CASE account = <<>>
    BY <2>1 DEF AccountSound
  <2>2. ASSUME NEW m \in Magnet, account = <<m>> PROVE AccountSound
    <3>1. account \in Seq(Magnet)
      BY <2>2
    <3>2. DOMAIN account = 1..1
      BY <2>2
    <3> QED
      BY <3>1, <3>2 DEF AccountSound
  <2> QED
    BY <2>1, <2>2
<1>3. \A r \in Request : ~Working(r) /\ sync[r].at \notin {"scheduled", "release"}
  BY DEF Working, NoSync
<1>4. SyncTypeOK
  BY <1>1, <1>3, TimesKept DEF SyncTypeOK, SyncTypes, Rows
<1>5. BusyOwns
  BY <1>3 DEF BusyOwns
<1>6. ASSUME NEW r \in Request PROVE Good(r)
  BY <1>3, <1>6 DEF Good, PagesRead, RowsOf, Exact, Working
<1> QED
  BY <1>1, <1>2, <1>4, <1>5, <1>6 DEF SyncIndInv

\* ---- what a step leaves alone
LEMMA OthersGood ==
    ASSUME NEW k \in Request, Good(k), UNCHANGED <<tick, account, magnets>>,
           sync'[k] = sync[k], ~overrun' => ~overrun,
           lockRow'.owner = k => lockRow.owner = k
    PROVE  Good(k)'
<1>1. PagesRead(k)'
  BY DEF Good, PagesRead, First
<1>2. RowsOf(k)'
  BY DEF Good, RowsOf, Working, Rows
<1>3. Exact(k)'
  BY DEF Good, Exact, Rows
<1> QED
  BY <1>1, <1>2, <1>3 DEF Good

LEMMA WritersAlone ==
    ASSUME BusyOwns, NEW r \in Request, Working(r), NEW k \in Request, k # r, Good(k),
           UNCHANGED <<tick, account, lockRow, overrun>>, sync'[k] = sync[k]
    PROVE  Good(k)'
<1>1. overrun \/ (lockRow.owner = r /\ ~Working(k))
  BY DEF BusyOwns
<1>2. PagesRead(k)'
  BY DEF Good, PagesRead, First
<1>3. RowsOf(k)'
  BY <1>1 DEF Good, RowsOf, Working
<1>4. Exact(k)'
  BY <1>1 DEF Exact
<1> QED
  BY <1>2, <1>3, <1>4 DEF Good

\* A sync that begins has read nothing, and nothing is younger than it.
LEMMA BegunGood ==
    ASSUME SyncTypes, SyncTypeOK, AccountSound, NEW r \in Request, NEW by,
           UNCHANGED <<tick, account, magnets>>, sync'[r] = Begun(by)
    PROVE  Good(r)'
<1>1. PagesRead(r)'
  <2>1. First(0) = {} /\ Cardinality({}) = 0 /\ Len(account) \in Nat
    BY FS_EmptySet DEF First, AccountSound
  <2> QED
    BY <2>1, SyncAssumption DEF PagesRead, Begun, First
<1>2. RowsOf(r)'
  BY TimesKept DEF RowsOf, Begun, SyncTypes, SyncTypeOK, Rows
<1>3. Exact(r)'
  BY DEF Exact, Begun
<1> QED
  BY <1>1, <1>2, <1>3 DEF Good

\* One that is not under way has nothing to keep.
LEMMA IdleGood ==
    ASSUME NEW r \in Request, sync'[r] \in {NoSync, Scheduled, GivenUp}
    PROVE  Good(r)'
  BY DEF Good, PagesRead, RowsOf, Exact, Working, NoSync, Scheduled, GivenUp

----------------------------------------------------------------------------
\* The steps of a request, of a sync, and of what is around them.
LEMMA AcquiredIs ==
    ASSUME NEW r \in Request, Acquired(r), BusyOwns
    PROVE  /\ lockRow'.owner = r
           /\ ~overrun' => /\ ~overrun
                           /\ \A k \in Request :
                                 ~Working(k) /\ sync[k].at # "scheduled"
<1>1. lockRow'.owner = r
  BY DEF Acquired
<1>2. ~overrun' => ~overrun /\ ~\E k \in Request :
                      lockRow.owner = k /\ (Working(k) \/ sync[k].at = "scheduled")
  BY DEF Acquired
<1> QED
  BY <1>1, <1>2 DEF BusyOwns

\* A step of the request that starts or schedules a sync under the lock.
LEMMA AcquiringKeeps ==
    ASSUME SyncIndInv, NEW r \in Request, NEW rec, Acquired(r), sync[r] = NoSync,
           SyncAt(r, rec), rec = Scheduled \/ \E by \in {"warm", "background"} : rec = Begun(by),
           UNCHANGED <<tick, account, magnets>>
    PROVE  BusyOwns' /\ \A k \in Request : Good(k)'
<1> USE DEF SyncIndInv
<1>1. sync' = [sync EXCEPT ![r] = rec] /\ sync'[r] = rec
      /\ \A k \in Request : k # r => sync'[k] = sync[k]
  BY DEF SyncAt, SyncTypes
<1>2. BusyOwns'
  <2> SUFFICES ASSUME ~overrun', NEW k \in Request, (Working(k) \/ sync[k].at = "scheduled")'
               PROVE  lockRow'.owner = k
    BY DEF BusyOwns
  <2>1. k = r
    BY <1>1, AcquiredIs DEF Working
  <2> QED
    BY <2>1, AcquiredIs
<1>3. ASSUME NEW k \in Request, k # r PROVE Good(k)'
  BY <1>1, <1>3, OthersGood, AcquiredIs
<1>4. Good(r)'
  BY <1>1, BegunGood, IdleGood
<1> QED
  BY <1>2, <1>3, <1>4

\* A step of sync r that writes nothing: it leaves the lock or gives up.
LEMMA EndingKeeps ==
    ASSUME SyncIndInv, NEW r \in Request, NEW rec \in {NoSync, GivenUp}, SyncAt(r, rec),
           UNCHANGED <<tick, account, magnets, overrun>>,
           \/ UNCHANGED lockRow
           \/ lockRow.owner = r /\ lockRow'.owner = Nobody
    PROVE  BusyOwns' /\ \A k \in Request : Good(k)'
<1> USE DEF SyncIndInv
<1>1. sync'[r] = rec /\ \A k \in Request : k # r => sync'[k] = sync[k]
  BY DEF SyncAt, SyncTypes
<1>2. BusyOwns'
  <2> SUFFICES ASSUME ~overrun', NEW k \in Request, (Working(k) \/ sync[k].at = "scheduled")'
               PROVE  lockRow'.owner = k
    BY DEF BusyOwns
  <2>1. k # r
    BY <1>1 DEF Working, NoSync, GivenUp
  <2> QED
    BY <1>1, <2>1 DEF Working, BusyOwns
<1>3. ASSUME NEW k \in Request, k # r PROVE Good(k)'
  BY <1>1, <1>3, OthersGood, SyncAssumption
<1>4. Good(r)'
  BY <1>1, IdleGood
<1> QED
  BY <1>2, <1>3, <1>4

\* A step of sync r under its lock.
LEMMA WorkingKeeps ==
    ASSUME SyncIndInv, NEW r \in Request, Working(r), NEW rec, SyncAt(r, rec),
           UNCHANGED <<tick, account, lockRow, overrun>>, Good(r)'
    PROVE  BusyOwns' /\ \A k \in Request : Good(k)'
<1> USE DEF SyncIndInv
<1>1. sync'[r] = rec /\ \A k \in Request : k # r => sync'[k] = sync[k]
  BY DEF SyncAt, SyncTypes
<1>2. BusyOwns'
  <2> SUFFICES ASSUME ~overrun', NEW k \in Request, (Working(k) \/ sync[k].at = "scheduled")'
               PROVE  lockRow'.owner = k
    BY DEF BusyOwns
  <2>1. CASE k = r
    BY <2>1 DEF BusyOwns
  <2>2. CASE k # r
    BY <1>1, <2>2 DEF Working, BusyOwns
  <2> QED
    BY <2>1, <2>2
<1>3. ASSUME NEW k \in Request, k # r PROVE Good(k)'
  BY <1>1, <1>3, WritersAlone
<1> QED
  BY <1>2, <1>3

\* What a sync under way is.
LEMMA UnderwayIs ==
    ASSUME SyncTypes, NEW r \in Request, Working(r)
    PROVE  sync[r] \in Underway
<1>1. sync[r] \in {NoSync, Scheduled, GivenUp} \cup Underway \cup Finished
  BY DEF SyncTypes
<1>2. sync[r] \notin {NoSync, Scheduled, GivenUp}
  BY DEF Working, NoSync, Scheduled, GivenUp
<1>3. sync[r] \notin Finished
  BY DEF Working, Finished
<1> QED
  BY <1>1, <1>2, <1>3

LEMMA FetchKeeps ==
    ASSUME SyncIndInv, NEW r \in Request, Fetch(r)
    PROVE  sync'[r] \in Underway /\ Good(r)'
<1> DEFINE s == sync[r]
           limit == PageLimit(s)
           P == PageOf(s.offset, limit)
           t == sync'[r]
<1>1. Working(r) /\ SyncTypes /\ AccountSound /\ Good(r) /\ SyncTypeOK
  BY DEF Fetch, Working, SyncIndInv
<1>2. s \in Underway /\ s.at = "fetch"
  BY <1>1, UnderwayIs DEF Fetch
<1>3. /\ s.time \in Nat /\ s.offset \in Nat /\ s.items \subseteq Magnet /\ s.same \in BOOLEAN
      /\ s.by \in {"warm", "background"}
  BY <1>2 DEF Underway
<1>4. /\ IsFiniteSet(s.items) /\ Cardinality(s.items) \in Nat
      /\ Cardinality(s.items) < MaxSnapshot /\ MaxSnapshot \in Nat /\ PageSize \in Nat \ {0}
  BY <1>1, <1>2, <1>3, SyncAssumption, FS_Subset, FS_CardinalityType DEF Good, PagesRead
<1>5. limit \in Nat \ {0} /\ limit <= MaxSnapshot - Cardinality(s.items)
  BY <1>4 DEF PageLimit
<1> DEFINE items == s.items \cup P
           offset == s.offset + limit
           last == Cardinality(P) < limit \/ offset >= Len(account)
                   \/ Cardinality(items) >= MaxSnapshot
<1>6. t = [s EXCEPT !.items = items, !.offset = offset, !.at = IF last THEN "upsert" ELSE "fetch"]
  <2>1. sync' = [sync EXCEPT ![r] =
                   IF last THEN [[s EXCEPT !.items = items, !.offset = offset] EXCEPT !.at = "upsert"]
                           ELSE [s EXCEPT !.items = items, !.offset = offset]]
    BY DEF Fetch, SyncAt, PageOf
  <2>2. t = IF last THEN [[s EXCEPT !.items = items, !.offset = offset] EXCEPT !.at = "upsert"]
                    ELSE [s EXCEPT !.items = items, !.offset = offset]
    BY <1>1, <2>1 DEF SyncTypes
  <2> HIDE DEF items, offset, last, t
  <2> QED
    BY <1>2, <2>2 DEF Underway
<1> HIDE DEF limit, P
<1>7. /\ P \subseteq Magnet /\ IsFiniteSet(P) /\ Cardinality(P) <= limit /\ Cardinality(P) \in Nat
      /\ s.offset <= Len(account) =>
           IF s.offset + limit <= Len(account)
           THEN First(s.offset) \cup P = First(s.offset + limit) /\ Cardinality(P) = limit
           ELSE First(s.offset) \cup P = First(Len(account)) /\ Cardinality(P) < limit
  BY <1>1, <1>3, <1>5, PageIs, FS_CardinalityType DEF P
<1>8. items \subseteq Magnet /\ offset \in Nat /\ Len(account) \in Nat
  BY <1>1, <1>3, <1>5, <1>7 DEF AccountSound
<1>9. IsFiniteSet(items) /\ Cardinality(items) \in Nat /\ Cardinality(items) <= MaxSnapshot
  <2>1. /\ IsFiniteSet(items) /\ Cardinality(items) \in Nat
        /\ Cardinality(items) <= Cardinality(s.items) + Cardinality(P)
    <3>1. /\ IsFiniteSet(items)
          /\ Cardinality(items) =
                Cardinality(s.items) + Cardinality(P) - Cardinality(s.items \cap P)
      BY <1>4, <1>7, FS_Union
    <3>2. Cardinality(s.items \cap P) \in Nat
      BY <1>4, FS_Intersection, FS_CardinalityType
    <3>3. Cardinality(items) \in Nat
      BY <3>1, FS_CardinalityType
    <3> HIDE DEF items
    <3> QED
      BY <1>4, <1>7, <3>1, <3>2, <3>3
  <2> HIDE DEF items
  <2> QED
    BY <1>4, <1>5, <1>7, <2>1
<1>10. s.same => items = First(IF offset <= Len(account) THEN offset ELSE Len(account))
  <2>1. s.same => s.offset <= Len(account) /\ s.items = First(s.offset)
    BY <1>1, <1>2 DEF Good, PagesRead
  <2> QED
    BY <1>7, <2>1
<1>11. s.same /\ offset <= Len(account) => Cardinality(P) = limit
  <2>1. s.same => s.offset <= Len(account)
    BY <1>1, <1>2 DEF Good, PagesRead
  <2> QED
    BY <1>7, <2>1
<1>12. s.same => Cardinality(items) = IF offset <= Len(account) THEN offset ELSE Len(account)
  <2> DEFINE n == IF offset <= Len(account) THEN offset ELSE Len(account)
  <2>1. n \in Nat /\ n <= Len(account)
    BY <1>8
  <2> HIDE DEF n
  <2>2. Cardinality(First(n)) = n
    BY <1>1, <2>1, FirstCardinality
  <2> QED
    BY <1>10, <2>2 DEF n
<1> HIDE DEF items, offset, s
<1>13. /\ t.items = items /\ t.offset = offset /\ t.at = (IF last THEN "upsert" ELSE "fetch")
       /\ t.same = s.same /\ t.time = s.time /\ t \in Underway
  <2> HIDE DEF last
  <2> QED
    BY <1>2, <1>6, <1>8 DEF Underway
<1>14. PagesRead(r)'
  <2>1. CASE last
    <3>1. t.at = "upsert"
      BY <1>13, <2>1
    <3>2. Cardinality(t.items) <= MaxSnapshot
      BY <1>9, <1>13
    <3>3. t.same => Len(account) > MaxSnapshot \/ t.items = First(Len(account))
      <4> SUFFICES ASSUME s.same PROVE Len(account) > MaxSnapshot \/ items = First(Len(account))
        BY <1>13
      <4>1. CASE ~(offset <= Len(account))
        BY <1>10, <4>1
      <4>2. CASE offset <= Len(account)
        <5>1. Cardinality(P) = limit /\ Cardinality(items) = offset
          BY <1>11, <1>12, <4>2
        <5>2. offset = Len(account) \/ offset >= MaxSnapshot
          BY <1>5, <1>8, <2>1, <4>2, <5>1
        <5>3. offset = Len(account) => items = First(Len(account))
          BY <1>10, <4>2
        <5>4. offset >= MaxSnapshot /\ offset # Len(account) => Len(account) > MaxSnapshot
          BY <1>4, <1>8, <4>2
        <5> QED
          BY <5>2, <5>3, <5>4
      <4> QED
        BY <4>1, <4>2
    <3> QED
      BY <3>1, <3>2, <3>3 DEF PagesRead, First, Fetch
  <2>2. CASE ~last
    <3>1. t.at = "fetch" /\ Cardinality(items) < MaxSnapshot /\ offset < Len(account)
      BY <1>4, <1>8, <1>9, <1>13, <2>2
    <3>2. t.same => items = First(offset) /\ offset < MaxSnapshot
      BY <1>8, <1>10, <1>12, <1>13, <3>1
    <3>3. offset <= Len(account)
      BY <1>8, <3>1
    <3> QED
      BY <1>13, <3>1, <3>2, <3>3 DEF PagesRead, First, Fetch
  <2> QED
    BY <2>1, <2>2
<1>15. RowsOf(r)'
  BY <1>1, <1>13 DEF Good, RowsOf, Working, Rows, Fetch, s
<1>16. Exact(r)'
  BY <1>13 DEF Exact
<1> QED
  BY <1>13, <1>14, <1>15, <1>16 DEF Good

LEMMA UpsertKeeps ==
    ASSUME SyncIndInv, NEW r \in Request, Upsert(r, sync[r].items)
    PROVE  sync'[r] \in Underway /\ Good(r)'
<1> DEFINE s == sync[r]
<1>1. Working(r) /\ SyncTypes /\ Good(r) /\ s.at = "upsert"
  BY DEF Upsert, Working, SyncIndInv
<1>2. s \in Underway
  BY <1>1, UnderwayIs
<1>3. sync'[r] = [s EXCEPT !.at = "clean"]
  BY <1>1 DEF Upsert, SyncAt, SyncTypes
<1>4. DOMAIN magnets' = Rows \cup s.items
      /\ \A m \in Rows \cup s.items : magnets'[m] = IF m \in s.items THEN s.time ELSE magnets[m]
  BY DEF Upsert
<1> HIDE DEF s
<1>5. /\ sync'[r] \in Underway /\ sync'[r].at = "clean" /\ sync'[r].items = s.items
      /\ sync'[r].time = s.time /\ sync'[r].same = s.same
  BY <1>2, <1>3 DEF Underway
<1>6. PagesRead(r)'
  BY <1>1, <1>5 DEF Good, PagesRead, First, Upsert, s
<1>7. RowsOf(r)'
  <2>1. s.time \in 1..Stored(tick) /\ (~overrun => \A m \in Rows : magnets[m] <= s.time)
    BY <1>1 DEF Good, RowsOf, s
  <2>2. Stored(tick) \in Nat
    BY <1>1, TimesKept DEF SyncTypes
  <2>3. UNCHANGED <<tick, overrun>>
    BY DEF Upsert
  <2>4. ~overrun => \A m \in Rows' : magnets'[m] <= s.time
    BY <1>4, <2>1, <2>2 DEF Rows
  <2>5. \A m \in s.items : m \in Rows' /\ magnets'[m] = s.time
    BY <1>4 DEF Rows
  <2> QED
    BY <1>5, <2>1, <2>3, <2>4, <2>5 DEF RowsOf
<1>8. Exact(r)'
  BY <1>5 DEF Exact
<1> QED
  BY <1>5, <1>6, <1>7, <1>8 DEF Good

LEMMA CleanKeeps ==
    ASSUME SyncIndInv, NEW r \in Request, Clean(r)
    PROVE  sync'[r] \in Underway /\ Good(r)'
<1> DEFINE s == sync[r]
<1>1. Working(r) /\ SyncTypes /\ SyncTypeOK /\ Good(r) /\ s.at = "clean"
  BY DEF Clean, Working, SyncIndInv
<1>2. s \in Underway
  BY <1>1, UnderwayIs
<1>3. sync'[r] = [s EXCEPT !.at = "mark"]
  BY <1>1 DEF Clean, SyncAt, SyncTypes
<1>4. DOMAIN magnets' = Rows \ Outdated(s) /\ \A m \in Rows \ Outdated(s) : magnets'[m] = magnets[m]
  BY DEF Clean
<1> HIDE DEF s
<1>5. /\ sync'[r] \in Underway /\ sync'[r].at = "mark" /\ sync'[r].items = s.items
      /\ sync'[r].time = s.time /\ sync'[r].same = s.same
  BY <1>2, <1>3 DEF Underway
<1>6. PagesRead(r)'
  BY <1>1, <1>5 DEF Good, PagesRead, First, Clean, s
<1>7. RowsOf(r)'
  <2>1. /\ s.time \in 1..Stored(tick)
        /\ ~overrun => /\ \A m \in Rows : magnets[m] <= s.time
                       /\ \/ s.time < Stored(tick - SnapshotTtl)
                          \/ \A m \in s.items : m \in Rows /\ magnets[m] = s.time
    BY <1>1 DEF Good, RowsOf, s
  <2>2. Stored(tick) \in Nat /\ s.time \in Nat /\ \A m \in Rows : magnets[m] \in Nat
    BY <1>1, <2>1, TimesKept DEF SyncTypes, SyncTypeOK
  <2>3. UNCHANGED <<tick, overrun>>
    BY DEF Clean
  <2>4. ~overrun => \A m \in Rows' : magnets'[m] = s.time
    <3> SUFFICES ASSUME ~overrun, NEW m \in Rows' PROVE magnets'[m] = s.time
      OBVIOUS
    <3>1. m \in Rows /\ m \notin Outdated(s) /\ magnets'[m] = magnets[m]
      BY <1>4 DEF Rows
    <3>2. ~(magnets[m] < s.time) /\ magnets[m] <= s.time
      BY <2>1, <3>1 DEF Outdated
    <3> QED
      BY <2>2, <3>1, <3>2
  <2>5. ASSUME NEW m \in s.items, m \in Rows, magnets[m] = s.time
        PROVE  m \in Rows' /\ magnets'[m] = s.time
    <3>1. m \notin Outdated(s)
      BY <2>2, <2>5 DEF Outdated
    <3> QED
      BY <1>4, <2>5, <3>1 DEF Rows
  <2>6. ~overrun => \A m \in Rows' : magnets'[m] <= s.time
    BY <2>2, <2>4
  <2> QED
    BY <1>5, <2>1, <2>3, <2>4, <2>5, <2>6 DEF RowsOf
<1>8. Exact(r)'
  BY <1>5 DEF Exact
<1> QED
  BY <1>5, <1>6, <1>7, <1>8 DEF Good

LEMMA MarkKeeps ==
    ASSUME SyncIndInv, NEW r \in Request, Mark(r)
    PROVE  sync'[r] \in Finished /\ Good(r)'
<1> DEFINE s == sync[r]
<1>1. Working(r) /\ SyncTypes /\ AccountSound /\ Good(r) /\ s.at = "mark"
  BY DEF Mark, Working, SyncIndInv
<1>2. s \in Underway
  BY <1>1, UnderwayIs
<1>3. sync'[r] = [at |-> "release", done |-> TRUE, time |-> s.time, items |-> s.items,
                  same |-> s.same]
  BY <1>1 DEF Mark, SyncAt, SyncTypes
<1> HIDE DEF s
<1>4. /\ sync'[r] \in Finished /\ sync'[r].at = "release" /\ sync'[r].time = s.time
      /\ sync'[r].same = s.same
  BY <1>2, <1>3 DEF Underway, Finished
<1>5. PagesRead(r)' /\ RowsOf(r)'
  BY <1>4 DEF PagesRead, RowsOf, Working
<1>6. Exact(r)'
  <2> SUFFICES ASSUME ~overrun, s.same, ~(Len(account) > MaxSnapshot),
                      ~(s.time < Stored(tick - SnapshotTtl))
               PROVE  /\ \A i \in DOMAIN account : account[i] \in Rows
                      /\ \A m \in Rows : magnets[m] = s.time
    BY <1>4 DEF Exact, Mark, Rows
  <2>1. s.items = First(Len(account)) /\ \A m \in Rows : magnets[m] = s.time
    BY <1>1 DEF Good, PagesRead, RowsOf, s
  <2>2. \A m \in s.items : m \in Rows
    BY <1>1 DEF Good, RowsOf, s
  <2>3. \A i \in DOMAIN account : account[i] \in First(Len(account))
    BY <1>1 DEF AccountSound, First
  <2> QED
    BY <2>1, <2>2, <2>3
<1> QED
  BY <1>4, <1>5, <1>6 DEF Good

\* The account changes: what syncs have read is no longer it.
LEMMA AccountChanges ==
    ASSUME SyncIndInv, NEW list, SetAccount(list), list \in Seq(Magnet),
           \A i, j \in DOMAIN list : list[i] = list[j] => i = j
    PROVE  SyncTypes' /\ AccountSound' /\ BusyOwns' /\ \A k \in Request : Good(k)'
<1> USE DEF SyncIndInv
<1>1. AccountSound'
  BY DEF SetAccount, AccountSound
<1>2. ASSUME NEW k \in Request
      PROVE  /\ sync'[k] \in {NoSync, Scheduled, GivenUp} \cup Underway \cup Finished
             /\ sync'[k].at = sync[k].at
             /\ sync'[k] \in Underway => /\ ~sync'[k].same
                                         /\ sync'[k].items = sync[k].items
                                         /\ sync'[k].time = sync[k].time
             /\ sync'[k] \in Finished => ~sync'[k].same
             /\ sync'[k] = GivenUp => ~sync'[k].done
             /\ sync[k] \in Underway <=> sync'[k] \in Underway
  <2>1. sync'[k] = IF "same" \in DOMAIN sync[k] THEN [sync[k] EXCEPT !.same = FALSE] ELSE sync[k]
    BY DEF SetAccount
  <2>2. CASE sync[k] \in {NoSync, Scheduled, GivenUp}
    <3>1. sync'[k] = sync[k]
      BY <2>1, <2>2 DEF NoSync, Scheduled, GivenUp
    <3>2. sync[k] \notin Underway
      BY <2>2 DEF NoSync, Scheduled, GivenUp, Underway
    <3>3. sync[k] \notin Finished
      <4>1. sync[k] \in Finished => sync[k].at = "release" /\ sync[k].done = TRUE
        BY DEF Finished
      <4>2. NoSync.at # "release" /\ Scheduled.at # "release" /\ GivenUp.done = FALSE
        BY DEF NoSync, Scheduled, GivenUp
      <4> QED
        BY <2>2, <4>1, <4>2
    <3>4. ~GivenUp.done
      BY DEF GivenUp
    <3> QED
      BY <2>2, <3>1, <3>2, <3>3, <3>4
  <2>3. CASE sync[k] \in Underway
    <3>1. sync'[k] = [sync[k] EXCEPT !.same = FALSE]
      BY <2>1, <2>3 DEF Underway
    <3>2. sync'[k] \in Underway /\ sync'[k] \notin Finished /\ sync'[k] # GivenUp
      BY <2>3, <3>1 DEF Underway, Finished, GivenUp
    <3>3. /\ sync'[k].same = FALSE /\ sync'[k].items = sync[k].items
          /\ sync'[k].time = sync[k].time /\ sync'[k].at = sync[k].at
      BY <2>3, <3>1 DEF Underway
    <3>4. ~sync'[k].same
      BY <3>3
    <3> QED
      BY <2>3, <3>2, <3>3, <3>4
  <2>4. CASE sync[k] \in Finished
    <3>1. sync'[k] = [sync[k] EXCEPT !.same = FALSE]
      BY <2>1, <2>4 DEF Finished
    <3>2. sync'[k] \in Finished /\ sync'[k] \notin Underway
      BY <2>4, <3>1 DEF Underway, Finished
    <3>3. sync[k] \notin Underway
      BY <2>4 DEF Underway, Finished
    <3>4. sync'[k].same = FALSE /\ sync'[k].done = TRUE /\ sync'[k].at = sync[k].at
      BY <2>4, <3>1 DEF Finished
    <3>5. sync'[k] # GivenUp
      BY <3>4 DEF GivenUp
    <3> QED
      BY <3>2, <3>3, <3>4, <3>5
  <2> QED
    BY <2>2, <2>3, <2>4 DEF SyncTypes
<1>3. SyncTypes'
  <2>1. sync' = [k \in Request |-> sync'[k]]
    BY DEF SetAccount
  <2>2. sync' \in [Request -> {NoSync, Scheduled, GivenUp} \cup Underway \cup Finished]
    BY <1>2, <2>1
  <2> QED
    BY <2>2 DEF SyncTypes, SetAccount
<1>4. \A k \in Request : Working(k)' <=> Working(k)
  BY <1>2 DEF Working
<1>5. BusyOwns'
  BY <1>2, <1>4 DEF BusyOwns, SetAccount
<1>6. ASSUME NEW k \in Request PROVE Good(k)'
  <2>1. CASE Working(k)
    <3>1. sync'[k] \in Underway /\ sync[k] \in Underway
      BY <1>2, <2>1, UnderwayIs
    <3>2. PagesRead(k)'
      BY <1>2, <3>1 DEF Good, PagesRead
    <3>3. RowsOf(k)'
      BY <1>2, <1>4, <3>1, <2>1 DEF Good, RowsOf, SetAccount, Rows
    <3>4. Exact(k)'
      BY <1>4, <2>1 DEF Exact, Working
    <3> QED
      BY <3>2, <3>3, <3>4 DEF Good
  <2>2. CASE ~Working(k)
    <3>1. PagesRead(k)' /\ RowsOf(k)'
      BY <1>4, <2>2 DEF PagesRead, RowsOf, Working
    <3>2. Exact(k)'
      <4>1. sync'[k].at = "release" => sync'[k] \in Finished \/ sync'[k] = GivenUp
        BY <1>2 DEF NoSync, Scheduled, Underway
      <4> QED
        BY <1>2, <4>1 DEF Exact
    <3> QED
      BY <3>1, <3>2 DEF Good
  <2> QED
    BY <2>1, <2>2
<1> QED
  BY <1>1, <1>3, <1>5, <1>6

\* Time passes, and rows are deleted when they are old.
LEMMA AgeingKeeps ==
    ASSUME SyncIndInv, CleanExpired \/ TimePasses
    PROVE  BusyOwns' /\ \A k \in Request : Good(k)'
<1> USE DEF SyncIndInv
<1>1. UNCHANGED <<account, lockRow, sync, overrun>>
  BY DEF CleanExpired, TimePasses
<1>2. BusyOwns'
  BY <1>1 DEF BusyOwns, Working
<1>3. /\ tick \in Nat /\ tick' \in Nat /\ tick <= tick'
      /\ SnapshotTtl \in Nat /\ FirstTick <= tick /\ FirstTick <= tick'
  <2>1. tick \in Nat /\ FirstTick <= tick
    BY DEF SyncTypes
  <2>2. tick' = tick \/ tick' = tick + 1
    BY DEF CleanExpired, TimePasses
  <2> QED
    BY <2>1, <2>2, SyncAssumption DEF FirstTick
<1>4. /\ Stored(tick) \in Nat /\ Stored(tick)' \in Nat /\ Stored(tick) <= Stored(tick)'
      /\ Stored(tick - SnapshotTtl) \in Nat /\ Stored(tick - SnapshotTtl)' \in Nat
      /\ Stored(tick - SnapshotTtl) <= Stored(tick - SnapshotTtl)'
  <2> DEFINE old == tick - SnapshotTtl
             new == tick' - SnapshotTtl
  <2>1. tick \in Nat /\ tick' \in Nat /\ old \in Nat /\ new \in Nat /\ old <= new
    <3> DEFINE now == tick'
    <3>1. /\ tick \in Nat /\ now \in Nat /\ SnapshotTtl \in Nat /\ tick <= now
          /\ SnapshotTtl + 1 <= tick
      BY <1>3 DEF FirstTick
    <3> HIDE DEF now
    <3>2. /\ tick - SnapshotTtl \in Nat /\ now - SnapshotTtl \in Nat
          /\ tick - SnapshotTtl <= now - SnapshotTtl
      BY <3>1
    <3> QED
      BY <3>1, <3>2 DEF now
  <2> HIDE DEF old, new
  <2>2. Stored(old) \in Nat /\ Stored(old) <= Stored(new)
    BY <2>1, StoredMonotone
  <2>3. Stored(new) \in Nat /\ new <= new
    BY <2>1, StoredMonotone
  <2>4. Stored(tick) \in Nat /\ Stored(tick) <= Stored(tick') /\ Stored(tick') \in Nat
    BY <1>3, <2>1, StoredMonotone
  <2> QED
    BY <2>2, <2>3, <2>4 DEF old, new
<1>5. /\ Rows' \subseteq Rows /\ \A m \in Rows' : magnets'[m] = magnets[m]
      /\ \A m \in Rows : m \in Rows' \/ magnets[m] < Stored(tick - SnapshotTtl)
  <2>1. CASE CleanExpired
    <3>1. \A m \in Rows : magnets[m] \in Nat
      BY <1>4 DEF SyncTypeOK
    <3> QED
      BY <1>4, <2>1, <3>1 DEF CleanExpired, Rows
  <2>2. CASE TimePasses
    BY <2>2 DEF TimePasses, Rows
  <2> QED
    BY <2>1, <2>2
<1>6. ASSUME NEW k \in Request PROVE Good(k)'
  <2> DEFINE s == sync[k]
             out == Stored(tick - SnapshotTtl)
  <2>1. PagesRead(k)'
    BY <1>1 DEF Good, PagesRead, First
  <2>2. RowsOf(k)'
    <3> SUFFICES ASSUME Working(k) PROVE RowsOf(k)'
      BY <1>1 DEF RowsOf, Working
    <3>1. s.time \in 1..Stored(tick)
      BY DEF Good, RowsOf
    <3>2. s.time \in 1..Stored(tick)'
      BY <1>4, <3>1
    <3>3. s.time < out => s.time < out'
      BY <1>1, <1>4, <3>1
    <3>4. ASSUME NEW m \in s.items, m \in Rows, magnets[m] = s.time
          PROVE  s.time < out' \/ (m \in Rows' /\ magnets'[m] = s.time)
      BY <1>4, <1>5, <3>1, <3>3, <3>4
    <3>5. ASSUME ~overrun
          PROVE  /\ \A m \in Rows' : magnets'[m] <= s.time
                 /\ s.at \in {"clean", "mark"} =>
                        \/ s.time < out' \/ \A m \in s.items : m \in Rows' /\ magnets'[m] = s.time
                 /\ s.at = "mark" => \A m \in Rows' : magnets'[m] = s.time
      <4>1. /\ \A m \in Rows : magnets[m] <= s.time
            /\ s.at \in {"clean", "mark"} =>
                     \/ s.time < out
                     \/ \A m \in s.items : m \in Rows /\ magnets[m] = s.time
            /\ s.at = "mark" => \A m \in Rows : magnets[m] = s.time
        BY <3>5 DEF Good, RowsOf
      <4> HIDE DEF out
      <4> QED
        BY <1>5, <3>3, <3>4, <4>1
    <3> QED
      BY <1>1, <3>2, <3>5 DEF RowsOf
  <2>3. Exact(k)'
    <3> SUFFICES ASSUME s.at = "release", lockRow.owner = k, ~overrun, s.done, s.same,
                        ~(Len(account) > MaxSnapshot), ~(s.time < out')
                 PROVE  /\ \A i \in DOMAIN account : account[i] \in Rows'
                        /\ \A m \in Rows' : magnets'[m] = s.time
      BY <1>1 DEF Exact
    <3>1. s \in Finished
      BY DEF SyncTypes, Underway, NoSync, Scheduled, GivenUp
    <3>2. s.time \in Nat
      BY <3>1 DEF Finished
    <3>3. ~(s.time < out)
      BY <1>1, <1>4, <3>2
    <3>4. /\ \A i \in DOMAIN account : account[i] \in Rows
          /\ \A m \in Rows : magnets[m] = s.time
      BY <3>3 DEF Good, Exact
    <3>5. \A m \in Rows : m \in Rows'
      BY <1>5, <3>3, <3>4
    <3> QED
      BY <1>5, <3>4, <3>5
  <2> QED
    BY <2>1, <2>2, <2>3 DEF Good
<1> QED
  BY <1>2, <1>6

\* What happens to one sync or request, with the fields of the records.
LEMMA RequestStepKeeps ==
    ASSUME SyncIndInv, NEW r \in Request,
           SyncStep(r) \/ RequestStep(r) \/ Trigger(r)
           \/ (\E part \in SUBSET Magnet : Upsert(r, part)) \/ SyncFails(r) \/ SyncCrash(r)
    PROVE  SyncTypes' /\ AccountSound' /\ BusyOwns' /\ \A k \in Request : Good(k)'
<1> USE DEF SyncIndInv
<1> DEFINE Goal == SyncTypes' /\ AccountSound' /\ BusyOwns' /\ \A k \in Request : Good(k)'
           Rec == {NoSync, Scheduled, GivenUp} \cup Underway \cup Finished
<1>1. /\ UNCHANGED <<tick, account>>
      /\ overrun' \in BOOLEAN
  BY DEF SyncStep, RequestStep, Trigger, SyncFails, SyncCrash, StartScheduled, Fetch, Upsert,
         Clean, Mark, Release, Ensure, LockAccount, Warmed, WarmTimeout, PollAccount, Schedule,
         Acquired, Refused, SyncTypes
<1>2. AccountSound'
  BY <1>1 DEF AccountSound
<1>3. ASSUME NEW rec \in Rec, SyncAt(r, rec) PROVE SyncTypes'
  BY <1>1, <1>3 DEF SyncAt, SyncTypes
<1>4. CASE UNCHANGED <<tick, account, magnets, lockRow, sync, overrun>>
  <2>1. \A k \in Request : Good(k)'
    BY <1>4, OthersGood
  <2> QED
    BY <1>2, <1>4, <2>1 DEF SyncTypes, BusyOwns, Working
<1>5. ASSUME NEW rec, Acquired(r), sync[r] = NoSync, SyncAt(r, rec),
             rec = Scheduled \/ \E by \in {"warm", "background"} : rec = Begun(by),
             UNCHANGED magnets
      PROVE  Goal
  <2>1. \A by \in {"warm", "background"} : Begun(by) \in Rec
    BY TimesKept DEF Begun, Underway, SyncTypes
  <2>2. rec \in Rec
    BY <1>5, <2>1
  <2> QED
    BY <1>1, <1>2, <1>3, <1>5, <2>2, AcquiringKeeps
<1>6. CASE LockAccount(r)
  BY <1>4, <1>5, <1>6 DEF LockAccount, Refused
<1>7. CASE Schedule(r)
  <2>1. \/ UNCHANGED <<tick, account, magnets, lockRow, sync, overrun>>
        \/ sync[r] = NoSync /\ Acquired(r) /\ SyncAt(r, Scheduled) /\ UNCHANGED magnets
    BY <1>7 DEF Schedule, Refused, Scheduled, MaySync
  <2> QED
    BY <1>4, <1>5, <2>1
<1>8. CASE Trigger(r)
  BY <1>5, <1>8 DEF Trigger
<1>9. CASE Ensure(r) \/ Warmed(r) \/ PollAccount(r)
  BY <1>4, <1>9 DEF Ensure, Warmed, PollAccount
<1>10. ASSUME NEW rec \in {NoSync, GivenUp}, SyncAt(r, rec), UNCHANGED <<magnets, overrun>>,
              UNCHANGED lockRow \/ (lockRow.owner = r /\ lockRow'.owner = Nobody)
       PROVE  Goal
  BY <1>1, <1>2, <1>3, <1>10, EndingKeeps
<1>11. CASE WarmTimeout(r) \/ SyncFails(r)
  BY <1>10, <1>11 DEF WarmTimeout, SyncFails, Cancelled, GivenUp
<1>12. CASE SyncCrash(r)
  BY <1>10, <1>12 DEF SyncCrash
<1>13. CASE Release(r)
  BY <1>10, <1>13 DEF Release
<1>14. CASE StartScheduled(r)
  <2>1. SyncAt(r, Begun("background")) /\ UNCHANGED <<tick, account, magnets, lockRow, overrun>>
        /\ sync[r].at = "scheduled"
    BY <1>14 DEF StartScheduled
  <2>2. sync'[r] = Begun("background") /\ \A k \in Request : k # r => sync'[k] = sync[k]
    BY <2>1 DEF SyncAt, SyncTypes
  <2>3. Begun("background") \in Rec
    BY TimesKept DEF Begun, Underway, SyncTypes
  <2>4. BusyOwns'
    <3> SUFFICES ASSUME ~overrun', NEW k \in Request, (Working(k) \/ sync[k].at = "scheduled")'
                 PROVE  lockRow'.owner = k
      BY DEF BusyOwns
    <3>1. CASE k = r
      BY <2>1, <3>1 DEF BusyOwns
    <3>2. CASE k # r
      BY <2>1, <2>2, <3>2 DEF Working, BusyOwns
    <3> QED
      BY <3>1, <3>2
  <2>5. ASSUME NEW k \in Request PROVE Good(k)'
    BY <2>1, <2>2, OthersGood, BegunGood
  <2> QED
    BY <1>2, <1>3, <2>1, <2>3, <2>4, <2>5
<1>15. ASSUME NEW rec \in Rec, SyncAt(r, rec), Working(r), UNCHANGED <<lockRow, overrun>>, Good(r)'
       PROVE  Goal
  BY <1>1, <1>2, <1>3, <1>15, WorkingKeeps
<1>16. CASE Fetch(r)
  <2>1. sync' = [sync EXCEPT ![r] = sync'[r]]
    BY <1>16 DEF Fetch, SyncAt, SyncTypes
  <2>2. Working(r) /\ UNCHANGED <<lockRow, overrun>>
    BY <1>16 DEF Fetch, Working
  <2> QED
    BY <1>15, <1>16, <2>1, <2>2, FetchKeeps DEF SyncAt
<1>17. CASE Upsert(r, sync[r].items)
  <2>1. sync' = [sync EXCEPT ![r] = sync'[r]]
    BY <1>17 DEF Upsert, SyncAt, SyncTypes
  <2>2. Working(r) /\ UNCHANGED <<lockRow, overrun>>
    BY <1>17 DEF Upsert, Working
  <2> QED
    BY <1>15, <1>17, <2>1, <2>2, UpsertKeeps DEF SyncAt
<1>18. ASSUME NEW part \in SUBSET Magnet, Upsert(r, part), part # sync[r].items
       PROVE  Goal
  <2>1. SyncAt(r, GivenUp) /\ Working(r) /\ UNCHANGED <<lockRow, overrun>>
    BY <1>18 DEF Upsert, GivenUp, Working
  <2>2. Good(r)'
    BY <2>1, IdleGood DEF SyncAt, SyncTypes
  <2> QED
    BY <1>15, <2>1, <2>2
<1>19. CASE Clean(r)
  <2>1. sync' = [sync EXCEPT ![r] = sync'[r]]
    BY <1>19 DEF Clean, SyncAt, SyncTypes
  <2>2. Working(r) /\ UNCHANGED <<lockRow, overrun>>
    BY <1>19 DEF Clean, Working
  <2> QED
    BY <1>15, <1>19, <2>1, <2>2, CleanKeeps DEF SyncAt
<1>20. CASE Mark(r)
  <2>1. sync' = [sync EXCEPT ![r] = sync'[r]]
    BY <1>20 DEF Mark, SyncAt, SyncTypes
  <2>2. Working(r) /\ UNCHANGED <<lockRow, overrun>>
    BY <1>20 DEF Mark, Working
  <2> QED
    BY <1>15, <1>20, <2>1, <2>2, MarkKeeps DEF SyncAt
<1> QED
  BY <1>6, <1>7, <1>8, <1>9, <1>11, <1>12, <1>13, <1>14, <1>16, <1>17, <1>18, <1>19, <1>20
     DEF SyncStep, RequestStep

\* Adding and removing keep a list without repetitions.
LEMMA ListsStaySound ==
    ASSUME SyncIndInv,
           (\E m \in Magnet : Add(m)) \/ (\E i \in 1..Cardinality(Magnet) : Remove(i))
    PROVE  SyncTypes' /\ AccountSound' /\ BusyOwns' /\ \A k \in Request : Good(k)'
<1>0. /\ account \in Seq(Magnet) /\ Len(account) \in Nat /\ DOMAIN account = 1..Len(account)
      /\ \A i, j \in DOMAIN account : account[i] = account[j] => i = j
  BY DEF SyncIndInv, AccountSound
<1>1. ASSUME NEW m \in Magnet, Add(m)
      PROVE  SyncTypes' /\ AccountSound' /\ BusyOwns' /\ \A k \in Request : Good(k)'
  <2> DEFINE list == <<m>> \o account
  <2>1. /\ list \in Seq(Magnet) /\ DOMAIN list = 1..(Len(account) + 1)
        /\ \A i \in DOMAIN list : list[i] = IF i = 1 THEN m ELSE account[i - 1]
    BY <1>0, <1>1
  <2>2. \A i \in DOMAIN account : account[i] # m
    BY <1>1 DEF Add
  <2> HIDE DEF list
  <2>3. \A i, j \in DOMAIN list : list[i] = list[j] => i = j
    BY <1>0, <2>1, <2>2
  <2> QED
    BY <1>1, <2>1, <2>3, AccountChanges DEF Add, list
<1>2. ASSUME NEW n \in 1..Cardinality(Magnet), Remove(n)
      PROVE  SyncTypes' /\ AccountSound' /\ BusyOwns' /\ \A k \in Request : Good(k)'
  <2> DEFINE left == SubSeq(account, 1, n - 1)
             right == SubSeq(account, n + 1, Len(account))
             list == left \o right
  <2>1. n \in 1..Len(account)
    BY <1>0, <1>2 DEF Remove
  <2>2. /\ left \in Seq(Magnet) /\ Len(left) = n - 1
        /\ \A i \in 1..(n - 1) : left[i] = account[i]
    BY <1>0, <2>1
  <2>3. /\ right \in Seq(Magnet) /\ Len(right) = Len(account) - n
        /\ \A i \in 1..(Len(account) - n) : right[i] = account[n + i]
    <3> DEFINE from == n + 1
               end == Len(account)
    <3>1. from \in Int /\ end \in Int /\ \A i \in from..end : account[i] \in Magnet
      BY <1>0, <2>1
    <3>2. right = SubSeq(account, from, end)
      OBVIOUS
    <3> HIDE DEF from, end, right
    <3>3. /\ SubSeq(account, from, end) \in Seq(Magnet)
          /\ Len(SubSeq(account, from, end)) = IF from <= end THEN end - from + 1 ELSE 0
          /\ \A i \in 1..(end - from + 1) :
                SubSeq(account, from, end)[i] = account[from + i - 1]
      BY <3>1, SubSeqProperties
    <3>4. /\ right \in Seq(Magnet) /\ Len(right) = (IF from <= end THEN end - from + 1 ELSE 0)
          /\ \A i \in 1..(end - from + 1) : right[i] = account[from + i - 1]
      BY <3>2, <3>3
    <3>5. Len(account) \in Nat /\ n \in Nat /\ n <= Len(account)
      BY <1>0, <2>1
    <3>6. end - from + 1 = Len(account) - n /\ (from <= end \/ end - from + 1 = 0)
      BY <3>5 DEF from, end
    <3>7. \A i \in 1..(end - from + 1) : from + i - 1 = n + i
      BY <3>5, <3>6 DEF from
    <3> QED
      BY <3>4, <3>6, <3>7
  <2> HIDE DEF left, right
  <2>4. /\ list \in Seq(Magnet) /\ DOMAIN list = 1..(Len(account) - 1)
        /\ \A i \in DOMAIN list : list[i] = IF i <= n - 1 THEN left[i] ELSE right[i - (n - 1)]
    <3>1. /\ (left \o right) \in Seq(Magnet) /\ Len(left \o right) = Len(left) + Len(right)
          /\ \A i \in 1..Len(left) + Len(right) :
                (left \o right)[i] = IF i <= Len(left) THEN left[i] ELSE right[i - Len(left)]
      BY <2>2, <2>3, ConcatProperties
    <3>2. /\ list \in Seq(Magnet) /\ Len(list) = Len(left) + Len(right)
          /\ \A i \in 1..Len(left) + Len(right) :
                list[i] = IF i <= Len(left) THEN left[i] ELSE right[i - Len(left)]
      BY <3>1
    <3> HIDE DEF list
    <3>3. Len(account) \in Nat /\ n \in 1..Len(account)
      BY <1>0, <2>1
    <3>4. Len(left) = n - 1 /\ Len(left) + Len(right) = Len(account) - 1
      BY <2>2, <2>3, <3>3
    <3>5. DOMAIN list = 1..Len(list)
      BY <3>2
    <3> QED
      BY <3>2, <3>4, <3>5
  <2> HIDE DEF list
  <2>5. \A i \in DOMAIN list : list[i] = account[IF i <= n - 1 THEN i ELSE i + 1]
    <3> SUFFICES ASSUME NEW i \in DOMAIN list
                 PROVE  list[i] = account[IF i <= n - 1 THEN i ELSE i + 1]
      OBVIOUS
    <3>1. CASE i <= n - 1
      BY <2>1, <2>2, <2>4, <3>1
    <3>2. CASE ~(i <= n - 1)
      <4>1. i - (n - 1) \in 1..(Len(account) - n) /\ n + (i - (n - 1)) = i + 1
        BY <1>0, <2>1, <2>4, <3>2
      <4> QED
        BY <2>3, <2>4, <3>2, <4>1
    <3> QED
      BY <3>1, <3>2
  <2>6. \A i, j \in DOMAIN list : list[i] = list[j] => i = j
    <3> SUFFICES ASSUME NEW i \in DOMAIN list, NEW j \in DOMAIN list, list[i] = list[j]
                 PROVE  i = j
      OBVIOUS
    <3> DEFINE a == IF i <= n - 1 THEN i ELSE i + 1
               b == IF j <= n - 1 THEN j ELSE j + 1
    <3>1. a \in DOMAIN account /\ b \in DOMAIN account
      BY <1>0, <2>1, <2>4
    <3>2. account[a] = account[b]
      BY <2>5
    <3>3. a = b
      BY <1>0, <3>1, <3>2
    <3> QED
      BY <1>0, <2>1, <2>4, <3>3
  <2> QED
    BY <1>2, <2>4, <2>6, AccountChanges DEF Remove, list, left, right
<1> QED
  BY <1>1, <1>2 DEF SyncIndInv

\* Each row and mark has the time of a sync.
LEMMA SyncTypeOKNext == SyncIndInv /\ [AccountSyncNext]_syncVars
                            /\ SyncTypes' /\ (\A r \in Request : Good(r)') => SyncTypeOK'
<1> SUFFICES ASSUME SyncIndInv, [AccountSyncNext]_syncVars, SyncTypes',
                    \A r \in Request : Good(r)'
             PROVE  SyncTypeOK'
  OBVIOUS
<1> USE DEF SyncIndInv
<1>1. /\ tick \in Nat /\ tick' \in Nat /\ tick <= tick' /\ Stored(tick) \in Nat
      /\ Stored(tick)' \in Nat /\ Stored(tick) <= Stored(tick)'
  <2>1. tick' = tick \/ tick' = tick + 1
    BY DEF AccountSyncNext, SyncStep, RequestStep, Trigger, SyncFails, SyncCrash, StartScheduled,
           Fetch, Upsert, Clean, Mark, Release, Ensure, LockAccount, Warmed, WarmTimeout,
           PollAccount, Schedule, Add, Remove, SetAccount, CleanExpired, TimePasses, syncVars
  <2>2. tick \in Nat
    BY DEF SyncTypes
  <2>3. tick' \in Nat /\ tick <= tick'
    BY <2>1, <2>2
  <2> DEFINE now == tick'
  <2>4. now \in Nat /\ now <= now
    BY <2>3
  <2> HIDE DEF now
  <2>5. Stored(tick) \in Nat /\ Stored(tick) <= Stored(now) /\ Stored(now) \in Nat
    BY <2>2, <2>3, <2>4, StoredMonotone DEF now
  <2> QED
    BY <2>2, <2>3, <2>5 DEF now
<1>2. \A r \in Request : Working(r) => /\ sync[r].time \in 1..Stored(tick)
                                       /\ sync[r].items \subseteq Magnet
  <2> TAKE r \in Request
  <2>1. Working(r) => sync[r].items \subseteq Magnet
    BY UnderwayIs DEF Underway
  <2> QED
    BY <2>1 DEF Good, RowsOf
<1> DEFINE Time == 1..Stored(tick)'
<1>3. /\ \A m \in Rows : m \in Magnet /\ magnets[m] \in Time
      /\ lastSync \in {Never} \cup Time
      /\ \A r \in Request : Working(r) => sync[r].time \in Time
  BY <1>1, <1>2 DEF SyncTypeOK
<1> HIDE DEF Time
<1>4. Rows' \subseteq Magnet /\ \A m \in Rows' : magnets'[m] \in Time
  <2>1. ASSUME NEW r \in Request, NEW part, Upsert(r, part)
        PROVE  Rows' \subseteq Magnet /\ \A m \in Rows' : magnets'[m] \in Time
    <3>1. Working(r) /\ part \subseteq sync[r].items
      BY <2>1 DEF Upsert, Working
    <3> QED
      BY <1>2, <1>3, <2>1, <3>1 DEF Upsert, Rows
  <2>2. ASSUME NEW r \in Request, Clean(r)
        PROVE  Rows' \subseteq Magnet /\ \A m \in Rows' : magnets'[m] \in Time
    BY <1>3, <2>2 DEF Clean, Rows
  <2>3. CASE CleanExpired
    BY <1>3, <2>3 DEF CleanExpired, Rows
  <2>4. CASE UNCHANGED magnets
    BY <1>3, <2>4 DEF Rows
  <2> QED
    BY <2>1, <2>2, <2>3, <2>4
       DEF AccountSyncNext, SyncStep, RequestStep, Trigger, SyncFails, SyncCrash, StartScheduled,
           Fetch, Mark, Release, Ensure, LockAccount, Warmed, WarmTimeout,
           PollAccount, Schedule, Add, Remove, SetAccount, TimePasses, syncVars
<1>5. lastSync' \in {Never} \cup Time
  <2>1. ASSUME NEW r \in Request, Mark(r) PROVE lastSync' \in {Never} \cup Time
    BY <1>3, <2>1 DEF Mark, Working
  <2>2. CASE lastSync' \in {lastSync, Never}
    BY <1>3, <2>2
  <2>3. lastSync' \in {lastSync, Never} \/ \E r \in Request : Mark(r)
    BY DEF AccountSyncNext, SyncStep, RequestStep, Trigger, SyncFails, SyncCrash, StartScheduled,
           Fetch, Upsert, Clean, Release, Ensure, LockAccount, Warmed, WarmTimeout, CleanExpired,
           PollAccount, Schedule, Add, Remove, SetAccount, TimePasses, syncVars
  <2> QED
    BY <2>1, <2>2, <2>3
<1>6. lockRow'.owner \in Request \cup {Nobody}
  <2>1. ASSUME NEW r \in Request, Acquired(r) PROVE lockRow'.owner \in Request \cup {Nobody}
    BY <2>1 DEF Acquired
  <2>2. ASSUME NEW r \in Request, Release(r) PROVE lockRow'.owner \in Request \cup {Nobody}
    <3>1. lockRow' = lockRow \/ lockRow' = [owner |-> Nobody, until |-> 0]
      BY <2>2 DEF Release
    <3> QED
      BY <3>1 DEF SyncTypeOK
  <2>3. CASE UNCHANGED lockRow
    BY <2>3 DEF SyncTypeOK
  <2>4. UNCHANGED lockRow \/ \E r \in Request : Acquired(r) \/ Release(r)
    BY DEF AccountSyncNext, SyncStep, RequestStep, Trigger, SyncFails, SyncCrash,
           StartScheduled, Fetch, Upsert, Clean, Mark, Ensure, LockAccount, Warmed,
           WarmTimeout, PollAccount, Schedule, Add, Remove, SetAccount, CleanExpired,
           TimePasses, Refused, syncVars
  <2> QED
    BY <2>1, <2>2, <2>3, <2>4
<1>7. \A r \in Request : Working(r)' => Cardinality(sync'[r].items) <= MaxSnapshot
  <2> SUFFICES ASSUME NEW r \in Request, Working(r)'
               PROVE  Cardinality(sync'[r].items) <= MaxSnapshot
    OBVIOUS
  <2> DEFINE items == sync'[r].items
  <2>1. sync'[r] \in Underway
    <3>1. sync'[r] \in {NoSync, Scheduled, GivenUp} \cup Underway \cup Finished
      BY DEF SyncTypes
    <3>2. sync'[r] \notin {NoSync, Scheduled, GivenUp}
      BY DEF Working, NoSync, Scheduled, GivenUp
    <3>3. sync'[r] \notin Finished
      BY DEF Working, Finished
    <3> QED
      BY <3>1, <3>2, <3>3
  <2>2. items \in SUBSET Magnet /\ sync'[r].at \in {"fetch", "upsert", "clean", "mark"}
    BY <2>1 DEF Underway
  <2>3. Cardinality(items) \in Nat
    <3> HIDE DEF items
    <3>1. IsFiniteSet(items)
      BY <2>2, SyncAssumption, FS_Subset
    <3> QED
      BY <3>1, FS_CardinalityType
  <2>4. CASE sync'[r].at = "fetch"
    <3>1. Cardinality(items) < MaxSnapshot
      BY <2>4 DEF Good, PagesRead
    <3> QED
      BY <2>3, <3>1, SyncAssumption
  <2>5. CASE sync'[r].at \in {"upsert", "clean", "mark"}
    BY <2>5 DEF Good, PagesRead
  <2> QED
    BY <2>2, <2>4, <2>5
<1> QED
  BY <1>4, <1>5, <1>6, <1>7 DEF SyncTypeOK, Time

\* SyncInv holds in every reachable state, for any requests, accounts, sizes of
\* pages, lifetimes and precision of the column: one sync at a time writes,
\* unless a lock was taken from one that went on; and a sync that ended with its
\* lock leaves exactly an account that did not change meanwhile.
THEOREM SyncsAreExact == AccountSyncSpec => []SyncInv
<1>1. SyncIndInv /\ [AccountSyncNext]_syncVars => SyncIndInv'
  <2> SUFFICES ASSUME SyncIndInv, [AccountSyncNext]_syncVars PROVE SyncIndInv'
    OBVIOUS
  <2>1. SyncTypes' /\ AccountSound' /\ BusyOwns' /\ \A k \in Request : Good(k)'
    <3>1. ASSUME CleanExpired \/ TimePasses
          PROVE  SyncTypes' /\ AccountSound'
      <4>1. /\ UNCHANGED <<account, sync, overrun>>
            /\ tick' = tick \/ tick' = tick + 1
        BY <3>1 DEF CleanExpired, TimePasses
      <4>2. tick' \in Nat /\ FirstTick <= tick'
        BY <4>1, SyncAssumption DEF SyncIndInv, SyncTypes, FirstTick
      <4> QED
        BY <4>1, <4>2 DEF SyncIndInv, SyncTypes, AccountSound
    <3>2. CASE UNCHANGED syncVars
      <4>1. \A k \in Request : Good(k)'
        BY <3>2, OthersGood DEF SyncIndInv, syncVars
      <4> QED
        BY <3>2, <4>1 DEF SyncIndInv, syncVars, SyncTypes, AccountSound, BusyOwns, Working
    <3> QED
      BY <3>1, <3>2, RequestStepKeeps, ListsStaySound, AgeingKeeps DEF AccountSyncNext
  <2>2. SyncTypeOK'
    BY <2>1, SyncTypeOKNext
  <2> QED
    BY <2>1, <2>2 DEF SyncIndInv
<1>2. SyncIndInv => SyncInv
  <2> SUFFICES ASSUME SyncIndInv PROVE SyncInv
    OBVIOUS
  <2>1. OneSyncAtATime
    BY DEF SyncIndInv, BusyOwns, OneSyncAtATime
  <2>2. EndedIsExact
    BY DEF SyncIndInv, Good, Exact, EndedIsExact
  <2> QED
    BY <2>1, <2>2 DEF SyncInv, SyncIndInv
<1> QED
  BY SyncStarts, <1>1, <1>2, PTL DEF AccountSyncSpec
=============================================================================
