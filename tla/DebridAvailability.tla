------------------------- MODULE DebridAvailability -------------------------
(***************************************************************************)
(* What debrid services have cached (services/debrid.py, debrid_cache.py,  *)
(* debrid/stremthru.py and the check of a stream request): a request reads *)
(* the rows of debrid_availability, then asks each service, and the files  *)
(* they answer with are written back by tasks nobody waits for.            *)
(*                                                                         *)
(* Only files that pass the filters of get_availability() (videos, no      *)
(* samples, of the requested episode) are listed, and the items that it    *)
(* calls acceleratable have none, as its comment says.  Parsed names are   *)
(* left out.                                                               *)
(***************************************************************************)
EXTENDS Integers, FiniteSetsExt, SequencesExt

CONSTANTS
    Store,          \* debrid services
    Torrent, Asker, \* torrents and requests for them
    Title,          \* names of files
    Listing,        \* what a store may hold of a torrent: sequences of files
    OwnSize,        \* the size of a torrent where it was scraped
    CacheTTL,       \* DEBRID_CACHE_TTL
    NoTTL,          \* 31536000 seconds
    Lag,            \* bound: the longest from an answer to the write of its files
    ClockEnd,       \* bound: the clock stops here
    MaxMoves,       \* bound: changes of what stores hold
    MaxAsks         \* bound: requests that an asker makes

None == -1          \* no index or size: -1 at the store, NULL in the table

ASSUME AvailabilityAssumption ==
    /\ \A files \in Listing : files \in Seq([title : Title, index : {None} \cup Nat,
                                              size : {None} \cup Nat])
    /\ None \notin Title
    /\ OwnSize \in [Torrent -> {None} \cup Nat]
    /\ CacheTTL \in Int /\ {NoTTL, Lag, ClockEnd, MaxMoves, MaxAsks} \subseteq Nat

VARIABLES
    scope,      \* the requests': "episode", or "whole" for a film
    offcloud,   \* the stores that tell no files
    moment,     \* the clock
    held,       \* store -> torrent -> what it holds
    moves,
    lastHeld,   \* history: store -> torrent -> when it was held last
    rows,       \* debrid_availability: <<store, torrent, scope>> -> row
    writes,     \* tasks of cache_availability()
    confirmed,  \* history: the newest stamp written to a key
    asker       \* the requests

availabilityVars ==
    <<scope, offcloud, moment, held, moves, lastHeld, rows, writes, confirmed,
      asker>>

Key == Store \X Torrent \X {"whole", "episode"}
Unset == [title |-> None, index |-> None, size |-> None]
Scraped == [t \in Torrent |-> [title |-> t, index |-> None, size |-> OwnSize[t]]]
Idle == [phase |-> "idle", waiting |-> {}, shown |-> Scraped, status |-> {},
         answers |-> <<>>, seen |-> {}, asks |-> 1]

\* What a store may hold of a torrent: nothing or a listing.
Holdings == {{}} \cup {{l} : l \in Listing}

AvailabilityInit ==
    /\ scope \in {"whole", "episode"} /\ offcloud \in SUBSET Store
    /\ moment = 0 /\ moves = 0
    /\ held = [s \in Store |-> [t \in Torrent |-> {}]]
    /\ lastHeld = [s \in Store |-> [t \in Torrent |-> None]]
    /\ rows = <<>> /\ writes = {} /\ confirmed = <<>>
    /\ asker = [r \in Asker |-> Idle]

----------------------------------------------------------------------------
(* debrid_availability *)

\* DEBRID_UPDATE_INTERVAL
UpdateInterval == IF CacheTTL > 0 THEN CacheTTL \div 2 ELSE NoTTL

IsStored(k) == k \in DOMAIN rows
IsYoung(k) == IsStored(k) /\ rows[k].at >= moment - CacheTTL

\* What cache_availability() stores of a file: no size if it has no index.
Columns(f) == [title |-> f.title, index |-> f.index,
               size |-> IF f.index = None THEN None ELSE f.size]
ColumnsOf(row) == [title |-> row.title, index |-> row.index, size |-> row.size]

\* Mutant of Replaces: a row is renewed only when its file changes.
ReplacesChanged(old, columns, at) == columns # ColumnsOf(old)

\* CONDITIONAL_UPDATE_SQL
Replaces(old, columns, at) ==
    columns # ColumnsOf(old) \/ old.at < at - UpdateInterval

Upserted(table, k, f, at) ==
    IF k \in DOMAIN table /\ ~Replaces(table[k], Columns(f), at) THEN table
    ELSE [x \in DOMAIN table \cup {k} |->
             IF x = k THEN [title |-> f.title, index |-> f.index, size |-> Columns(f).size,
                                  at |-> at] ELSE table[x]]

\* A row that get_cached_availability() finds: that of the requested scope or,
\* for offcloud, the newest that names no file.
Found(s, t) ==
    LET whole == <<s, t, "whole">>
    IN  IF IsYoung(<<s, t, scope>>) THEN {<<s, t, scope>>}
        ELSE {k \in {whole} : s \in offcloud /\ IsYoung(k) /\ rows[k].title = None}

\* get_cached_availability_any_service(): the newest row of any service.
FoundAnywhere(t) ==
    LET keys == {<<s, t, scope>> : s \in {s \in Store : IsYoung(<<s, t, scope>>)}}
    IN  {k \in keys : \A l \in keys : rows[l].at <= rows[k].at}

----------------------------------------------------------------------------
(* A request *)

Over(torrent, f) ==
    [title |-> IF f.title # None THEN f.title ELSE torrent.title,
     index |-> IF f.index # None THEN f.index ELSE torrent.index,
     size |-> IF f.size # None THEN f.size ELSE torrent.size]

\* A file of an answer that is not smaller than what is known replaces it.
Merged(torrent, f) ==
    IF Max({f.size, 0}) >= Max({torrent.size, 0}) THEN Over(torrent, f) ELSE torrent

\* One after the other.
AllMerged(torrent, files) ==
    LET after[n \in 0..Len(files)] ==
            IF n = 0 THEN torrent ELSE Merged(after[n - 1], files[n])
    IN  after[Len(files)]

\* Configured with debrid services: each of them is looked up.
Begin(r) ==
    /\ asker[r].phase = "idle"
    /\ LET q == asker[r]
       IN  asker' = [asker EXCEPT ![r] = [q EXCEPT !.phase = "rows", !.waiting = Store]]
    /\ UNCHANGED <<scope, offcloud, moment, held, moves, lastHeld, rows, writes, confirmed>>

\* Without: apply_cached_availability_any_service(), and no service is asked.
BeginTorrent(r) ==
    /\ asker[r].phase = "idle"
    /\ \E of \in [Torrent -> Store] :
           LET q == asker[r]
               found == {t \in Torrent : FoundAnywhere(t) # {}}
               file == [t \in found |-> ColumnsOf(rows[<<of[t], t, scope>>])]
           IN  /\ \A t \in found : <<of[t], t, scope>> \in FoundAnywhere(t)
               /\ asker' = [asker EXCEPT ![r] = [q EXCEPT
                      !.phase = "done",
                      !.shown = [t \in Torrent |->
                          IF t \in found THEN Over(q.shown[t], file[t]) ELSE q.shown[t]],
                      !.seen = q.seen \cup {<<t, file[t]>> : t \in found}]]
    /\ UNCHANGED <<scope, offcloud, moment, held, moves, lastHeld, rows, writes, confirmed>>

\* The next step once all services have answered.
NextPhase(q) ==
    IF q.waiting # {} THEN q
    ELSE IF q.phase = "rows" THEN [q EXCEPT !.phase = "stores", !.waiting = Store]
    ELSE [q EXCEPT !.phase = "done"]
Waits(r, phase, s) == asker[r].phase = phase /\ s \in asker[r].waiting

\* check_existing_availability()
ReadRows(r, s) ==
    LET q == asker[r]
        found(t) == {ColumnsOf(rows[k]) : k \in Found(s, t)}
        cached == {t \in Torrent : found(t) # {}}
        file == [t \in cached |-> CHOOSE f \in found(t) : TRUE]
    IN  /\ Waits(r, "rows", s)
        /\ asker' = [asker EXCEPT ![r] = NextPhase([q EXCEPT
               !.waiting = q.waiting \ {s},
               !.status = q.status \cup (cached \X {s}),
               !.shown = [t \in Torrent |->
                   IF t \in cached THEN Over(q.shown[t], file[t]) ELSE q.shown[t]],
               !.seen = q.seen \cup {<<t, file[t]>> : t \in cached}])]
        /\ UNCHANGED <<scope, offcloud, moment, held, moves, lastHeld, rows, writes, confirmed>>

\* The query raises: its service is left out.
ReadFails(r, s) ==
    /\ Waits(r, "rows", s)
    /\ LET q == asker[r]
       IN  asker' = [asker EXCEPT ![r] = NextPhase([q EXCEPT !.waiting = q.waiting \ {s}])]
    /\ UNCHANGED <<scope, offcloud, moment, held, moves, lastHeld, rows, writes, confirmed>>

\* The store answers get_instant().  Items without a file, and those of offcloud
\* but for an episode, become an entry that names no file.
Files(s, t) ==
    LET files == UNION {ToSet(l) : l \in held[s][t]} IN
    IF held[s][t] = {} \/ (s \in offcloud /\ scope = "episode") THEN <<>>
    ELSE IF files = {} \/ s \in offcloud THEN <<Unset>>
    ELSE CHOOSE l \in held[s][t] : TRUE

Answer(r, s) ==
    /\ Waits(r, "stores", s) /\ s \notin DOMAIN asker[r].answers
    /\ LET answers == asker[r].answers
       IN  asker' = [asker EXCEPT ![r].answers =
               [x \in DOMAIN answers \cup {s} |->
                   IF x = s THEN [at |-> moment, files |-> [t \in Torrent |-> Files(s, t)]]
                   ELSE answers[x]]]
    /\ UNCHANGED <<scope, offcloud, moment, held, moves, lastHeld, rows, writes, confirmed>>

\* Its files have been parsed: get_and_cache_availability() merges them in and
\* leaves their write to a task.
Apply(r, s) ==
    LET q == asker[r]
        answer_ == q.answers[s]
        of(t) == answer_.files[t]
        told == {t \in Torrent : of(t) # <<>>}
    IN  /\ Waits(r, "stores", s) /\ s \in DOMAIN q.answers
        /\ asker' = [asker EXCEPT ![r] = NextPhase([q EXCEPT
               !.waiting = q.waiting \ {s},
               !.status = q.status \cup (told \X {s}),
               !.shown = [t \in Torrent |-> AllMerged(q.shown[t], of(t))],
               !.seen = q.seen \cup UNION {{<<t, f>> : f \in ToSet(of(t))} : t \in Torrent}])]
        /\ writes' = IF told = {} THEN writes
                     ELSE writes \cup {[by |-> r, store |-> s, files |-> answer_.files,
                                        seen |-> answer_.at, at |-> None]}
        /\ UNCHANGED <<scope, offcloud, moment, held, moves, lastHeld, rows, confirmed>>

\* No premium account, which is reported, and any other error.
AskFails(r, s) ==
    /\ Waits(r, "stores", s)
    /\ LET q == asker[r]
       IN  asker' = [asker EXCEPT ![r] = NextPhase([q EXCEPT
               !.waiting = q.waiting \ {s},
               !.answers = [x \in DOMAIN q.answers \ {s} |-> q.answers[x]]])]
    /\ UNCHANGED <<scope, offcloud, moment, held, moves, lastHeld, rows, writes, confirmed>>

Finish(r) ==
    /\ asker[r].phase = "done" /\ asker[r].asks < MaxAsks
    /\ asker' = [asker EXCEPT ![r] = [Idle EXCEPT !.asks = asker[r].asks + 1]]
    /\ UNCHANGED <<scope, offcloud, moment, held, moves, lastHeld, rows, writes, confirmed>>

----------------------------------------------------------------------------
(* cache_availability() *)

\* The task starts and takes the time.
StartWrite(w) ==
    /\ w \in writes /\ w.at = None
    /\ writes' = (writes \ {w}) \cup {[w EXCEPT !.at = moment]}
    /\ UNCHANGED <<scope, offcloud, moment, held, moves, lastHeld, rows, confirmed, asker>>

KeyOf(w, t, f) == <<w.store, t, IF f.title = None THEN "whole" ELSE scope>>
KeysOf(w, t) == {KeyOf(w, t, w.files[t][i]) : i \in DOMAIN w.files[t]}

\* Its files, one after the other; those of other torrents have keys of their own.
Written(w, t) ==
    LET after[n \in 0..Len(w.files[t])] ==
            IF n = 0 THEN rows
            ELSE Upserted(after[n - 1], KeyOf(w, t, w.files[t][n]), w.files[t][n], w.at)
    IN  after[Len(w.files[t])]

EndWrite(w) ==
    LET keys == UNION {KeysOf(w, t) : t \in Torrent}
    IN  /\ w \in writes /\ w.at # None
        /\ writes' = writes \ {w}
        /\ rows' = [k \in DOMAIN rows \cup keys |->
               IF k \in keys THEN Written(w, k[2])[k] ELSE rows[k]]
        /\ confirmed' = [k \in DOMAIN confirmed \cup keys |->
               IF k \notin keys THEN confirmed[k]
               ELSE IF k \in DOMAIN confirmed THEN Max({confirmed[k], w.at}) ELSE w.at]
        /\ UNCHANGED <<scope, offcloud, moment, held, moves, lastHeld, asker>>

\* The query raises, or the process ends.
WriteFails(w) ==
    /\ w \in writes /\ writes' = writes \ {w}
    /\ UNCHANGED <<scope, offcloud, moment, held, moves, lastHeld, rows, confirmed, asker>>

----------------------------------------------------------------------------
(* The services and time *)

Move(s, t, holding) ==
    /\ moves < MaxMoves /\ moves' = moves + 1
    /\ held[s][t] # holding
    /\ held' = [held EXCEPT ![s][t] = holding]
    /\ lastHeld' = [lastHeld EXCEPT ![s][t] = IF holding = {} THEN @ ELSE moment]
    /\ UNCHANGED <<scope, offcloud, moment, rows, writes, confirmed, asker>>

Pending ==
    {w.seen : w \in writes}
    \cup {asker[x[1]].answers[x[2]].at : x \in
              {y \in Asker \X Store : Waits(y[1], "stores", y[2])
                                      /\ y[2] \in DOMAIN asker[y[1]].answers}}

Wait ==
    /\ moment < ClockEnd /\ \A at \in Pending : at > moment - Lag
    /\ moment' = moment + 1
    /\ lastHeld' = [s \in Store |-> [t \in Torrent |->
                       IF held[s][t] = {} THEN lastHeld[s][t] ELSE moment + 1]]
    /\ UNCHANGED <<scope, offcloud, held, moves, rows, writes, confirmed, asker>>

AvailabilityNext ==
    \/ \E r \in Asker : Begin(r) \/ BeginTorrent(r) \/ Finish(r)
    \/ \E r \in Asker, s \in Store :
           \/ ReadRows(r, s) \/ ReadFails(r, s) \/ Answer(r, s) \/ Apply(r, s)
           \/ AskFails(r, s)
    \/ \E w \in writes : StartWrite(w) \/ EndWrite(w) \/ WriteFails(w)
    \/ \E s \in Store, t \in Torrent, h \in Holdings : Move(s, t, h)
    \/ Wait

AvailabilitySpec == AvailabilityInit /\ [][AvailabilityNext]_availabilityVars

----------------------------------------------------------------------------
AvailabilityTypeOK ==
    /\ scope \in {"whole", "episode"} /\ offcloud \subseteq Store
    /\ moment \in 0..ClockEnd /\ moves \in 0..MaxMoves
    /\ \A s \in Store, t \in Torrent : held[s][t] \in Holdings
    /\ DOMAIN rows \subseteq Key /\ DOMAIN confirmed = DOMAIN rows
    /\ \A k \in DOMAIN rows : rows[k].at \in 0..moment
    /\ \A r \in Asker : asker[r].status \subseteq Torrent \X Store

\* Whatever a request finds in the table was at the service not longer ago than
\* the rows live and their write takes: neither writes that overtake each other
\* nor those that leave a row as it is make an old answer young.
FoundWasHeld ==
    \A s \in Store, t \in Torrent :
        Found(s, t) # {} => lastHeld[s][t] >= moment - CacheTTL - Lag

\* A service's answer keeps its row for half its life at least: a write that
\* leaves the row as it is, or is overtaken by an older one, never costs more.
ConfirmedStays ==
    \A k \in DOMAIN confirmed : confirmed[k] - rows[k].at <= Max({UpdateInterval, Lag})

\* The index, title and size of a torrent are those of one file of a row or of
\* an answer, though services answer in any order and rows come before them;
\* and no service told of a larger one.  Where stores give no index or size to
\* a file they may be those of two.
ShowsOneFile ==
    \A r \in Asker, t \in Torrent :
        LET files == {x[2] : x \in {x \in asker[r].seen : x[1] = t /\ x[2] # Unset}}
            shown == asker[r].shown[t]
        IN  (\A f \in files : None \notin {f.index, f.size}) =>
                /\ shown \in files \cup {Scraped[t]}
                /\ \A s \in DOMAIN asker[r].answers \ asker[r].waiting :
                       \A i \in DOMAIN asker[r].answers[s].files[t] :
                           asker[r].answers[s].files[t][i].size <= shown.size

AvailabilityInv == AvailabilityTypeOK /\ FoundWasHeld /\ ConfirmedStays /\ ShowsOneFile
=============================================================================
