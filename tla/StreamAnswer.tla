---------------------------- MODULE StreamAnswer ----------------------------
(***************************************************************************)
(* The streams of an answer (api/endpoints/stream.py), from the ranked     *)
(* torrents and what is known of them: some are selected, each of these    *)
(* gives streams for the debrid services of the configuration and one for  *)
(* BitTorrent, these are put in three lists, and duplicates are removed.   *)
(*                                                                         *)
(* Of a stream's wording, only the length of its description is kept.  The *)
(* notices, and the results of the local library, IPTV and usenet, that    *)
(* are inserted afterwards are left out.                                   *)
(***************************************************************************)
EXTENDS Sorting

CONSTANTS
    Service,
    Requests        \* what an answer may have to be made from, see TypeOfRequest

\* Torrents are numbered by their rank.
TypeOfRequest(r) ==
    /\ r.torrents \in Seq([
           resolution : STRING,
           release : BOOLEAN,          \* is its tracker in RELEASE_SOURCE_TRACKERS?
           fits : BOOLEAN,             \* is its bitrate within the configured window?
           file : STRING,              \* file name and size; "" when a size is unknown
           length : Nat,               \* of its description
           cachedOn : SUBSET Service,  \* service_cache_status
           onR2 : BOOLEAN])            \* cache_tier = "cached"
    /\ r.entries \in Seq(Service)      \* debrid_entries
    /\ r.failed \in SUBSET Service     \* debrid_errors
    /\ r.maxResults \in Int            \* maxResultsPerResolution
    /\ r.cachedOnly \in BOOLEAN /\ r.together \in BOOLEAN  \* sortCachedUncachedTogether
    /\ r.deduplicate \in BOOLEAN /\ r.enableTorrent \in BOOLEAN

P2P == "p2p"    \* the service of a stream that is BitTorrent's

ASSUME AnswerAssumption == P2P \notin Service /\ \A r \in Requests : TypeOfRequest(r)

VARIABLES request, streams, replied
answerVars == <<request, streams, replied>>

AnswerInit == request \in Requests /\ streams = <<>> /\ replied = FALSE

----------------------------------------------------------------------------
(* _select_info_hashes_by_resolution() *)

Ranked(r) == [i \in DOMAIN r.torrents |-> i]
IsCached(r, t) == r.torrents[t].cachedOn # {}

\* sort_mixed and the arguments of the call
SortMixed(r) == (r.enableTorrent /\ r.entries = <<>>) \/ r.together
PrioritizeCached(r) == r.entries # <<>> /\ ~SortMixed(r)
SelectCachedOnly(r) == r.cachedOnly /\ r.entries # <<>> /\ ~r.enableTorrent

OnR2(r, t) == IsCached(r, t) /\ r.torrents[t].onR2
Acceleratable(r, t) == IsCached(r, t) /\ ~r.torrents[t].onR2

\* The order in which torrents are tried.
Tried(r) ==
    LET torrents == DOMAIN r.torrents IN
    IF PrioritizeCached(r)
    THEN Ascending({t \in torrents : OnR2(r, t)})
         \o Ascending({t \in torrents : Acceleratable(r, t)})
         \o Ascending({t \in torrents : ~SelectCachedOnly(r) /\ ~IsCached(r, t)})
    ELSE Ascending({t \in torrents : SelectCachedOnly(r) => IsCached(r, t)})

SameLimit(r, t, u) ==
    ~r.torrents[u].release /\ r.torrents[u].resolution = r.torrents[t].resolution

TrySelect(r, selected, t) ==
    IF r.torrents[t].release
       \/ Cardinality({i \in DOMAIN selected : SameLimit(r, t, selected[i])}) < r.maxResults
    THEN Append(selected, t) ELSE selected

SelectInfoHashes(r) ==
    LET tried == Tried(r)
        after[n \in 0..Len(tried)] ==
            IF n = 0 THEN <<>> ELSE TrySelect(r, after[n - 1], tried[n])
    IN  IF r.maxResults <= 0 THEN Ranked(r) ELSE after[Len(tried)]

----------------------------------------------------------------------------
(* The streams of a torrent *)

CachedOn(r, t, i) == r.entries[i] \in r.torrents[t].cachedOn

\* Entries of services that replied with an error are left out, and uncached
\* torrents if only cached ones are wanted.
Offered(r, t, i) ==
    r.entries[i] \notin r.failed /\ (r.cachedOnly => CachedOn(r, t, i))
IsAdded(r, t, n) == \E i \in 1..n : Offered(r, t, i) /\ CachedOn(r, t, i)

\* Mutant of HasStream: of several services that have it, the last is shown.
HasStreamLast(r, t, i) ==
    /\ Offered(r, t, i)
    /\ r.deduplicate /\ CachedOn(r, t, i)
          => \A j \in i + 1..Len(r.entries) : ~(Offered(r, t, j) /\ CachedOn(r, t, j))

\* Of several services that have it cached, the first is shown.
HasStream(r, t, i) ==
    /\ Offered(r, t, i)
    /\ r.deduplicate /\ CachedOn(r, t, i) => ~IsAdded(r, t, i - 1)

DebridStream(r, t, i) ==
    [torrent |-> t, service |-> r.entries[i], cached |-> CachedOn(r, t, i)]

StreamsOf(r, t) ==
    LET shown == Ascending({i \in DOMAIN r.entries : HasStream(r, t, i)})
        p2p == r.enableTorrent /\ (r.deduplicate => ~IsAdded(r, t, Len(r.entries)))
    IN  IF ~r.torrents[t].fits THEN <<>>
        ELSE [n \in DOMAIN shown |-> DebridStream(r, t, shown[n])]
             \o IF p2p THEN <<[torrent |-> t, service |-> P2P, cached |-> FALSE]>> ELSE <<>>

\* cached_results, acceleratable_results and non_cached_results
InFirst(r, s) == SortMixed(r) \/ s.service = P2P \/ (s.cached /\ r.torrents[s.torrent].onR2)
InSecond(r, s) == ~InFirst(r, s) /\ s.cached
InThird(r, s) == ~InFirst(r, s) /\ ~s.cached

AllStreams(r) ==
    LET chosen == SelectInfoHashes(r)
        after[n \in 0..Len(chosen)] ==
            IF n = 0 THEN <<>> ELSE after[n - 1] \o StreamsOf(r, chosen[n])
    IN  after[Len(chosen)]

FinalStreams(r) ==
    LET all == AllStreams(r)
    IN  Picked(all, {i \in DOMAIN all : InFirst(r, all[i])})
        \o Picked(all, {i \in DOMAIN all : InSecond(r, all[i])})
        \o Picked(all, {i \in DOMAIN all : InThird(r, all[i])})

----------------------------------------------------------------------------
(* deduplicate_streams *)

FileOf(r, s) == r.torrents[s.torrent].file
LengthOf(r, s) == r.torrents[s.torrent].length

\* Of streams with one file name and size the one with the longest description
\* is shown, at the place of the first.
Deduped(r, kept, s) ==
    LET twins == {i \in DOMAIN kept : FileOf(r, kept[i]) = FileOf(r, s)}
    IN  IF FileOf(r, s) = "" \/ twins = {} THEN Append(kept, s)
        ELSE [i \in DOMAIN kept |->
                 IF i \in twins /\ LengthOf(r, s) > LengthOf(r, kept[i]) THEN s ELSE kept[i]]

Deduplicated(r) ==
    LET final == FinalStreams(r)
        after[n \in 0..Len(final)] ==
            IF n = 0 THEN <<>> ELSE Deduped(r, after[n - 1], final[n])
    IN  after[Len(final)]

Respond ==
    /\ ~replied /\ replied' = TRUE
    /\ streams' = IF request.deduplicate THEN Deduplicated(request) ELSE FinalStreams(request)
    /\ UNCHANGED request

AnswerNext == Respond

AnswerSpec == AnswerInit /\ [][AnswerNext]_answerVars

----------------------------------------------------------------------------
Chosen(r) == {SelectInfoHashes(r)[i] : i \in DOMAIN SelectInfoHashes(r)}
ShownOf(t) == {i \in DOMAIN streams : streams[i].torrent = t}
Better(r, u, t) ==
    \/ PrioritizeCached(r) /\ OnR2(r, u) /\ ~OnR2(r, t)
    \/ PrioritizeCached(r) /\ IsCached(r, u) /\ ~IsCached(r, t)
    \/ u < t /\ (PrioritizeCached(r) => OnR2(r, u) = OnR2(r, t) /\ IsCached(r, u) = IsCached(r, t))

\* A limit of results leaves a torrent out only when there are so many better
\* ones of its resolution, which are all selected: the limit never takes the
\* place of a cached torrent for an uncached one of a better rank.
LimitIsFair ==
    replied /\ request.maxResults > 0 =>
        \A t \in DOMAIN request.torrents \ Chosen(request) :
            \/ SelectCachedOnly(request) /\ ~IsCached(request, t)
            \/ Cardinality({u \in Chosen(request) : SameLimit(request, t, u) /\ Better(request, u, t)})
                   = request.maxResults

HasIt(r, t) == {i \in DOMAIN r.entries : CachedOn(r, t, i) /\ r.entries[i] \notin r.failed}
FirstWithIt(r, t) == r.entries[CHOOSE i \in HasIt(r, t) : \A j \in HasIt(r, t) : i <= j]
OneResult(t) ==
    /\ Cardinality(ShownOf(t)) = 1
    /\ \A i \in ShownOf(t) : streams[i].service = FirstWithIt(request, t)
Wanted(r) == {t \in Chosen(r) : r.torrents[t].fits /\ HasIt(r, t) # {}}

\* A selected torrent that is cached is in the answer, of each service that has
\* it or, with duplicates removed, of the first, whatever lists and limits do to
\* the streams; but for a torrent of the same file, for lists that are mixed
\* and for torrents of unknown size, which are shown as uncached, too.
CachedIsShown ==
    replied =>
        \A t \in Wanted(request) :
            IF ~request.deduplicate
            THEN \A i \in HasIt(request, t) :
                     \E k \in ShownOf(t) : streams[k] = DebridStream(request, t, i)
            ELSE \/ OneResult(t)
                 \/ SortMixed(request) \/ request.torrents[t].file = ""
                 \/ \E u \in DOMAIN request.torrents \ {t} :
                        request.torrents[u].file = request.torrents[t].file

AnswerInv == LimitIsFair /\ CachedIsShown
=============================================================================
