----------------------------- MODULE MCPlayback -----------------------------
(* The streams of an answer, what debrid services have cached and the        *)
(* selection of a file to play, each on its own.                             *)
EXTENDS StreamAnswer, DebridAvailability, LinkSelection, TLC

CONSTANTS d1, d2, t1, o1    \* debrid services, a torrent and who asks for it

\* Three torrents whose limits matter, and two whose duplicates do.
ATorrent(resolution, release, file, length, cachedOn, onR2) ==
    [resolution |-> resolution, release |-> release, fits |-> TRUE, file |-> file,
     length |-> length, cachedOn |-> cachedOn, onR2 |-> onR2]
LimitedTorrents ==
    {ATorrent(x, FALSE, "", 1, c, FALSE) : x \in {"1080p", "720p"}, c \in {{}, {d2}}}
    \cup {ATorrent("1080p", x, "", 1, {d2}, TRUE) : x \in BOOLEAN}
DuplicateTorrents ==
    LET files == {<<"", 1>>, <<"f", 1>>, <<"f", 2>>, <<"g", 1>>}
        caches == {<<{}, FALSE>>} \cup (SUBSET {d1, d2} \ {{}}) \X BOOLEAN
    IN  {ATorrent("1080p", FALSE, f[1], f[2], c[1], c[2]) : f \in files, c \in caches}
        \cup {[ATorrent("1080p", FALSE, "f", 1, {d1}, TRUE) EXCEPT !.fits = FALSE]}
RequestsOf(torrents, entries, failed, limits, deduplicate) ==
    [torrents : torrents, entries : entries, failed : failed, maxResults : limits,
     cachedOnly : BOOLEAN, together : BOOLEAN, deduplicate : deduplicate,
     enableTorrent : BOOLEAN]
SomeRequests ==
    RequestsOf([1..3 -> LimitedTorrents], {<<>>, <<d1, d2>>}, {{}}, {1, 2}, {FALSE})
    \cup RequestsOf([1..2 -> DuplicateTorrents], {<<d1, d2>>}, {{}, {d1}}, {0}, BOOLEAN)
ARequest == CHOOSE r \in SomeRequests : TRUE

\* A larger film beside a smaller one, one without an index, and none.
File(title, index, size) == [title |-> title, index |-> index, size |-> size]
SomeListings == {<<File(1, 1, 2), File(2, 2, 1)>>, <<File(3, None, 3)>>, <<>>}
SomeSizes == [t \in {t1} |-> 2]

\* Two files, that differ in all that counts, and where nothing is requested.
AFile(seasons, episodes, named, titled, index, size) ==
    [video |-> TRUE, linked |-> TRUE, strict |-> TRUE, seasons |-> seasons,
     episodes |-> episodes, named |-> named, titled |-> titled, index |-> index, size |-> size]
PlainFile == AFile(<<>>, <<>>, TRUE, TRUE, 1, 4)
SomeFiles ==
    {AFile(e[1], e[2], n, t, i, z) :
        e \in {<<<<1>>, <<1>>>>, <<<<>>, <<1, 2>>>>, <<<<2>>, <<1>>>>, <<<<>>, <<>>>>},
        n \in BOOLEAN, t \in BOOLEAN, i \in {Missing, 1}, z \in {Missing, 4, 400}}
    \cup {[PlainFile EXCEPT !.video = FALSE], [PlainFile EXCEPT !.linked = FALSE],
          [PlainFile EXCEPT !.strict = FALSE]}
PlaysOf(imdb, number) ==
    [files : [1..2 -> SomeFiles], imdb : imdb, season : number, episode : number, index : {1}]
SomePlays == PlaysOf(BOOLEAN, {1}) \cup PlaysOf({FALSE}, {Missing})
APlay == CHOOSE p \in SomePlays : TRUE

VARIABLE part   \* the component that runs

SuiteInit ==
    /\ part \in {"answer", "availability", "link"}
    /\ part = "answer" \/ request = ARequest
    /\ part = "link" \/ play = APlay
    \* A film with or without an offcloud store, or an episode.
    /\ \/ scope = "whole" /\ (offcloud = {} \/ (part = "availability" /\ offcloud = {d2}))
       \/ scope = "episode" /\ offcloud = {} /\ part = "availability"
    /\ AnswerInit /\ AvailabilityInit /\ LinkInit
SuiteNext ==
    /\ UNCHANGED part
    /\ \/ part = "answer" /\ AnswerNext /\ UNCHANGED <<availabilityVars, linkVars>>
       \/ part = "availability" /\ AvailabilityNext /\ UNCHANGED <<answerVars, linkVars>>
       \/ part = "link" /\ LinkNext /\ UNCHANGED <<answerVars, availabilityVars>>

SuiteSpec == SuiteInit /\ [][SuiteNext]_<<part, answerVars, availabilityVars, linkVars>>
=============================================================================
