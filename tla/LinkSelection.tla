--------------------------- MODULE LinkSelection ---------------------------
(***************************************************************************)
(* A link for playback (generate_download_link() of debrid/stremthru.py):  *)
(* a torrent is added to a store, the best of its files is selected by a   *)
(* score, rows of debrid_availability are left to a task, and the store    *)
(* makes a link of the file.                                               *)
(*                                                                         *)
(* A name is kept as what is parsed from it and what it is compared with;  *)
(* whether it strictly matches the episode is match_parsed_episode_target. *)
(***************************************************************************)
EXTENDS Sorting, SequencesExt

CONSTANTS
    Plays           \* what may be played, see TypeOfPlay

Missing == -1       \* no number: -1 at the store, None here

\* A file of the torrent; sizes are in GiB.
TypeOfFile(f) ==
    /\ f.video \in BOOLEAN                     \* is_video, and no sample
    /\ f.linked \in BOOLEAN                    \* has a link
    /\ f.strict \in BOOLEAN                    \* _strict_episode_match
    /\ f.seasons \in Seq(Nat) /\ f.episodes \in Seq(Nat)
    /\ f.named \in BOOLEAN                     \* name = torrent_name
    /\ f.titled \in BOOLEAN                    \* an alias, or the title, matches
    /\ f.index \in Nat \cup {Missing} /\ f.size \in Nat \cup {Missing}

TypeOfPlay(p) ==
    /\ Len(p.files) \in Nat /\ DOMAIN p.files = 1..Len(p.files)
    /\ \A i \in DOMAIN p.files : TypeOfFile(p.files[i])
    /\ p.imdb \in BOOLEAN                      \* series_id starts with "tt"
    /\ {p.season, p.episode, p.index} \subseteq Nat \cup {Missing}

ASSUME LinkAssumption == \A p \in Plays : TypeOfPlay(p)

VARIABLES
    play,       \* what is played
    stage,      \* "add", "select", "link" and "end"
    outcome,    \* how it ended: "link", or why there is none
    target,     \* target_file, 0 before it is selected
    toCache     \* all_files_for_cache: <<season, episode, file>>
linkVars == <<play, stage, outcome, target, toCache>>

LinkInit ==
    /\ play \in Plays /\ stage = "add" /\ outcome = "none" /\ target = 0 /\ toCache = <<>>

----------------------------------------------------------------------------
(* The score of a file, in tenths *)

IsEpisodeRequest(p) == p.imdb /\ p.season # Missing /\ p.episode # Missing

Candidates(p) ==
    {i \in DOMAIN p.files : /\ p.files[i].video /\ p.files[i].linked
                            /\ IsEpisodeRequest(p) => p.files[i].strict}

EpisodeScore(p, f) ==
    IF Missing \in {p.season, p.episode} \/ p.episode \notin ToSet(f.episodes) THEN 0
    ELSE IF f.seasons # <<>> /\ p.season \notin ToSet(f.seasons) THEN 2000
    ELSE IF Len(f.episodes) = 1 THEN 10000 ELSE 5000

IndexMatches(p, f) == f.index # Missing /\ f.index = p.index

\* Mutant of SizeScore: without the cap.
SizeScoreUncapped(f) == IF f.size = Missing THEN 0 ELSE f.size

\* min(size / 10 GiB, 10)
SizeScore(f) ==
    IF f.size = Missing THEN 0 ELSE IF f.size > 100 THEN 100 ELSE f.size

Worth(holds, points) == IF holds THEN points ELSE 0

Score(p, f) ==
    EpisodeScore(p, f) + Worth(f.named, 1000) + Worth(f.titled, 500)
        + Worth(IndexMatches(p, f), 250) + SizeScore(f)

\* scored_files: sorted by score, stably.
IsAhead(p, i, j) ==
    \/ Score(p, p.files[i]) > Score(p, p.files[j])
    \/ Score(p, p.files[i]) = Score(p, p.files[j]) /\ i < j
ScoredFiles(p) ==
    InOrder(Candidates(p), {x \in Candidates(p) \X Candidates(p) : IsAhead(p, x[1], x[2])})

First(numbers) == IF numbers = <<>> THEN Missing ELSE numbers[1]

\* Where a scored file is cached: as the requested episode or as that of its
\* name, if it has a season or an episode.
ScopeOf(p, f) ==
    IF IsEpisodeRequest(p) THEN <<p.season, p.episode>>
    ELSE <<First(f.seasons), First(f.episodes)>>
RowOf(p, i) ==
    LET at == ScopeOf(p, p.files[i])
    IN  <<IF at[1] = Missing THEN p.season ELSE at[1], at[2], i>>
HasScope(p, i) == ScopeOf(p, p.files[i]) # <<Missing, Missing>>

\* The target is cached last, for what was requested.
AllFilesForCache(p) ==
    LET scored == ScoredFiles(p)
        scoped == Picked(scored, {n \in DOMAIN scored : HasScope(p, scored[n])})
    IN  [n \in DOMAIN scoped |-> RowOf(p, scoped[n])]
        \o IF p.season # Missing \/ p.episode # Missing
           THEN <<<<p.season, p.episode, scored[1]>>>> ELSE <<>>

----------------------------------------------------------------------------
End(why) == stage' = "end" /\ outcome' = why

\* The store adds the magnet and tells its status, or fails.
AddMagnet(status) ==
    /\ stage = "add"
    /\ CASE status = "ready" -> stage' = "select" /\ UNCHANGED outcome
         [] status = "pending" -> End("not cached yet")
         [] status = "invalid" -> End("magnet invalid")
         [] status = "error" -> End("store failed")
         [] OTHER -> End("nothing")
    /\ UNCHANGED <<play, target, toCache>>

\* Nothing is returned without a video, or without one with a link; an episode
\* that no file matches is an error.
SelectFile ==
    /\ stage = "select"
    /\ IF Candidates(play) # {}
       THEN /\ stage' = "link" /\ UNCHANGED outcome
            /\ target' = ScoredFiles(play)[1]
            /\ toCache' = AllFilesForCache(play)
       ELSE /\ End(IF IsEpisodeRequest(play) /\ \E i \in DOMAIN play.files : play.files[i].video
                   THEN "no match" ELSE "nothing")
            /\ UNCHANGED <<target, toCache>>
    /\ UNCHANGED play

\* The rows are cached whether or not the store makes a link.
GenerateLink(made) ==
    /\ stage = "link"
    /\ End(IF made THEN "link" ELSE "store failed")
    /\ UNCHANGED <<play, target, toCache>>

LinkNext ==
    \/ \E status \in {"ready", "pending", "invalid", "error", "unknown"} : AddMagnet(status)
    \/ SelectFile
    \/ \E made \in BOOLEAN : GenerateLink(made)

LinkSpec == LinkInit /\ [][LinkNext]_linkVars

----------------------------------------------------------------------------
\* The priorities that the docstring lists, from the highest; a size counts up
\* to 100 GiB (its comment says 10).
Priorities(p, f) ==
    <<EpisodeScore(p, f), Worth(f.named, 1), Worth(f.titled, 1),
      Worth(IndexMatches(p, f), 1), SizeScore(f)>>
Precedes(a, b) ==
    \E n \in DOMAIN a : a[n] > b[n] /\ \A m \in 1..n - 1 : a[m] = b[m]

\* The scores add up to the order of the docstring: no sum of lower priorities
\* outweighs a higher one, and the first of the equal files is taken.
TargetIsFirst ==
    target # 0 =>
        /\ target \in Candidates(play)
        /\ \A i \in Candidates(play) \ {target} :
               LET a == Priorities(play, play.files[target])
                   b == Priorities(play, play.files[i])
               IN  Precedes(a, b) \/ (a = b /\ target < i)

\* What remains in the table for the requested episode is the file that is
\* played, though other files are cached as the same episode.
RequestedRowIsTarget ==
    LET requested == {n \in DOMAIN toCache :
                          toCache[n][1] = play.season /\ toCache[n][2] = play.episode}
    IN  \A n \in requested : (\A m \in requested : m <= n) => toCache[n][3] = target

LinkInv == TargetIsFirst /\ RequestedRowIsTarget
=============================================================================
