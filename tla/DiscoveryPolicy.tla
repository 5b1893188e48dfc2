-------------------------- MODULE DiscoveryPolicy --------------------------
(***************************************************************************)
(* background_scraper/worker.py: how much a cycle may discover.  The       *)
(* watermarks of the queue are normalised, a hysteresis pauses discovery   *)
(* between the high and the low one, and what is discovered is cut down to *)
(* the room that is left.                                                  *)
(*                                                                         *)
(* The queue, a count of rows in the database, is that of all processes    *)
(* and grows and shrinks as items are scraped and retries become due.  The *)
(* flag of the hysteresis is in the memory of one process, and processes   *)
(* take turns under a lock (_run_continuous()).  The dashboard's calls     *)
(* (update_state=False) change nothing.                                    *)
(***************************************************************************)
EXTENDS Integers

CONSTANTS
    Scraper,        \* processes, each with a BackgroundScraperWorker
    Setting,        \* values the three settings of the watermarks may have
    Target,         \* values max_movies * multiplier etc. may have
    MaxQueue        \* bound: the queue, as counted by _fetch_queue_snapshot

ASSUME PolicyAssumption ==
    Setting \subseteq Int /\ Target \subseteq Nat /\ MaxQueue \in Nat

VARIABLES
    low, high, hard,    \* BACKGROUND_SCRAPER_QUEUE_{LOW,HIGH}_WATERMARK, ...
    paused,             \* _discovery_paused_for_backlog of each process
    queue,              \* total_queue
    backlog             \* history: a cycle of the process saw the queue at the high
                        \* watermark, and none of its own saw it at the low one since

vars == <<low, high, hard, paused, queue, backlog>>
settings == <<low, high, hard>>

Larger(a, b) == IF a >= b THEN a ELSE b
Smaller(a, b) == IF a <= b THEN a ELSE b

----------------------------------------------------------------------------
\* _discovery_queue_limits(), on settings that max(0, ...) made natural.
HighFrom(hi, ha) == IF hi = 0 /\ ha > 0 THEN ha ELSE hi
LowFrom(lo, hi) == IF hi > 0 /\ (lo = 0 \/ lo > hi) THEN Larger(1, hi \div 2)
                                                    ELSE lo
HardFrom(hi, ha) == IF ha > 0 /\ hi > 0 /\ ha < hi THEN hi ELSE ha

High == HighFrom(Larger(0, high), Larger(0, hard))
Low == LowFrom(Larger(0, low), High)
Hard == HardFrom(High, Larger(0, hard))

\* The cap of _apply_discovery_headroom(): the high watermark, else the hard
\* cap; 0 is no cap.
Cap == IF High > 0 THEN High ELSE Hard

----------------------------------------------------------------------------
Unlimited == High = 0 /\ Hard = 0
AtHardCap(q) == Hard > 0 /\ q >= Hard
Resumes(q) == Low > 0 /\ q <= Low
AtHigh(q) == High > 0 /\ q >= High

\* Mutant of Blocked: discovery resumes below the high watermark.
BlockedAtHigh(w, q) == ~Unlimited /\ (AtHardCap(q) \/ AtHigh(q))

\* _evaluate_discovery_policy(): may not discover; and the state it leaves.
Blocked(w, q) ==
    ~Unlimited /\ (AtHardCap(q) \/ (paused[w] /\ ~Resumes(q)) \/ AtHigh(q))

\* _apply_discovery_headroom() for targets m (movies) and s (series): each is
\* cut in proportion, then what rounding left over goes to movies first.
Headroom(q) == Larger(0, Cap - q)

\* Mutant of Shares: both targets are cut to the room there is.
SharesEach(m, s, room) == [movies |-> Smaller(m, room), series |-> Smaller(s, room)]

Shares(m, s, room) ==
    LET m1 == Smaller(m, (room * m) \div (m + s))
        s1 == Smaller(s, room - m1)
        m2 == m1 + Smaller(m - m1, room - m1 - s1)
        s2 == s1 + Smaller(s - s1, room - m2 - s1)
    IN  [movies |-> m2, series |-> s2]

Allowance(m, s, q) ==
    CASE m + s = 0 -> [movies |-> 0, series |-> 0]
      [] m + s > 0 /\ (Cap = 0 \/ Headroom(q) >= m + s) ->
            [movies |-> m, series |-> s]
      [] m + s > 0 /\ Cap > 0 /\ Headroom(q) = 0 ->
            [movies |-> 0, series |-> 0]
      [] OTHER -> Shares(m, s, Headroom(q))

----------------------------------------------------------------------------
Init ==
    /\ low \in Setting /\ high \in Setting /\ hard \in Setting
    /\ paused = [w \in Scraper |-> FALSE]
    /\ queue \in 0..MaxQueue
    /\ backlog = [w \in Scraper |-> FALSE]

BacklogAt(w, q) == ~Unlimited /\ (AtHigh(q) \/ (backlog[w] /\ q > Low))

\* The part of _run_scraping_cycle() that discovers: at most what is allowed
\* of each kind becomes a new item of the queue.
Cycle(w, m, s) ==
    /\ paused' = [paused EXCEPT ![w] = Blocked(w, queue)]
    /\ backlog' = [backlog EXCEPT ![w] = BacklogAt(w, queue)]
    /\ IF Blocked(w, queue)
       THEN UNCHANGED queue
       ELSE \E n \in 0..(Allowance(m, s, queue).movies
                         + Allowance(m, s, queue).series) :
                queue' = queue + n
    /\ UNCHANGED settings

\* Items are scraped, or become due again.
QueueChanges == queue' \in 0..MaxQueue /\ UNCHANGED <<settings, paused, backlog>>

\* stop() forgets the hysteresis, and so does a process that ends and starts again.
Reset(w) ==
    /\ paused' = [paused EXCEPT ![w] = FALSE] /\ backlog' = [backlog EXCEPT ![w] = FALSE]
    /\ UNCHANGED <<settings, queue>>

Next ==
    \/ \E w \in Scraper :
          \/ queue <= MaxQueue /\ \E m, s \in Target : Cycle(w, m, s)
          \/ Reset(w)
    \/ QueueChanges

Spec == Init /\ [][Next]_vars

----------------------------------------------------------------------------
\* Type invariant.
TypeOK ==
    /\ low \in Setting /\ high \in Setting /\ hard \in Setting
    /\ queue \in Nat
    /\ paused \in [Scraper -> BOOLEAN] /\ backlog \in [Scraper -> BOOLEAN]

\* Whatever the settings, they are normalised to an order in which hysteresis
\* makes sense: 0 < low <= high <= hard wherever there is a limit at all.
LimitsOrdered ==
    \/ Unlimited
    \/ /\ 0 < Low /\ Low <= High
       /\ Hard = 0 \/ High <= Hard

\* "Pause discovery when queue reaches this level": a cycle never discovers
\* the queue beyond the cap, movies and series together, and uses all of the
\* room when it has targets for it.
RoomIsShared ==
    \A m, s \in Target :
        LET a == Allowance(m, s, queue)
        IN  /\ a.movies \in 0..m /\ a.series \in 0..s
            /\ Cap > 0 => a.movies + a.series = Smaller(m + s, Headroom(queue))

\* From its cycle that sees the queue at the high watermark to its cycle that sees
\* it at the low one, or to its stop() or restart, no cycle of a process adds to
\* the queue.  That is no promise of the whole system: another process, which has
\* not seen the queue so high, or the same one restarted, discovers in between.
ResumesAtLow ==
    [][\A w \in Scraper, m, s \in Target :
          queue' # queue /\ Cycle(w, m, s) => ~backlog'[w]]_vars

\* What holds of the policy in every state: limits in order, room shared out.
PolicyInv == TypeOK /\ LimitsOrdered /\ RoomIsShared
=============================================================================
