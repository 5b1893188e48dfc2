------------------------ MODULE TorrentUpdatesProofs ------------------------
(***************************************************************************)
(* Proofs about the queue of torrent updates.  Its retry event, which      *)
(* stop() awaits in a loop, is set only when the retry worker has nothing  *)
(* left.  And nothing that was accepted is lost or overtaken: UpdIndInv,   *)
(* the inductive invariant, says where the objects are (Apart, Fresh),     *)
(* which of them are pending (PendingKept), what the newest update of a    *)
(* row is carried by (OrderKept), that every accepted update is part of an *)
(* object that somebody will take (PlaceKept), and how far stop() has got  *)
(* (StopPhases).                                                           *)
(*                                                                         *)
(* Items are staged one by one, in a fold.  What the fold comes to is      *)
(* found by induction on the number of items, as a fact about the least    *)
(* number for which it would fail.                                         *)
(***************************************************************************)
EXTENDS TorrentUpdates, Lemmas

----------------------------------------------------------------------------
(* The retry event. *)

\* Everybody who may put has a list of what is left to put.
SlowIsMap == slow = [p \in Putter |-> slow[p]]

RetryInv == SlowIsMap /\ RetryEventTrue

\* What is assigned to one putter leaves what the others have to put alone.
LEMMA OneSlow ==
    ASSUME NEW p \in Putter, NEW left, SlowIsMap,
           slow' = [slow EXCEPT ![p] = left]
    PROVE  /\ SlowIsMap'
           /\ slow'[p] = left
           /\ \A q \in Putter \ {p} : slow'[q] = slow[q]
BY DEF SlowIsMap

LEMMA RetryInit == Init => RetryInv
BY DEF Init, RetryInv, SlowIsMap, RetryEventTrue, RetryIdle, Putter

\* A call never touches what the retry worker has left.
LEMMA CallStep ==
    ASSUME RetryInv, NEW c \in Call, NEW left,
           slow' = [slow EXCEPT ![c] = left], UNCHANGED <<heap, idle>>
    PROVE  RetryInv'
<1>1. c \in Putter /\ Retrier \in Putter \ {c}
  BY UpdatesAssumption DEF Putter, UpdatesAssumption
<1>2. SlowIsMap' /\ slow'[Retrier] = slow[Retrier]
  BY <1>1, OneSlow DEF RetryInv
<1> QED
  BY <1>2 DEF RetryInv, RetryEventTrue, RetryIdle

\* A step of the retry worker: when it sets the event, nothing is left.
LEMMA RetryStep ==
    ASSUME RetryInv, NEW left,
           slow' = [slow EXCEPT ![Retrier] = left],
           ~idle,
           idle' = (idle \/ IdleAfter(heap', slow'[Retrier]))
    PROVE  RetryInv'
<1>1. Retrier \in Putter
  BY DEF Putter
<1>2. SlowIsMap'
  BY <1>1, OneSlow DEF RetryInv
<1> QED
  BY <1>2 DEF RetryInv, RetryEventTrue, RetryIdle, IdleAfter

LEMMA RetryNext == RetryInv /\ [Next]_vars => RetryInv'
<1> SUFFICES ASSUME RetryInv, [Next]_vars PROVE RetryInv'
  OBVIOUS
<1>1. ASSUME UNCHANGED <<slow, heap, idle>> PROVE RetryInv'
  BY <1>1 DEF RetryInv, SlowIsMap, RetryEventTrue, RetryIdle
<1>2. ASSUME NEW c \in Call, Add(c) \/ Put(c) \/ Cancel(c) PROVE RetryInv'
  <2>1. CASE Add(c)
    <3>1. slow' = [slow EXCEPT ![c] = Staged(Items[c]).slow]
      BY <2>1 DEF Add, Stage
    <3> QED
      BY <2>1, <3>1, CallStep DEF Add, retryVars
  <2>2. CASE Put(c)
    <3>1. \E left : slow' = [slow EXCEPT ![c] = left]
      BY <2>2 DEF Put, PutSlow
    <3> QED
      BY <2>2, <3>1, CallStep DEF Put, retryVars
  <2>3. CASE Cancel(c)
    BY <2>3, CallStep DEF Cancel, retryVars
  <2> QED
    BY <1>2, <2>1, <2>2, <2>3
<1>3. ASSUME NEW c \in Call, Refuse(c) PROVE RetryInv'
  BY <1>3, <1>1 DEF Refuse, queueVars, retryVars
<1>4. CASE Work
  BY <1>4, <1>1 DEF Work, Take, TakeMore, Collect, FlushTimeout, TakeStop, Write,
                    Hand, queueVars, retryVars
<1>5. CASE WriteFails
  <2>1. UNCHANGED slow
    BY <1>5 DEF WriteFails
  <2>2. CASE UNCHANGED retryVars
    BY <2>1, <2>2, <1>1 DEF retryVars
  <2>3. CASE Requeue(batch.items)
    BY <2>1, <2>3 DEF Requeue, RetryInv, SlowIsMap, RetryEventTrue
  <2> QED
    BY <1>5, <2>2, <2>3 DEF WriteFails
<1>6. CASE RetryStages
  <2>1. PICK items \in heap : Stage(Retrier, items)
    BY <1>6 DEF RetryStages
  <2>2. slow' = [slow EXCEPT ![Retrier] = Staged(items).slow]
    BY <2>1 DEF Stage
  <2>3. ~idle
    BY <2>1 DEF RetryInv, RetryEventTrue, RetryIdle
  <2> QED
    BY <1>6, <2>2, <2>3, RetryStep DEF RetryStages
<1>7. CASE RetryPuts
  <2>1. \E left : slow' = [slow EXCEPT ![Retrier] = left]
    BY <1>7 DEF RetryPuts, PutSlow
  <2>2. ~idle
    BY <1>7 DEF RetryPuts, PutSlow, RetryInv, RetryEventTrue, RetryIdle
  <2> QED
    BY <1>7, <2>1, <2>2, RetryStep DEF RetryPuts
<1>8. CASE Send \/ SendFails \/ BeginStop
  BY <1>8, <1>1 DEF Send, SenderTakes, Sent, SendAgain, SendFails, BeginStop,
                    queueVars, retryVars
<1>9. CASE Stop
  <2>1. CASE Drain \/ Joined \/ StopPut \/ Gathered \/ SenderStops
    BY <2>1, <1>1 DEF Drain, Joined, StopPut, Gathered, SenderStops, queueVars,
                      retryVars
  <2>2. CASE RetryDrained
    BY <2>2 DEF RetryDrained, queueVars, RetryInv, SlowIsMap, RetryEventTrue,
                RetryIdle
  <2>3. CASE StopEnds
    <3>1. slow'[Retrier] = <<>> /\ SlowIsMap'
      BY <2>3, OneSlow DEF StopEnds, RetryInv, Putter
    <3> QED
      BY <2>3, <3>1 DEF StopEnds, RetryInv, RetryEventTrue, RetryIdle
  <2> QED
    BY <1>9, <2>1, <2>2, <2>3 DEF Stop
<1>10. CASE UNCHANGED vars
  BY <1>10, <1>1 DEF vars, queueVars, retryVars
<1> QED
  BY <1>2, <1>3, <1>4, <1>5, <1>6, <1>7, <1>8, <1>9, <1>10 DEF Next, Retry

\* The event that stop() awaits is never set while the retry worker has a batch
\* in its heap or in its hands: the loop of _wait_for_retry_drain() suspends.
THEOREM RetryEventNeverLies == Spec => []RetryEventTrue
<1>1. RetryInv => RetryEventTrue
  BY DEF RetryInv
<1> QED
  BY RetryInit, RetryNext, <1>1, PTL DEF Spec

----------------------------------------------------------------------------
(* What a fold over a sequence results in. *)

\* The greatest of the first numbers
LEMMA GreatestIs ==
    ASSUME NEW n \in Nat, NEW s \in SUBSET (1..n), n \in s
    PROVE  Max(s) = n
<1>1. \A y \in s : n >= y
  OBVIOUS
<1>2. \A x \in s : x \in Nat
  OBVIOUS
<1>3. \A x \in s : (\A y \in s : x >= y) => x = n
  BY <1>1, <1>2
<1> QED
  BY <1>1, <1>3 DEF Max

\* The two folds of the queue: the staging of items, and the selection of those
\* that still wait.  FoldPrefixes is what such a fold gives for all sets of
\* positions, from which it takes its result.
FoldStep(staging, so, u) == IF staging = "stage" THEN StageOne(so, u) ELSE Kept(so, u)

FoldPrefixes(f, staging, base, items, n) ==
    f = [s \in SUBSET (1..n) |->
           IF s = {} THEN base ELSE FoldStep(staging, f[s \ {Max(s)}], items[Max(s)])]

\* With one more item the fold goes on from where it was:
LEMMA PrefixesGrow ==
    ASSUME NEW staging, NEW base, NEW items, NEW n \in Nat, NEW f, FoldPrefixes(f, staging, base, items, n)
    PROVE  \E g : FoldPrefixes(g, staging, base, items, n + 1)
<1> DEFINE g == [s \in SUBSET (1..n + 1) |->
                    IF n + 1 \in s THEN FoldStep(staging, f[s \ {n + 1}], items[n + 1]) ELSE f[s]]
<1>0. f = [s \in SUBSET (1..n) |->
           IF s = {} THEN base ELSE FoldStep(staging, f[s \ {Max(s)}], items[Max(s)])]
  BY DEF FoldPrefixes
<1>1. ASSUME NEW s \in SUBSET (1..n + 1)
      PROVE  g[s] = IF s = {} THEN base ELSE FoldStep(staging, g[s \ {Max(s)}], items[Max(s)])
  <2>1. CASE n + 1 \in s
    <3>1. Max(s) = n + 1
      BY <2>1, GreatestIs
    <3>2. s \ {n + 1} \in SUBSET (1..n + 1) /\ n + 1 \notin s \ {n + 1}
      OBVIOUS
    <3>3. g[s \ {n + 1}] = f[s \ {n + 1}]
      BY <3>2
    <3> QED
      BY <2>1, <3>1, <3>3
  <2>2. CASE n + 1 \notin s
    <3>1. s \in SUBSET (1..n)
      BY <2>2
    <3>2. s \ {Max(s)} \in SUBSET (1..n + 1) /\ n + 1 \notin s \ {Max(s)}
      BY <2>2
    <3>3. g[s \ {Max(s)}] = f[s \ {Max(s)}] /\ g[s] = f[s]
      BY <2>2, <3>2
    <3> HIDE DEF g
    <3> QED
      BY <3>1, <3>3, <1>0
  <2> QED
    BY <2>1, <2>2
<1>2. g = [s \in SUBSET (1..n + 1) |->
             IF s = {} THEN base ELSE FoldStep(staging, g[s \ {Max(s)}], items[Max(s)])]
  <2> DEFINE h == [s \in SUBSET (1..n + 1) |->
             IF s = {} THEN base ELSE FoldStep(staging, g[s \ {Max(s)}], items[Max(s)])]
  <2>1. \A s \in SUBSET (1..n + 1) : g[s] = h[s]
    BY <1>1
  <2>2. g = [s \in SUBSET (1..n + 1) |-> g[s]] /\ h = [s \in SUBSET (1..n + 1) |-> h[s]]
    OBVIOUS
  <2> HIDE DEF g
  <2>3. h = [s \in SUBSET (1..n + 1) |-> h[s]] /\ \A s \in SUBSET (1..n + 1) : g[s] = h[s]
    BY <2>1, <2>2
  <2>4. g = h
    <3> HIDE DEF h
    <3> QED BY <2>2, <2>3
  <2> QED
    BY <2>4
<1> HIDE DEF g
<1> QED
  BY <1>2 DEF FoldPrefixes

\* there is one for every number of items,
LEMMA PrefixesExist ==
    ASSUME NEW staging, NEW base, NEW items, NEW n \in Nat
    PROVE  \E f : FoldPrefixes(f, staging, base, items, n)
<1> DEFINE Good == {k \in 0..n : \E f : FoldPrefixes(f, staging, base, items, k)}
<1>1. 0 \in Good
  <2> DEFINE f == [s \in SUBSET (1..0) |-> base]
  <2>1. \A s \in SUBSET (1..0) : s = {}
    OBVIOUS
  <2>2. FoldPrefixes(f, staging, base, items, 0)
    BY <2>1 DEF FoldPrefixes
  <2> QED
    BY <2>2
<1>2. \A k \in 0..n : k \in Good /\ k < n => k + 1 \in Good
  <2> SUFFICES ASSUME NEW k \in 0..n, k \in Good, k < n PROVE k + 1 \in Good
    OBVIOUS
  <2>1. PICK f : FoldPrefixes(f, staging, base, items, k)
    OBVIOUS
  <2>2. \E g : FoldPrefixes(g, staging, base, items, k + 1)
    BY <2>1, PrefixesGrow
  <2> QED
    BY <2>2
<1>3. \A k \in 0..n : k \in Good
  <2> HIDE DEF Good
  <2> QED
    BY <1>1, <1>2, ReachesEnd
<1> QED
  BY <1>3

\* What a fold gives, as its successive results
FoldResults(st, staging, base, items) ==
    /\ st[0] = base
    /\ \A k \in 1..Len(items) : st[k] = FoldStep(staging, st[k - 1], items[k])

\* and it goes through the results for the first items, one after the other.
LEMMA PrefixesAreResults ==
    ASSUME NEW staging, NEW base, NEW items, NEW n \in Nat, n = Len(items),
           NEW f, FoldPrefixes(f, staging, base, items, n)
    PROVE  \E st : FoldResults(st, staging, base, items) /\ st[n] = f[1..n]
<1> DEFINE st == [k \in 0..n |-> f[1..k]]
<1>1. st[0] = base
  BY DEF FoldPrefixes
<1>2. ASSUME NEW k \in 1..n PROVE st[k] = FoldStep(staging, st[k - 1], items[k])
  <2>0. k \in 0..n /\ k - 1 \in 0..n /\ k \in Nat /\ k <= n /\ k \in 1..k
    OBVIOUS
  <2>1. 1..k \in SUBSET (1..n) /\ 1..k # {}
    <3>1. \A i \in 1..k : i \in 1..n
      BY <2>0
    <3> QED
      BY <2>0, <3>1
  <2>2. Max(1..k) = k
    BY <2>0, GreatestIs
  <2>3. (1..k) \ {k} = 1..(k - 1)
    OBVIOUS
  <2>4. f[1..k] = FoldStep(staging, f[1..(k - 1)], items[k])
    <3>1. f[1..k] = FoldStep(staging, f[(1..k) \ {Max(1..k)}], items[Max(1..k)])
      BY <2>1 DEF FoldPrefixes
    <3> QED
      BY <3>1, <2>2, <2>3
  <2> QED
    BY <2>0, <2>4
<1>3. st[n] = f[1..n]
  OBVIOUS
<1> HIDE DEF st
<1> QED
  BY <1>1, <1>2, <1>3 DEF FoldResults

\* What the folds start from
FoldBase(staging) ==
    IF staging = "stage" THEN [pending |-> pending, data |-> data, content |-> content,
                     queue |-> queue, slow |-> <<>>]
    ELSE <<>>

\* So the items are staged one after the other,
LEMMA StagedIs ==
    ASSUME NEW items, NEW n \in Nat, n = Len(items), DOMAIN items = 1..n
    PROVE  \E st : FoldResults(st, "stage", FoldBase("stage"), items) /\ st[n] = Staged(items)
<1> DEFINE F(f) == f = [s \in SUBSET (1..n) |->
              IF s = {} THEN FoldBase("stage") ELSE StageOne(f[s \ {Max(s)}], items[Max(s)])]
<1>1. \A f : F(f) <=> FoldPrefixes(f, "stage", FoldBase("stage"), items, n)
  BY DEF FoldPrefixes, FoldStep
<1>2. PICK g : F(g)
  BY <1>1, PrefixesExist
<1>3. Staged(items) = (CHOOSE f : F(f))[1..n]
  BY DEF Staged, FoldLeft, MapThenFoldSet, FoldBase
<1> HIDE DEF F
<1>4. F(CHOOSE f : F(f))
  BY <1>2
<1>5. PICK h : F(h) /\ Staged(items) = h[1..n]
  BY <1>3, <1>4
<1>6. FoldPrefixes(h, "stage", FoldBase("stage"), items, n)
  BY <1>1, <1>5
<1> DEFINE base == FoldBase("stage")
<1> HIDE DEF base
<1>7. FoldPrefixes(h, "stage", base, items, n)
  BY <1>6 DEF base
<1>8. \E st : FoldResults(st, "stage", base, items) /\ st[n] = h[1..n]
  BY <1>7, PrefixesAreResults
<1> QED
  BY <1>5, <1>8 DEF base

\* and those that are still wanted are kept one after the other.
LEMMA ReadyIs ==
    ASSUME NEW items, NEW n \in Nat, n = Len(items), DOMAIN items = 1..n
    PROVE  \E st : FoldResults(st, "select", FoldBase("select"), items) /\ st[n] = Ready(items)
<1> DEFINE F(f) == f = [s \in SUBSET (1..n) |->
              IF s = {} THEN FoldBase("select") ELSE Kept(f[s \ {Max(s)}], items[Max(s)])]
<1>1. \A f : F(f) <=> FoldPrefixes(f, "select", FoldBase("select"), items, n)
  BY DEF FoldPrefixes, FoldStep
<1>2. PICK g : F(g)
  BY <1>1, PrefixesExist
<1>3. Ready(items) = (CHOOSE f : F(f))[1..n]
  BY DEF Ready, FoldLeft, MapThenFoldSet, FoldBase
<1> HIDE DEF F
<1>4. F(CHOOSE f : F(f))
  BY <1>2
<1>5. PICK h : F(h) /\ Ready(items) = h[1..n]
  BY <1>3, <1>4
<1>6. FoldPrefixes(h, "select", FoldBase("select"), items, n)
  BY <1>1, <1>5
<1> DEFINE base == FoldBase("select")
<1> HIDE DEF base
<1>7. FoldPrefixes(h, "select", base, items, n)
  BY <1>6 DEF base
<1>8. \E st : FoldResults(st, "select", base, items) /\ st[n] = h[1..n]
  BY <1>7, PrefixesAreResults
<1> QED
  BY <1>5, <1>8 DEF base

----------------------------------------------------------------------------
(* Sequences without repetition. *)

\* No object is twice in a sequence.
Once(s) == \A i, j \in DOMAIN s : s[i] = s[j] => i = j

\* What is appended
LEMMA OnceAppend ==
    ASSUME NEW S, NEW s \in Seq(S), NEW e \in S
    PROVE  /\ Append(s, e) \in Seq(S) /\ Len(Append(s, e)) = Len(s) + 1
           /\ ToSet(Append(s, e)) = ToSet(s) \cup {e}
           /\ Once(s) /\ e \notin ToSet(s) => Once(Append(s, e))
           /\ Append(s, e)[Len(Append(s, e))] = e
<1> DEFINE t == Append(s, e)
<1>1. /\ t \in Seq(S) /\ Len(t) = Len(s) + 1 /\ Len(s) \in Nat
      /\ DOMAIN s = 1..Len(s) /\ DOMAIN t = 1..(Len(s) + 1)
      /\ t[Len(s) + 1] = e /\ \A i \in 1..Len(s) : t[i] = s[i]
  OBVIOUS
<1> HIDE DEF t
<1>2. \A i \in DOMAIN t : i \in DOMAIN s \/ i = Len(s) + 1
  BY <1>1
<1>3. Len(s) + 1 \in DOMAIN t /\ \A i \in DOMAIN s : i \in DOMAIN t /\ t[i] = s[i]
  BY <1>1
<1>4. ToSet(t) = ToSet(s) \cup {e}
  BY <1>1, <1>2, <1>3 DEF ToSet
<1>5. Once(s) /\ e \notin ToSet(s) => Once(t)
  BY <1>1, <1>2, <1>3 DEF ToSet, Once
<1> QED
  BY <1>1, <1>4, <1>5 DEF t

\* What is put behind
JoinsTo(S, s, t, j) ==
    /\ j \in Seq(S) /\ Len(j) = Len(s) + Len(t)
    /\ ToSet(j) = ToSet(s) \cup ToSet(t)
    /\ Once(s) /\ Once(t) /\ ToSet(s) \cap ToSet(t) = {} => Once(j)
    /\ t # <<>> => j[Len(j)] = t[Len(t)]

\* Two sequences that are joined
LEMMA OnceJoin ==
    ASSUME NEW S, NEW s \in Seq(S), NEW t \in Seq(S), NEW j, j = s \o t
    PROVE  JoinsTo(S, s, t, j)
<1>1. /\ j \in Seq(S) /\ Len(j) = Len(s) + Len(t) /\ Len(s) \in Nat /\ Len(t) \in Nat
      /\ DOMAIN s = 1..Len(s) /\ DOMAIN t = 1..Len(t) /\ DOMAIN j = 1..(Len(s) + Len(t))
      /\ \A i \in 1..(Len(s) + Len(t)) : j[i] = IF i <= Len(s) THEN s[i] ELSE t[i - Len(s)]
  OBVIOUS
<1>2. ASSUME NEW i \in DOMAIN j
      PROVE  \/ i \in DOMAIN s /\ j[i] = s[i]
             \/ i - Len(s) \in DOMAIN t /\ j[i] = t[i - Len(s)]
  BY <1>1
<1>3. \A i \in DOMAIN s : i \in DOMAIN j /\ j[i] = s[i]
  BY <1>1
<1>4. ASSUME NEW i \in DOMAIN t PROVE Len(s) + i \in DOMAIN j /\ j[Len(s) + i] = t[i]
  <2>1. i \in 1..Len(t) /\ Len(s) + i \in 1..(Len(s) + Len(t)) /\ ~(Len(s) + i <= Len(s))
        /\ Len(s) + i - Len(s) = i
    BY <1>1
  <2> QED
    BY <1>1, <2>1
<1>5. ToSet(j) = ToSet(s) \cup ToSet(t)
  <2>1. \A x \in ToSet(j) : x \in ToSet(s) \cup ToSet(t)
    BY <1>2 DEF ToSet
  <2>2. \A x \in ToSet(s) : x \in ToSet(j)
    BY <1>3 DEF ToSet
  <2>3. \A x \in ToSet(t) : x \in ToSet(j)
    BY <1>4 DEF ToSet
  <2> QED
    BY <2>1, <2>2, <2>3
<1>6. ASSUME Once(s), Once(t), ToSet(s) \cap ToSet(t) = {}, NEW i \in DOMAIN j, NEW k \in DOMAIN j,
             j[i] = j[k]
      PROVE  i = k
  <2>1. i \in Nat /\ k \in Nat
    BY <1>1
  <2>2. CASE i \in DOMAIN s /\ j[i] = s[i] /\ k \in DOMAIN s /\ j[k] = s[k]
    BY <1>6, <2>2 DEF Once
  <2>3. CASE /\ i - Len(s) \in DOMAIN t /\ j[i] = t[i - Len(s)]
             /\ k - Len(s) \in DOMAIN t /\ j[k] = t[k - Len(s)]
    <3>1. i - Len(s) = k - Len(s)
      BY <1>6, <2>3 DEF Once
    <3> QED
      BY <3>1, <2>1, <1>1
  <2>4. CASE i \in DOMAIN s /\ j[i] = s[i] /\ k - Len(s) \in DOMAIN t /\ j[k] = t[k - Len(s)]
    BY <1>6, <2>4 DEF ToSet
  <2>5. CASE k \in DOMAIN s /\ j[k] = s[k] /\ i - Len(s) \in DOMAIN t /\ j[i] = t[i - Len(s)]
    BY <1>6, <2>5 DEF ToSet
  <2> QED
    BY <1>2, <1>6, <2>2, <2>3, <2>4, <2>5
<1>7. t # <<>> => j[Len(j)] = t[Len(t)]
  <2> SUFFICES ASSUME t # <<>> PROVE j[Len(j)] = t[Len(t)]
    OBVIOUS
  <2>1. Len(t) \in DOMAIN t
    BY <1>1
  <2> QED
    BY <1>1, <1>4, <2>1
<1> QED
  BY <1>1, <1>5, <1>6, <1>7 DEF JoinsTo, Once

\* Two sequences that continue each other
Halves(s, n, t, u) ==
    /\ Len(s) \in Nat /\ n <= Len(s) /\ Len(t) = n /\ Len(u) = Len(s) - n
    /\ DOMAIN s = 1..Len(s) /\ DOMAIN t = 1..n /\ DOMAIN u = 1..(Len(s) - n)
    /\ \A i \in 1..n : t[i] = s[i]
    /\ \A i \in 1..(Len(s) - n) : u[i] = s[n + i]

HalvesAre(s, n, t, u) ==
    /\ ToSet(t) \cup ToSet(u) = ToSet(s)
    /\ Once(s) => Once(t) /\ Once(u) /\ ToSet(t) \cap ToSet(u) = {}
    /\ n # Len(s) => u[Len(u)] = s[Len(s)]
    /\ n # 0 => t[1] = s[1]

\* The halves of a sequence have its elements, each in one of them.
LEMMA HalvesOnce ==
    ASSUME NEW s, NEW n \in Nat, NEW t, NEW u, Halves(s, n, t, u)
    PROVE  HalvesAre(s, n, t, u)
<1> DEFINE L == Len(s)
<1>1. /\ Len(u) = L - n /\ L \in Nat /\ n <= L
      /\ DOMAIN s = 1..L /\ DOMAIN t = 1..n /\ DOMAIN u = 1..(L - n)
      /\ \A i \in 1..n : t[i] = s[i]
      /\ \A i \in 1..(L - n) : u[i] = s[n + i]
  BY DEF Halves
<1> HIDE DEF L
<1>2. L \in Nat /\ n <= L
  BY <1>1
<1>a. \A i \in 1..n : i \in 1..L
  BY <1>2
<1>b. \A i \in 1..(L - n) : n + i \in 1..L
  BY <1>2
<1>4. ASSUME NEW i \in 1..L
      PROVE  \/ i \in 1..n /\ t[i] = s[i]
             \/ i - n \in 1..(L - n) /\ u[i - n] = s[i]
  <2>1. CASE i <= n
    <3>1. i \in 1..n
      BY <2>1, <1>2
    <3> QED
      BY <3>1, <1>1
  <2>2. CASE ~(i <= n)
    <3>1. i - n \in 1..(L - n) /\ n + (i - n) = i
      BY <2>2, <1>2
    <3> QED
      BY <3>1, <1>1
  <2> QED
    BY <2>1, <2>2
<1>5. ToSet(t) \cup ToSet(u) = ToSet(s)
  <2>1. \A x \in ToSet(t) : x \in ToSet(s)
    BY <1>1, <1>a DEF ToSet
  <2>2. ASSUME NEW x \in ToSet(u) PROVE x \in ToSet(s)
    <3>1. PICK j \in 1..(L - n) : x = u[j]
      BY <1>1 DEF ToSet
    <3>2. x = s[n + j] /\ n + j \in DOMAIN s
      BY <1>1, <1>b, <3>1
    <3> QED
      BY <3>2 DEF ToSet
  <2>3. ASSUME NEW x \in ToSet(s) PROVE x \in ToSet(t) \cup ToSet(u)
    <3>1. PICK i \in 1..L : x = s[i]
      BY <1>1 DEF ToSet
    <3> QED
      BY <1>1, <1>4, <3>1 DEF ToSet
  <2> QED
    BY <2>1, <2>2, <2>3
<1>6. ASSUME Once(s) PROVE Once(t) /\ Once(u) /\ ToSet(t) \cap ToSet(u) = {}
  <2>1. Once(t)
    BY <1>1, <1>a, <1>6 DEF Once
  <2>2. ASSUME NEW i \in 1..(L - n), NEW j \in 1..(L - n), u[i] = u[j] PROVE i = j
    <3>0. s[n + i] = s[n + j] /\ n + i \in DOMAIN s /\ n + j \in DOMAIN s
      BY <1>1, <1>b, <2>2
    <3>1. n + i = n + j
      BY <1>6, <3>0 DEF Once
    <3> QED
      BY <3>1, <1>2
  <2>3. ASSUME NEW i \in 1..n, NEW j \in 1..(L - n), t[i] = u[j] PROVE FALSE
    <3>1. i = n + j
      BY <1>1, <1>a, <1>b, <1>6, <2>3 DEF Once
    <3> QED
      BY <3>1, <1>2
  <2> QED
    BY <1>1, <2>1, <2>2, <2>3 DEF Once, ToSet
<1>7. n # L => u[Len(u)] = s[L]
  <2> SUFFICES ASSUME n # L PROVE u[Len(u)] = s[L]
    OBVIOUS
  <2>1. L - n \in 1..(L - n) /\ n + (L - n) = L
    BY <1>2
  <2> QED
    BY <1>1, <2>1
<1>9. n # 0 => t[1] = s[1]
  <2>1. n # 0 => 1 \in 1..n
    OBVIOUS
  <2> QED
    BY <2>1, <1>1
<1> QED
  BY <1>5, <1>6, <1>7, <1>9 DEF L, HalvesAre

\* A sequence taken apart
SplitsInto(S, s, n, t, u) ==
    /\ t \in Seq(S) /\ u \in Seq(S) /\ Len(t) = n /\ Len(u) = Len(s) - n
    /\ ToSet(t) \cup ToSet(u) = ToSet(s)
    /\ Once(s) => Once(t) /\ Once(u) /\ ToSet(t) \cap ToSet(u) = {}
    /\ u # <<>> => u[Len(u)] = s[Len(s)]
    /\ n # 0 => t[1] = s[1]

\* A sequence that is split has such halves.
LEMMA OnceSplit ==
    ASSUME NEW S, NEW s \in Seq(S), NEW n \in Nat, n <= Len(s),
           NEW t, t = SubSeq(s, 1, n), NEW u, u = SubSeq(s, n + 1, Len(s))
    PROVE  SplitsInto(S, s, n, t, u)
<1>1. t \in Seq(S) /\ u \in Seq(S) /\ Len(t) = n /\ Len(u) = Len(s) - n
  OBVIOUS
<1>2. Halves(s, n, t, u)
  BY DEF Halves
<1>3. u # <<>> => n # Len(s)
  BY <1>1
<1>4. HalvesAre(s, n, t, u)
  BY <1>2, HalvesOnce
<1> QED
  BY <1>1, <1>3, <1>4 DEF HalvesAre, SplitsInto

\* What _finalize_batch_items() selects
LEMMA ReadySelects ==
    ASSUME NEW items \in Seq(Update \cup {STOP})
    PROVE  /\ Ready(items) \in Seq(Update) /\ Len(Ready(items)) <= Len(items)
           /\ ToSet(Ready(items)) =
                  {u \in ToSet(items) : u # STOP /\ pending[RowOf[u]] = u}
           /\ Once(items) => Once(Ready(items))
<1> DEFINE n == Len(items)
<1>1. n \in Nat /\ DOMAIN items = 1..n
  OBVIOUS
<1>2. PICK st : FoldResults(st, "select", FoldBase("select"), items) /\ st[n] = Ready(items)
  BY <1>1, ReadyIs
<1> DEFINE Sel(k) == {items[i] : i \in {j \in 1..k : items[j] # STOP /\ pending[RowOf[items[j]]] = items[j]}}
           Good == {k \in 0..n : /\ st[k] \in Seq(Update) /\ Len(st[k]) <= k
                                 /\ ToSet(st[k]) = Sel(k)
                                 /\ Once(items) => Once(st[k])}
<1>3. 0 \in Good
  <2>1. st[0] = <<>>
    BY <1>2 DEF FoldResults, FoldBase
  <2>2. ToSet(<<>>) = {} /\ Once(<<>>)
    BY DEF ToSet, Once
  <2>3. <<>> \in Seq(Update) /\ Len(<<>>) = 0 /\ 0 \in 0..n
    BY <1>1
  <2>4. Sel(0) = {}
    OBVIOUS
  <2>5. /\ st[0] \in Seq(Update) /\ Len(st[0]) <= 0 /\ Once(st[0])
        /\ ToSet(st[0]) = Sel(0)
    <3>1. Len(st[0]) <= 0
      BY <2>1, <2>3
    <3>2. ToSet(st[0]) = Sel(0)
      BY <2>1, <2>2, <2>4
    <3>3. st[0] \in Seq(Update) /\ Once(st[0])
      BY <2>1, <2>2, <2>3, Zenon
    <3> QED
      BY <3>1, <3>2, <3>3
  <2> HIDE DEF Sel
  <2> QED
    BY <2>3, <2>5
<1>4. \A k \in 0..n : k \in Good /\ k < n => k + 1 \in Good
  <2> SUFFICES ASSUME NEW k \in 0..n, k \in Good, k < n PROVE k + 1 \in Good
    OBVIOUS
  <2> DEFINE u == items[k + 1]
  <2>1. k + 1 \in 1..n /\ k + 1 - 1 = k /\ k \in Nat /\ k + 1 \in 0..n
    BY <1>1
  <2>2. st[k + 1] = Kept(st[k], u)
    BY <1>2, <2>1 DEF FoldResults, FoldStep
  <2>3. u \in Update \cup {STOP}
    BY <1>1, <2>1
  <2>4. \A i \in 1..k + 1 : i \in 1..k \/ i = k + 1
    BY <2>1
  <2>5. \A i \in 1..k : i \in 1..k + 1 /\ i \in DOMAIN items /\ i # k + 1
    BY <1>1, <2>1
  <2>6. k + 1 \in 1..k + 1
    BY <2>1
  <2>7. CASE u # STOP /\ pending[RowOf[u]] = u
    <3>1. st[k + 1] = Append(st[k], u) /\ u \in Update
      BY <2>2, <2>3, <2>7 DEF Kept
    <3>2. Sel(k + 1) = Sel(k) \cup {u}
      BY <2>4, <2>5, <2>6, <2>7
    <3>3. Once(items) => u \notin Sel(k)
      BY <1>1, <2>1, <2>5 DEF Once
    <3> HIDE DEF Sel, u
    <3>4. st[k] \in Seq(Update) /\ ToSet(st[k]) = Sel(k) /\ (Once(items) => Once(st[k])) /\ Len(st[k]) <= k
      OBVIOUS
    <3> DEFINE a == st[k]
               b == st[k + 1]
    <3>a. a \in Seq(Update) /\ b = Append(a, u) /\ u \in Update
      BY <3>1, <3>4
    <3> HIDE DEF a, b
    <3>b. /\ b \in Seq(Update) /\ Len(b) = Len(a) + 1 /\ ToSet(b) = ToSet(a) \cup {u}
          /\ Once(a) /\ u \notin ToSet(a) => Once(b)
      BY <3>a, OnceAppend
    <3>5. /\ st[k + 1] \in Seq(Update) /\ Len(st[k + 1]) = Len(st[k]) + 1
          /\ ToSet(st[k + 1]) = Sel(k + 1)
          /\ Once(items) => Once(st[k + 1])
      BY <3>b, <3>2, <3>3, <3>4 DEF a, b
    <3>6. Len(st[k + 1]) <= k + 1
      BY <3>4, <3>5, <2>1
    <3> QED
      BY <3>5, <3>6, <2>1
  <2>8. CASE ~(u # STOP /\ pending[RowOf[u]] = u)
    <3>1. st[k + 1] = st[k]
      BY <2>2, <2>8 DEF Kept
    <3>2. Sel(k + 1) = Sel(k)
      BY <2>4, <2>5, <2>8
    <3> HIDE DEF Sel
    <3>3. Len(st[k]) <= k + 1
      BY <2>1
    <3> QED
      BY <3>1, <3>2, <3>3, <2>1
  <2> QED
    BY <2>7, <2>8
<1>5. n \in Good
  <2> HIDE DEF Good
  <2>1. \A k \in 0..n : k \in Good
    BY <1>1, <1>3, <1>4, ReachesEnd
  <2> QED
    BY <2>1, <1>1
<1>6. Sel(n) = {u \in ToSet(items) : u # STOP /\ pending[RowOf[u]] = u}
  BY <1>1 DEF ToSet
<1> QED
  BY <1>2, <1>5, <1>6

----------------------------------------------------------------------------
(* What staging does, item by item. *)

\* The rows, and the objects that are pending for them; the objects, what they
\* carry and what has been merged into them
PendingMap(p) ==
    /\ p \in [Row -> Update \cup {None}]
    /\ \A r \in Row : p[r] # None => RowOf[p[r]] = r
DataMap(d, c) ==
    /\ d \in [Update -> Update] /\ c \in [Update -> SUBSET Update]
    /\ \A u \in Update : d[u] \in c[u] /\ u \in c[u] /\ RowOf[d[u]] = RowOf[u]

\* What is staged is not yet pending or queued.
Stageable(items) ==
    /\ PendingMap(pending) /\ DataMap(data, content)
    /\ queue \in Seq(Update \cup {STOP}) /\ Len(queue) <= QueueMax /\ Once(queue)
    /\ items \in Seq(Update) /\ Once(items)
    /\ \A m \in DOMAIN items :
           pending[RowOf[items[m]]] # items[m] /\ items[m] \notin ToSet(queue)

\* What the first n of the items have done: to the rows that are pending,
PendingStaged(p, items, n) ==
    /\ PendingMap(p)
    /\ \A r \in Row : pending[r] # None => p[r] = pending[r]
    /\ \A r \in Row : pending[r] = None /\ p[r] # None => \E m \in 1..n : p[r] = items[m]
    /\ \A m \in 1..n : p[RowOf[items[m]]] # None
\* to the objects, which carry the last item of their row,
LastOfRow(items, n, m) == \A l \in 1..n : RowOf[items[l]] = RowOf[items[m]] => l <= m
DataStaged(p, d, c, items, n) ==
    /\ DataMap(d, c)
    /\ \A x \in Update : content[x] \subseteq c[x]
    /\ \A m \in 1..n : content[items[m]] \subseteq c[p[RowOf[items[m]]]]
    /\ \A x \in Update : p[RowOf[x]] # x => d[x] = data[x]
    /\ \A x \in Update : (\A m \in 1..n : RowOf[items[m]] # RowOf[x]) => d[x] = data[x]
    /\ \A m \in 1..n : LastOfRow(items, n, m) => d[p[RowOf[items[m]]]] = data[items[m]]
\* and to the queue, q, and what it has no room for, w.
Entered(p) == {p[r] : r \in {r \in Row : pending[r] = None /\ p[r] # None}}
QueueStaged(p, q, w) ==
    /\ q \in Seq(Update \cup {STOP}) /\ Len(q) <= QueueMax /\ Len(queue) <= Len(q)
    /\ w \in Seq(Update)
    /\ Once(q) /\ Once(w) /\ ToSet(q) \cap ToSet(w) = {}
    /\ ToSet(q) \cup ToSet(w) = ToSet(queue) \cup Entered(p)
    /\ ToSet(queue) \subseteq ToSet(q)

\* The state of StageOne, and what holds of it after the first n items
IsStage(s, p, d, c, q, w) ==
    s = [pending |-> p, data |-> d, content |-> c, queue |-> q, slow |-> w]
StagedTo(s, items, n) ==
    \E p, d, c, q, w :
        /\ IsStage(s, p, d, c, q, w)
        /\ PendingStaged(p, items, n) /\ DataStaged(p, d, c, items, n) /\ QueueStaged(p, q, w)

\* One item, as a matter of the five parts
LEMMA StageMerges ==
    ASSUME NEW p, NEW d, NEW c, NEW q, NEW w, NEW s, IsStage(s, p, d, c, q, w),
           NEW u, NEW at, at = p[RowOf[u]], at # None
    PROVE  IsStage(StageOne(s, u), p, [d EXCEPT ![at] = d[u]],
                   [c EXCEPT ![at] = c[at] \cup c[u]], q, w)
<1>1. /\ s.pending = p /\ s.data = d /\ s.content = c /\ s.queue = q /\ s.slow = w
      /\ s = [pending |-> p, data |-> d, content |-> c, queue |-> q, slow |-> w]
  BY DEF IsStage
<1>2. StageOne(s, u) = Merged(s, at, u)
  BY <1>1 DEF StageOne
<1>3. Merged(s, at, u) = [s EXCEPT !.data = [d EXCEPT ![at] = d[u]],
                                   !.content = [c EXCEPT ![at] = c[at] \cup c[u]]]
  BY <1>1 DEF Merged
<1> QED
  BY <1>1, <1>2, <1>3 DEF IsStage

\* A new object enters the queue, or waits for room in it.
LEMMA StageEnters ==
    ASSUME NEW p, NEW d, NEW c, NEW q, NEW w, NEW s, IsStage(s, p, d, c, q, w),
           NEW u, p[RowOf[u]] = None
    PROVE  /\ ~Full(q) => IsStage(StageOne(s, u), [p EXCEPT ![RowOf[u]] = u], d, c,
                                  Append(q, u), w)
           /\ Full(q) => IsStage(StageOne(s, u), [p EXCEPT ![RowOf[u]] = u], d, c, q,
                                 Append(w, u))
<1>1. /\ s.pending = p /\ s.data = d /\ s.content = c /\ s.queue = q /\ s.slow = w
      /\ s = [pending |-> p, data |-> d, content |-> c, queue |-> q, slow |-> w]
  BY DEF IsStage
<1>2. CASE ~Full(q)
  <2>1. StageOne(s, u) = [s EXCEPT !.pending = [p EXCEPT ![RowOf[u]] = u],
                                   !.queue = Append(q, u)]
    BY <1>1, <1>2 DEF StageOne
  <2> QED
    BY <1>1, <1>2, <2>1 DEF IsStage
<1>3. CASE Full(q)
  <2>1. StageOne(s, u) = [s EXCEPT !.pending = [p EXCEPT ![RowOf[u]] = u],
                                   !.slow = Append(w, u)]
    BY <1>1, <1>3 DEF StageOne
  <2> QED
    BY <1>1, <1>3, <2>1 DEF IsStage
<1> QED
  BY <1>2, <1>3

\* An item is not pending before it is staged, and carries what it did.
LEMMA ItemIsNew ==
    ASSUME NEW items, Stageable(items), NEW n \in Nat, NEW k, k = n + 1, k <= Len(items),
           NEW u, u = items[k], NEW p, PendingStaged(p, items, n)
    PROVE  /\ u \in Update /\ RowOf[u] \in Row /\ k \in Nat
           /\ p[RowOf[u]] # u
           /\ \A m \in 1..n : items[m] \in Update /\ items[m] # u /\ RowOf[items[m]] \in Row
<1>1. DOMAIN items = 1..Len(items) /\ Len(items) \in Nat /\ items \in Seq(Update)
  BY DEF Stageable
<1>2. k \in 1..Len(items) /\ \A m \in 1..n : m \in 1..Len(items) /\ m # k
  BY <1>1
<1>3. \A m \in 1..Len(items) : items[m] \in Update
  BY <1>1
<1>4. RowOf \in [Update -> Row]
  BY UpdatesAssumption DEF UpdatesAssumption
<1>5. u \in Update /\ RowOf[u] \in Row
  BY <1>2, <1>3, <1>4
<1>6. \A m \in 1..n : items[m] \in Update /\ items[m] # u /\ RowOf[items[m]] \in Row
  BY <1>1, <1>2, <1>3, <1>4 DEF Stageable, Once
<1>7. p[RowOf[u]] # u
  <2>1. CASE pending[RowOf[u]] # None
    BY <2>1, <1>1, <1>2, <1>5 DEF Stageable, PendingStaged
  <2>2. CASE pending[RowOf[u]] = None /\ p[RowOf[u]] # None
    BY <2>2, <1>5, <1>6 DEF PendingStaged
  <2>3. CASE p[RowOf[u]] = None
    BY <2>3, <1>5, UpdatesAssumption DEF UpdatesAssumption
  <2> QED
    BY <2>1, <2>2, <2>3
<1> QED
  BY <1>5, <1>6, <1>7

\* It is merged into the object that waits.
LEMMA MergeStages ==
    ASSUME NEW items, Stageable(items), NEW n \in Nat, NEW k, k = n + 1, k <= Len(items),
           NEW u, u = items[k], NEW p, PendingStaged(p, items, n),
           NEW d, NEW c, DataStaged(p, d, c, items, n),
           NEW at, at = p[RowOf[u]], at # None,
           NEW d2, d2 = [d EXCEPT ![at] = d[u]],
           NEW c2, c2 = [c EXCEPT ![at] = c[at] \cup c[u]]
    PROVE  PendingStaged(p, items, k) /\ DataStaged(p, d2, c2, items, k)
<1>1. /\ u \in Update /\ RowOf[u] \in Row /\ k \in Nat /\ at # u
      /\ \A m \in 1..n : items[m] \in Update /\ items[m] # u /\ RowOf[items[m]] \in Row
  BY ItemIsNew
<1>2. \A m \in 1..k : m \in 1..n \/ m = k
  OBVIOUS
<1>3. \A m \in 1..n : m \in 1..k /\ m # k /\ m <= k /\ m \in Nat
  OBVIOUS
<1>4. k \in 1..k
  OBVIOUS
<1>5. at \in Update /\ RowOf[at] = RowOf[u]
  BY <1>1 DEF PendingStaged, PendingMap
<1>6. PendingStaged(p, items, k)
  <2>1. \A m \in 1..k : p[RowOf[items[m]]] # None
    BY <1>1, <1>2 DEF PendingStaged
  <2>2. \A r \in Row : pending[r] = None /\ p[r] # None => \E m \in 1..k : p[r] = items[m]
    BY <1>3 DEF PendingStaged
  <2> QED
    BY <2>1, <2>2 DEF PendingStaged
<1>7. /\ d[u] = data[u] /\ content[u] \subseteq c[u] /\ content[u] \subseteq c[at] \cup c[u]
      /\ DataMap(d, c)
  BY <1>1 DEF DataStaged
<1>8. /\ d2 \in [Update -> Update] /\ c2 \in [Update -> SUBSET Update]
      /\ d2[at] = d[u] /\ c2[at] = c[at] \cup c[u]
      /\ \A x \in Update \ {at} : d2[x] = d[x] /\ c2[x] = c[x]
  <2>1. d \in [Update -> Update] /\ c \in [Update -> SUBSET Update] /\ d[u] \in Update
    BY <1>1, <1>7 DEF DataMap
  <2>2. /\ d2 \in [Update -> Update] /\ d2[at] = d[u]
        /\ \A x \in Update \ {at} : d2[x] = d[x]
    BY <1>5, <2>1
  <2>3. c[at] \cup c[u] \in SUBSET Update
    BY <1>1, <1>5, <2>1
  <2>4. /\ c2 \in [Update -> SUBSET Update] /\ c2[at] = c[at] \cup c[u]
        /\ \A x \in Update \ {at} : c2[x] = c[x]
    BY <1>5, <2>1, <2>3
  <2> QED
    BY <2>2, <2>4
<1>9. \A x \in Update : c[x] \subseteq c2[x]
  BY <1>8
<1>10. DataMap(d2, c2)
  <2>1. ASSUME NEW x \in Update PROVE d2[x] \in c2[x] /\ x \in c2[x] /\ RowOf[d2[x]] = RowOf[x]
    <3>1. CASE x = at
      <4>1. d[u] \in c[u] /\ at \in c[at] /\ RowOf[d[u]] = RowOf[u]
        BY <1>1, <1>5, <1>7 DEF DataMap
      <4> QED
        BY <3>1, <4>1, <1>5, <1>8
    <3>2. CASE x # at
      BY <3>2, <1>7, <1>8 DEF DataMap
    <3> QED
      BY <3>1, <3>2
  <2> QED
    BY <2>1, <1>8 DEF DataMap
<1>11. \A x \in Update : content[x] \subseteq c2[x]
  BY <1>9 DEF DataStaged
<1>12. ASSUME NEW m \in 1..k PROVE content[items[m]] \subseteq c2[p[RowOf[items[m]]]]
  <2>1. CASE m = k
    BY <2>1, <1>7, <1>8
  <2>2. CASE m \in 1..n
    <3>1. p[RowOf[items[m]]] \in Update
      BY <2>2, <1>1 DEF PendingStaged, PendingMap
    <3> QED
      BY <2>2, <3>1, <1>9 DEF DataStaged
  <2> QED
    BY <1>2, <2>1, <2>2
<1>13. ASSUME NEW x \in Update, p[RowOf[x]] # x PROVE d2[x] = data[x]
  <2>1. x # at
    BY <1>5, <1>13
  <2> QED
    BY <2>1, <1>8, <1>13 DEF DataStaged
<1>14. ASSUME NEW x \in Update, \A m \in 1..k : RowOf[items[m]] # RowOf[x] PROVE d2[x] = data[x]
  <2>1. x # at
    BY <1>4, <1>5, <1>14
  <2>2. \A m \in 1..n : RowOf[items[m]] # RowOf[x]
    BY <1>3, <1>14
  <2> QED
    BY <2>1, <2>2, <1>8 DEF DataStaged
<1>15. ASSUME NEW m \in 1..k, LastOfRow(items, k, m)
       PROVE  d2[p[RowOf[items[m]]]] = data[items[m]]
  <2>1. CASE m = k
    BY <2>1, <1>7, <1>8
  <2>2. CASE m \in 1..n
    <3>1. RowOf[items[m]] # RowOf[u]
      BY <2>2, <1>3, <1>4, <1>15 DEF LastOfRow
    <3>2. LastOfRow(items, n, m)
      BY <2>2, <1>3, <1>15 DEF LastOfRow
    <3>3. p[RowOf[items[m]]] \in Update /\ RowOf[p[RowOf[items[m]]]] = RowOf[items[m]]
      BY <2>2, <1>1 DEF PendingStaged, PendingMap
    <3>4. p[RowOf[items[m]]] \in Update \ {at}
      BY <3>1, <3>3, <1>5
    <3> QED
      BY <2>2, <3>2, <3>4, <1>8 DEF DataStaged
  <2> QED
    BY <1>2, <2>1, <2>2
<1>16. DataStaged(p, d2, c2, items, k)
  BY <1>10, <1>11, <1>12, <1>13, <1>14, <1>15 DEF DataStaged
<1> QED
  BY <1>6, <1>16

\* It becomes the object that waits.
EntersAs(p, p2, d, c, items, k, u) ==
    /\ PendingStaged(p2, items, k) /\ DataStaged(p2, d, c, items, k)
    /\ Entered(p2) = Entered(p) \cup {u} /\ u \notin Entered(p)

\* Then it is the object of its row.
LEMMA EnterStages ==
    ASSUME NEW items, Stageable(items), NEW n \in Nat, NEW k, k = n + 1, k <= Len(items),
           NEW u, u = items[k], NEW p, PendingStaged(p, items, n),
           NEW d, NEW c, DataStaged(p, d, c, items, n),
           p[RowOf[u]] = None, NEW p2, p2 = [p EXCEPT ![RowOf[u]] = u]
    PROVE  EntersAs(p, p2, d, c, items, k, u)
<1>1. /\ u \in Update /\ RowOf[u] \in Row /\ k \in Nat
      /\ \A m \in 1..n : items[m] \in Update /\ items[m] # u /\ RowOf[items[m]] \in Row
  BY ItemIsNew
<1>2. \A m \in 1..k : m \in 1..n \/ m = k
  OBVIOUS
<1>3. \A m \in 1..n : m \in 1..k /\ m # k /\ m <= k /\ m \in Nat
  OBVIOUS
<1>4. k \in 1..k
  OBVIOUS
<1>5. /\ p \in [Row -> Update \cup {None}] /\ u # None
      /\ \A r \in Row : p[r] # None => RowOf[p[r]] = r
  BY <1>1, UpdatesAssumption DEF UpdatesAssumption, PendingStaged, PendingMap
<1>6. /\ p2 \in [Row -> Update \cup {None}] /\ p2[RowOf[u]] = u
      /\ \A r \in Row \ {RowOf[u]} : p2[r] = p[r]
  BY <1>1, <1>5
<1>7. pending[RowOf[u]] = None
  BY <1>1 DEF PendingStaged
<1>8. PendingMap(p2)
  BY <1>5, <1>6 DEF PendingMap
<1>9. ASSUME NEW r \in Row, pending[r] # None PROVE p2[r] = pending[r]
  BY <1>6, <1>7, <1>9 DEF PendingStaged
<1>10. ASSUME NEW r \in Row, pending[r] = None, p2[r] # None PROVE \E m \in 1..k : p2[r] = items[m]
  <2>1. CASE r = RowOf[u]
    BY <2>1, <1>4, <1>6
  <2>2. CASE r # RowOf[u]
    BY <2>2, <1>3, <1>6, <1>10 DEF PendingStaged
  <2> QED
    BY <2>1, <2>2
<1>11. ASSUME NEW m \in 1..k PROVE p2[RowOf[items[m]]] # None
  <2>1. CASE RowOf[items[m]] = RowOf[u]
    BY <2>1, <1>5, <1>6
  <2>2. CASE RowOf[items[m]] # RowOf[u]
    BY <2>2, <1>1, <1>2, <1>6 DEF PendingStaged
  <2> QED
    BY <2>1, <2>2
<1>12. PendingStaged(p2, items, k)
  BY <1>8, <1>9, <1>10, <1>11 DEF PendingStaged
<1>13. \A m \in 1..n : RowOf[items[m]] \in Row \ {RowOf[u]}
  BY <1>1 DEF PendingStaged
<1>14. ASSUME NEW x \in Update, p2[RowOf[x]] # x PROVE d[x] = data[x]
  <2>1. p[RowOf[x]] # x
    <3>1. CASE RowOf[x] = RowOf[u]
      BY <3>1, UpdatesAssumption DEF UpdatesAssumption
    <3>2. CASE RowOf[x] # RowOf[u]
      <4>1. RowOf[x] \in Row
        BY UpdatesAssumption DEF UpdatesAssumption
      <4> QED
        BY <3>2, <4>1, <1>6, <1>14
    <3> QED
      BY <3>1, <3>2
  <2> QED
    BY <2>1 DEF DataStaged
<1>15. ASSUME NEW x \in Update, \A m \in 1..k : RowOf[items[m]] # RowOf[x] PROVE d[x] = data[x]
  BY <1>3, <1>15 DEF DataStaged
<1>16. ASSUME NEW m \in 1..k PROVE content[items[m]] \subseteq c[p2[RowOf[items[m]]]]
  <2>1. CASE m = k
    BY <2>1, <1>1, <1>6 DEF DataStaged
  <2>2. CASE m \in 1..n
    BY <2>2, <1>6, <1>13 DEF DataStaged
  <2> QED
    BY <1>2, <2>1, <2>2
<1>17. ASSUME NEW m \in 1..k, LastOfRow(items, k, m)
       PROVE  d[p2[RowOf[items[m]]]] = data[items[m]]
  <2>1. CASE m = k
    <3>1. d[u] = data[u]
      <4>1. p[RowOf[u]] # u
        BY <1>5
      <4> QED
        BY <4>1, <1>1 DEF DataStaged
    <3> QED
      BY <2>1, <3>1, <1>6
  <2>2. CASE m \in 1..n
    <3>1. LastOfRow(items, n, m)
      BY <2>2, <1>3, <1>17 DEF LastOfRow
    <3> QED
      BY <2>2, <3>1, <1>6, <1>13 DEF DataStaged
  <2> QED
    BY <1>2, <2>1, <2>2
<1>18. DataStaged(p2, d, c, items, k)
  BY <1>14, <1>15, <1>16, <1>17 DEF DataStaged
<1>19. u \notin Entered(p)
  <2> SUFFICES ASSUME NEW r \in Row, p[r] # None, p[r] = u PROVE FALSE
    BY DEF Entered
  <2> QED
    BY <1>5
<1>20. Entered(p2) = Entered(p) \cup {u}
  <2>1. u \in Entered(p2)
    BY <1>1, <1>5, <1>6, <1>7 DEF Entered
  <2>2. \A r \in Row : p[r] # None => r # RowOf[u] /\ p2[r] = p[r]
    BY <1>6
  <2>3. \A r \in Row : p2[r] # None => p2[r] = u \/ p2[r] = p[r]
    BY <1>6
  <2> QED
    BY <2>1, <2>2, <2>3 DEF Entered
<1> QED
  BY <1>12, <1>18, <1>19, <1>20 DEF EntersAs

\* The object that waits from now on is in the queue or has still to be put.
LEMMA EnterQueues ==
    ASSUME NEW items, Stageable(items), NEW u \in Update, u \notin ToSet(queue),
           NEW p, NEW p2, Entered(p2) = Entered(p) \cup {u}, u \notin Entered(p),
           NEW q, NEW w, QueueStaged(p, q, w)
    PROVE  /\ ~Full(q) => QueueStaged(p2, Append(q, u), w)
           /\ Full(q) => QueueStaged(p2, q, Append(w, u))
<1>1. /\ q \in Seq(Update \cup {STOP}) /\ Len(q) <= QueueMax /\ Len(queue) <= Len(q)
      /\ w \in Seq(Update)
      /\ Once(q) /\ Once(w) /\ ToSet(q) \cap ToSet(w) = {}
      /\ ToSet(q) \cup ToSet(w) = ToSet(queue) \cup Entered(p)
      /\ ToSet(queue) \subseteq ToSet(q)
  BY DEF QueueStaged
<1>2. u \notin ToSet(q) /\ u \notin ToSet(w) /\ u \in Update \cup {STOP}
  BY <1>1
<1>3. CASE ~Full(q)
  <2> DEFINE b == Append(q, u)
  <2>1. /\ b \in Seq(Update \cup {STOP}) /\ Len(b) = Len(q) + 1
        /\ ToSet(b) = ToSet(q) \cup {u} /\ (Once(q) /\ u \notin ToSet(q) => Once(b))
    BY <1>1, <1>2, OnceAppend
  <2> HIDE DEF b
  <2>2. Len(b) <= QueueMax /\ Len(queue) <= Len(b)
    <3>1. Len(q) \in Nat /\ Len(queue) \in Nat /\ QueueMax \in Nat /\ ~(Len(q) >= QueueMax)
      BY <1>1, <1>3, UpdatesAssumption DEF UpdatesAssumption, Full, Stageable
    <3> QED
      BY <3>1, <1>1, <2>1
  <2>3. QueueStaged(p2, b, w)
    BY <1>1, <1>2, <2>1, <2>2 DEF QueueStaged
  <2> QED
    BY <2>3, <1>3 DEF b
<1>4. CASE Full(q)
  <2> DEFINE b == Append(w, u)
  <2>1. /\ b \in Seq(Update)
        /\ ToSet(b) = ToSet(w) \cup {u} /\ (Once(w) /\ u \notin ToSet(w) => Once(b))
    BY <1>1, <1>2, OnceAppend
  <2> HIDE DEF b
  <2>3. QueueStaged(p2, q, b)
    BY <1>1, <1>2, <2>1 DEF QueueStaged
  <2> QED
    BY <2>3, <1>4 DEF b
<1> QED
  BY <1>3, <1>4

\* What is entered does not change with the merged data.
LEMMA StageGoesOn ==
    ASSUME NEW items, Stageable(items), NEW n \in Nat, NEW k, k = n + 1, k <= Len(items),
           NEW s, StagedTo(s, items, n), NEW t, t = StageOne(s, items[k])
    PROVE  StagedTo(t, items, k)
<1>1. PICK p, d, c, q, w :
          /\ IsStage(s, p, d, c, q, w)
          /\ PendingStaged(p, items, n) /\ DataStaged(p, d, c, items, n) /\ QueueStaged(p, q, w)
  BY DEF StagedTo
<1> DEFINE u == items[k]
<1>2. /\ u \in Update /\ RowOf[u] \in Row /\ u \notin ToSet(queue)
  <2>1. u \in Update /\ RowOf[u] \in Row
    BY <1>1, ItemIsNew
  <2>2. k \in DOMAIN items
    BY DEF Stageable
  <2> QED
    BY <2>1, <2>2 DEF Stageable
<1> HIDE DEF u
<1>3. t = StageOne(s, u)
  BY DEF u
<1>4. CASE p[RowOf[u]] # None
  <2> DEFINE at == p[RowOf[u]]
             d2 == [d EXCEPT ![at] = d[u]]
             c2 == [c EXCEPT ![at] = c[at] \cup c[u]]
  <2> HIDE DEF at
  <2>0. at = p[RowOf[u]] /\ at # None
    BY <1>4 DEF at
  <2>1. IsStage(t, p, d2, c2, q, w)
    BY <1>1, <1>3, <2>0, StageMerges
  <2> HIDE DEF d2, c2
  <2>2. PendingStaged(p, items, k) /\ DataStaged(p, d2, c2, items, k)
    BY <1>1, <2>0, MergeStages DEF d2, c2, u
  <2> QED
    BY <1>1, <2>1, <2>2 DEF StagedTo
<1>5. CASE p[RowOf[u]] = None
  <2> DEFINE p2 == [p EXCEPT ![RowOf[u]] = u]
             q2 == Append(q, u)
             w2 == Append(w, u)
  <2>1. /\ ~Full(q) => IsStage(t, p2, d, c, q2, w)
        /\ Full(q) => IsStage(t, p2, d, c, q, w2)
    BY <1>1, <1>3, <1>5, StageEnters
  <2>a. p2 = [p EXCEPT ![RowOf[u]] = u] /\ u = items[k]
    BY DEF u
  <2> HIDE DEF p2
  <2>b. EntersAs(p, p2, d, c, items, k, u)
    BY <1>1, <1>5, <2>a, EnterStages
  <2>2. /\ PendingStaged(p2, items, k) /\ DataStaged(p2, d, c, items, k)
        /\ Entered(p2) = Entered(p) \cup {u} /\ u \notin Entered(p)
    BY <2>b DEF EntersAs
  <2>3. /\ ~Full(q) => QueueStaged(p2, q2, w)
        /\ Full(q) => QueueStaged(p2, q, w2)
    BY <1>1, <1>2, <2>2, EnterQueues
  <2> HIDE DEF q2, w2
  <2> QED
    BY <2>1, <2>2, <2>3 DEF StagedTo
<1> QED
  BY <1>4, <1>5

\* What staging does, for all items of a call
LEMMA StagingIs ==
    ASSUME NEW items, Stageable(items)
    PROVE  StagedTo(Staged(items), items, Len(items))
<1> DEFINE n == Len(items)
<1>1. n \in Nat /\ DOMAIN items = 1..n
  BY DEF Stageable
<1>2. PICK st : FoldResults(st, "stage", FoldBase("stage"), items) /\ st[n] = Staged(items)
  BY <1>1, StagedIs
<1> DEFINE Good == {k \in 0..n : StagedTo(st[k], items, k)}
<1>3. 0 \in Good
  <2>1. IsStage(st[0], pending, data, content, queue, <<>>)
    BY <1>2 DEF FoldResults, FoldBase, IsStage
  <2>2. PendingStaged(pending, items, 0)
    BY DEF PendingStaged, Stageable
  <2>3. DataStaged(pending, data, content, items, 0)
    BY DEF DataStaged, Stageable
  <2>4. Entered(pending) = {}
    BY DEF Entered
  <2>5. ToSet(<<>>) = {} /\ Once(<<>>)
    BY DEF ToSet, Once
  <2>6. <<>> \in Seq(Update) /\ Len(queue) <= Len(queue)
    BY DEF Stageable
  <2>7. QueueStaged(pending, queue, <<>>)
    BY <2>4, <2>5, <2>6 DEF QueueStaged, Stageable
  <2>8. StagedTo(st[0], items, 0)
    BY <2>1, <2>2, <2>3, <2>7 DEF StagedTo
  <2> QED
    BY <2>8, <1>1
<1>4. \A k \in 0..n : k \in Good /\ k < n => k + 1 \in Good
  <2> SUFFICES ASSUME NEW k \in 0..n, k \in Good, k < n PROVE k + 1 \in Good
    OBVIOUS
  <2>1. k + 1 \in 1..n /\ k + 1 - 1 = k /\ k \in Nat /\ k + 1 \in 0..n /\ k + 1 <= Len(items)
    BY <1>1
  <2>2. st[k + 1] = StageOne(st[k], items[k + 1])
    BY <1>2, <2>1 DEF FoldResults, FoldStep
  <2>3. StagedTo(st[k], items, k)
    OBVIOUS
  <2>4. StagedTo(st[k + 1], items, k + 1)
    BY <2>1, <2>2, <2>3, StageGoesOn
  <2> QED
    BY <2>1, <2>4
<1>5. n \in Good
  <2> HIDE DEF Good
  <2>1. \A k \in 0..n : k \in Good
    BY <1>1, <1>3, <1>4, ReachesEnd
  <2> QED
    BY <2>1, <1>1
<1> QED
  BY <1>2, <1>5

----------------------------------------------------------------------------
(* The inductive invariant. *)

\* Where objects are: those that wait for a batch, and those that a batch holds
Lined == ToSet(queue) \ {STOP}
InSlow == UNION {ToSet(slow[p]) : p \in Putter}
InHeap == UNION {ToSet(h) : h \in heap}
Collected == IF worker = "collecting" THEN ToSet(batch.items) ELSE {}
InWork == IF worker = "collecting" THEN {} ELSE ToSet(batch.items)
Waits == Lined \cup InSlow \cup Collected
Held == InWork \cup InHeap

\* Types, with what no object can be
StageTypes ==
    /\ PendingMap(pending) /\ DataMap(data, content)
    /\ queue \in Seq(Update \cup {STOP}) /\ Len(queue) <= QueueMax
    /\ slow \in [Putter -> Seq(Update)]
    /\ called \subseteq Call /\ \A c \in Call \ called : slow[c] = <<>>
BatchTypes ==
    /\ worker \in {"none", "idle", "collecting", "writing", "handing"}
    /\ batch \in [keys : 0..BatchSize, items : Seq(Update)]
    /\ unfinished \in Nat /\ unfinished >= Len(queue) + batch.keys
    /\ worker \in {"none", "idle"} => batch = NoBatch
    /\ worker = "collecting" => batch.keys = Len(batch.items) /\ batch.keys # 0
HistoryTypes ==
    /\ arrived \in Seq(Update)
    /\ written \subseteq Update /\ dropped \subseteq Update /\ again \subseteq Row
    /\ PendingMap(db) /\ failures \in 0..MaxFailures /\ killed \in BOOLEAN
    /\ \A h \in heap : h \in Seq(Update)
TaskTypes ==
    /\ retrying \in BOOLEAN /\ idle \in BOOLEAN /\ woken \in BOOLEAN
    /\ outbox \in 0..BroadcastMax /\ tries \in 0..MaxAttempts
    /\ sender \in {"none", "idle", "sending", "pausing"}
    /\ sender = "pausing" => tries < MaxAttempts
    /\ stopper \in {"no", "drain", "join", "retry", "put", "gather", "sender",
                    "retrier", "stopped"}
UpdTypes == StageTypes /\ BatchTypes /\ HistoryTypes /\ TaskTypes

\* No object is in two places.
ApartQueues ==
    /\ Once(queue) /\ Once(batch.items) /\ ToSet(queue) \cap ToSet(batch.items) = {}
    /\ \A p \in Putter :
           /\ Once(slow[p]) /\ ToSet(slow[p]) \cap ToSet(queue) = {}
           /\ ToSet(slow[p]) \cap ToSet(batch.items) = {}
           /\ \A q \in Putter \ {p} : ToSet(slow[p]) \cap ToSet(slow[q]) = {}
ApartHeap ==
    \A h \in heap :
        /\ Once(h) /\ ToSet(h) \cap ToSet(batch.items) = {}
        /\ \A g \in heap \ {h} : ToSet(g) \cap ToSet(h) = {}
Apart == ApartQueues /\ ApartHeap

\* Objects that no call has brought yet are nowhere, and carry themselves.
Fresh ==
    /\ Waits \cup Held \subseteq Accepted
    /\ Accepted \subseteq UNION {ToSet(Items[c]) : c \in called}
    /\ \A u \in Update \ Accepted : data[u] = u

\* A row's pending object is the one that waits, and none that is in work.
PendingKept ==
    /\ \A r \in Row : pending[r] # None => pending[r] \in Waits
    /\ \A u \in Waits : pending[RowOf[u]] = u
    /\ \A u \in Held : pending[RowOf[u]] # u

\* v is the last of its row to have come; and no update of row r was given up or
\* tried again.
Newest(came, v) ==
    \E n \in DOMAIN came :
        came[n] = v /\ \A m \in n + 1..Len(came) : RowOf[came[m]] # RowOf[v]
Unspoiled(r) ==
    /\ \E v \in Accepted : RowOf[v] = r
    /\ r \notin again /\ \A v \in Accepted \cap dropped : RowOf[v] # r
Writing(r) == worker = "writing" /\ \E u \in InWork : RowOf[u] = r
\* Whatever carries such a row's fields next, be it the pending object, the batch
\* that is written or the database, has those of the newest update.
OrderKept ==
    /\ \A r \in Row : Unspoiled(r) =>
           /\ pending[r] # None => Newest(arrived, data[pending[r]])
           /\ pending[r] = None /\ Writing(r) =>
                  \A u \in InWork : RowOf[u] = r => Newest(arrived, data[u])
           /\ pending[r] = None /\ ~Writing(r) => db[r] # None /\ Newest(arrived, db[r])
    /\ \A u \in InHeap : RowOf[u] \in again

\* What of an update that was accepted is not settled, an object holds.
Owed == Waits \cup InHeap \cup (IF worker = "handing" THEN {} ELSE InWork)
PlaceKept == Accepted \subseteq Settled \cup Contents(Owed)

\* What holds until the queue is stopped
Sound == Apart /\ Fresh /\ PendingKept /\ OrderKept /\ PlaceKept

\* How far stop() is, and what that says of the queue and the worker
Emptied == queue = <<>> /\ ~Putting /\ heap = {}
Leaving == {"gather", "sender", "retrier", "stopped"}
StopPhases ==
    /\ woken => stopper = "join" /\ worker # "collecting"
    /\ stopper \in {"put", "gather"} => ~Putting /\ heap = {} /\ worker # "collecting"
    /\ STOP \in ToSet(queue) =>
           /\ queue[Len(queue)] = STOP /\ ~Putting /\ heap = {}
           /\ stopper \in Leaving /\ worker # "collecting"
    /\ stopper = "gather" /\ worker # "none" => STOP \in ToSet(queue)
    /\ worker = "none" /\ ~killed => Emptied /\ stopper \in {"no"} \cup Leaving
    /\ stopper \in {"sender", "retrier", "stopped"} => worker = "none"
    /\ stopper = "stopped" => ~retrying
    /\ StopDrains

UpdIndInv == UpdTypes /\ (stopper # "stopped" => Sound) /\ StopPhases

\* What is in a place is an update.
LEMMA AcceptedAreUpdates ==
    ASSUME HistoryTypes
    PROVE  Accepted \subseteq Update
BY DEF HistoryTypes, Accepted, ToSet

\* It has a row, and is none of the marks.
LEMMA HasRow ==
    ASSUME NEW u \in Update
    PROVE  RowOf[u] \in Row /\ u # None /\ u # STOP
BY UpdatesAssumption DEF UpdatesAssumption

\* Objects move among the places where they wait.
LEMMA MovesKeep ==
    ASSUME Fresh, PendingKept, OrderKept, PlaceKept,
           UNCHANGED <<pending, data, content, db, arrived, written, dropped, again>>,
           called \subseteq called',
           Waits' = Waits, InWork' = InWork, InHeap' = InHeap, Owed' = Owed,
           \A r \in Row : Writing(r)' <=> Writing(r)
    PROVE  Fresh' /\ PendingKept' /\ OrderKept' /\ PlaceKept'
<1>1. Accepted' = Accepted /\ Settled' = Settled /\ Held' = Held
  BY DEF Accepted, Settled, Held
<1>2. UNION {ToSet(Items[c]) : c \in called} \subseteq UNION {ToSet(Items[c]) : c \in called'}
  OBVIOUS
<1>3. Fresh'
  BY <1>1, <1>2 DEF Fresh
<1>4. PendingKept'
  BY <1>1 DEF PendingKept
<1>5. \A r \in Row : Unspoiled(r)' <=> Unspoiled(r)
  BY <1>1 DEF Unspoiled
<1>7. OrderKept'
  BY <1>5 DEF OrderKept
<1>8. PlaceKept'
  BY <1>1 DEF PlaceKept, Contents
<1> QED
  BY <1>3, <1>4, <1>7, <1>8

\* Pending rows are forgotten with the objects that leave: their objects are
\* given up,
LEMMA DiscardKeeps ==
    ASSUME HistoryTypes, StageTypes, Fresh, PendingKept, OrderKept, PlaceKept,
           UNCHANGED <<data, content, db, arrived, written, again, called>>,
           NEW gone, gone \subseteq Waits, Waits' = Waits \ gone,
           pending' = [r \in Row |-> IF pending[r] \in gone THEN None ELSE pending[r]],
           dropped' = dropped \cup Contents(gone),
           InWork' = InWork, InHeap' = InHeap, Owed \ gone \subseteq Owed',
           \A r \in Row : Writing(r)' <=> Writing(r)
    PROVE  Fresh' /\ PendingKept' /\ OrderKept' /\ PlaceKept'
<1>1. Accepted' = Accepted /\ Held' = Held /\ Accepted \subseteq Update
  BY AcceptedAreUpdates DEF Accepted, Held
<1>2. /\ gone \subseteq Accepted /\ Waits \subseteq Accepted /\ Held \subseteq Accepted
      /\ None \notin gone
  BY <1>1, HasRow DEF Fresh
<1>3. Fresh'
  BY <1>1 DEF Fresh
<1>4. PendingKept'
  <2>1. ASSUME NEW r \in Row, pending'[r] # None PROVE pending'[r] \in Waits'
    BY <2>1 DEF PendingKept
  <2>2. ASSUME NEW u \in Waits' PROVE pending'[RowOf[u]] = u
    <3>1. u \in Waits /\ u \notin gone /\ RowOf[u] \in Row
      BY <1>1, <1>2, HasRow
    <3> QED
      BY <3>1 DEF PendingKept
  <2>3. ASSUME NEW u \in Held' PROVE pending'[RowOf[u]] # u
    <3>1. u \in Held /\ RowOf[u] \in Row /\ u # None
      BY <1>1, <1>2, HasRow
    <3> QED
      BY <3>1 DEF PendingKept
  <2> QED
    BY <2>1, <2>2, <2>3 DEF PendingKept
<1>5. ASSUME NEW r \in Row, Unspoiled(r)' PROVE Unspoiled(r) /\ pending'[r] = pending[r]
  <2>1. Unspoiled(r)
    BY <1>1, <1>5 DEF Unspoiled
  <2>2. ASSUME pending[r] \in gone PROVE FALSE
    <3>1. pending[r] \in Update /\ RowOf[pending[r]] = r /\ pending[r] \in content[pending[r]]
      BY <1>1, <1>2, <2>2 DEF StageTypes, PendingMap, DataMap
    <3>2. pending[r] \in Accepted \cap dropped'
      BY <1>2, <2>2, <3>1 DEF Contents
    <3> QED
      BY <1>1, <1>5, <3>1, <3>2 DEF Unspoiled
  <2> QED
    BY <2>1, <2>2
<1>7. OrderKept'
  BY <1>5 DEF OrderKept
<1>8. PlaceKept'
  <2>1. ASSUME NEW v \in Accepted PROVE v \in Settled' \cup Contents(Owed)'
    <3>1. CASE v \in Settled
      BY <3>1 DEF Settled
    <3>2. CASE v \in Contents(Owed)
      <4>1. PICK x \in Owed : v \in content[x]
        BY <3>2 DEF Contents
      <4>2. CASE x \in gone
        BY <4>1, <4>2 DEF Settled, Contents
      <4>3. CASE x \notin gone
        BY <4>1, <4>3 DEF Contents
      <4> QED
        BY <4>2, <4>3
    <3> QED
      BY <3>1, <3>2 DEF PlaceKept
  <2> QED
    BY <1>1, <2>1 DEF PlaceKept
<1> QED
  BY <1>3, <1>4, <1>7, <1>8

\* or they are the batch that is written next.
LEMMA BatchKeeps ==
    ASSUME HistoryTypes, StageTypes, Fresh, PendingKept, OrderKept, PlaceKept,
           UNCHANGED <<data, content, db, arrived, written, dropped, again, called>>,
           NEW ready, ready \subseteq Waits, Waits' = Waits \ ready,
           pending' = [r \in Row |-> IF pending[r] \in ready THEN None ELSE pending[r]],
           InWork = {}, InWork' = ready, InHeap' = InHeap, worker' = "writing"
    PROVE  Fresh' /\ PendingKept' /\ OrderKept' /\ PlaceKept'
<1>1. /\ Accepted' = Accepted /\ Held' = ready \cup Held /\ Accepted \subseteq Update
      /\ Waits' \cup Held' = Waits \cup Held /\ Settled' = Settled
  BY AcceptedAreUpdates DEF Accepted, Held, Settled
<1>2. /\ ready \subseteq Accepted /\ Waits \subseteq Accepted /\ Held \subseteq Accepted
      /\ None \notin ready
  BY <1>1, HasRow DEF Fresh
<1>3. Fresh'
  BY <1>1 DEF Fresh
<1>4. PendingKept'
  <2>1. ASSUME NEW r \in Row, pending'[r] # None PROVE pending'[r] \in Waits'
    BY <2>1 DEF PendingKept
  <2>2. ASSUME NEW u \in Waits' PROVE pending'[RowOf[u]] = u
    <3>1. u \in Waits /\ u \notin ready /\ RowOf[u] \in Row
      BY <1>1, <1>2, HasRow
    <3> QED
      BY <3>1 DEF PendingKept
  <2>3. ASSUME NEW u \in Held' PROVE pending'[RowOf[u]] # u
    <3>1. u \in Held \cup ready /\ RowOf[u] \in Row /\ u # None
      BY <1>1, <1>2, HasRow
    <3>2. u \in ready => pending[RowOf[u]] = u
      BY DEF PendingKept
    <3>3. u \in Held => pending[RowOf[u]] # u
      BY DEF PendingKept
    <3> QED
      BY <3>1, <3>2, <3>3
  <2> QED
    BY <2>1, <2>2, <2>3 DEF PendingKept
<1>7. OrderKept'
  <2>1. ASSUME NEW r \in Row, Unspoiled(r)'
        PROVE  /\ pending'[r] # None => Newest(arrived', data'[pending'[r]])
               /\ pending'[r] = None /\ Writing(r)' =>
                      \A u \in InWork' : RowOf[u] = r => Newest(arrived', data'[u])
               /\ pending'[r] = None /\ ~Writing(r)' => db'[r] # None /\ Newest(arrived', db'[r])
    <3>1. Unspoiled(r)
      BY <1>1, <2>1 DEF Unspoiled
    <3>2. ~Writing(r)
      BY DEF Writing
    <3>3. pending'[r] # None => Newest(arrived', data'[pending'[r]])
      BY <3>1 DEF OrderKept
    <3>4. ASSUME NEW u \in InWork', RowOf[u] = r PROVE Newest(arrived', data'[u])
      <4>1. pending[r] = u /\ u # None
        BY <1>2, <3>4 DEF PendingKept
      <4>2. Newest(arrived, data[pending[r]])
        BY <3>1, <4>1 DEF OrderKept
      <4> QED
        BY <4>1, <4>2
    <3>5. ASSUME pending'[r] = None, ~Writing(r)' PROVE db'[r] # None /\ Newest(arrived', db'[r])
      <4>1. pending[r] \notin ready
        <5>1. ASSUME pending[r] \in ready PROVE FALSE
          <6>1. RowOf[pending[r]] = r
            BY <1>2, <5>1 DEF StageTypes, PendingMap
          <6> QED
            BY <3>5, <5>1, <6>1 DEF Writing
        <5> QED
          BY <5>1
      <4>2. pending[r] = None
        BY <3>5, <4>1
      <4>3. db[r] # None /\ Newest(arrived, db[r])
        BY <3>1, <3>2, <4>2 DEF OrderKept
      <4> QED
        BY <4>3
    <3> QED
      BY <3>3, <3>4, <3>5
  <2>2. \A u \in InHeap' : RowOf[u] \in again'
    BY DEF OrderKept
  <2> QED
    BY <2>1, <2>2 DEF OrderKept
<1>8. Owed \subseteq Owed' /\ (\A x : content'[x] = content[x])
  BY DEF Owed
<1>9. PlaceKept'
  BY <1>1, <1>8 DEF PlaceKept, Contents
<1> QED
  BY <1>3, <1>4, <1>7, <1>9

----------------------------------------------------------------------------
(* An upsert, and one that fails. *)

\* What an upsert does to a row
LEMMA UpsertIs ==
    ASSUME worker = "writing", NEW r \in Row
    PROVE  /\ ~Writing(r) => Upserted[r] = db[r]
           /\ Writing(r) => \E u \in InWork : RowOf[u] = r /\ Upserted[r] = data[u]
<1> DEFINE of == {u \in ToSet(batch.items) : RowOf[u] = r}
<1>1. InWork = ToSet(batch.items)
  BY DEF InWork
<1>2. Upserted[r] = IF of = {} THEN db[r] ELSE data[CHOOSE u \in of : TRUE]
  BY DEF Upserted
<1>3. Writing(r) <=> of # {}
  BY <1>1 DEF Writing
<1>4. of # {} => (CHOOSE u \in of : TRUE) \in of
  OBVIOUS
<1>5. CASE of = {}
  BY <1>2, <1>3, <1>5
<1>6. CASE of # {}
  <2>1. PICK u \in of : u = CHOOSE v \in of : TRUE
    BY <1>4, <1>6
  <2>2. Upserted[r] = data[u]
    BY <1>2, <1>6, <2>1
  <2> QED
    BY <1>1, <1>3, <1>6, <2>1, <2>2
<1> QED
  BY <1>5, <1>6

\* The row of an object that is upserted keeps the type of its map.
LEMMA UpsertTypes ==
    ASSUME worker = "writing", PendingMap(db), DataMap(data, content), InWork \subseteq Update
    PROVE  PendingMap(Upserted)
<1>1. Upserted = [r \in Row |-> Upserted[r]]
  BY DEF Upserted
<1>2. ASSUME NEW r \in Row
      PROVE  /\ Upserted[r] \in Update \cup {None}
             /\ Upserted[r] # None => RowOf[Upserted[r]] = r
  <2>1. CASE ~Writing(r)
    BY <2>1, UpsertIs DEF PendingMap
  <2>2. CASE Writing(r)
    <3>1. PICK u \in InWork : RowOf[u] = r /\ Upserted[r] = data[u]
      BY <2>2, UpsertIs
    <3> QED
      BY <3>1 DEF DataMap
  <2> QED
    BY <2>1, <2>2
<1> QED
  BY <1>1, <1>2 DEF PendingMap

\* The upsert is done.
LEMMA WriteKeeps ==
    ASSUME HistoryTypes, StageTypes, Fresh, PendingKept, OrderKept, PlaceKept,
           worker = "writing", worker' \notin {"writing", "collecting"}, db' = Upserted,
           written' = written \cup Contents(ToSet(batch.items)),
           UNCHANGED <<pending, data, content, arrived, dropped, again, called>>,
           Waits' = Waits, InHeap' = InHeap, InWork' \subseteq InWork,
           worker' = "handing" \/ InWork' = {}
    PROVE  Fresh' /\ PendingKept' /\ OrderKept' /\ PlaceKept'
<1>1. /\ Accepted' = Accepted /\ Held' \subseteq Held /\ Accepted \subseteq Update
      /\ InWork = ToSet(batch.items) /\ Owed = Waits \cup InHeap \cup InWork
      /\ Owed' = Waits \cup InHeap
      /\ \A r \in Row : ~Writing(r)'
  BY AcceptedAreUpdates DEF Accepted, Held, InWork, Owed, Writing
<1>3. Fresh'
  BY <1>1 DEF Fresh
<1>4. PendingKept'
  BY <1>1 DEF PendingKept
<1>5. ASSUME NEW r \in Row, Unspoiled(r)', pending[r] = None
      PROVE  Upserted[r] # None /\ Newest(arrived, Upserted[r])
  <2>1. Unspoiled(r)
    BY <1>1, <1>5 DEF Unspoiled
  <2>2. CASE Writing(r)
    <3>1. PICK u \in InWork : RowOf[u] = r /\ Upserted[r] = data[u]
      BY <2>2, UpsertIs
    <3>2. u \in Update /\ data[u] \in Update
      BY <1>1 DEF Fresh, Held, StageTypes, DataMap
    <3> QED
      BY <1>5, <2>1, <2>2, <3>1, <3>2, HasRow DEF OrderKept
  <2>3. CASE ~Writing(r)
    BY <1>5, <2>1, <2>3, UpsertIs DEF OrderKept
  <2> QED
    BY <2>2, <2>3
<1>6. ASSUME NEW r \in Row, Unspoiled(r)', pending[r] # None
      PROVE  Newest(arrived, data[pending[r]])
  <2>1. Unspoiled(r)
    BY <1>1, <1>6 DEF Unspoiled
  <2> QED
    BY <1>6, <2>1 DEF OrderKept
<1>7. OrderKept'
  <2>1. \A u \in InHeap' : RowOf[u] \in again'
    BY DEF OrderKept
  <2> QED
    BY <1>1, <1>5, <1>6, <2>1 DEF OrderKept
<1>8. PlaceKept'
  <2>1. ASSUME NEW v \in Accepted PROVE v \in Settled' \cup Contents(Owed)'
    <3>1. CASE v \in Settled
      BY <3>1 DEF Settled
    <3>2. CASE v \in Contents(Owed)
      <4>1. PICK x \in Owed : v \in content[x]
        BY <3>2 DEF Contents
      <4>2. CASE x \in InWork
        BY <4>1, <4>2, <1>1 DEF Settled, Contents
      <4>3. CASE x \in Waits \cup InHeap
        BY <4>1, <4>3, <1>1 DEF Contents
      <4> QED
        BY <4>1, <4>2, <4>3, <1>1
    <3> QED
      BY <3>1, <3>2 DEF PlaceKept
  <2> QED
    BY <1>1, <2>1 DEF PlaceKept
<1> QED
  BY <1>3, <1>4, <1>7, <1>8

\* It has failed, and its rows are or are not written: the batch is given up or
\* kept for the retry worker.
LEMMA FailKeeps ==
    ASSUME HistoryTypes, StageTypes, Fresh, PendingKept, OrderKept, PlaceKept,
           worker = "writing", worker' = "idle", db' \in {db, Upserted},
           UNCHANGED <<pending, data, content, arrived, written, called>>,
           Waits' = Waits, InWork' = {},
           \/ /\ InHeap' = InHeap \cup InWork /\ dropped' = dropped
              /\ again' = again \cup {RowOf[u] : u \in InWork}
           \/ /\ InHeap' = InHeap /\ again' = again
              /\ dropped' = dropped \cup Contents(InWork)
    PROVE  Fresh' /\ PendingKept' /\ OrderKept' /\ PlaceKept'
<1>1. /\ Accepted' = Accepted /\ Held' \subseteq Held /\ Accepted \subseteq Update
      /\ Owed = Waits \cup InHeap \cup InWork
      /\ Owed' = Waits \cup InHeap'
      /\ \A r \in Row : ~Writing(r)'
      /\ InHeap \subseteq InHeap' /\ dropped \subseteq dropped' /\ again \subseteq again'
      /\ InWork \subseteq Accepted
  BY AcceptedAreUpdates DEF Accepted, Held, Owed, Writing, Fresh
<1>3. Fresh'
  BY <1>1 DEF Fresh
<1>4. PendingKept'
  BY <1>1 DEF PendingKept
<1>5. ASSUME NEW r \in Row, Unspoiled(r)' PROVE Unspoiled(r) /\ ~Writing(r)
  <2>1. Unspoiled(r)
    BY <1>1, <1>5 DEF Unspoiled
  <2>2. ASSUME NEW u \in InWork, RowOf[u] = r PROVE FALSE
    <3>1. CASE again' = again \cup {RowOf[v] : v \in InWork}
      BY <1>5, <2>2, <3>1 DEF Unspoiled
    <3>2. CASE dropped' = dropped \cup Contents(InWork)
      <4>1. u \in content[u]
        BY <1>1, <2>2 DEF StageTypes, DataMap
      <4>2. u \in dropped' /\ u \in Accepted'
        BY <1>1, <2>2, <3>2, <4>1 DEF Contents
      <4> QED
        BY <1>5, <2>2, <4>2 DEF Unspoiled
    <3> QED
      BY <3>1, <3>2
  <2> QED
    BY <2>1, <2>2 DEF Writing
<1>6. ASSUME NEW r \in Row, Unspoiled(r)'
      PROVE  /\ pending[r] # None => Newest(arrived, data[pending[r]])
             /\ pending[r] = None => db'[r] # None /\ Newest(arrived, db'[r])
  <2>1. Unspoiled(r) /\ ~Writing(r)
    BY <1>5, <1>6
  <2>2. db'[r] = db[r]
    BY <2>1, UpsertIs
  <2> QED
    BY <2>1, <2>2 DEF OrderKept
<1>7. OrderKept'
  <2>1. \A u \in InHeap' : RowOf[u] \in again'
    BY DEF OrderKept
  <2> QED
    BY <1>1, <1>6, <2>1 DEF OrderKept
<1>8. PlaceKept'
  <2>1. ASSUME NEW v \in Accepted PROVE v \in Settled' \cup Contents(Owed)'
    <3>1. CASE v \in Settled
      BY <3>1, <1>1 DEF Settled
    <3>2. CASE v \in Contents(Owed)
      <4>1. PICK x \in Owed : v \in content[x]
        BY <3>2 DEF Contents
      <4>2. CASE x \in InWork
        BY <4>1, <4>2, <1>1 DEF Settled, Contents
      <4>3. CASE x \in Waits \cup InHeap
        BY <4>1, <4>3, <1>1 DEF Contents
      <4> QED
        BY <4>1, <4>2, <4>3, <1>1
    <3> QED
      BY <3>1, <3>2 DEF PlaceKept
  <2> QED
    BY <1>1, <2>1 DEF PlaceKept
<1> QED
  BY <1>3, <1>4, <1>7, <1>8

----------------------------------------------------------------------------
(* The newest update of a row. *)

\* Of the items of a row there is a last one.
LEMMA LastExists ==
    ASSUME NEW items, NEW n \in Nat, NEW r, NEW m0 \in 1..n, RowOf[items[m0]] = r
    PROVE  \E m \in 1..n : RowOf[items[m]] = r /\ LastOfRow(items, n, m)
<1> DEFINE Left == {n - m : m \in {l \in 1..n : RowOf[items[l]] = r}}
<1>1. Left \in SUBSET Nat /\ n - m0 \in Left
  OBVIOUS
<1>2. PICK k \in Left : \A l \in Left : k <= l
  <2> HIDE DEF Left
  <2> QED
    BY <1>1, LeastNumber
<1>3. PICK m \in 1..n : RowOf[items[m]] = r /\ k = n - m
  BY <1>2
<1>4. ASSUME NEW l \in 1..n, RowOf[items[l]] = r PROVE l <= m
  <2>1. n - m <= n - l
    BY <1>2, <1>3, <1>4
  <2> QED
    BY <2>1
<1> HIDE DEF Left
<1> QED
  BY <1>3, <1>4 DEF LastOfRow

\* Positions of a sequence to which others are added
LEMMA JoinIs ==
    ASSUME NEW came \in Seq(Update), NEW extra \in Seq(Update), NEW j, j = came \o extra
    PROVE  /\ Len(came) \in Nat /\ Len(extra) \in Nat /\ Len(j) = Len(came) + Len(extra)
           /\ DOMAIN j = 1..Len(j) /\ DOMAIN came = 1..Len(came)
           /\ \A i \in 1..Len(came) : i \in DOMAIN j /\ j[i] = came[i]
           /\ \A i \in 1..Len(extra) : Len(came) + i \in DOMAIN j /\ j[Len(came) + i] = extra[i]
           /\ \A i \in DOMAIN j : i \notin 1..Len(came) =>
                  i - Len(came) \in 1..Len(extra) /\ j[i] = extra[i - Len(came)]
           /\ ToSet(j) = ToSet(came) \cup ToSet(extra)
<1>1. /\ Len(came) \in Nat /\ Len(extra) \in Nat /\ Len(j) = Len(came) + Len(extra)
      /\ DOMAIN j = 1..Len(j) /\ DOMAIN came = 1..Len(came)
      /\ ToSet(j) = ToSet(came) \cup ToSet(extra)
  <2>1. JoinsTo(Update, came, extra, j)
    BY OnceJoin
  <2> QED
    BY <2>1 DEF JoinsTo
<1>2. \A i \in 1..(Len(came) + Len(extra)) :
          j[i] = IF i <= Len(came) THEN came[i] ELSE extra[i - Len(came)]
  OBVIOUS
<1>3. ASSUME NEW i \in 1..Len(came) PROVE i \in DOMAIN j /\ j[i] = came[i]
  <2>1. i \in 1..(Len(came) + Len(extra)) /\ i <= Len(came)
    BY <1>1
  <2> QED
    BY <1>1, <1>2, <2>1
<1>4. ASSUME NEW i \in 1..Len(extra)
      PROVE  Len(came) + i \in DOMAIN j /\ j[Len(came) + i] = extra[i]
  <2>1. /\ Len(came) + i \in 1..(Len(came) + Len(extra)) /\ ~(Len(came) + i <= Len(came))
        /\ Len(came) + i - Len(came) = i
    BY <1>1
  <2> QED
    BY <1>1, <1>2, <2>1
<1>5. ASSUME NEW i \in DOMAIN j, i \notin 1..Len(came)
      PROVE  i - Len(came) \in 1..Len(extra) /\ j[i] = extra[i - Len(came)]
  <2>1. i \in 1..(Len(came) + Len(extra))
    BY <1>1
  <2>2. i - Len(came) \in 1..Len(extra) /\ ~(i <= Len(came))
    BY <1>1, <1>5, <2>1
  <2> QED
    BY <1>2, <2>1, <2>2
<1> QED
  BY <1>1, <1>3, <1>4, <1>5

\* An update of another row does not make it older,
LEMMA NewestStays ==
    ASSUME NEW came \in Seq(Update), NEW extra \in Seq(Update), NEW v, Newest(came, v),
           \A m \in 1..Len(extra) : RowOf[extra[m]] # RowOf[v]
    PROVE  Newest(came \o extra, v)
<1> DEFINE j == came \o extra
<1>1. /\ Len(came) \in Nat /\ Len(extra) \in Nat /\ Len(j) = Len(came) + Len(extra)
      /\ DOMAIN j = 1..Len(j) /\ DOMAIN came = 1..Len(came)
      /\ \A i \in 1..Len(came) : i \in DOMAIN j /\ j[i] = came[i]
      /\ \A i \in DOMAIN j : i \notin 1..Len(came) =>
                  i - Len(came) \in 1..Len(extra) /\ j[i] = extra[i - Len(came)]
  BY JoinIs
<1> HIDE DEF j
<1>2. PICK n \in DOMAIN came :
          came[n] = v /\ \A m \in n + 1..Len(came) : RowOf[came[m]] # RowOf[v]
  BY DEF Newest
<1>3. ASSUME NEW m \in n + 1..Len(j) PROVE RowOf[j[m]] # RowOf[v]
  <2>1. m \in DOMAIN j /\ (m \in 1..Len(came) => m \in n + 1..Len(came))
    BY <1>1, <1>2
  <2>2. CASE m \in 1..Len(came)
    BY <1>1, <1>2, <2>1, <2>2
  <2>3. CASE m \notin 1..Len(came)
    BY <1>1, <2>1, <2>3
  <2> QED
    BY <2>2, <2>3
<1>4. n \in DOMAIN j /\ j[n] = v
  BY <1>1, <1>2
<1>5. Newest(j, v)
  BY <1>3, <1>4 DEF Newest
<1> QED
  BY <1>5 DEF j

\* and the last of a row that comes is the newest.
LEMMA NewestIs ==
    ASSUME NEW came \in Seq(Update), NEW extra \in Seq(Update),
           NEW k \in 1..Len(extra), LastOfRow(extra, Len(extra), k)
    PROVE  Newest(came \o extra, extra[k])
<1> DEFINE j == came \o extra
           v == extra[k]
<1>1. /\ Len(came) \in Nat /\ Len(extra) \in Nat /\ Len(j) = Len(came) + Len(extra)
      /\ DOMAIN j = 1..Len(j)
      /\ \A i \in 1..Len(extra) : Len(came) + i \in DOMAIN j /\ j[Len(came) + i] = extra[i]
      /\ \A i \in DOMAIN j : i \notin 1..Len(came) =>
                  i - Len(came) \in 1..Len(extra) /\ j[i] = extra[i - Len(came)]
  BY JoinIs
<1>2. \A l \in 1..Len(extra) : RowOf[extra[l]] = RowOf[v] => l <= k
  BY DEF LastOfRow
<1> HIDE DEF j, v
<1> DEFINE n == Len(came) + k
<1>3. ASSUME NEW m \in n + 1..Len(j) PROVE RowOf[j[m]] # RowOf[v]
  <2>1. m \in DOMAIN j /\ m \notin 1..Len(came) /\ ~(m - Len(came) <= k)
    BY <1>1
  <2>2. m - Len(came) \in 1..Len(extra) /\ j[m] = extra[m - Len(came)]
    BY <1>1, <2>1
  <2> QED
    BY <1>2, <2>1, <2>2
<1>4. n \in DOMAIN j /\ j[n] = v
  BY <1>1 DEF v
<1>5. Newest(j, v)
  <2> HIDE DEF n
  <2> QED
    BY <1>3, <1>4 DEF Newest
<1> QED
  BY <1>5 DEF j, v

----------------------------------------------------------------------------
(* Calls, and batches that are tried again. *)

\* The items are those of a call, which are new, or of a batch that is tried again.
NewItems(items) ==
    /\ ToSet(items) \cap Accepted = {} /\ InHeap' = InHeap /\ arrived' = arrived \o items
    /\ \E c \in Call : items = Items[c] /\ called' = called \cup {c}
OldItems(items) ==
    /\ ToSet(items) \subseteq InHeap /\ InHeap' = InHeap \ ToSet(items)
    /\ arrived' = arrived /\ called' = called

\* What staging does to the parts of the invariant that speak of objects
StageDoes(items) ==
    /\ Stageable(items) /\ ToSet(items) \cap (Waits \cup InWork) = {}
    /\ PendingStaged(pending', items, Len(items))
    /\ DataStaged(pending', data', content', items, Len(items))
    /\ Waits' = Waits \cup Entered(pending') /\ InWork' = InWork
    /\ UNCHANGED <<db, written, dropped, again>>
    /\ \A r \in Row : Writing(r)' <=> Writing(r)
    /\ worker' = "handing" <=> worker = "handing"
    /\ NewItems(items) \/ OldItems(items)

\* Which objects there are then
LEMMA StagedObjects ==
    ASSUME HistoryTypes, StageTypes, Fresh, NEW items, StageDoes(items)
    PROVE  /\ DOMAIN items = 1..Len(items) /\ Len(items) \in Nat /\ items \in Seq(Update)
           /\ \A m \in 1..Len(items) : /\ items[m] \in Update /\ items[m] \in ToSet(items)
                                       /\ RowOf[items[m]] \in Row /\ pending'[RowOf[items[m]]] # None
           /\ Accepted' = Accepted \cup ToSet(items) /\ Accepted' \subseteq Update
           /\ Entered(pending') \subseteq ToSet(items)
           /\ Held' = Held \ ToSet(items)
<1>1. DOMAIN items = 1..Len(items) /\ Len(items) \in Nat /\ items \in Seq(Update)
  BY DEF StageDoes, Stageable
<1>2. ASSUME NEW m \in 1..Len(items)
      PROVE /\ items[m] \in Update /\ items[m] \in ToSet(items)
            /\ RowOf[items[m]] \in Row /\ pending'[RowOf[items[m]]] # None
  <2>1. items[m] \in Update
    BY <1>1
  <2>2. pending'[RowOf[items[m]]] # None
    BY DEF StageDoes, PendingStaged
  <2> QED
    BY <1>1, <2>1, <2>2, HasRow DEF ToSet
<1>3. \A u \in ToSet(items) : u \in Update
  BY <1>1, <1>2 DEF ToSet
<1>4. Accepted' = Accepted \cup ToSet(items)
  <2>1. CASE NewItems(items)
    <3>1. arrived \in Seq(Update)
      BY DEF HistoryTypes
    <3>2. ToSet(arrived \o items) = ToSet(arrived) \cup ToSet(items)
      BY <1>1, <3>1, JoinIs
    <3> QED
      BY <2>1, <3>2 DEF NewItems, Accepted
  <2>2. CASE OldItems(items)
    BY <2>2 DEF OldItems, Accepted, Fresh, Held
  <2> QED
    BY <2>1, <2>2 DEF StageDoes
<1>5. Entered(pending') \subseteq ToSet(items)
  BY <1>2 DEF Entered, StageDoes, PendingStaged
<1>6. Held' = Held \ ToSet(items)
  <2>1. CASE NewItems(items)
    BY <2>1 DEF NewItems, StageDoes, Held, Fresh
  <2>2. CASE OldItems(items)
    BY <2>2 DEF OldItems, StageDoes, Held
  <2> QED
    BY <2>1, <2>2 DEF StageDoes
<1>7. Accepted' \subseteq Update
  BY <1>3, <1>4, AcceptedAreUpdates
<1> QED
  BY <1>1, <1>2, <1>4, <1>5, <1>6, <1>7

\* Pending rows and waiting objects agree,
LEMMA StageKeepsPending ==
    ASSUME HistoryTypes, StageTypes, Fresh, PendingKept, NEW items, StageDoes(items)
    PROVE  PendingKept'
<1>1. /\ Accepted' = Accepted \cup ToSet(items) /\ Accepted' \subseteq Update
      /\ Entered(pending') \subseteq ToSet(items) /\ Held' = Held \ ToSet(items)
      /\ Waits \subseteq Accepted /\ Held \subseteq Accepted
  BY StagedObjects DEF Fresh
<1>2. /\ PendingMap(pending') /\ Waits' = Waits \cup Entered(pending')
      /\ \A r \in Row : pending[r] # None => pending'[r] = pending[r]
      /\ \A r \in Row : pending[r] = None /\ pending'[r] # None => pending'[r] \in Entered(pending')
  BY DEF StageDoes, PendingStaged, Entered
<1>3. ASSUME NEW r \in Row, pending'[r] # None PROVE pending'[r] \in Waits'
  BY <1>2, <1>3 DEF PendingKept
<1>4. ASSUME NEW u \in Waits' PROVE pending'[RowOf[u]] = u
  <2>1. CASE u \in Waits
    <3>1. RowOf[u] \in Row /\ u # None /\ pending[RowOf[u]] = u
      BY <1>1, <2>1, HasRow DEF PendingKept
    <3> QED
      BY <1>2, <3>1
  <2>2. CASE u \in Entered(pending')
    <3>1. PICK r \in Row : pending'[r] # None /\ u = pending'[r]
      BY <2>2 DEF Entered
    <3> QED
      BY <3>1, <1>2 DEF PendingMap
  <2> QED
    BY <1>2, <1>4, <2>1, <2>2
<1>5. ASSUME NEW u \in Held' PROVE pending'[RowOf[u]] # u
  <2>1. u \in Held /\ u \notin ToSet(items) /\ RowOf[u] \in Row /\ u # None
    BY <1>1, HasRow
  <2>2. pending[RowOf[u]] # u
    BY <2>1 DEF PendingKept
  <2> QED
    BY <1>1, <1>2, <2>1, <2>2
<1> QED
  BY <1>3, <1>4, <1>5 DEF PendingKept

\* no object comes from nowhere,
LEMMA StageKeepsFresh ==
    ASSUME HistoryTypes, StageTypes, Fresh, PendingKept, NEW items, StageDoes(items)
    PROVE  Fresh'
<1>1. /\ Accepted' = Accepted \cup ToSet(items) /\ Accepted' \subseteq Update
      /\ Entered(pending') \subseteq ToSet(items) /\ Held' = Held \ ToSet(items)
  BY StagedObjects
<1>2. Waits' \cup Held' \subseteq Accepted'
  BY <1>1 DEF Fresh, StageDoes
<1>3. Accepted' \subseteq UNION {ToSet(Items[c]) : c \in called'}
  <2>1. CASE NewItems(items)
    <3>1. PICK c \in Call : items = Items[c] /\ called' = called \cup {c}
      BY <2>1 DEF NewItems
    <3>2. ToSet(items) \subseteq UNION {ToSet(Items[b]) : b \in called'}
      BY <3>1
    <3>3. Accepted \subseteq UNION {ToSet(Items[b]) : b \in called'}
      BY <3>1 DEF Fresh
    <3> QED
      BY <1>1, <3>2, <3>3
  <2>2. CASE OldItems(items)
    BY <1>1, <2>2 DEF OldItems, Fresh, Held
  <2> QED
    BY <2>1, <2>2 DEF StageDoes
<1>4. ASSUME NEW u \in Update \ Accepted' PROVE data'[u] = u
  <2>1. u \in Update \ Accepted /\ RowOf[u] \in Row /\ u # None /\ u \notin Waits'
    BY <1>1, <1>2, HasRow
  <2>2. pending'[RowOf[u]] # u
    BY <2>1, StageKeepsPending DEF PendingKept
  <2> QED
    BY <2>1, <2>2 DEF StageDoes, DataStaged, Fresh
<1> QED
  BY <1>2, <1>3, <1>4 DEF Fresh

\* every accepted update has its place,
LEMMA StageKeepsPlace ==
    ASSUME HistoryTypes, StageTypes, Fresh, PendingKept, PlaceKept, NEW items, StageDoes(items)
    PROVE  PlaceKept'
<1>1. /\ Accepted' = Accepted \cup ToSet(items) /\ Accepted' \subseteq Update
      /\ \A m \in 1..Len(items) : /\ items[m] \in Update /\ RowOf[items[m]] \in Row
                                  /\ pending'[RowOf[items[m]]] # None
      /\ DOMAIN items = 1..Len(items)
  BY StagedObjects
<1>2. /\ DataMap(data, content) /\ \A x \in Update : content[x] \subseteq content'[x]
      /\ \A m \in 1..Len(items) : content[items[m]] \subseteq content'[pending'[RowOf[items[m]]]]
  BY DEF StageTypes, StageDoes, DataStaged
<1>3. ASSUME NEW x \in ToSet(items), NEW v \in content[x] PROVE v \in Contents(Owed)'
  <2>1. PICK m \in 1..Len(items) : x = items[m]
    BY <1>1 DEF ToSet
  <2>2. pending'[RowOf[x]] \in Owed'
    BY <1>1, <2>1, StageKeepsPending DEF PendingKept, Owed
  <2>3. v \in content'[pending'[RowOf[x]]]
    BY <1>2, <2>1
  <2> QED
    BY <2>2, <2>3 DEF Contents
<1>4. Owed \subseteq Owed' \cup ToSet(items)
  BY DEF StageDoes, NewItems, OldItems, Owed
<1>5. Owed \subseteq Update
  BY AcceptedAreUpdates DEF Owed, Fresh, Held
<1>6. ASSUME NEW v \in Accepted' PROVE v \in Settled' \cup Contents(Owed)'
  <2>1. CASE v \in ToSet(items)
    <3>1. v \in content[v]
      BY <1>1, <1>2, <2>1 DEF DataMap
    <3> QED
      BY <1>3, <2>1, <3>1
  <2>2. CASE v \in Settled
    BY <2>2 DEF Settled, StageDoes
  <2>3. CASE v \in Contents(Owed)
    <3>1. PICK x \in Owed : v \in content[x]
      BY <2>3 DEF Contents
    <3>2. CASE x \in ToSet(items)
      BY <1>3, <3>1, <3>2
    <3>3. CASE x \in Owed'
      BY <1>2, <1>5, <3>1, <3>3 DEF Contents
    <3> QED
      BY <1>4, <3>2, <3>3
  <2> QED
    BY <1>1, <2>1, <2>2, <2>3 DEF PlaceKept
<1> QED
  BY <1>6 DEF PlaceKept

\* A row of which nothing is staged
LEMMA StageLeaves ==
    ASSUME HistoryTypes, StageTypes, Fresh, PendingKept, OrderKept, NEW items, StageDoes(items),
           NEW r \in Row, Unspoiled(r)', \A m \in 1..Len(items) : RowOf[items[m]] # r
    PROVE  /\ pending'[r] # None => Newest(arrived', data'[pending'[r]])
           /\ pending'[r] = None /\ Writing(r)' =>
                  \A u \in InWork' : RowOf[u] = r => Newest(arrived', data'[u])
           /\ pending'[r] = None /\ ~Writing(r)' => db'[r] # None /\ Newest(arrived', db'[r])
<1>1. /\ Accepted' = Accepted \cup ToSet(items) /\ Accepted' \subseteq Update
      /\ DOMAIN items = 1..Len(items) /\ items \in Seq(Update)
  BY StagedObjects
<1>2. ASSUME NEW v, Newest(arrived, v), RowOf[v] = r PROVE Newest(arrived', v)
  <2>1. CASE NewItems(items)
    <3>1. arrived \in Seq(Update) /\ arrived' = arrived \o items
      BY <2>1 DEF HistoryTypes, NewItems
    <3>2. \A m \in 1..Len(items) : RowOf[items[m]] # RowOf[v]
      BY <1>2
    <3>3. Newest(arrived \o items, v)
      BY <1>1, <1>2, <3>1, <3>2, NewestStays
    <3> QED
      BY <3>1, <3>3
  <2>2. CASE OldItems(items)
    BY <1>2, <2>2 DEF OldItems
  <2> QED
    BY <2>1, <2>2 DEF StageDoes
<1>3. Unspoiled(r)
  <2>1. \A v \in ToSet(items) : RowOf[v] # r
    BY <1>1 DEF ToSet
  <2> QED
    BY <1>1, <2>1 DEF Unspoiled, StageDoes
<1>4. pending'[r] = pending[r]
  BY DEF StageDoes, PendingStaged, PendingMap
<1>5. ASSUME NEW x \in Update, RowOf[x] = r PROVE data'[x] = data[x] /\ RowOf[data[x]] = r
  BY <1>5 DEF StageDoes, DataStaged, StageTypes, DataMap
<1>6. pending'[r] # None => Newest(arrived', data'[pending'[r]])
  <2> SUFFICES ASSUME pending[r] # None PROVE Newest(arrived', data'[pending[r]])
    BY <1>4
  <2>1. pending[r] \in Update /\ RowOf[pending[r]] = r
    BY DEF StageTypes, PendingMap
  <2>2. Newest(arrived, data[pending[r]])
    BY <1>3 DEF OrderKept
  <2> QED
    BY <1>2, <1>5, <2>1, <2>2
<1>7. ASSUME pending'[r] = None, Writing(r)', NEW u \in InWork', RowOf[u] = r
      PROVE  Newest(arrived', data'[u])
  <2>1. u \in InWork /\ Writing(r)
    BY <1>7 DEF StageDoes
  <2>2. u \in Update
    BY <1>1, <2>1 DEF Fresh, Held
  <2>3. Newest(arrived, data[u])
    BY <1>3, <1>4, <1>7, <2>1 DEF OrderKept
  <2> QED
    BY <1>2, <1>5, <1>7, <2>2, <2>3
<1>8. ASSUME pending'[r] = None, ~Writing(r)' PROVE db'[r] # None /\ Newest(arrived', db'[r])
  <2>1. ~Writing(r) /\ db' = db
    BY <1>8 DEF StageDoes
  <2>2. db[r] # None /\ Newest(arrived, db[r])
    BY <1>3, <1>4, <1>8, <2>1 DEF OrderKept
  <2>3. RowOf[db[r]] = r
    BY <2>2 DEF HistoryTypes, PendingMap
  <2> QED
    BY <1>2, <2>1, <2>2, <2>3
<1> QED
  BY <1>6, <1>7, <1>8

\* and every row its newest update.
LEMMA StageKeepsOrder ==
    ASSUME HistoryTypes, StageTypes, Fresh, PendingKept, OrderKept, NEW items, StageDoes(items)
    PROVE  OrderKept'
<1>1. /\ DOMAIN items = 1..Len(items) /\ Len(items) \in Nat /\ items \in Seq(Update)
      /\ \A m \in 1..Len(items) : /\ items[m] \in Update /\ items[m] \in ToSet(items)
                                   /\ RowOf[items[m]] \in Row /\ pending'[RowOf[items[m]]] # None
  BY StagedObjects
<1>2. ASSUME NEW r \in Row, Unspoiled(r)', NEW m0 \in 1..Len(items), RowOf[items[m0]] = r
      PROVE  pending'[r] # None /\ Newest(arrived', data'[pending'[r]])
  <2>1. NewItems(items)
    <3>1. ASSUME OldItems(items) PROVE FALSE
      <4>1. r \in again
        BY <1>1, <1>2, <3>1 DEF OldItems, OrderKept
      <4> QED
        BY <1>2, <4>1 DEF Unspoiled, StageDoes
    <3> QED
      BY <3>1 DEF StageDoes
  <2>2. PICK k \in 1..Len(items) : RowOf[items[k]] = r /\ LastOfRow(items, Len(items), k)
    BY <1>1, <1>2, LastExists
  <2>3. data'[pending'[r]] = data[items[k]]
    BY <2>2 DEF StageDoes, DataStaged
  <2>4. data[items[k]] = items[k]
    BY <1>1, <2>1, <2>2 DEF NewItems, Fresh
  <2>5. arrived \in Seq(Update) /\ arrived' = arrived \o items
    BY <2>1 DEF HistoryTypes, NewItems
  <2>6. Newest(arrived \o items, items[k])
    BY <1>1, <2>2, <2>5, NewestIs
  <2> QED
    BY <1>1, <1>2, <2>3, <2>4, <2>5, <2>6
<1>3. ASSUME NEW r \in Row, Unspoiled(r)'
      PROVE  /\ pending'[r] # None => Newest(arrived', data'[pending'[r]])
             /\ pending'[r] = None /\ Writing(r)' =>
                    \A u \in InWork' : RowOf[u] = r => Newest(arrived', data'[u])
             /\ pending'[r] = None /\ ~Writing(r)' => db'[r] # None /\ Newest(arrived', db'[r])
  <2>1. CASE \E m \in 1..Len(items) : RowOf[items[m]] = r
    BY <1>2, <1>3, <2>1
  <2>2. CASE \A m \in 1..Len(items) : RowOf[items[m]] # r
    BY <1>3, <2>2, StageLeaves
  <2> QED
    BY <2>1, <2>2
<1>4. \A u \in InHeap' : RowOf[u] \in again'
  BY DEF OrderKept, StageDoes, NewItems, OldItems
<1> QED
  BY <1>3, <1>4 DEF OrderKept

\* One putter gets something else to put.
LEMMA SlowSet ==
    ASSUME slow \in [Putter -> Seq(Update)], NEW p \in Putter, NEW left \in Seq(Update),
           slow' = [slow EXCEPT ![p] = left]
    PROVE  /\ slow' \in [Putter -> Seq(Update)] /\ slow'[p] = left
           /\ \A q \in Putter \ {p} : slow'[q] = slow[q]
           /\ InSlow' \cup ToSet(slow[p]) = InSlow \cup ToSet(left)
           /\ (\A q \in Putter \ {p} : ToSet(slow[p]) \cap ToSet(slow[q]) = {}) =>
                  InSlow' = (InSlow \ ToSet(slow[p])) \cup ToSet(left)
<1>1. /\ slow' \in [Putter -> Seq(Update)] /\ slow'[p] = left
      /\ \A q \in Putter \ {p} : slow'[q] = slow[q]
  OBVIOUS
<1>2. InSlow' \cup ToSet(slow[p]) = InSlow \cup ToSet(left)
  <2>1. ASSUME NEW x \in InSlow' PROVE x \in InSlow \cup ToSet(left)
    <3>1. PICK q \in Putter : x \in ToSet(slow'[q])
      BY DEF InSlow
    <3> QED
      BY <1>1, <3>1 DEF InSlow
  <2>2. ASSUME NEW x \in InSlow PROVE x \in InSlow' \cup ToSet(slow[p])
    <3>1. PICK q \in Putter : x \in ToSet(slow[q])
      BY DEF InSlow
    <3>2. q # p => x \in ToSet(slow'[q])
      BY <1>1, <3>1
    <3> QED
      BY <3>1, <3>2 DEF InSlow
  <2>3. ToSet(left) \subseteq InSlow' /\ ToSet(slow[p]) \subseteq InSlow
    BY <1>1 DEF InSlow
  <2> QED
    BY <2>1, <2>2, <2>3
<1>3. ASSUME \A q \in Putter \ {p} : ToSet(slow[p]) \cap ToSet(slow[q]) = {}
      PROVE  InSlow' = (InSlow \ ToSet(slow[p])) \cup ToSet(left)
  <2>1. ASSUME NEW x \in InSlow', x \in ToSet(slow[p]) PROVE x \in ToSet(left)
    <3>1. PICK q \in Putter : x \in ToSet(slow'[q])
      BY DEF InSlow
    <3> QED
      BY <1>1, <1>3, <2>1, <3>1
  <2>2. ToSet(left) \subseteq InSlow'
    BY <1>1 DEF InSlow
  <2> QED
    BY <1>2, <2>1, <2>2
<1> QED
  BY <1>1, <1>2, <1>3

\* What Stage does
Stages(p, items) ==
    /\ Stageable(items)
    /\ PendingStaged(pending', items, Len(items))
    /\ DataStaged(pending', data', content', items, Len(items))
    /\ QueueStaged(pending', queue', slow'[p])
    /\ slow' \in [Putter -> Seq(Update)] /\ \A q \in Putter \ {p} : slow'[q] = slow[q]
    /\ unfinished' = unfinished + Len(queue') - Len(queue)

\* Stage() does this.
LEMMA StageStages ==
    ASSUME StageTypes, ApartQueues, PendingKept, NEW p \in Putter,
           NEW items \in Seq(Update), Once(items), ToSet(items) \cap Waits = {}, Stage(p, items)
    PROVE  Stages(p, items)
<1>1. Stageable(items)
  <2>1. ASSUME NEW m \in DOMAIN items
        PROVE  pending[RowOf[items[m]]] # items[m] /\ items[m] \notin ToSet(queue)
    <3>1. items[m] \in Update /\ items[m] \in ToSet(items)
      BY DEF ToSet
    <3>2. items[m] \notin Waits /\ items[m] # STOP /\ items[m] # None /\ RowOf[items[m]] \in Row
      BY <3>1, HasRow
    <3> QED
      BY <3>2 DEF PendingKept, Waits, Lined
  <2> QED
    BY <2>1 DEF Stageable, StageTypes, ApartQueues
<1>2. PICK P, D, C, q, w :
        /\ IsStage(Staged(items), P, D, C, q, w)
        /\ PendingStaged(P, items, Len(items)) /\ DataStaged(P, D, C, items, Len(items))
        /\ QueueStaged(P, q, w)
  BY <1>1, StagingIs DEF StagedTo
<1> DEFINE s == Staged(items)
<1>3. /\ pending' = s.pending /\ data' = s.data /\ content' = s.content
      /\ queue' = s.queue /\ unfinished' = unfinished + Len(s.queue) - Len(queue)
      /\ slow' = [slow EXCEPT ![p] = s.slow]
  BY DEF Stage
<1> HIDE DEF s
<1>4. IsStage(s, P, D, C, q, w)
  BY <1>2 DEF s
<1>5. /\ pending' = P /\ data' = D /\ content' = C
      /\ queue' = q /\ unfinished' = unfinished + Len(q) - Len(queue)
      /\ slow' = [slow EXCEPT ![p] = w]
  BY <1>3, <1>4 DEF IsStage
<1>6. w \in Seq(Update) /\ slow \in [Putter -> Seq(Update)]
  BY <1>2 DEF QueueStaged, StageTypes
<1>7. /\ slow' \in [Putter -> Seq(Update)] /\ slow'[p] = w
      /\ \A r \in Putter \ {p} : slow'[r] = slow[r]
  BY <1>5, <1>6, SlowSet
<1> QED
  BY <1>1, <1>2, <1>5, <1>7 DEF Stages

\* and what that means for the places
LEMMA StagesPlaces ==
    ASSUME StageTypes, ApartQueues, NEW p \in Putter, slow[p] = <<>>,
           NEW items, ToSet(items) \cap (Waits \cup ToSet(batch.items)) = {}, Stages(p, items),
           batch' = batch
    PROVE  /\ ApartQueues'
           /\ Lined' \cup InSlow' = Lined \cup InSlow \cup Entered(pending')
           /\ STOP \in ToSet(queue') => STOP \in ToSet(queue)
           /\ Len(queue) \in Nat /\ Len(queue') \in Nat /\ Len(queue) <= Len(queue')
           /\ PendingMap(pending') /\ DataMap(data', content')
           /\ queue' \in Seq(Update \cup {STOP}) /\ Len(queue') <= QueueMax
<1>1. /\ Once(queue') /\ Once(slow'[p]) /\ ToSet(queue') \cap ToSet(slow'[p]) = {}
      /\ ToSet(queue') \cup ToSet(slow'[p]) = ToSet(queue) \cup Entered(pending')
      /\ ToSet(queue) \subseteq ToSet(queue')
      /\ queue' \in Seq(Update \cup {STOP}) /\ Len(queue') <= QueueMax /\ Len(queue) <= Len(queue')
      /\ slow' \in [Putter -> Seq(Update)] /\ \A q \in Putter \ {p} : slow'[q] = slow[q]
  BY DEF Stages, QueueStaged
<1>2. /\ PendingMap(pending') /\ DataMap(data', content')
      /\ Len(queue) \in Nat /\ Len(queue') \in Nat
  BY <1>1 DEF Stages, PendingStaged, DataStaged, StageTypes
<1>3. Entered(pending') \subseteq ToSet(items) /\ STOP \notin Entered(pending')
  <2>1. ASSUME NEW r \in Row, pending[r] = None, pending'[r] # None
        PROVE  pending'[r] \in ToSet(items) /\ pending'[r] # STOP
    <3>1. PICK m \in 1..Len(items) : pending'[r] = items[m]
      BY <2>1 DEF Stages, PendingStaged
    <3>2. m \in DOMAIN items /\ items[m] \in Update
      BY DEF Stages, Stageable
    <3> QED
      BY <3>1, <3>2, HasRow DEF ToSet
  <2> QED
    BY <2>1 DEF Entered
<1>4. \A q \in Putter : ToSet(slow[q]) \subseteq InSlow
  BY DEF InSlow
<1>5. ToSet(slow[p]) = {}
  BY DEF ToSet
<1>6. /\ ToSet(items) \cap ToSet(batch.items) = {}
      /\ \A q \in Putter : ToSet(items) \cap ToSet(slow[q]) = {}
  BY <1>4 DEF Waits
<1>7. ASSUME NEW q \in Putter \ {p}
      PROVE  /\ ToSet(slow[q]) \cap ToSet(queue') = {} /\ ToSet(slow[q]) \cap ToSet(slow'[p]) = {}
  <2>1. ToSet(slow[q]) \cap ToSet(queue) = {} /\ ToSet(slow[q]) \cap Entered(pending') = {}
    BY <1>3, <1>6 DEF ApartQueues
  <2> QED
    BY <1>1, <2>1
<1>8. /\ ToSet(queue') \cap ToSet(batch.items) = {}
      /\ ToSet(slow'[p]) \cap ToSet(batch.items) = {}
  <2>1. ToSet(queue) \cap ToSet(batch.items) = {}
    BY DEF ApartQueues
  <2> QED
    BY <1>1, <1>3, <1>6, <2>1
<1>9. ApartQueues'
  <2>1. ASSUME NEW q \in Putter
        PROVE  /\ Once(slow'[q]) /\ ToSet(slow'[q]) \cap ToSet(queue') = {}
               /\ ToSet(slow'[q]) \cap ToSet(batch.items) = {}
               /\ \A r \in Putter \ {q} : ToSet(slow'[q]) \cap ToSet(slow'[r]) = {}
    <3>1. CASE q = p
      BY <1>1, <1>7, <1>8, <3>1
    <3>2. CASE q # p
      <4>1. /\ Once(slow[q]) /\ ToSet(slow[q]) \cap ToSet(batch.items) = {}
            /\ \A r \in Putter \ {q} : ToSet(slow[q]) \cap ToSet(slow[r]) = {}
        BY DEF ApartQueues
      <4> QED
        BY <1>1, <1>7, <3>2, <4>1
    <3> QED
      BY <3>1, <3>2
  <2> QED
    BY <1>1, <1>8, <2>1 DEF ApartQueues
<1>10. InSlow' = InSlow \cup ToSet(slow'[p])
  <2>1. ASSUME NEW x \in InSlow' PROVE x \in InSlow \cup ToSet(slow'[p])
    <3>1. PICK q \in Putter : x \in ToSet(slow'[q])
      BY DEF InSlow
    <3> QED
      BY <1>1, <1>4, <3>1
  <2>2. ASSUME NEW x \in InSlow PROVE x \in InSlow'
    <3>1. PICK q \in Putter : x \in ToSet(slow[q])
      BY DEF InSlow
    <3>2. q # p
      BY <1>5, <3>1
    <3> QED
      BY <1>1, <3>1, <3>2 DEF InSlow
  <2>3. ToSet(slow'[p]) \subseteq InSlow'
    BY DEF InSlow
  <2> QED
    BY <2>1, <2>2, <2>3
<1>11. STOP \notin ToSet(slow'[p])
  <2>1. slow'[p] \in Seq(Update)
    BY <1>1
  <2> QED
    BY <2>1, HasRow DEF ToSet
<1>12. Lined' \cup InSlow' = Lined \cup InSlow \cup Entered(pending')
  BY <1>1, <1>3, <1>10, <1>11 DEF Lined
<1> QED
  BY <1>1, <1>2, <1>3, <1>9, <1>12

\* A call brings items that no call has brought.
LEMMA CallItems ==
    ASSUME StageTypes, Fresh, NEW c \in Call \ called
    PROVE  /\ Items[c] \in Seq(Update) /\ Once(Items[c])
           /\ ToSet(Items[c]) \cap Accepted = {}
<1>1. Items[c] \in Seq(Update) /\ Once(Items[c])
  BY UpdatesAssumption DEF UpdatesAssumption, Once
<1>2. ASSUME NEW x \in ToSet(Items[c]), x \in Accepted PROVE FALSE
  <2>1. PICK b \in called : x \in ToSet(Items[b])
    BY <1>2 DEF Fresh
  <2>2. b \in Call /\ b # c
    BY DEF StageTypes
  <2>3. PICK m \in DOMAIN Items[b] : x = Items[b][m]
    BY <2>1 DEF ToSet
  <2>4. PICK n \in DOMAIN Items[c] : x = Items[c][n]
    BY DEF ToSet
  <2> QED
    BY <2>2, <2>3, <2>4, UpdatesAssumption DEF UpdatesAssumption
<1> QED
  BY <1>1, <1>2

\* add_torrent_infos()
LEMMA AddKeeps ==
    ASSUME UpdIndInv, NEW c \in Call, Add(c)
    PROVE  UpdIndInv'
<1>1. /\ c \notin called /\ called' = called \cup {c} /\ stopper = "no"
      /\ Stage(c, Items[c]) /\ arrived' = arrived \o Items[c]
      /\ worker' = IF worker = "none" THEN "idle" ELSE worker
      /\ killed' = FALSE
      /\ UNCHANGED <<batch, db, failures, written, again, dropped, heap, retrying, idle,
                     outbox, sender, tries, stopper, woken>>
  BY DEF Add, Stopping, retryVars, sendVars, stopVars
<1>2. /\ StageTypes /\ BatchTypes /\ HistoryTypes /\ TaskTypes /\ StopPhases
      /\ ApartQueues /\ ApartHeap /\ Fresh /\ PendingKept /\ OrderKept /\ PlaceKept
  BY <1>1 DEF UpdIndInv, UpdTypes, Sound, Apart
<1> DEFINE items == Items[c]
<1>3. /\ items \in Seq(Update) /\ Once(items) /\ ToSet(items) \cap Accepted = {}
  BY <1>1, <1>2, CallItems
<1> HIDE DEF items
<1>4. c \in Putter /\ slow[c] = <<>> /\ Stage(c, items)
  BY <1>1, <1>2 DEF Putter, StageTypes, items
<1>5. ToSet(items) \cap (Waits \cup InWork) = {} /\ ToSet(batch.items) \subseteq Waits \cup InWork
  BY <1>2, <1>3 DEF Fresh, Held, Waits, Collected, InWork
<1>6. Stages(c, items)
  BY <1>2, <1>3, <1>4, <1>5, StageStages
<1>7. /\ ApartQueues'
      /\ Lined' \cup InSlow' = Lined \cup InSlow \cup Entered(pending')
      /\ STOP \in ToSet(queue') => STOP \in ToSet(queue)
      /\ Len(queue) \in Nat /\ Len(queue') \in Nat /\ Len(queue) <= Len(queue')
      /\ PendingMap(pending') /\ DataMap(data', content')
      /\ queue' \in Seq(Update \cup {STOP}) /\ Len(queue') <= QueueMax
  BY <1>1, <1>2, <1>4, <1>5, <1>6, StagesPlaces
<1>8. Collected' = Collected /\ InWork' = InWork
  BY <1>1 DEF Collected, InWork
<1>9. StageDoes(items)
  <2>1. NewItems(items)
    BY <1>1, <1>3 DEF NewItems, InHeap, items
  <2>2. Waits' = Waits \cup Entered(pending')
    BY <1>7, <1>8 DEF Waits
  <2>3. \A r \in Row : Writing(r)' <=> Writing(r)
    BY <1>1, <1>8 DEF Writing
  <2> QED
    BY <1>1, <1>5, <1>6, <1>8, <2>1, <2>2, <2>3 DEF StageDoes, Stages
<1>10. Fresh' /\ PendingKept' /\ OrderKept' /\ PlaceKept'
  BY <1>2, <1>9, StageKeepsFresh, StageKeepsPending, StageKeepsOrder, StageKeepsPlace
<1>11. ApartHeap'
  BY <1>1, <1>2 DEF ApartHeap
<1>12. StageTypes'
  <2>1. slow' \in [Putter -> Seq(Update)] /\ \A p \in Putter \ {c} : slow'[p] = slow[p]
    BY <1>6 DEF Stages
  <2>2. \A b \in Call \ called' : slow'[b] = <<>>
    BY <1>1, <1>2, <2>1 DEF StageTypes, Putter
  <2> QED
    BY <1>1, <1>2, <1>7, <2>1, <2>2 DEF StageTypes
<1>13. BatchTypes'
  <2>1. /\ unfinished' = unfinished + Len(queue') - Len(queue) /\ unfinished \in Nat
        /\ unfinished >= Len(queue) + batch.keys /\ batch.keys \in Nat
    BY <1>2, <1>6 DEF Stages, BatchTypes
  <2>2. unfinished' \in Nat /\ unfinished' >= Len(queue') + batch.keys
    BY <1>7, <2>1
  <2> QED
    BY <1>1, <1>2, <2>2 DEF BatchTypes
<1>14. HistoryTypes'
  <2>1. arrived' \in Seq(Update)
    BY <1>1, <1>2, <1>3 DEF HistoryTypes, items
  <2> QED
    BY <1>1, <1>2, <2>1 DEF HistoryTypes
<1>15. TaskTypes'
  BY <1>1, <1>2 DEF TaskTypes
<1>16. StopPhases'
  BY <1>1, <1>2, <1>7 DEF StopPhases, Leaving, StopDrains
<1> QED
  BY <1>7, <1>10, <1>11, <1>12, <1>13, <1>14, <1>15, <1>16 DEF UpdIndInv, UpdTypes, Sound, Apart

\* The retry worker stages a batch again.
LEMMA RetryStagesKeeps ==
    ASSUME UpdIndInv, RetryStages
    PROVE  UpdIndInv'
<1>1. /\ retrying /\ slow[Retrier] = <<>>
      /\ idle' = (idle \/ IdleAfter(heap', slow'[Retrier]))
      /\ UNCHANGED <<retrying, called, arrived, worker, batch, db, failures, written, again, killed,
                     outbox, sender, tries, stopper, woken, dropped>>
  BY DEF RetryStages, callVars, workVars, sendVars, stopVars
<1>a. PICK items \in heap : Stage(Retrier, items) /\ heap' = heap \ {items}
  BY DEF RetryStages
<1>2. /\ StageTypes /\ BatchTypes /\ HistoryTypes /\ TaskTypes /\ StopPhases
      /\ stopper # "stopped"
      /\ ApartQueues /\ ApartHeap /\ Fresh /\ PendingKept /\ OrderKept /\ PlaceKept
  BY <1>1 DEF UpdIndInv, UpdTypes, Sound, Apart, StopPhases
<1>3. /\ items \in Seq(Update) /\ Once(items) /\ ToSet(items) \subseteq InHeap
      /\ ToSet(items) \cap ToSet(batch.items) = {}
  BY <1>2 DEF HistoryTypes, ApartHeap, InHeap
<1>4. Retrier \in Putter
  BY DEF Putter
<1>5. /\ ToSet(items) \cap Waits = {} /\ ToSet(items) \cap InWork = {}
      /\ ToSet(items) \cap (Waits \cup ToSet(batch.items)) = {}
  <2>1. ToSet(items) \cap Waits = {}
    BY <1>2, <1>3 DEF PendingKept, Held
  <2> QED
    BY <1>3, <2>1 DEF InWork
<1>6. Stages(Retrier, items)
  BY <1>2, <1>3, <1>4, <1>5, <1>a, StageStages
<1>7. /\ ApartQueues'
      /\ Lined' \cup InSlow' = Lined \cup InSlow \cup Entered(pending')
      /\ STOP \in ToSet(queue') => STOP \in ToSet(queue)
      /\ Len(queue) \in Nat /\ Len(queue') \in Nat /\ Len(queue) <= Len(queue')
      /\ PendingMap(pending') /\ DataMap(data', content')
      /\ queue' \in Seq(Update \cup {STOP}) /\ Len(queue') <= QueueMax
  BY <1>1, <1>2, <1>4, <1>5, <1>6, StagesPlaces
<1>8. Collected' = Collected /\ InWork' = InWork
  BY <1>1 DEF Collected, InWork
<1>9. InHeap' = InHeap \ ToSet(items)
  <2>1. \A x \in InHeap : x \in ToSet(items) \/ x \in InHeap'
    BY <1>a DEF InHeap
  <2>2. \A x \in InHeap' : x \in InHeap /\ x \notin ToSet(items)
    BY <1>2, <1>a DEF InHeap, ApartHeap
  <2> QED
    BY <2>1, <2>2
<1>10. StageDoes(items)
  <2>1. OldItems(items)
    BY <1>1, <1>3, <1>9 DEF OldItems
  <2>2. Waits' = Waits \cup Entered(pending')
    BY <1>7, <1>8 DEF Waits
  <2>3. \A r \in Row : Writing(r)' <=> Writing(r)
    BY <1>1, <1>8 DEF Writing
  <2> QED
    BY <1>1, <1>5, <1>6, <1>8, <2>1, <2>2, <2>3 DEF StageDoes, Stages
<1>11. Fresh' /\ PendingKept' /\ OrderKept' /\ PlaceKept'
  BY <1>2, <1>10, StageKeepsFresh, StageKeepsPending, StageKeepsOrder, StageKeepsPlace
<1>12. ApartHeap'
  BY <1>1, <1>2, <1>a DEF ApartHeap
<1>13. StageTypes'
  <2>1. slow' \in [Putter -> Seq(Update)] /\ \A p \in Putter \ {Retrier} : slow'[p] = slow[p]
    BY <1>6 DEF Stages
  <2>2. \A b \in Call \ called' : slow'[b] = <<>>
    BY <1>1, <1>2, <2>1, UpdatesAssumption DEF StageTypes, Putter, UpdatesAssumption
  <2> QED
    BY <1>1, <1>2, <1>7, <2>1, <2>2 DEF StageTypes
<1>14. BatchTypes'
  <2>1. /\ unfinished' = unfinished + Len(queue') - Len(queue) /\ unfinished \in Nat
        /\ unfinished >= Len(queue) + batch.keys /\ batch.keys \in Nat
    BY <1>2, <1>6 DEF Stages, BatchTypes
  <2>2. unfinished' \in Nat /\ unfinished' >= Len(queue') + batch.keys
    BY <1>7, <2>1
  <2> QED
    BY <1>1, <1>2, <2>2 DEF BatchTypes
<1>15. HistoryTypes'
  BY <1>1, <1>2, <1>a DEF HistoryTypes
<1>16. TaskTypes'
  <2>1. idle' \in BOOLEAN
    BY <1>1, <1>2 DEF TaskTypes
  <2> QED
    BY <1>1, <1>2, <2>1 DEF TaskTypes
<1>17. StopPhases'
  <2>1. heap # {}
    BY <1>a
  <2>2. /\ stopper \notin {"put", "gather"} /\ STOP \notin ToSet(queue) /\ STOP \notin ToSet(queue')
    BY <1>2, <1>7, <2>1 DEF StopPhases
  <2>3. ~(worker = "none" /\ ~killed)
    BY <1>2, <2>1 DEF StopPhases, Emptied
  <2> QED
    BY <1>1, <1>2, <2>2, <2>3 DEF StopPhases, StopDrains
<1> QED
  BY <1>7, <1>11, <1>12, <1>13, <1>14, <1>15, <1>16, <1>17 DEF UpdIndInv, UpdTypes, Sound, Apart

----------------------------------------------------------------------------
(* What waits is put, or its call cancelled. *)

\* What is put into the queue as there is room
PutsDo(p, n, first, rest) ==
    /\ n \in Nat /\ n <= Len(slow[p]) /\ Len(queue) + n <= QueueMax
    /\ first = SubSeq(slow[p], 1, n) /\ rest = SubSeq(slow[p], n + 1, Len(slow[p]))
    /\ queue' = queue \o first /\ slow' = [slow EXCEPT ![p] = rest]
    /\ unfinished' = unfinished + n

\* PutSlow() does this.
LEMMA PutSlowIs ==
    ASSUME StageTypes, NEW p \in Putter, PutSlow(p)
    PROVE  \E n, first, rest : PutsDo(p, n, first, rest)
<1> DEFINE room == QueueMax - Len(queue)
           n == IF room < Len(slow[p]) THEN room ELSE Len(slow[p])
           first == SubSeq(slow[p], 1, n)
           rest == SubSeq(slow[p], n + 1, Len(slow[p]))
<1>1. /\ Len(slow[p]) \in Nat /\ Len(queue) \in Nat /\ QueueMax \in Nat /\ Len(queue) <= QueueMax
  BY UpdatesAssumption DEF UpdatesAssumption, StageTypes
<1>2. n \in Nat /\ n <= Len(slow[p]) /\ Len(queue) + n <= QueueMax
  BY <1>1
<1>3. queue' = queue \o first /\ slow' = [slow EXCEPT ![p] = rest] /\ unfinished' = unfinished + n
  BY DEF PutSlow
<1> HIDE DEF n
<1> QED
  BY <1>2, <1>3 DEF PutsDo

\* The object waits in the queue instead of before it.
LEMMA PutKeepsPlaces ==
    ASSUME StageTypes, BatchTypes, NEW p \in Putter, PutSlow(p), UNCHANGED <<called, batch, worker>>
    PROVE  /\ StageTypes' /\ BatchTypes'
           /\ STOP \in ToSet(queue') => STOP \in ToSet(queue)
           /\ ApartQueues => ApartQueues' /\ Lined' \cup InSlow' = Lined \cup InSlow
<1>1. PICK n, first, rest : PutsDo(p, n, first, rest)
  BY PutSlowIs
<1>2. /\ n \in Nat /\ n <= Len(slow[p]) /\ Len(queue) + n <= QueueMax
      /\ first = SubSeq(slow[p], 1, n) /\ rest = SubSeq(slow[p], n + 1, Len(slow[p]))
      /\ queue' = queue \o first /\ slow' = [slow EXCEPT ![p] = rest]
      /\ unfinished' = unfinished + n
  BY <1>1 DEF PutsDo
<1>3. slow[p] \in Seq(Update) /\ queue \in Seq(Update \cup {STOP}) /\ Len(queue) \in Nat
  BY DEF StageTypes
<1>4. /\ first \in Seq(Update) /\ rest \in Seq(Update) /\ Len(first) = n
      /\ ToSet(first) \cup ToSet(rest) = ToSet(slow[p])
      /\ Once(slow[p]) => Once(first) /\ Once(rest) /\ ToSet(first) \cap ToSet(rest) = {}
  <2>1. SplitsInto(Update, slow[p], n, first, rest)
    BY <1>2, <1>3, OnceSplit
  <2> QED
    BY <2>1 DEF SplitsInto
<1>5. first \in Seq(Update \cup {STOP})
  BY <1>4
<1>6. /\ queue' \in Seq(Update \cup {STOP}) /\ Len(queue') = Len(queue) + n
      /\ ToSet(queue') = ToSet(queue) \cup ToSet(first)
      /\ Once(queue) /\ Once(first) /\ ToSet(queue) \cap ToSet(first) = {} => Once(queue')
  <2>1. JoinsTo(Update \cup {STOP}, queue, first, queue')
    BY <1>2, <1>3, <1>5, OnceJoin
  <2> QED
    BY <2>1, <1>4 DEF JoinsTo
<1>7. /\ slow' \in [Putter -> Seq(Update)] /\ slow'[p] = rest
      /\ \A q \in Putter \ {p} : slow'[q] = slow[q]
      /\ (\A q \in Putter \ {p} : ToSet(slow[p]) \cap ToSet(slow[q]) = {}) =>
             InSlow' = (InSlow \ ToSet(slow[p])) \cup ToSet(rest)
  BY <1>2, <1>4, SlowSet DEF StageTypes
<1>8. StageTypes'
  <2>1. \A c \in Call \ called' : slow'[c] = <<>>
    <3> SUFFICES ASSUME NEW c \in Call \ called PROVE slow'[c] = <<>>
      OBVIOUS
    <3>1. slow[c] = <<>> /\ slow[p] # <<>> /\ c \in Putter
      BY DEF StageTypes, PutSlow, Putter
    <3> QED
      BY <3>1, <1>7
  <2>2. PendingMap(pending') /\ DataMap(data', content')
    BY DEF PutSlow, StageTypes
  <2> QED
    BY <1>2, <1>6, <1>7, <2>1, <2>2 DEF StageTypes
<1>9. BatchTypes'
  <2>1. unfinished \in Nat /\ unfinished >= Len(queue) + batch.keys /\ batch.keys \in Nat
    BY DEF BatchTypes
  <2>2. unfinished' \in Nat /\ unfinished' >= Len(queue') + batch.keys
    BY <1>2, <1>3, <1>6, <2>1
  <2> QED
    BY <2>2 DEF BatchTypes
<1>10. STOP \notin ToSet(first) /\ STOP \notin ToSet(slow[p])
  BY <1>3, <1>4, HasRow DEF ToSet
<1>11. ASSUME ApartQueues PROVE ApartQueues' /\ Lined' \cup InSlow' = Lined \cup InSlow
  <2>1. /\ Once(queue) /\ Once(batch.items) /\ ToSet(queue) \cap ToSet(batch.items) = {}
        /\ \A q \in Putter :
               /\ Once(slow[q]) /\ ToSet(slow[q]) \cap ToSet(queue) = {}
               /\ ToSet(slow[q]) \cap ToSet(batch.items) = {}
               /\ \A r \in Putter \ {q} : ToSet(slow[q]) \cap ToSet(slow[r]) = {}
    BY <1>11 DEF ApartQueues
  <2>2. /\ Once(first) /\ Once(rest) /\ ToSet(first) \cap ToSet(rest) = {} /\ Once(queue')
        /\ ToSet(queue') \cap ToSet(batch.items) = {}
    BY <1>4, <1>6, <2>1
  <2>3. ASSUME NEW q \in Putter
        PROVE  /\ Once(slow'[q]) /\ ToSet(slow'[q]) \cap ToSet(queue') = {}
               /\ ToSet(slow'[q]) \cap ToSet(batch.items) = {}
               /\ \A r \in Putter \ {q} : ToSet(slow'[q]) \cap ToSet(slow'[r]) = {}
    <3>1. CASE q = p
      BY <1>4, <1>6, <1>7, <2>1, <2>2, <3>1
    <3>2. CASE q # p
      <4>1. slow'[q] = slow[q] /\ ToSet(slow[q]) \cap ToSet(slow[p]) = {}
        BY <1>7, <2>1, <3>2
      <4>2. ASSUME NEW r \in Putter \ {q} PROVE ToSet(slow'[r]) \subseteq ToSet(slow[r])
        <5>1. CASE r = p
          BY <1>4, <1>7, <5>1
        <5>2. CASE r # p
          BY <1>7, <5>2
        <5> QED
          BY <5>1, <5>2
      <4> QED
        BY <1>4, <1>6, <2>1, <4>1, <4>2
    <3> QED
      BY <3>1, <3>2
  <2>4. ApartQueues'
    BY <2>1, <2>2, <2>3 DEF ApartQueues
  <2>5. InSlow' = (InSlow \ ToSet(slow[p])) \cup ToSet(rest)
    BY <1>7, <2>1
  <2>6. ToSet(slow[p]) \subseteq InSlow
    BY DEF InSlow
  <2> QED
    BY <1>4, <1>6, <1>10, <2>4, <2>5, <2>6 DEF Lined
<1> QED
  BY <1>6, <1>8, <1>9, <1>10, <1>11

\* Whoever puts
LEMMA PutKeepsAll ==
    ASSUME UpdIndInv, NEW p \in Putter, PutSlow(p), idle' \in BOOLEAN,
           UNCHANGED <<called, arrived, worker, batch, db, failures, written, again, killed, heap,
                       retrying, outbox, sender, tries, stopper, woken, dropped>>
    PROVE  UpdIndInv'
<1>1. /\ StageTypes /\ BatchTypes /\ HistoryTypes /\ TaskTypes /\ StopPhases
  BY DEF UpdIndInv, UpdTypes
<1>2. UNCHANGED <<pending, data, content>> /\ slow[p] # <<>>
  BY DEF PutSlow
<1>3. /\ StageTypes' /\ BatchTypes'
      /\ STOP \in ToSet(queue') => STOP \in ToSet(queue)
      /\ ApartQueues => ApartQueues' /\ Lined' \cup InSlow' = Lined \cup InSlow
  BY <1>1, PutKeepsPlaces
<1>4. HistoryTypes'
  BY <1>1 DEF HistoryTypes
<1>5. TaskTypes'
  BY <1>1 DEF TaskTypes
<1>6. ASSUME stopper' # "stopped" PROVE Sound'
  <2>1. ApartQueues /\ ApartHeap /\ Fresh /\ PendingKept /\ OrderKept /\ PlaceKept
    BY <1>6 DEF UpdIndInv, Sound, Apart
  <2>2. /\ Waits' = Waits /\ InWork' = InWork /\ InHeap' = InHeap /\ Owed' = Owed
        /\ \A r \in Row : Writing(r)' <=> Writing(r)
    BY <1>3, <2>1 DEF Waits, InWork, Collected, InHeap, Owed, Writing
  <2>3. Fresh' /\ PendingKept' /\ OrderKept' /\ PlaceKept'
    BY <1>2, <2>1, <2>2, MovesKeep
  <2>4. ApartHeap'
    BY <2>1 DEF ApartHeap
  <2> QED
    BY <1>3, <2>1, <2>3, <2>4 DEF Sound, Apart
<1>7. StopPhases'
  <2>1. Putting
    BY <1>2 DEF Putting
  <2>2. stopper \notin {"put", "gather"} /\ STOP \notin ToSet(queue) /\ ~(worker = "none" /\ ~killed)
    BY <1>1, <2>1 DEF StopPhases, Emptied
  <2> QED
    BY <1>1, <1>3, <2>2 DEF StopPhases, StopDrains, Accepted, Settled
<1> QED
  BY <1>3, <1>4, <1>5, <1>6, <1>7 DEF UpdIndInv, UpdTypes

\* A call and the retry worker put what waits.
LEMMA PutsKeep ==
    ASSUME UpdIndInv
    PROVE  /\ \A c \in Call : Put(c) => UpdIndInv'
           /\ RetryPuts => UpdIndInv'
<1>1. ASSUME NEW c \in Call, Put(c) PROVE UpdIndInv'
  <2>1. c \in Putter /\ idle \in BOOLEAN
    BY DEF Putter, UpdIndInv, UpdTypes, TaskTypes
  <2>2. /\ PutSlow(c) /\ idle' \in BOOLEAN
        /\ UNCHANGED <<called, arrived, worker, batch, db, failures, written, again, killed, heap,
                       retrying, outbox, sender, tries, stopper, woken, dropped>>
    BY <1>1, <2>1 DEF Put, callVars, workVars, retryVars, sendVars, stopVars
  <2> QED
    BY <2>1, <2>2, PutKeepsAll
<1>2. ASSUME RetryPuts PROVE UpdIndInv'
  <2>1. Retrier \in Putter /\ idle \in BOOLEAN
    BY DEF Putter, UpdIndInv, UpdTypes, TaskTypes
  <2>2. /\ PutSlow(Retrier) /\ idle' \in BOOLEAN
        /\ UNCHANGED <<called, arrived, worker, batch, db, failures, written, again, killed, heap,
                       retrying, outbox, sender, tries, stopper, woken, dropped>>
    BY <1>2, <2>1 DEF RetryPuts, callVars, workVars, sendVars, stopVars
  <2> QED
    BY <2>1, <2>2, PutKeepsAll
<1> QED
  BY <1>1, <1>2

\* A call is cancelled.
LEMMA CancelledKeeps ==
    ASSUME UpdIndInv, NEW c \in Call, Cancel(c)
    PROVE  UpdIndInv'
<1>1. /\ slow[c] # <<>> /\ slow' = [slow EXCEPT ![c] = <<>>]
      /\ pending' = [r \in Row |-> IF pending[r] \in ToSet(slow[c]) THEN None ELSE pending[r]]
      /\ dropped' = dropped \cup Contents(ToSet(slow[c]))
      /\ UNCHANGED <<data, content, queue, unfinished, called, arrived, worker, batch, db,
                     failures, written, again, killed, heap, retrying, idle, outbox, sender,
                     tries, stopper, woken>>
  BY DEF Cancel, Discarded, callVars, workVars, retryVars, sendVars, stopVars
<1>2. /\ StageTypes /\ BatchTypes /\ HistoryTypes /\ TaskTypes /\ StopPhases
  BY DEF UpdIndInv, UpdTypes
<1>3. c \in Putter /\ <<>> \in Seq(Update) /\ ToSet(<<>>) = {} /\ Once(<<>>)
  BY DEF Putter, ToSet, Once
<1> DEFINE gone == ToSet(slow[c])
<1>4. /\ slow' \in [Putter -> Seq(Update)] /\ slow'[c] = <<>>
      /\ \A q \in Putter \ {c} : slow'[q] = slow[q]
      /\ (\A q \in Putter \ {c} : ToSet(slow[c]) \cap ToSet(slow[q]) = {}) =>
             InSlow' = (InSlow \ gone) \cup {}
  BY <1>1, <1>2, <1>3, SlowSet DEF StageTypes
<1>5. gone \subseteq Update /\ Contents(gone) \subseteq Update
  <2>1. slow[c] \in Seq(Update)
    BY <1>2, <1>3 DEF StageTypes
  <2>2. gone \subseteq Update
    BY <2>1 DEF ToSet
  <2> QED
    BY <1>2, <2>2 DEF Contents, StageTypes, DataMap
<1>6. StageTypes'
  <2>1. PendingMap(pending')
    BY <1>1, <1>2 DEF StageTypes, PendingMap
  <2>2. \A b \in Call \ called' : slow'[b] = <<>>
    BY <1>1, <1>2, <1>4 DEF StageTypes, Putter
  <2> QED
    BY <1>1, <1>2, <1>4, <2>1, <2>2 DEF StageTypes
<1>7. BatchTypes'
  BY <1>1, <1>2 DEF BatchTypes
<1>8. HistoryTypes'
  BY <1>1, <1>2, <1>5 DEF HistoryTypes
<1>9. TaskTypes'
  BY <1>1, <1>2 DEF TaskTypes
<1>10. ASSUME stopper' # "stopped" PROVE Sound'
  <2>1. ApartQueues /\ ApartHeap /\ Fresh /\ PendingKept /\ OrderKept /\ PlaceKept
    BY <1>1, <1>10 DEF UpdIndInv, Sound, Apart
  <2>2. /\ ToSet(slow[c]) \cap ToSet(queue) = {} /\ ToSet(slow[c]) \cap ToSet(batch.items) = {}
        /\ \A q \in Putter \ {c} : ToSet(slow[c]) \cap ToSet(slow[q]) = {}
    BY <1>3, <2>1 DEF ApartQueues
  <2>3. gone \subseteq InSlow
    BY <1>3 DEF InSlow
  <2>4. InSlow' = InSlow \ gone
    BY <1>4, <2>2
  <2> HIDE DEF gone
  <2>5. /\ Lined' = Lined /\ Collected' = Collected /\ gone \cap Lined = {} /\ gone \cap Collected = {}
    BY <1>1, <2>2 DEF Lined, Collected, gone
  <2>6. /\ gone \subseteq Waits /\ Waits' = Waits \ gone
        /\ InWork' = InWork /\ InHeap' = InHeap
    BY <1>1, <2>3, <2>4, <2>5 DEF Waits, InWork, InHeap
  <2>7. /\ Owed \ gone \subseteq Owed' /\ \A r \in Row : Writing(r)' <=> Writing(r)
    BY <1>1, <2>6 DEF Owed, Writing
  <2>8. /\ pending' = [r \in Row |-> IF pending[r] \in gone THEN None ELSE pending[r]]
        /\ dropped' = dropped \cup Contents(gone)
        /\ UNCHANGED <<data, content, db, arrived, written, again, called>>
    BY <1>1 DEF gone
  <2>9. Fresh' /\ PendingKept' /\ OrderKept' /\ PlaceKept'
    BY <1>2, <2>1, <2>6, <2>7, <2>8, DiscardKeeps
  <2>10. ApartQueues'
    <3>1. \A q \in Putter : Once(slow'[q]) /\ ToSet(slow'[q]) \subseteq ToSet(slow[q])
      BY <1>3, <1>4, <2>1 DEF ApartQueues
    <3> QED
      BY <1>1, <2>1, <3>1 DEF ApartQueues
  <2>11. ApartHeap'
    BY <1>1, <2>1 DEF ApartHeap
  <2> QED
    BY <2>9, <2>10, <2>11 DEF Sound, Apart
<1>11. StopPhases'
  <2>1. Putting
    BY <1>1, <1>3 DEF Putting
  <2>2. stopper \notin {"put", "gather"} /\ STOP \notin ToSet(queue) /\ ~(worker = "none" /\ ~killed)
    BY <1>2, <2>1 DEF StopPhases, Emptied
  <2> QED
    BY <1>1, <1>2, <2>2 DEF StopPhases, StopDrains, Accepted, Settled
<1> QED
  BY <1>6, <1>7, <1>8, <1>9, <1>10, <1>11 DEF UpdIndInv, UpdTypes

----------------------------------------------------------------------------
(* The worker takes a batch. *)

\* What a batch takes from the queue
Takes(taken) ==
    /\ taken \in Seq(Update \cup {STOP}) /\ Len(taken) \in 0..BatchSize /\ Once(taken)
    /\ queue' \in Seq(Update \cup {STOP}) /\ Once(queue') /\ Len(queue') <= QueueMax
    /\ ToSet(taken) \cup ToSet(queue') = ToSet(queue) \cup ToSet(batch.items)
    /\ ToSet(taken) \cap ToSet(queue') = {}
    /\ queue' # <<>> => queue'[Len(queue')] = queue[Len(queue)]
    /\ Len(queue') + Len(taken) = Len(queue) + batch.keys
    /\ worker \in {"idle", "collecting"}

\* The batch before the worker has it whole
LEMMA BatchIs ==
    ASSUME UpdTypes, worker \in {"idle", "collecting"}
    PROVE  /\ batch.items \in Seq(Update) /\ batch.items \in Seq(Update \cup {STOP})
           /\ batch.keys = Len(batch.items) /\ batch.keys \in 0..BatchSize /\ STOP \notin ToSet(batch.items)
           /\ ToSet(batch.items) = Collected /\ InWork = {}
           /\ worker = "idle" => ToSet(batch.items) = {} /\ batch.keys = 0
<1>1. batch.items \in Seq(Update) /\ batch.keys \in 0..BatchSize
  BY DEF UpdTypes, BatchTypes
<1>2. batch.items \in Seq(Update \cup {STOP}) /\ STOP \notin ToSet(batch.items)
  BY <1>1, HasRow DEF ToSet
<1>3. ToSet(<<>>) = {}
  BY DEF ToSet
<1>4. worker = "idle" => batch.items = <<>> /\ batch.keys = 0
  BY DEF UpdTypes, BatchTypes, NoBatch
<1>5. batch.keys = Len(batch.items)
  BY <1>4 DEF UpdTypes, BatchTypes
<1> QED
  BY <1>1, <1>2, <1>3, <1>4, <1>5 DEF Collected, InWork

\* There is room for what is taken,
LEMMA RoomIs ==
    ASSUME NEW a \in Nat, NEW b \in Nat, NEW size \in Nat, a <= size,
           NEW n, n = IF size - a < b THEN size - a ELSE b
    PROVE  n \in Nat /\ n <= b /\ a + n <= size
OBVIOUS

\* and nothing is counted twice.
LEMMA LengthsAre ==
    ASSUME NEW a \in Nat, NEW b \in Nat, NEW n \in Nat, NEW size \in Nat, NEW most \in Nat,
           a + n <= size, b <= most, NEW k, k = a + n, NEW l, l = b - n, n <= b
    PROVE  k \in 0..size /\ l <= most /\ l + k = b + a
OBVIOUS

\* So _collect_queue_batch() takes from the front of the queue.
LEMMA TakenIs ==
    ASSUME UpdTypes, ApartQueues, worker \in {"idle", "collecting"},
           NEW room, room = BatchSize - Len(batch.items),
           NEW n, n = IF room < Len(queue) THEN room ELSE Len(queue),
           NEW taken, taken = batch.items \o SubSeq(queue, 1, n),
           queue' = SubSeq(queue, n + 1, Len(queue))
    PROVE  /\ Takes(taken) /\ n \in Nat /\ n <= Len(queue) /\ (n # 0 => queue[1] \in ToSet(taken))
           /\ Len(taken) = batch.keys + n
<1> DEFINE first == SubSeq(queue, 1, n)
<1>1. /\ batch.items \in Seq(Update \cup {STOP})
      /\ batch.keys = Len(batch.items) /\ batch.keys \in 0..BatchSize
  BY BatchIs
<1>2. /\ queue \in Seq(Update \cup {STOP}) /\ Len(queue) <= QueueMax /\ Len(queue) \in Nat
      /\ QueueMax \in Nat /\ BatchSize \in Nat /\ Len(batch.items) \in Nat
  BY <1>1, UpdatesAssumption DEF UpdatesAssumption, UpdTypes, StageTypes
<1>3. n \in Nat /\ n <= Len(queue) /\ Len(batch.items) + n <= BatchSize
  <2>1. Len(batch.items) <= BatchSize
    BY <1>1, <1>2
  <2>2. n = IF BatchSize - Len(batch.items) < Len(queue) THEN BatchSize - Len(batch.items) ELSE Len(queue)
    OBVIOUS
  <2> QED
    BY ONLY <1>2, <2>1, <2>2, RoomIs
<1>4. SplitsInto(Update \cup {STOP}, queue, n, first, queue')
  BY <1>2, <1>3, OnceSplit
<1> HIDE DEF first
<1>5. /\ first \in Seq(Update \cup {STOP}) /\ queue' \in Seq(Update \cup {STOP})
      /\ Len(first) = n /\ Len(queue') = Len(queue) - n
      /\ ToSet(first) \cup ToSet(queue') = ToSet(queue)
      /\ Once(first) /\ Once(queue') /\ ToSet(first) \cap ToSet(queue') = {}
      /\ (queue' # <<>> => queue'[Len(queue')] = queue[Len(queue)])
      /\ (n # 0 => first[1] = queue[1])
  BY <1>4 DEF SplitsInto, ApartQueues
<1>6. JoinsTo(Update \cup {STOP}, batch.items, first, taken)
  BY <1>1, <1>5, OnceJoin DEF first
<1>7. /\ taken \in Seq(Update \cup {STOP}) /\ Len(taken) = Len(batch.items) + n
      /\ ToSet(taken) = ToSet(batch.items) \cup ToSet(first)
      /\ (Once(batch.items) /\ Once(first) /\ ToSet(batch.items) \cap ToSet(first) = {} => Once(taken))
  BY <1>5, <1>6 DEF JoinsTo
<1>8. Once(batch.items) /\ ToSet(queue) \cap ToSet(batch.items) = {}
  BY DEF ApartQueues
<1>9. /\ Len(taken) \in 0..BatchSize /\ Len(queue') <= QueueMax
      /\ Len(queue') + Len(taken) = Len(queue) + batch.keys
  <2>1. Len(taken) = Len(batch.items) + n /\ Len(queue') = Len(queue) - n
    BY <1>5, <1>7
  <2>2. /\ Len(taken) \in 0..BatchSize /\ Len(queue') <= QueueMax
        /\ Len(queue') + Len(taken) = Len(queue) + Len(batch.items)
    BY ONLY <1>2, <1>3, <2>1, LengthsAre
  <2> QED
    BY <1>1, <2>2
<1>10. n # 0 => queue[1] \in ToSet(taken)
  <2> SUFFICES ASSUME n # 0 PROVE first[1] \in ToSet(first)
    BY <1>5, <1>7
  <2>1. 1 \in DOMAIN first
    BY <1>3, <1>5
  <2> QED
    BY <2>1 DEF ToSet
<1>11. /\ Once(taken) /\ ToSet(taken) \cup ToSet(queue') = ToSet(queue) \cup ToSet(batch.items)
       /\ ToSet(taken) \cap ToSet(queue') = {}
  BY <1>5, <1>7, <1>8
<1>12. Takes(taken)
  BY <1>5, <1>7, <1>9, <1>11 DEF Takes
<1> QED
  BY <1>1, <1>3, <1>7, <1>10, <1>12

\* _finalize_batch_items()
LEMMA FinalizeKeeps ==
    ASSUME UpdIndInv, NEW taken, Takes(taken), Finalize(taken),
           UNCHANGED <<data, content, unfinished, slow, called, arrived, db, failures, written,
                       again, killed, heap, retrying, idle, outbox, sender, tries, stopper, woken>>
    PROVE  UpdIndInv'
<1>1. /\ UpdTypes /\ StageTypes /\ BatchTypes /\ HistoryTypes /\ TaskTypes /\ StopPhases
      /\ worker \in {"idle", "collecting"} /\ stopper \notin {"sender", "retrier", "stopped"}
      /\ ApartQueues /\ ApartHeap /\ Fresh /\ PendingKept /\ OrderKept /\ PlaceKept
  BY DEF UpdIndInv, UpdTypes, Sound, Apart, StopPhases, Takes
<1>2. /\ batch.items \in Seq(Update) /\ batch.keys = Len(batch.items) /\ STOP \notin ToSet(batch.items)
      /\ ToSet(batch.items) = Collected /\ InWork = {}
  BY <1>1, BatchIs
<1>3. /\ taken \in Seq(Update \cup {STOP}) /\ Len(taken) \in 0..BatchSize /\ Once(taken)
      /\ queue' \in Seq(Update \cup {STOP}) /\ Once(queue') /\ Len(queue') <= QueueMax
      /\ ToSet(taken) \cup ToSet(queue') = ToSet(queue) \cup ToSet(batch.items)
      /\ ToSet(taken) \cap ToSet(queue') = {}
      /\ queue' # <<>> => queue'[Len(queue')] = queue[Len(queue)]
      /\ Len(queue') + Len(taken) = Len(queue) + batch.keys
  BY DEF Takes
<1> DEFINE items == Ready(taken)
           ready == ToSet(items)
<1>4. /\ items \in Seq(Update) /\ Len(items) <= Len(taken) /\ Once(items)
      /\ ready = {u \in ToSet(taken) : u # STOP /\ pending[RowOf[u]] = u}
  BY <1>3, ReadySelects
<1>5. /\ pending' = [r \in Row |-> IF pending[r] \in ready THEN None ELSE pending[r]]
      /\ \/ /\ STOP \notin ToSet(taken) /\ worker' = "writing"
            /\ batch' = [keys |-> Len(taken), items |-> items]
            /\ UNCHANGED dropped
         \/ /\ STOP \in ToSet(taken) /\ worker' = "none" /\ batch' = NoBatch
            /\ dropped' = dropped \cup Contents(ready)
  BY DEF Finalize
<1> HIDE DEF items
<1>6. \A u \in ToSet(taken) : u # STOP => u \in Waits
  BY <1>2, <1>3 DEF Waits, Lined
<1>7. ready = ToSet(taken) \ {STOP}
  <2>1. \A u \in ToSet(taken) : u # STOP => pending[RowOf[u]] = u
    BY <1>1, <1>6 DEF PendingKept
  <2> QED
    BY <1>4, <2>1
<1>a. ToSet(<<>>) = {} /\ Once(<<>>) /\ <<>> \in Seq(Update)
  BY DEF ToSet, Once
<1>8. /\ ready \subseteq Waits /\ ready \subseteq Update /\ STOP \notin ready
      /\ ready \cap ToSet(queue') = {} /\ Collected' = {} /\ InSlow' = InSlow /\ InHeap' = InHeap
  <2>1. ready \subseteq Update
    BY <1>4 DEF ToSet
  <2> QED
    BY <1>3, <1>5, <1>6, <1>7, <2>1 DEF Collected, InSlow, InHeap
<1>9. ready \cap InSlow = {}
  <2>1. ASSUME NEW p \in Putter PROVE ready \cap ToSet(slow[p]) = {}
    <3>1. ToSet(slow[p]) \cap ToSet(queue) = {} /\ ToSet(slow[p]) \cap ToSet(batch.items) = {}
      BY <1>1 DEF ApartQueues
    <3> QED
      BY <1>3, <1>7, <3>1
  <2> QED
    BY <2>1 DEF InSlow
<1>10. Waits' = Waits \ ready
  <2>1. Lined' = ToSet(queue') \ {STOP}
    BY DEF Lined
  <2>2. (ToSet(queue') \ {STOP}) \cup ready = Lined \cup Collected
    BY <1>2, <1>3, <1>7 DEF Lined
  <2> QED
    BY <1>8, <1>9, <2>1, <2>2 DEF Waits
<1>11. /\ batch'.items \in Seq(Update) /\ Once(batch'.items) /\ ToSet(batch'.items) \subseteq ready
       /\ batch' \in [keys : 0..BatchSize, items : Seq(Update)]
  <2>1. CASE STOP \notin ToSet(taken)
    BY <1>3, <1>4, <1>5, <2>1
  <2>2. CASE STOP \in ToSet(taken)
    <3>1. batch' = NoBatch /\ 0 \in 0..BatchSize
      BY <1>5, <2>2, UpdatesAssumption DEF UpdatesAssumption
    <3> QED
      BY <1>a, <3>1 DEF NoBatch
  <2> QED
    BY <2>1, <2>2
<1>12. StageTypes'
  <2>1. PendingMap(pending')
    BY <1>1, <1>5 DEF StageTypes, PendingMap
  <2> QED
    BY <1>1, <1>3, <2>1 DEF StageTypes
<1>13. BatchTypes'
  <2>1. batch'.keys <= Len(taken) /\ batch'.keys \in Nat
    <3>1. CASE STOP \notin ToSet(taken)
      BY <1>3, <1>5, <3>1
    <3>2. CASE STOP \in ToSet(taken)
      BY <1>3, <1>5, <3>2 DEF NoBatch
    <3> QED
      BY <3>1, <3>2
  <2>2. unfinished \in Nat /\ unfinished >= Len(queue) + batch.keys /\ Len(queue') \in Nat
        /\ Len(queue) \in Nat /\ Len(taken) \in Nat
    BY <1>1, <1>3 DEF BatchTypes, StageTypes
  <2>3. unfinished >= Len(queue') + batch'.keys
    BY <1>3, <2>1, <2>2
  <2> QED
    BY <1>1, <1>5, <1>11, <2>3 DEF BatchTypes
<1>14. HistoryTypes'
  <2>1. Contents(ready) \subseteq Update
    BY <1>1, <1>8 DEF Contents, StageTypes, DataMap
  <2> QED
    BY <1>1, <1>5, <2>1 DEF HistoryTypes
<1>15. TaskTypes'
  BY <1>1 DEF TaskTypes
<1>16. Fresh' /\ PendingKept' /\ OrderKept' /\ PlaceKept'
  <2>1. CASE STOP \notin ToSet(taken)
    <3>1. /\ worker' = "writing" /\ UNCHANGED dropped /\ InWork' = ready
      BY <1>5, <2>1 DEF InWork
    <3> HIDE DEF ready
    <3> QED
      BY <1>1, <1>2, <1>5, <1>8, <1>10, <3>1, BatchKeeps
  <2>2. CASE STOP \in ToSet(taken)
    <3>1. worker' = "none" /\ dropped' = dropped \cup Contents(ready)
      BY <1>5, <2>2
    <3>2. InWork' = {}
      BY <1>5, <1>a, <2>2 DEF InWork, NoBatch
    <3> HIDE DEF ready
    <3>3. /\ Owed \ ready \subseteq Owed' /\ \A r \in Row : Writing(r)' <=> Writing(r)
      BY <1>2, <1>8, <1>10, <3>1, <3>2 DEF Owed, Writing
    <3>4. Fresh' /\ PendingKept' /\ OrderKept' /\ PlaceKept'
      BY <1>1, <1>2, <1>5, <1>8, <1>10, <3>1, <3>2, <3>3, DiscardKeeps
    <3> QED
      BY <3>4
  <2> QED
    BY <2>1, <2>2
<1>17. ApartQueues'
  <2>1. ASSUME NEW p \in Putter
        PROVE  ToSet(slow[p]) \cap ToSet(queue') = {} /\ ToSet(slow[p]) \cap ToSet(batch'.items) = {}
    <3>1. ToSet(slow[p]) \cap ToSet(queue) = {} /\ ToSet(slow[p]) \cap ToSet(batch.items) = {}
      BY <1>1 DEF ApartQueues
    <3>2. ToSet(slow[p]) \subseteq InSlow
      BY DEF InSlow
    <3> QED
      BY <1>3, <1>9, <1>11, <3>1, <3>2
  <2>2. ToSet(queue') \cap ToSet(batch'.items) = {}
    BY <1>8, <1>11
  <2> QED
    BY <1>1, <1>3, <1>11, <2>1, <2>2 DEF ApartQueues
<1>18. ApartHeap'
  <2>1. ASSUME NEW h \in heap PROVE ToSet(h) \cap ToSet(batch'.items) = {}
    <3>1. ToSet(h) \subseteq Held
      BY DEF Held, InHeap
    <3> QED
      BY <1>1, <1>8, <1>11, <3>1 DEF PendingKept
  <2> QED
    BY <1>1, <2>1 DEF ApartHeap
<1>19. STOP \in ToSet(queue') =>
           STOP \in ToSet(queue) /\ queue'[Len(queue')] = STOP /\ STOP \notin ToSet(taken)
  <2> SUFFICES ASSUME STOP \in ToSet(queue')
               PROVE  STOP \in ToSet(queue) /\ queue'[Len(queue')] = STOP /\ STOP \notin ToSet(taken)
    OBVIOUS
  <2>1. STOP \in ToSet(queue) /\ queue' # <<>> /\ STOP \notin ToSet(taken)
    BY <1>2, <1>3, <1>a
  <2> QED
    BY <1>1, <1>3, <2>1 DEF StopPhases
<1>20. StopPhases'
  <2>0. StopDrains'
    BY <1>1 DEF StopDrains
  <2>1. CASE STOP \notin ToSet(taken)
    <3>1. worker' = "writing" /\ (STOP \in ToSet(queue) => STOP \in ToSet(queue'))
      BY <1>3, <1>5, <2>1
    <3> QED
      BY <1>1, <1>19, <2>0, <3>1 DEF StopPhases, Emptied, Putting
  <2>2. CASE STOP \in ToSet(taken)
    <3>1. worker' = "none" /\ STOP \in ToSet(queue) /\ STOP \notin ToSet(queue')
      BY <1>2, <1>3, <1>5, <2>2
    <3>2. /\ queue[Len(queue)] = STOP /\ ~Putting /\ heap = {} /\ stopper = "gather"
      BY <1>1, <3>1 DEF StopPhases, Leaving
    <3>3. queue' = <<>>
      <4>1. ASSUME queue' # <<>> PROVE FALSE
        <5>1. queue'[Len(queue')] = STOP /\ Len(queue') \in DOMAIN queue'
          BY <1>3, <3>2, <4>1
        <5> QED
          BY <3>1, <5>1 DEF ToSet
      <4> QED
        BY <4>1
    <3>4. Emptied' /\ stopper' \in Leaving /\ ~Putting'
      BY <3>2, <3>3 DEF Emptied, Putting, Leaving
    <3> QED
      BY <1>1, <2>0, <3>1, <3>2, <3>4 DEF StopPhases
  <2> QED
    BY <2>1, <2>2
<1> QED
  BY <1>12, <1>13, <1>14, <1>15, <1>16, <1>17, <1>18, <1>20 DEF UpdIndInv, UpdTypes, Sound, Apart

\* The worker goes on collecting.
LEMMA CollectMoreKeeps ==
    ASSUME UpdIndInv, NEW taken, Takes(taken), Len(taken) # 0,
           ~woken, stopper \notin {"put", "gather"}, STOP \notin ToSet(queue),
           worker' = "collecting", batch' = [keys |-> Len(taken), items |-> taken],
           UNCHANGED <<pending, data, content, unfinished, slow, called, arrived, db, failures,
                       written, again, killed, heap, retrying, idle, outbox, sender, tries,
                       stopper, woken, dropped>>
    PROVE  UpdIndInv'
<1>1. /\ UpdTypes /\ StageTypes /\ BatchTypes /\ HistoryTypes /\ TaskTypes /\ StopPhases
      /\ worker \in {"idle", "collecting"} /\ stopper \notin {"sender", "retrier", "stopped"}
      /\ ApartQueues /\ ApartHeap /\ Fresh /\ PendingKept /\ OrderKept /\ PlaceKept
  BY DEF UpdIndInv, UpdTypes, Sound, Apart, StopPhases, Takes
<1>2. /\ batch.items \in Seq(Update) /\ batch.keys = Len(batch.items) /\ STOP \notin ToSet(batch.items)
      /\ ToSet(batch.items) = Collected /\ InWork = {}
  BY <1>1, BatchIs
<1>3. /\ taken \in Seq(Update \cup {STOP}) /\ Len(taken) \in 0..BatchSize /\ Once(taken)
      /\ queue' \in Seq(Update \cup {STOP}) /\ Once(queue') /\ Len(queue') <= QueueMax
      /\ ToSet(taken) \cup ToSet(queue') = ToSet(queue) \cup ToSet(batch.items)
      /\ ToSet(taken) \cap ToSet(queue') = {}
      /\ Len(queue') + Len(taken) = Len(queue) + batch.keys
  BY DEF Takes
<1>4. STOP \notin ToSet(taken) /\ STOP \notin ToSet(queue')
  BY <1>2, <1>3
<1>5. taken \in Seq(Update)
  <2>1. \A n \in 1..Len(taken) : taken[n] \in ToSet(taken) /\ taken[n] \in Update \cup {STOP}
    BY <1>3 DEF ToSet
  <2>2. \A n \in 1..Len(taken) : taken[n] \in Update
    BY <1>4, <2>1
  <2> QED
    BY <1>3, <2>2
<1>6. batch'.items = taken /\ batch'.keys = Len(taken)
  OBVIOUS
<1>7. /\ InWork' = {} /\ InHeap' = InHeap /\ Waits' = Waits
  <2>1. Lined' \cup Collected' = Lined \cup Collected
    BY <1>2, <1>3, <1>4, <1>6 DEF Lined, Collected
  <2>2. InSlow' = InSlow
    BY DEF InSlow
  <2> QED
    BY <2>1, <2>2 DEF InWork, InHeap, Waits
<1>8. Owed' = Owed /\ \A r \in Row : Writing(r)' <=> Writing(r)
  BY <1>1, <1>2, <1>7 DEF Owed, Writing
<1>9. Fresh' /\ PendingKept' /\ OrderKept' /\ PlaceKept'
  BY <1>1, <1>2, <1>7, <1>8, MovesKeep
<1>10. ASSUME NEW p \in Putter
       PROVE  ToSet(slow[p]) \cap ToSet(queue') = {} /\ ToSet(slow[p]) \cap ToSet(taken) = {}
  <2>1. ToSet(slow[p]) \cap ToSet(queue) = {} /\ ToSet(slow[p]) \cap ToSet(batch.items) = {}
    BY <1>1 DEF ApartQueues
  <2> QED
    BY <1>3, <2>1
<1>11. ApartQueues'
  BY <1>1, <1>3, <1>6, <1>10 DEF ApartQueues
<1>12. ApartHeap'
  <2>1. ASSUME NEW h \in heap PROVE ToSet(h) \cap ToSet(taken) = {}
    <3>1. ToSet(h) \subseteq Held
      BY DEF Held, InHeap
    <3>2. ToSet(taken) \subseteq Waits
      BY <1>7, <1>6 DEF Waits, Collected
    <3>3. \A u \in Held : u \notin Waits
      BY <1>1 DEF PendingKept
    <3> QED
      BY <3>1, <3>2, <3>3
  <2> QED
    BY <1>1, <1>6, <2>1 DEF ApartHeap
<1>13. StageTypes'
  BY <1>1, <1>3 DEF StageTypes
<1>14. BatchTypes'
  <2>1. batch' \in [keys : 0..BatchSize, items : Seq(Update)]
    BY <1>3, <1>5
  <2>2. unfinished \in Nat /\ unfinished >= Len(queue') + Len(taken)
    BY <1>1, <1>3 DEF BatchTypes
  <2> QED
    BY <1>6, <2>1, <2>2 DEF BatchTypes
<1>15. HistoryTypes' /\ TaskTypes'
  BY <1>1 DEF HistoryTypes, TaskTypes
<1>16. StopPhases'
  BY <1>1, <1>4 DEF StopPhases, StopDrains
<1> QED
  BY <1>9, <1>11, <1>12, <1>13, <1>14, <1>15, <1>16 DEF UpdIndInv, UpdTypes, Sound, Apart

\* _collect_queue_batch()
LEMMA CollectKeeps ==
    ASSUME UpdIndInv, NEW waits, Collect(waits), worker \in {"idle", "collecting"},
           waits => worker = "collecting" \/ stopper = "no"
    PROVE  UpdIndInv'
<1> DEFINE room == BatchSize - Len(batch.items)
           n == IF room < Len(queue) THEN room ELSE Len(queue)
           taken == batch.items \o SubSeq(queue, 1, n)
<1>1. /\ UpdTypes /\ StageTypes /\ BatchTypes /\ StopPhases /\ ApartQueues
  BY DEF UpdIndInv, UpdTypes, Sound, Apart, StopPhases
<1>2. /\ queue # <<>> /\ queue' = SubSeq(queue, n + 1, Len(queue))
      /\ UNCHANGED <<data, content, unfinished, slow, called, arrived, db, failures, written,
                     again, killed, heap, retrying, idle, outbox, sender, tries, stopper, woken>>
      /\ IF Len(taken) < BatchSize /\ waits
         THEN /\ worker' = "collecting"
              /\ batch' = [keys |-> Len(taken), items |-> taken]
              /\ UNCHANGED <<pending, dropped>>
         ELSE Finalize(taken)
  BY DEF Collect, callVars, retryVars, sendVars, stopVars
<1>3. PICK r : r = room
  OBVIOUS
<1>4. PICK m : m = n
  OBVIOUS
<1>5. PICK t : t = taken
  OBVIOUS
<1>6. /\ r = BatchSize - Len(batch.items) /\ m = (IF r < Len(queue) THEN r ELSE Len(queue))
      /\ t = batch.items \o SubSeq(queue, 1, m)
      /\ queue' = SubSeq(queue, m + 1, Len(queue))
  BY <1>2, <1>3, <1>4, <1>5
<1>7. /\ Takes(t) /\ m \in Nat /\ m <= Len(queue) /\ (m # 0 => queue[1] \in ToSet(t))
      /\ Len(t) = batch.keys + m
  BY <1>1, <1>6, TakenIs
<1>8. CASE Len(t) < BatchSize /\ waits
  <2>1. /\ worker' = "collecting" /\ batch' = [keys |-> Len(t), items |-> t]
        /\ UNCHANGED <<pending, dropped>>
    BY <1>2, <1>5, <1>8
  <2>2. Len(t) # 0
    <3>1. /\ batch.keys = Len(batch.items) /\ batch.keys \in 0..BatchSize
          /\ worker = "idle" => batch.keys = 0
      BY <1>1, BatchIs
    <3>2. worker = "collecting" => batch.keys # 0
      BY <1>1 DEF BatchTypes
    <3>3. Len(queue) \in Nat /\ Len(queue) # 0 /\ BatchSize \in Nat \ {0}
      BY <1>1, <1>2, UpdatesAssumption DEF UpdatesAssumption, StageTypes
    <3>4. worker = "idle" => r = BatchSize
      BY <1>6, <3>1, <3>3
    <3>5. r = BatchSize => m # 0
      BY <1>6, <3>3
    <3> QED
      BY <1>7, <3>1, <3>2, <3>4, <3>5
  <2>3. ~woken /\ stopper \notin {"put", "gather"} /\ STOP \notin ToSet(queue)
    BY <1>1, <1>8 DEF StopPhases, Leaving
  <2> HIDE DEF room, n, taken
  <2> QED
    BY <1>2, <1>7, <2>1, <2>2, <2>3, CollectMoreKeeps
<1>9. CASE ~(Len(t) < BatchSize /\ waits)
  <2>1. Finalize(t)
    BY <1>2, <1>5, <1>9
  <2> HIDE DEF room, n, taken
  <2> QED
    BY <1>2, <1>7, <2>1, FinalizeKeeps
<1> QED
  BY <1>8, <1>9

\* The worker takes, takes more, or waits no longer.
LEMMA TakesKeep ==
    ASSUME UpdIndInv
    PROVE  (Take => UpdIndInv') /\ (TakeMore => UpdIndInv') /\ (FlushTimeout => UpdIndInv')
<1>1. ASSUME Take PROVE UpdIndInv'
  <2>1. worker = "idle" /\ Collect(~Stopping) /\ (~Stopping => stopper = "no")
    BY <1>1 DEF Take, Stopping
  <2> QED
    BY <2>1, CollectKeeps
<1>2. ASSUME TakeMore PROVE UpdIndInv'
  <2>1. worker = "collecting" /\ Collect(TRUE)
    BY <1>2 DEF TakeMore
  <2> QED
    BY <2>1, CollectKeeps
<1>3. ASSUME FlushTimeout PROVE UpdIndInv'
  <2>1. /\ worker = "collecting" /\ Finalize(batch.items)
        /\ UNCHANGED <<queue, data, content, unfinished, slow, called, arrived, db, failures, written,
                       again, killed, heap, retrying, idle, outbox, sender, tries, stopper, woken>>
    BY <1>3 DEF FlushTimeout, callVars, retryVars, sendVars, stopVars
  <2>2. /\ UpdTypes /\ StageTypes /\ ApartQueues
    BY <2>1 DEF UpdIndInv, UpdTypes, Sound, Apart, StopPhases
  <2>3. /\ batch.items \in Seq(Update \cup {STOP}) /\ batch.keys = Len(batch.items)
        /\ batch.keys \in 0..BatchSize
    BY <2>1, <2>2, BatchIs
  <2>4. Takes(batch.items)
    BY <2>1, <2>2, <2>3 DEF Takes, ApartQueues, StageTypes
  <2> QED
    BY <2>1, <2>4, FinalizeKeeps
<1> QED
  BY <1>1, <1>2, <1>3

----------------------------------------------------------------------------
(* A batch is over. *)

\* A batch is over.
LEMMA BatchEnds ==
    ASSUME UpdTypes, StopPhases, NEW at \in {"idle", "none"}, BatchOver(at),
           worker \in {"writing", "handing"},
           UNCHANGED <<pending, data, content, queue, slow, called, stopper>>
    PROVE  /\ StageTypes' /\ BatchTypes' /\ (ApartQueues => ApartQueues')
           /\ worker' = at /\ Waits' = Waits /\ InWork' = {} /\ batch'.items = <<>>
           /\ InWork = ToSet(batch.items) /\ InWork \subseteq Update /\ batch.items \in Seq(Update)
           /\ woken' \in BOOLEAN /\ (woken' => stopper = "join")
           /\ stopper \notin {"sender", "retrier", "stopped"}
<1>1. /\ StageTypes /\ BatchTypes /\ batch.items \in Seq(Update) /\ woken \in BOOLEAN
      /\ worker' = at /\ batch' = NoBatch /\ unfinished' = unfinished - batch.keys
      /\ woken' = (woken \/ (stopper = "join" /\ unfinished = batch.keys))
  BY DEF UpdTypes, BatchTypes, TaskTypes, BatchOver, TaskDone
<1>2. ToSet(<<>>) = {} /\ Once(<<>>) /\ <<>> \in Seq(Update) /\ 0 \in 0..BatchSize
  BY UpdatesAssumption DEF UpdatesAssumption, ToSet, Once
<1>3. batch'.items = <<>> /\ batch'.keys = 0 /\ batch' \in [keys : 0..BatchSize, items : Seq(Update)]
  BY <1>1, <1>2 DEF NoBatch
<1>4. StageTypes'
  BY <1>1 DEF StageTypes
<1>5. BatchTypes'
  <2>1. unfinished' \in Nat /\ unfinished' >= Len(queue)
    <3>1. unfinished \in Nat /\ unfinished >= Len(queue) + batch.keys /\ batch.keys \in Nat
          /\ Len(queue) \in Nat
      BY <1>1 DEF BatchTypes, StageTypes
    <3> QED
      BY <1>1, <3>1
  <2>2. unfinished' >= Len(queue') + batch'.keys
    BY <2>1, <1>3, <1>1 DEF StageTypes
  <2> QED
    BY <1>1, <1>3, <2>1, <2>2 DEF BatchTypes
<1>6. ApartQueues => ApartQueues'
  BY <1>2, <1>3 DEF ApartQueues
<1>7. Waits' = Waits /\ InWork' = {} /\ InWork = ToSet(batch.items)
  BY <1>1, <1>2, <1>3 DEF Waits, Lined, InSlow, Collected, InWork
<1>8. InWork \subseteq Update
  BY <1>1, <1>7 DEF ToSet
<1>9. /\ woken' \in BOOLEAN /\ (woken' => stopper = "join")
      /\ stopper \notin {"sender", "retrier", "stopped"}
  BY <1>1 DEF StopPhases
<1> QED
  BY <1>1, <1>3, <1>4, <1>5, <1>6, <1>7, <1>8, <1>9

\* The stop's phases do not depend on how a batch ends.
LEMMA PhasesStay ==
    ASSUME StopPhases, worker \in {"writing", "handing"},
           worker' \in {"idle", "handing"} \/ (worker' = "none" /\ killed'),
           woken' => stopper = "join", (heap' = heap) \/ (stopper = "no"),
           UNCHANGED <<queue, slow, stopper>>
    PROVE  StopPhases'
<1>1. /\ stopper \notin {"sender", "retrier", "stopped"} /\ worker' # "collecting"
      /\ queue' = queue /\ stopper' = stopper /\ (Putting' <=> Putting)
  BY DEF StopPhases, Putting
<1>2. CASE stopper = "no"
  <2>1. STOP \notin ToSet(queue)
    BY <1>2 DEF StopPhases, Leaving
  <2> QED
    BY <1>1, <1>2, <2>1 DEF StopPhases, StopDrains
<1>3. CASE stopper # "no"
  <2>1. heap' = heap
    BY <1>3
  <2>2. worker' = "none" => killed'
    OBVIOUS
  <2>3. worker # "none"
    OBVIOUS
  <2> QED
    BY <1>1, <2>1, <2>2, <2>3 DEF StopPhases, StopDrains
<1> QED
  BY <1>2, <1>3

\* The batch is handed to the broadcast worker,
LEMMA HandedKeeps ==
    ASSUME UpdIndInv, Hand
    PROVE  UpdIndInv'
<1>1. /\ UpdTypes /\ StageTypes /\ BatchTypes /\ HistoryTypes /\ TaskTypes /\ StopPhases
      /\ worker = "handing" /\ BatchOver("idle") /\ outbox < BroadcastMax /\ outbox' = outbox + 1
      /\ UNCHANGED <<pending, data, content, queue, slow, called, arrived, db, failures, written,
                     again, killed, heap, retrying, idle, sender, tries, stopper, dropped>>
  BY DEF UpdIndInv, UpdTypes, Hand, callVars, retryVars
<1>2. /\ StageTypes' /\ BatchTypes' /\ (ApartQueues => ApartQueues')
      /\ worker' = "idle" /\ Waits' = Waits /\ InWork' = {} /\ batch'.items = <<>>
      /\ woken' \in BOOLEAN /\ (woken' => stopper = "join")
      /\ stopper \notin {"sender", "retrier", "stopped"}
  BY <1>1, BatchEnds
<1>3. ApartQueues /\ ApartHeap /\ Fresh /\ PendingKept /\ OrderKept /\ PlaceKept
  BY <1>2 DEF UpdIndInv, Sound, Apart
<1>4. /\ InHeap' = InHeap /\ Held' \subseteq Held /\ Owed' = Owed
      /\ Accepted' = Accepted /\ Settled' = Settled
      /\ \A r \in Row : Writing(r)' <=> Writing(r)
  BY <1>1, <1>2 DEF InHeap, Held, Owed, Accepted, Settled, Writing
<1>5. Fresh' /\ PendingKept'
  BY <1>1, <1>2, <1>3, <1>4 DEF Fresh, PendingKept
<1>6. OrderKept'
  <2>1. \A r \in Row : Unspoiled(r)' <=> Unspoiled(r)
    BY <1>1, <1>4 DEF Unspoiled
  <2>2. \A r \in Row : ~Writing(r)
    BY <1>1 DEF Writing
  <2> QED
    BY <1>1, <1>3, <1>4, <2>1, <2>2 DEF OrderKept
<1>7. PlaceKept'
  BY <1>1, <1>3, <1>4 DEF PlaceKept, Contents
<1>8. ApartHeap'
  <2>1. ToSet(<<>>) = {}
    BY DEF ToSet
  <2> QED
    BY <1>1, <1>2, <1>3, <2>1 DEF ApartHeap
<1>9. HistoryTypes'
  BY <1>1 DEF HistoryTypes
<1>10. TaskTypes'
  <2>1. outbox' \in 0..BroadcastMax
    BY <1>1, UpdatesAssumption DEF TaskTypes, UpdatesAssumption
  <2> QED
    BY <1>1, <1>2, <2>1 DEF TaskTypes
<1>11. StopPhases'
  <2>1. /\ worker \in {"writing", "handing"} /\ worker' \in {"idle", "handing"}
        /\ heap' = heap /\ UNCHANGED <<queue, slow, stopper>>
    BY <1>1, <1>2
  <2> QED
    BY <1>1, <1>2, <2>1, PhasesStay
<1> QED
  BY <1>2, <1>3, <1>5, <1>6, <1>7, <1>8, <1>9, <1>10, <1>11 DEF UpdIndInv, UpdTypes, Sound, Apart

\* How the worker and its batch are when a batch is written
Over ==
    /\ StageTypes' /\ BatchTypes' /\ (ApartQueues => ApartQueues')
    /\ worker' \in {"idle", "handing"} \/ (worker' = "none" /\ killed')
    /\ Waits' = Waits /\ InWork' \subseteq InWork /\ (worker' = "handing" \/ InWork' = {})
    /\ ToSet(batch'.items) \subseteq ToSet(batch.items)
    /\ woken' \in BOOLEAN /\ (woken' => stopper = "join")

\* it is written,
LEMMA WrittenKeeps ==
    ASSUME UpdIndInv, Write
    PROVE  UpdIndInv'
<1>1. /\ UpdTypes /\ StageTypes /\ BatchTypes /\ HistoryTypes /\ TaskTypes /\ StopPhases
      /\ worker = "writing" /\ db' = Upserted
      /\ written' = written \cup Contents(ToSet(batch.items))
      /\ UNCHANGED <<pending, data, content, queue, slow, called, arrived, failures,
                     again, heap, retrying, idle, stopper, dropped>>
  BY DEF UpdIndInv, UpdTypes, Write, callVars, retryVars
<1>2. InWork = ToSet(batch.items) /\ InWork \subseteq Update
  BY <1>1 DEF InWork, BatchTypes, ToSet
<1>a. Over
  <2>1. ASSUME NEW at \in {"idle", "none"}, BatchOver(at), at = "none" => killed'
        PROVE  Over
    <3>1. ToSet(<<>>) = {}
      BY DEF ToSet
    <3>2. /\ StageTypes' /\ BatchTypes' /\ (ApartQueues => ApartQueues')
          /\ worker' = at /\ Waits' = Waits /\ InWork' = {} /\ batch'.items = <<>>
          /\ woken' \in BOOLEAN /\ (woken' => stopper = "join")
      BY <1>1, <2>1, BatchEnds
    <3> QED
      BY <2>1, <3>1, <3>2 DEF Over
  <2>2. ASSUME worker' = "handing", UNCHANGED <<batch, unfinished, woken>>
        PROVE  Over
    <3>1. StageTypes' /\ BatchTypes' /\ (ApartQueues => ApartQueues')
      BY <1>1, <2>2 DEF StageTypes, BatchTypes, ApartQueues
    <3>2. Waits' = Waits /\ InWork' = InWork
      BY <1>1, <2>2 DEF Waits, Lined, InSlow, Collected, InWork
    <3>3. woken \in BOOLEAN /\ (woken => stopper = "join")
      BY <1>1 DEF TaskTypes, StopPhases
    <3> QED
      BY <2>2, <3>1, <3>2, <3>3 DEF Over
  <2>3. \/ BatchOver("idle") \/ (BatchOver("none") /\ killed')
        \/ worker' = "handing" /\ UNCHANGED <<batch, unfinished, woken>>
    BY DEF Write
  <2> QED
    BY <2>1, <2>2, <2>3
<1>3. /\ StageTypes' /\ BatchTypes' /\ (ApartQueues => ApartQueues')
      /\ worker' \in {"idle", "handing"} \/ (worker' = "none" /\ killed')
      /\ Waits' = Waits /\ InWork' \subseteq InWork /\ (worker' = "handing" \/ InWork' = {})
      /\ ToSet(batch'.items) \subseteq ToSet(batch.items)
      /\ woken' \in BOOLEAN /\ (woken' => stopper = "join")
  BY <1>a DEF Over
<1>4. killed' \in BOOLEAN /\ outbox' \in 0..BroadcastMax /\ tries' = tries /\ sender' \in {sender, "idle"}
  <2>1. killed \in BOOLEAN /\ outbox \in 0..BroadcastMax /\ BroadcastMax \in Nat
    BY <1>1, UpdatesAssumption DEF HistoryTypes, TaskTypes, UpdatesAssumption
  <2>2. killed' \in {killed, TRUE}
    BY DEF Write
  <2>3. (outbox' = outbox /\ sender' = sender) \/ (outbox < BroadcastMax /\ outbox' = outbox + 1 /\ sender' \in {sender, "idle"})
    BY DEF Write, sendVars
  <2>4. tries' = tries
    BY DEF Write, sendVars
  <2>5. outbox' \in 0..BroadcastMax
    BY <2>1, <2>3
  <2> QED
    BY <2>1, <2>2, <2>3, <2>4, <2>5
<1>5. /\ ApartQueues /\ ApartHeap /\ Fresh /\ PendingKept /\ OrderKept /\ PlaceKept
      /\ stopper \notin {"sender", "retrier", "stopped"}
  BY <1>1 DEF UpdIndInv, StopPhases, Sound, Apart
<1>6. InHeap' = InHeap /\ worker' \notin {"writing", "collecting"}
  BY <1>1, <1>3 DEF InHeap
<1>7. Fresh' /\ PendingKept' /\ OrderKept' /\ PlaceKept'
  BY <1>1, <1>2, <1>3, <1>5, <1>6, WriteKeeps
<1>8. ApartHeap'
  BY <1>1, <1>3, <1>5 DEF ApartHeap
<1>9. HistoryTypes'
  <2>1. PendingMap(db')
    BY <1>1, <1>2, UpsertTypes DEF HistoryTypes, StageTypes
  <2>2. written' \subseteq Update
    <3>1. Contents(InWork) \subseteq Update
      BY <1>1, <1>2 DEF Contents, StageTypes, DataMap
    <3> QED
      BY <1>1, <1>2, <3>1 DEF HistoryTypes
  <2> QED
    BY <1>1, <1>4, <2>1, <2>2 DEF HistoryTypes
<1>10. TaskTypes'
  BY <1>1, <1>3, <1>4 DEF TaskTypes
<1>11. StopPhases'
  BY <1>1, <1>3, PhasesStay
<1> QED
  BY <1>3, <1>5, <1>7, <1>8, <1>9, <1>10, <1>11 DEF UpdIndInv, UpdTypes, Sound, Apart

\* or its upsert raises.
LEMMA FailedKeeps ==
    ASSUME UpdIndInv, WriteFails
    PROVE  UpdIndInv'
<1>1. /\ UpdTypes /\ StageTypes /\ BatchTypes /\ HistoryTypes /\ TaskTypes /\ StopPhases
      /\ worker = "writing" /\ db' \in {db, Upserted} /\ BatchOver("idle")
      /\ failures < MaxFailures /\ failures' = failures + 1
      /\ UNCHANGED <<pending, data, content, queue, slow, called, arrived, written,
                     killed, outbox, sender, tries, stopper>>
  BY DEF UpdIndInv, UpdTypes, WriteFails, callVars, sendVars
<1>2. /\ StageTypes' /\ BatchTypes' /\ (ApartQueues => ApartQueues')
      /\ worker' = "idle" /\ Waits' = Waits /\ InWork' = {} /\ batch'.items = <<>>
      /\ InWork = ToSet(batch.items) /\ InWork \subseteq Update /\ batch.items \in Seq(Update)
      /\ woken' \in BOOLEAN /\ (woken' => stopper = "join")
      /\ stopper \notin {"sender", "retrier", "stopped"}
  BY <1>1, BatchEnds
<1>3. /\ ApartQueues /\ ApartHeap /\ Fresh /\ PendingKept /\ OrderKept /\ PlaceKept
  BY <1>2 DEF UpdIndInv, Sound, Apart
<1>4. \/ /\ stopper = "no" /\ heap' = heap \cup {batch.items} /\ idle' = FALSE /\ retrying' = TRUE
         /\ again' = again \cup {RowOf[u] : u \in InWork} /\ dropped' = dropped
      \/ /\ dropped' = dropped \cup Contents(InWork)
         /\ UNCHANGED <<again, heap, retrying, idle>>
  BY <1>2 DEF WriteFails, Stopping, Requeue, retryVars
<1>5. \/ /\ InHeap' = InHeap \cup InWork /\ dropped' = dropped
         /\ again' = again \cup {RowOf[u] : u \in InWork}
      \/ /\ InHeap' = InHeap /\ again' = again
         /\ dropped' = dropped \cup Contents(InWork)
  BY <1>2, <1>4 DEF InHeap
<1>6. Fresh' /\ PendingKept' /\ OrderKept' /\ PlaceKept'
  BY <1>1, <1>2, <1>3, <1>5, FailKeeps
<1>7. ApartHeap'
  <2>1. ToSet(<<>>) = {} /\ Once(batch.items)
    BY <1>3 DEF ToSet, ApartQueues
  <2>2. \A h \in heap' : h \in heap \/ h = batch.items
    BY <1>4
  <2> QED
    BY <1>2, <1>3, <2>1, <2>2 DEF ApartHeap
<1>8. HistoryTypes'
  <2>1. PendingMap(db')
    BY <1>1, <1>2, UpsertTypes DEF HistoryTypes, StageTypes
  <2>2. Contents(InWork) \subseteq Update
    BY <1>1, <1>2 DEF Contents, StageTypes, DataMap
  <2>3. failures' \in 0..MaxFailures
    BY <1>1, UpdatesAssumption DEF HistoryTypes, UpdatesAssumption
  <2>4. {RowOf[u] : u \in InWork} \subseteq Row
    BY <1>2, HasRow
  <2> QED
    BY <1>1, <1>2, <1>4, <2>1, <2>2, <2>3, <2>4 DEF HistoryTypes
<1>9. TaskTypes'
  BY <1>1, <1>2, <1>4 DEF TaskTypes
<1>10. StopPhases'
  BY <1>1, <1>2, <1>4, PhasesStay
<1> QED
  BY <1>2, <1>3, <1>6, <1>7, <1>8, <1>9, <1>10 DEF UpdIndInv, UpdTypes, Sound, Apart

----------------------------------------------------------------------------
(* stop(). *)

\* What the invariant's parts depend on
LEMMA SoundStays ==
    ASSUME Sound, called \subseteq called',
           UNCHANGED <<pending, data, content, queue, slow, arrived, worker, batch, db,
                       written, again, heap, dropped>>
    PROVE  Sound'
<1>1. ApartQueues /\ ApartHeap /\ Fresh /\ PendingKept /\ OrderKept /\ PlaceKept
  BY DEF Sound, Apart
<1>2. /\ Waits' = Waits /\ InWork' = InWork /\ InHeap' = InHeap /\ Owed' = Owed
      /\ \A r \in Row : Writing(r)' <=> Writing(r)
  BY DEF Waits, Lined, InSlow, Collected, InWork, InHeap, Owed, Writing
<1>3. Fresh' /\ PendingKept' /\ OrderKept' /\ PlaceKept'
  BY <1>1, <1>2, MovesKeep
<1>4. ApartQueues' /\ ApartHeap'
  BY <1>1 DEF ApartQueues, ApartHeap
<1> QED
  BY <1>3, <1>4 DEF Sound, Apart

\* stop() goes from one phase to the next,
LEMMA PhaseKeeps ==
    ASSUME UpdIndInv,
           UNCHANGED <<pending, data, content, queue, unfinished, slow, called, arrived, worker, batch,
                       db, failures, written, again, killed, heap, retrying, outbox, tries, dropped>>,
           idle' \in BOOLEAN, sender' \in {"none", sender}, woken' = FALSE,
           stopper # "stopped",
           stopper' \in {"drain", "join", "retry", "put", "sender", "retrier"},
           stopper' = "put" => ~Putting /\ heap = {} /\ worker # "collecting",
           stopper \in Leaving => stopper' \in Leaving,
           stopper' \notin Leaving => (worker # "none" \/ killed),
           stopper' \in {"sender", "retrier"} => worker = "none"
    PROVE  UpdIndInv'
<1>1. /\ UpdTypes /\ StageTypes /\ BatchTypes /\ HistoryTypes /\ TaskTypes /\ StopPhases
  BY DEF UpdIndInv, UpdTypes
<1>2. Sound
  BY DEF UpdIndInv, Leaving
<1>3. Sound'
  BY <1>2, SoundStays
<1>4. StageTypes' /\ BatchTypes' /\ HistoryTypes'
  BY <1>1 DEF StageTypes, BatchTypes, HistoryTypes
<1>5. TaskTypes'
  BY <1>1 DEF TaskTypes
<1>6. StopPhases'
  <2>1. (Putting' <=> Putting) /\ (Emptied' <=> Emptied)
    BY DEF Putting, Emptied
  <2> QED
    BY <1>1, <2>1 DEF StopPhases, StopDrains, Leaving
<1> QED
  BY <1>3, <1>4, <1>5, <1>6 DEF UpdIndInv, UpdTypes

\* and puts STOP, behind all that is queued.
LEMMA StopIsPut ==
    ASSUME UpdIndInv, PutStop, ~Putting, heap = {}, worker # "collecting", woken' = FALSE,
           stopper \in {"drain", "join", "put"},
           UNCHANGED <<pending, data, content, slow, called, arrived, worker, batch, db, failures,
                       written, again, killed, heap, retrying, idle, outbox, sender, tries, dropped>>
    PROVE  UpdIndInv'
<1>1. /\ UpdTypes /\ StageTypes /\ BatchTypes /\ HistoryTypes /\ TaskTypes /\ StopPhases
      /\ Sound /\ ApartQueues /\ ApartHeap /\ Fresh /\ PendingKept /\ OrderKept /\ PlaceKept
  BY DEF UpdIndInv, UpdTypes, Sound, Apart
<1>2. worker # "none" \/ killed
  BY <1>1 DEF StopPhases, Leaving
<1>3. CASE Full(queue)
  <2>1. stopper' = "put" /\ UNCHANGED <<queue, unfinished>>
    BY <1>3 DEF PutStop
  <2>2. idle \in BOOLEAN
    BY <1>1 DEF TaskTypes
  <2>3. stopper \notin Leaving
    BY DEF Leaving
  <2> QED
    BY <1>2, <2>1, <2>2, <2>3, PhaseKeeps
<1>4. CASE ~Full(queue)
  <2>1. /\ stopper' = "gather" /\ queue' = Append(queue, STOP) /\ unfinished' = unfinished + 1
    BY <1>4 DEF PutStop
  <2>2. STOP \notin ToSet(queue)
    BY <1>1 DEF StopPhases, Leaving
  <2>3. /\ queue \in Seq(Update \cup {STOP}) /\ Len(queue) \in Nat /\ Len(queue) < QueueMax
    BY <1>1, <1>4, UpdatesAssumption DEF Full, StageTypes, UpdatesAssumption
  <2>4. /\ queue' \in Seq(Update \cup {STOP}) /\ Len(queue') = Len(queue) + 1
        /\ ToSet(queue') = ToSet(queue) \cup {STOP} /\ queue'[Len(queue')] = STOP /\ Once(queue')
    <3>1. Once(queue)
      BY <1>1 DEF ApartQueues
    <3>2. queue' \in Seq(Update \cup {STOP}) /\ Len(queue') = Len(queue) + 1 /\ queue'[Len(queue) + 1] = STOP
      BY <2>1, <2>3
    <3>3. ToSet(queue') = ToSet(queue) \cup {STOP} /\ Once(queue')
      BY <2>1, <2>2, <2>3, <3>1, OnceAppend
    <3> QED
      BY <3>2, <3>3
  <2>5. \A p \in Putter : slow[p] = <<>>
    BY DEF Putting
  <2>6. STOP \notin ToSet(batch.items) /\ ToSet(<<>>) = {}
    <3>1. batch.items \in Seq(Update)
      BY <1>1 DEF BatchTypes
    <3> QED
      BY <3>1, HasRow DEF ToSet
  <2>7. StageTypes'
    <3>1. Len(queue') <= QueueMax
      BY <2>3, <2>4, UpdatesAssumption DEF UpdatesAssumption
    <3> QED
      BY <1>1, <2>4, <3>1 DEF StageTypes
  <2>8. BatchTypes'
    <3>1. unfinished \in Nat /\ unfinished >= Len(queue) + batch.keys /\ batch.keys \in Nat
      BY <1>1 DEF BatchTypes
    <3>2. unfinished' \in Nat /\ unfinished' >= Len(queue') + batch.keys
      BY <2>1, <2>3, <2>4, <3>1
    <3> QED
      BY <1>1, <3>2 DEF BatchTypes
  <2>9. HistoryTypes' /\ TaskTypes'
    BY <1>1, <2>1 DEF HistoryTypes, TaskTypes
  <2>10. ApartQueues'
    BY <1>1, <2>4, <2>5, <2>6 DEF ApartQueues
  <2>11. ApartHeap'
    BY <1>1 DEF ApartHeap
  <2>12. Fresh' /\ PendingKept' /\ OrderKept' /\ PlaceKept'
    <3>1. Waits' = Waits /\ InWork' = InWork /\ InHeap' = InHeap
      BY <2>2, <2>4 DEF Waits, Lined, InSlow, Collected, InWork, InHeap
    <3>2. Owed' = Owed /\ \A r \in Row : Writing(r)' <=> Writing(r)
      BY <3>1 DEF Owed, Writing
    <3> QED
      BY <1>1, <3>1, <3>2, MovesKeep
  <2>13. StopPhases'
    <3>1. Putting' <=> Putting
      BY DEF Putting
    <3> QED
      BY <1>1, <1>2, <2>1, <2>4, <3>1 DEF StopPhases, StopDrains, Leaving
  <2> QED
    BY <2>7, <2>8, <2>9, <2>10, <2>11, <2>12, <2>13 DEF UpdIndInv, UpdTypes, Sound, Apart
<1> QED
  BY <1>3, <1>4

\* _wait_for_tracked_queue_drain()
LEMMA AfterJoinKeeps ==
    ASSUME UpdIndInv, AfterJoin, worker # "collecting", woken' = FALSE, stopper \in {"drain", "join"},
           UNCHANGED <<pending, data, content, slow, called, arrived, worker, batch, db, failures,
                       written, again, killed, heap, retrying, idle, outbox, sender, tries, dropped>>
    PROVE  UpdIndInv'
<1>1. (worker # "none" \/ killed) /\ idle \in BOOLEAN
  BY DEF UpdIndInv, UpdTypes, TaskTypes, StopPhases, Leaving
<1>2. stopper \notin Leaving
  BY DEF Leaving
<1>3. CASE Putting \/ ~RetryIdle
  <2>1. stopper' \in {"drain", "retry"} /\ UNCHANGED <<queue, unfinished>>
    BY <1>3 DEF AfterJoin
  <2> QED
    BY <1>1, <1>2, <2>1, PhaseKeeps
<1>4. CASE ~Putting /\ RetryIdle
  <2>1. PutStop /\ heap = {}
    BY <1>4 DEF AfterJoin, RetryIdle
  <2> QED
    BY <1>4, <2>1, StopIsPut
<1> QED
  BY <1>3, <1>4

\* The steps of stop() before the last
LEMMA StopsKeep ==
    ASSUME UpdIndInv, BeginStop \/ Drain \/ Joined \/ RetryDrained \/ StopPut \/ Gathered \/ SenderStops
    PROVE  UpdIndInv'
<1>1. /\ UpdTypes /\ StageTypes /\ BatchTypes /\ HistoryTypes /\ TaskTypes /\ StopPhases
      /\ idle \in BOOLEAN /\ woken \in BOOLEAN
  BY DEF UpdIndInv, UpdTypes, TaskTypes
<1>2. CASE BeginStop
  <2>1. /\ stopper = "no" /\ stopper' = (IF worker = "none" THEN "sender" ELSE "drain")
        /\ UNCHANGED <<pending, data, content, queue, unfinished, slow, called, arrived, worker, batch,
                       db, failures, written, again, killed, heap, retrying, outbox, tries, dropped,
                       idle, sender, woken>>
    BY <1>2 DEF BeginStop, Stopping, queueVars, callVars, workVars, retryVars, sendVars
  <2>2. woken' = FALSE /\ stopper \notin Leaving
    BY <1>1, <2>1 DEF StopPhases, Leaving
  <2>3. CASE worker = "none"
    <3>1. stopper' = "sender" /\ stopper' \in Leaving
      BY <2>1, <2>3 DEF Leaving
    <3> QED
      BY <1>1, <2>1, <2>2, <2>3, <3>1, PhaseKeeps
  <2>4. CASE worker # "none"
    <3>1. stopper' = "drain"
      BY <2>1, <2>4
    <3> QED
      BY <1>1, <2>1, <2>2, <2>4, <3>1, PhaseKeeps
  <2> QED
    BY <2>3, <2>4
<1>3. CASE Drain
  <2>1. /\ stopper = "drain" /\ ~Putting
        /\ IF unfinished = 0 THEN AfterJoin
           ELSE stopper' = "join" /\ UNCHANGED <<queue, unfinished>>
        /\ UNCHANGED <<pending, data, content, slow, called, arrived, worker, batch, db, failures,
                       written, again, killed, heap, retrying, idle, outbox, sender, tries, dropped,
                       woken>>
    BY <1>3 DEF Drain, callVars, workVars, retryVars, sendVars
  <2>2. woken' = FALSE /\ stopper \notin Leaving /\ (worker # "none" \/ killed)
    BY <1>1, <2>1 DEF StopPhases, Leaving
  <2>3. CASE unfinished = 0
    <3>1. worker # "collecting"
      <4>1. unfinished >= Len(queue) + batch.keys /\ Len(queue) \in Nat /\ batch.keys \in Nat
        BY <1>1 DEF BatchTypes, StageTypes
      <4>2. batch.keys = 0
        BY <2>3, <4>1
      <4> QED
        BY <1>1, <4>2 DEF BatchTypes
    <3> QED
      BY <2>1, <2>2, <2>3, <3>1, AfterJoinKeeps
  <2>4. CASE unfinished # 0
    <3>1. stopper' = "join" /\ UNCHANGED <<queue, unfinished>>
      BY <2>1, <2>4
    <3> QED
      BY <1>1, <2>1, <2>2, <3>1, PhaseKeeps
  <2> QED
    BY <2>3, <2>4
<1>4. CASE Joined
  <2>1. /\ stopper = "join" /\ woken /\ woken' = FALSE /\ AfterJoin
        /\ UNCHANGED <<pending, data, content, slow, called, arrived, worker, batch, db, failures,
                       written, again, killed, heap, retrying, idle, outbox, sender, tries, dropped>>
    BY <1>4 DEF Joined, callVars, workVars, retryVars, sendVars
  <2>2. worker # "collecting"
    BY <1>1, <2>1 DEF StopPhases
  <2> QED
    BY <2>1, <2>2, AfterJoinKeeps
<1>5. CASE RetryDrained
  <2>1. /\ stopper = "retry" /\ stopper' = "drain" /\ idle' = TRUE
        /\ UNCHANGED <<pending, data, content, queue, unfinished, slow, called, arrived, worker, batch,
                       db, failures, written, again, killed, heap, retrying, outbox, tries, dropped,
                       sender, woken>>
    BY <1>5 DEF RetryDrained, queueVars, callVars, workVars, sendVars
  <2>2. woken' = FALSE /\ stopper \notin Leaving /\ (worker # "none" \/ killed)
    BY <1>1, <2>1 DEF StopPhases, Leaving
  <2> QED
    BY <2>1, <2>2, PhaseKeeps
<1>6. CASE StopPut
  <2>1. /\ stopper = "put" /\ PutStop
        /\ UNCHANGED <<pending, data, content, slow, called, arrived, worker, batch, db, failures,
                       written, again, killed, heap, retrying, idle, outbox, sender, tries, dropped,
                       woken>>
    BY <1>6 DEF StopPut, callVars, workVars, retryVars, sendVars
  <2>2. woken' = FALSE /\ ~Putting /\ heap = {} /\ worker # "collecting"
    BY <1>1, <2>1 DEF StopPhases
  <2> QED
    BY <2>1, <2>2, StopIsPut
<1>7. CASE Gathered
  <2>1. /\ stopper = "gather" /\ worker = "none" /\ stopper' = "sender"
        /\ UNCHANGED <<pending, data, content, queue, unfinished, slow, called, arrived, worker, batch,
                       db, failures, written, again, killed, heap, retrying, outbox, tries, dropped,
                       idle, sender, woken>>
    BY <1>7 DEF Gathered, queueVars, callVars, workVars, retryVars, sendVars
  <2>2. woken' = FALSE /\ stopper' \in Leaving
    BY <1>1, <2>1 DEF StopPhases, Leaving
  <2> QED
    BY <1>1, <2>1, <2>2, PhaseKeeps
<1>8. CASE SenderStops
  <2>1. /\ stopper = "sender" /\ sender' = "none" /\ stopper' = "retrier"
        /\ UNCHANGED <<pending, data, content, queue, unfinished, slow, called, arrived, worker, batch,
                       db, failures, written, again, killed, heap, retrying, outbox, tries, dropped,
                       idle, woken>>
    BY <1>8 DEF SenderStops, queueVars, callVars, workVars, retryVars
  <2>2. woken' = FALSE /\ stopper' \in Leaving /\ worker = "none"
    BY <1>1, <2>1 DEF StopPhases, Leaving
  <2> QED
    BY <1>1, <2>1, <2>2, PhaseKeeps
<1> QED
  BY <1>2, <1>3, <1>4, <1>5, <1>6, <1>7, <1>8

\* STOP is taken last.
LEMMA TakeStopKeeps ==
    ASSUME UpdIndInv, TakeStop
    PROVE  UpdIndInv'
<1>1. /\ UpdTypes /\ StageTypes /\ BatchTypes /\ HistoryTypes /\ TaskTypes /\ StopPhases
      /\ worker = "idle" /\ queue # <<>> /\ Head(queue) = STOP
      /\ queue' = Tail(queue) /\ worker' = "none" /\ unfinished' = unfinished - 1
      /\ woken' = (woken \/ (stopper = "join" /\ unfinished = 1))
      /\ UNCHANGED <<pending, data, content, slow, stopper, called, arrived, batch, db, failures,
                     written, again, killed, heap, retrying, idle, outbox, sender, tries, dropped>>
  BY DEF UpdIndInv, UpdTypes, TakeStop, TaskDone, callVars, retryVars, sendVars
<1>2. queue \in Seq(Update \cup {STOP}) /\ Len(queue) \in Nat /\ Len(queue) # 0
  BY <1>1 DEF StageTypes
<1>3. STOP \in ToSet(queue)
  <2>1. 1 \in DOMAIN queue /\ queue[1] = STOP
    BY <1>1, <1>2
  <2> QED
    BY <2>1 DEF ToSet
<1>4. /\ queue[Len(queue)] = STOP /\ ~Putting /\ heap = {} /\ stopper = "gather"
  BY <1>1, <1>3 DEF StopPhases, Leaving
<1>5. Sound /\ ApartQueues /\ ApartHeap /\ Fresh /\ PendingKept /\ OrderKept /\ PlaceKept
  BY <1>4 DEF UpdIndInv, Sound, Apart
<1>6. Len(queue) = 1
  <2>1. 1 \in DOMAIN queue /\ Len(queue) \in DOMAIN queue /\ queue[1] = STOP
    BY <1>1, <1>2
  <2> QED
    BY <1>4, <1>5, <2>1 DEF ApartQueues, Once
<1>7. queue' = <<>> /\ queue' \in Seq(Update \cup {STOP}) /\ Len(queue') = 0
  BY <1>1, <1>2, <1>6
<1>8. ToSet(<<>>) = {} /\ Once(<<>>)
  BY DEF ToSet, Once
<1>9. ToSet(queue) = {STOP}
  BY <1>2, <1>4, <1>6 DEF ToSet
<1>10. StageTypes'
  <2>1. Len(queue') <= QueueMax
    BY <1>7, UpdatesAssumption DEF UpdatesAssumption
  <2> QED
    BY <1>1, <1>7, <2>1 DEF StageTypes
<1>11. BatchTypes'
  <2>1. unfinished \in Nat /\ unfinished >= Len(queue) + batch.keys /\ batch.keys \in Nat
    BY <1>1 DEF BatchTypes
  <2>2. unfinished' \in Nat /\ unfinished' >= Len(queue') + batch.keys
    <3>1. unfinished >= 1 + batch.keys
      BY <1>6, <2>1
    <3>2. unfinished' = unfinished - 1 /\ Len(queue') = 0 /\ unfinished \in Nat /\ batch.keys \in Nat
      BY <1>1, <1>7, <2>1
    <3> QED
      BY ONLY <3>1, <3>2
  <2> QED
    BY <1>1, <2>2 DEF BatchTypes
<1>12. woken' = FALSE
  BY <1>1, <1>4 DEF StopPhases, TaskTypes
<1>13. HistoryTypes' /\ TaskTypes'
  BY <1>1, <1>12 DEF HistoryTypes, TaskTypes
<1>14. ApartQueues' /\ ApartHeap'
  BY <1>1, <1>5, <1>7, <1>8 DEF ApartQueues, ApartHeap
<1>15. Fresh' /\ PendingKept' /\ OrderKept' /\ PlaceKept'
  <2>1. Waits' = Waits /\ InWork' = InWork /\ InHeap' = InHeap
    BY <1>1, <1>7, <1>8, <1>9 DEF Waits, Lined, InSlow, Collected, InWork, InHeap
  <2>2. Owed' = Owed /\ \A r \in Row : Writing(r)' <=> Writing(r)
    BY <1>1, <2>1 DEF Owed, Writing
  <2> QED
    BY <1>1, <1>5, <2>1, <2>2, MovesKeep
<1>16. StopPhases'
  <2>1. Emptied' /\ stopper' \in Leaving /\ STOP \notin ToSet(queue') /\ ~Putting'
    BY <1>1, <1>4, <1>7, <1>8 DEF Emptied, Putting, Leaving
  <2> QED
    BY <1>1, <1>4, <1>12, <2>1 DEF StopPhases, StopDrains
<1> QED
  BY <1>10, <1>11, <1>13, <1>14, <1>15, <1>16 DEF UpdIndInv, UpdTypes, Sound, Apart

\* The end of stop()
LEMMA StopEndsKeeps ==
    ASSUME UpdIndInv, StopEnds
    PROVE  UpdIndInv'
<1>1. /\ UpdTypes /\ StageTypes /\ BatchTypes /\ HistoryTypes /\ TaskTypes /\ StopPhases
      /\ stopper = "retrier" /\ stopper' = "stopped"
      /\ heap' = {} /\ retrying' = FALSE /\ idle' = TRUE
      /\ pending' = [r \in Row |-> None]
      /\ slow' = [slow EXCEPT ![Retrier] = <<>>]
      /\ UNCHANGED <<data, content, queue, unfinished, called, arrived, worker, batch, db, failures,
                     written, again, killed, outbox, sender, tries, woken, dropped>>
  BY DEF UpdIndInv, UpdTypes, StopEnds, callVars, workVars, sendVars
<1>2. Sound /\ PlaceKept /\ worker = "none"
  BY <1>1 DEF UpdIndInv, Sound, StopPhases
<1>3. slow' \in [Putter -> Seq(Update)] /\ \A p \in Putter : slow'[p] \in {slow[p], <<>>}
  <2>1. slow \in [Putter -> Seq(Update)] /\ <<>> \in Seq(Update)
    BY <1>1 DEF StageTypes
  <2>2. slow' \in [Putter -> Seq(Update)]
    BY <1>1, <2>1
  <2>3. ASSUME NEW p \in Putter PROVE slow'[p] \in {slow[p], <<>>}
    BY <1>1, <2>1
  <2> QED
    BY <2>2, <2>3
<1>4. StageTypes'
  <2>1. PendingMap(pending')
    BY <1>1 DEF PendingMap
  <2>2. \A c \in Call \ called' : slow'[c] = <<>>
    BY <1>1, <1>3 DEF StageTypes, Putter
  <2> QED
    BY <1>1, <1>3, <2>1, <2>2 DEF StageTypes
<1>5. BatchTypes' /\ HistoryTypes' /\ TaskTypes'
  BY <1>1 DEF BatchTypes, HistoryTypes, TaskTypes
<1>6. ~Putting => ~Putting'
  BY <1>3 DEF Putting
<1>7. ASSUME ~killed PROVE Emptied' /\ Accepted \subseteq Settled
  <2>1. Emptied
    BY <1>1, <1>2, <1>7 DEF StopPhases
  <2>2. Owed = {}
    <3>1. ToSet(<<>>) = {}
      BY DEF ToSet
    <3>2. batch.items = <<>>
      BY <1>1, <1>2 DEF BatchTypes, NoBatch
    <3>3. InSlow = {} /\ InHeap = {} /\ Lined = {}
      BY <2>1, <3>1 DEF Emptied, Putting, InSlow, InHeap, Lined
    <3> QED
      BY <3>1, <3>2, <3>3 DEF Owed, Waits, Collected, InWork
  <2>3. Accepted \subseteq Settled
    BY <1>2, <2>2 DEF PlaceKept, Contents
  <2>4. Emptied'
    BY <1>1, <1>6, <2>1 DEF Emptied
  <2> QED
    BY <2>3, <2>4
<1>8. StopPhases'
  <2>1. StopDrains'
    BY <1>1, <1>7 DEF StopDrains, Accepted, Settled
  <2>2. STOP \in ToSet(queue') => queue'[Len(queue')] = STOP /\ ~Putting' /\ heap' = {}
    BY <1>1, <1>6 DEF StopPhases
  <2> QED
    BY <1>1, <1>2, <1>7, <2>1, <2>2 DEF StopPhases, Leaving
<1> QED
  BY <1>1, <1>4, <1>5, <1>8 DEF UpdIndInv, UpdTypes

\* A call that is refused, and the broadcast worker
LEMMA OthersKeep ==
    ASSUME UpdIndInv
    PROVE  /\ \A c \in Call : Refuse(c) => UpdIndInv'
           /\ SenderTakes \/ Sent \/ SendFails \/ SendAgain \/ UNCHANGED vars => UpdIndInv'
<1>1. /\ UpdTypes /\ StageTypes /\ BatchTypes /\ HistoryTypes /\ TaskTypes /\ StopPhases
  BY DEF UpdIndInv, UpdTypes
<1>2. ASSUME called \subseteq called', called' \subseteq Call, TaskTypes',
             UNCHANGED <<pending, data, content, queue, unfinished, slow, arrived, worker, batch, db,
                         failures, written, again, killed, heap, retrying, stopper, woken, dropped>>
      PROVE  UpdIndInv'
  <2>1. StageTypes' /\ BatchTypes' /\ HistoryTypes'
    BY <1>1, <1>2 DEF StageTypes, BatchTypes, HistoryTypes
  <2>2. stopper' # "stopped" => Sound'
    BY <1>2, SoundStays DEF UpdIndInv
  <2>3. StopPhases'
    <3>1. (Putting' <=> Putting) /\ (Emptied' <=> Emptied) /\ (StopDrains' <=> StopDrains)
      BY <1>2 DEF Putting, Emptied, StopDrains, Accepted, Settled
    <3> QED
      BY <1>1, <1>2, <3>1 DEF StopPhases
  <2> QED
    BY <1>2, <2>1, <2>2, <2>3 DEF UpdIndInv, UpdTypes
<1>3. ASSUME NEW c \in Call, Refuse(c) PROVE UpdIndInv'
  <2>1. /\ called' = called \cup {c}
        /\ UNCHANGED <<pending, data, content, queue, unfinished, slow, arrived, worker, batch, db,
                       failures, written, again, killed, heap, retrying, idle, outbox, sender, tries,
                       stopper, woken, dropped>>
    BY <1>3 DEF Refuse, queueVars, workVars, retryVars, sendVars, stopVars
  <2>2. TaskTypes' /\ called' \subseteq Call
    BY <1>1, <2>1 DEF TaskTypes, StageTypes
  <2> QED
    BY <1>2, <2>1, <2>2
<1>4. ASSUME SenderTakes \/ Sent \/ SendFails \/ SendAgain \/ UNCHANGED vars PROVE UpdIndInv'
  <2>1. /\ UNCHANGED <<pending, data, content, queue, unfinished, slow, called, arrived, worker, batch,
                       db, failures, written, again, killed, heap, retrying, idle, stopper, woken,
                       dropped>>
    BY <1>4 DEF SenderTakes, Sent, SendFails, SendAgain, vars, queueVars, callVars, workVars,
                retryVars, sendVars, stopVars
  <2>2. MaxAttempts \in Nat \ {0} /\ BroadcastMax \in Nat
    BY UpdatesAssumption DEF UpdatesAssumption
  <2>3. TaskTypes'
    <3>1. outbox \in 0..BroadcastMax /\ tries \in 0..MaxAttempts
          /\ sender \in {"none", "idle", "sending", "pausing"}
          /\ (sender = "pausing" => tries < MaxAttempts)
      BY <1>1 DEF TaskTypes
    <3>2. /\ outbox' \in 0..BroadcastMax /\ tries' \in 0..MaxAttempts
          /\ sender' \in {"none", "idle", "sending", "pausing"}
          /\ (sender' = "pausing" => tries' < MaxAttempts)
      <4>1. CASE SenderTakes
        BY <2>2, <3>1, <4>1 DEF SenderTakes
      <4>2. CASE Sent
        BY <2>2, <3>1, <4>2 DEF Sent
      <4>3. CASE SendFails
        BY <2>2, <3>1, <4>3 DEF SendFails
      <4>4. CASE SendAgain
        BY <2>2, <3>1, <4>4 DEF SendAgain
      <4>5. CASE UNCHANGED vars
        BY <3>1, <4>5 DEF vars, sendVars
      <4> QED
        BY <1>4, <4>1, <4>2, <4>3, <4>4, <4>5
    <3> QED
      BY <1>1, <2>1, <3>2 DEF TaskTypes
  <2>4. called' \subseteq Call
    BY <1>1, <2>1 DEF StageTypes
  <2> QED
    BY <1>2, <2>1, <2>3, <2>4
<1> QED
  BY <1>3, <1>4

----------------------------------------------------------------------------
(* The update queue keeps what it accepts, in order. *)

\* The queue starts sound,
LEMMA UpdStart == Init => UpdIndInv
<1> SUFFICES ASSUME Init PROVE UpdIndInv
  OBVIOUS
<1>1. /\ pending = [r \in Row |-> None]
      /\ data = [u \in Update |-> u] /\ content = [u \in Update |-> {u}]
      /\ queue = <<>> /\ unfinished = 0
      /\ called = {} /\ slow = [p \in Putter |-> <<>>]
      /\ worker = "none" /\ batch = NoBatch
      /\ heap = {} /\ retrying = FALSE /\ idle = TRUE
      /\ outbox = 0 /\ sender = "none" /\ tries = 0
      /\ stopper = "no" /\ woken = FALSE
      /\ db = [r \in Row |-> None] /\ failures = 0
      /\ arrived = <<>> /\ written = {} /\ dropped = {} /\ again = {}
      /\ killed = FALSE
  BY DEF Init
<1>2. /\ batch.items = <<>> /\ batch.keys = 0 /\ batch \in [keys : 0..BatchSize, items : Seq(Update)]
  BY <1>1, UpdatesAssumption DEF NoBatch, UpdatesAssumption
<1>3. ToSet(<<>>) = {} /\ Once(<<>>) /\ Len(<<>>) = 0
  BY DEF ToSet, Once
<1>4. \A p \in Putter : slow[p] = <<>>
  BY <1>1
<1>5. /\ Lined = {} /\ InSlow = {} /\ InHeap = {} /\ Collected = {} /\ InWork = {}
      /\ Waits = {} /\ Held = {} /\ Accepted = {} /\ ~Putting
  <2>1. Lined = {} /\ InHeap = {} /\ Collected = {} /\ InWork = {} /\ Accepted = {}
    BY <1>1, <1>2, <1>3 DEF Lined, InHeap, Collected, InWork, Accepted
  <2>2. InSlow = {} /\ ~Putting
    BY <1>3, <1>4 DEF InSlow, Putting
  <2> QED
    BY <2>1, <2>2 DEF Waits, Held
<1>6. StageTypes
  <2>1. PendingMap(pending) /\ DataMap(data, content)
    BY <1>1, HasRow DEF PendingMap, DataMap
  <2>2. slow \in [Putter -> Seq(Update)]
    BY <1>1
  <2>3. queue \in Seq(Update \cup {STOP}) /\ Len(queue) <= QueueMax
    BY <1>1, <1>3, UpdatesAssumption DEF UpdatesAssumption
  <2> QED
    BY <1>1, <1>4, <2>1, <2>2, <2>3 DEF StageTypes, Putter
<1>7. BatchTypes
  <2>1. unfinished >= Len(queue) + batch.keys
    BY <1>1, <1>2, <1>3
  <2> QED
    BY <1>1, <1>2, <2>1 DEF BatchTypes
<1>8. HistoryTypes
  <2>1. PendingMap(db)
    BY <1>1 DEF PendingMap
  <2>2. arrived \in Seq(Update)
    BY <1>1
  <2>3. failures \in 0..MaxFailures
    BY <1>1, UpdatesAssumption DEF UpdatesAssumption
  <2> QED
    BY <1>1, <2>1, <2>2, <2>3 DEF HistoryTypes
<1>9. TaskTypes
  <2>1. 0 \in 0..BroadcastMax /\ 0 \in 0..MaxAttempts
    BY UpdatesAssumption DEF UpdatesAssumption
  <2> QED
    BY <1>1, <2>1 DEF TaskTypes
<1>10. ApartQueues /\ ApartHeap
  BY <1>1, <1>2, <1>3, <1>4 DEF ApartQueues, ApartHeap
<1>11. Fresh /\ PendingKept /\ PlaceKept
  BY <1>1, <1>5 DEF Fresh, PendingKept, PlaceKept
<1>12. OrderKept
  BY <1>5 DEF OrderKept, Unspoiled
<1>13. StopPhases
  BY <1>1, <1>3, <1>5 DEF StopPhases, Emptied, StopDrains
<1> QED
  BY <1>6, <1>7, <1>8, <1>9, <1>10, <1>11, <1>12, <1>13 DEF UpdIndInv, UpdTypes, Sound, Apart

\* and every step keeps it so.
LEMMA UpdStep == UpdIndInv /\ [Next]_vars => UpdIndInv'
<1> SUFFICES ASSUME UpdIndInv, [Next]_vars PROVE UpdIndInv'
  OBVIOUS
<1>1. ASSUME NEW c \in Call, Add(c) \/ Refuse(c) \/ Put(c) \/ Cancel(c) PROVE UpdIndInv'
  BY <1>1, AddKeeps, OthersKeep, PutsKeep, CancelledKeeps
<1>2. CASE Take \/ TakeMore \/ FlushTimeout
  BY <1>2, TakesKeep
<1>3. CASE TakeStop \/ Write \/ Hand \/ WriteFails
  BY <1>3, TakeStopKeeps, WrittenKeeps, HandedKeeps, FailedKeeps
<1>4. CASE RetryStages \/ RetryPuts
  BY <1>4, RetryStagesKeeps, PutsKeep
<1>5. CASE SenderTakes \/ Sent \/ SendFails \/ SendAgain \/ UNCHANGED vars
  BY <1>5, OthersKeep
<1>6. CASE BeginStop \/ Drain \/ Joined \/ RetryDrained \/ StopPut \/ Gathered \/ SenderStops
  BY <1>6, StopsKeep
<1>7. CASE StopEnds
  BY <1>7, StopEndsKeeps
<1> QED
  BY <1>1, <1>2, <1>3, <1>4, <1>5, <1>6, <1>7 DEF Next, Work, Retry, Send, Stop

\* What the invariant says of the rows
LEMMA RowsAreNewest ==
    ASSUME UpdIndInv
    PROVE  SettledIsNewest
<1> SUFFICES ASSUME NEW r \in Row \ again, NEW of, of = {u \in Accepted : RowOf[u] = r},
                    of # {}, of \cap dropped = {}, \A u \in Places : RowOf[u] # r,
                    stopper # "stopped"
             PROVE  \E n \in DOMAIN arrived :
                        /\ arrived[n] \in of /\ db[r] = arrived[n]
                        /\ \A m \in n + 1..Len(arrived) : arrived[m] \notin of
  BY DEF SettledIsNewest
<1>1. StageTypes /\ HistoryTypes /\ Fresh /\ PendingKept /\ OrderKept
  BY DEF UpdIndInv, UpdTypes, Sound
<1>2. Unspoiled(r)
  BY DEF Unspoiled
<1>3. Waits \cup InWork \subseteq Places
  <2>1. Lined \cup InSlow \cup ToSet(batch.items) \subseteq Places
    BY DEF Lined, InSlow, Places
  <2> QED
    BY <2>1 DEF Waits, Collected, InWork
<1>4. pending[r] = None
  <2>1. ASSUME pending[r] # None PROVE FALSE
    <3>1. pending[r] \in Waits
      BY <1>1, <2>1 DEF PendingKept
    <3>2. RowOf[pending[r]] = r
      BY <1>1, <2>1 DEF StageTypes, PendingMap
    <3> QED
      BY <1>3, <3>1, <3>2
  <2> QED
    BY <2>1
<1>5. ~Writing(r)
  BY <1>3 DEF Writing
<1>6. db[r] # None /\ Newest(arrived, db[r])
  BY <1>1, <1>2, <1>4, <1>5 DEF OrderKept
<1>7. PICK n \in DOMAIN arrived :
          arrived[n] = db[r] /\ \A m \in n + 1..Len(arrived) : RowOf[arrived[m]] # RowOf[db[r]]
  BY <1>6 DEF Newest
<1>8. RowOf[db[r]] = r
  BY <1>1, <1>6 DEF HistoryTypes, PendingMap
<1>9. arrived[n] \in of
  BY <1>7, <1>8 DEF Accepted, ToSet
<1> QED
  BY <1>7, <1>8, <1>9

\* It says what the runs check.
LEMMA UpdImplies == UpdIndInv => UpdatesInv /\ StopDrains
<1> SUFFICES ASSUME UpdIndInv PROVE UpdatesInv /\ StopDrains
  OBVIOUS
<1>1. /\ StageTypes /\ BatchTypes /\ HistoryTypes /\ TaskTypes /\ StopDrains
  BY DEF UpdIndInv, UpdTypes, StopPhases
<1>2. TypeOK
  <2>1. /\ \A r \in Row : pending[r] # None => pending[r] \in Update /\ RowOf[pending[r]] = r
        /\ \A r \in Row : db[r] # None => db[r] \in Update /\ RowOf[db[r]] = r
    BY <1>1 DEF StageTypes, HistoryTypes, PendingMap
  <2>2. \A u \in Update : data[u] \in content[u] /\ content[u] \subseteq Update
    BY <1>1 DEF StageTypes, DataMap
  <2>3. batch.keys \in 0..BatchSize /\ batch.items \in Seq(Update)
    BY <1>1 DEF BatchTypes
  <2>4. Accepted \cup written \cup dropped \subseteq Update
    BY <1>1, AcceptedAreUpdates DEF HistoryTypes
  <2> QED
    BY <1>1, <2>1, <2>2, <2>3, <2>4 DEF TypeOK, StageTypes, BatchTypes, HistoryTypes, TaskTypes
<1>3. AcceptedHasPlace
  <2> SUFFICES ASSUME stopper # "stopped" PROVE Accepted \subseteq Settled \cup Contents(Places)
    BY DEF AcceptedHasPlace
  <2>1. Lined \cup InSlow \cup InHeap \cup ToSet(batch.items) \subseteq Places
    <3>1. Places = Lined \cup ToSet(batch.items) \cup InSlow \cup InHeap
      BY DEF Places, Lined, InSlow, InHeap
    <3> QED
      BY <3>1
  <2>2. Owed \subseteq Places
    BY <2>1 DEF Owed, Waits, Collected, InWork
  <2> QED
    BY <2>2 DEF UpdIndInv, Sound, PlaceKept, Contents
<1> QED
  BY <1>1, <1>2, <1>3, RowsAreNewest DEF UpdatesInv

\* However calls, retries, cancellations and the drain overlap: every update that
\* was accepted has its place until it is written or given up, and a row whose
\* updates are all settled has the fields of the newest.
THEOREM UpdatesKeepOrder == Spec => []UpdatesInv
<1> QED
  BY UpdStart, UpdStep, UpdImplies, PTL DEF Spec

\* When stop() returns, nothing that was accepted is left, whatever was on its way
\* when it was called, unless the worker had died.
THEOREM StoppedQueueIsEmpty == Spec => []StopDrains
<1> QED
  BY UpdStart, UpdStep, UpdImplies, PTL DEF Spec
=============================================================================
