----------------------------- MODULE SetupProofs -----------------------------
(***************************************************************************)
(* Proofs about DatabaseSetup and DbTransfer: what holds of every number   *)
(* of processes and of rows, of each of the three kinds of lock, and of    *)
(* whatever tables, batches and databases are exported and imported.       *)
(*                                                                         *)
(* For the setup, three invariants, of which the second needs the first:   *)
(*   HoldersKept    who is in a lock's block holds the lock; a lock file   *)
(*                  is not removed, since its owner has it open;           *)
(*   KnowledgeKept  what a process knows of the recorded versions is so;   *)
(*   SweepKept      a sweep has taken old rows only, and all of them up to *)
(*                  the last row of its last batch.                        *)
(***************************************************************************)
EXTENDS DatabaseSetup, DbTransfer, Lemmas

----------------------------------------------------------------------------
(* Sets of natural numbers, and the batches of a sweep. *)

\* The batch of what matches, of which there are at most size after low.
Preceding(T, low, r) == {s \in T : low < s /\ s < r}
FirstOf(T, low, size) ==
    {r \in T : r > low /\ Cardinality(Preceding(T, low, r)) < size}

LEMMA PrecedingIsFinite ==
    ASSUME NEW T \in SUBSET Nat, NEW low \in Nat, NEW r \in Nat
    PROVE  IsFiniteSet(Preceding(T, low, r)) /\ Cardinality(Preceding(T, low, r)) \in Nat
<1> DEFINE P == Preceding(T, low, r)
<1>1. P \in SUBSET Nat /\ \A s \in P : s <= r
  <2>1. P \in SUBSET Nat
    BY DEF Preceding
  <2>2. ASSUME NEW s \in P PROVE s <= r
    <3>1. s \in Nat /\ s < r
      BY <2>1 DEF Preceding
    <3> HIDE DEF P
    <3> QED
      BY <3>1
  <2> QED
    BY <2>1, <2>2
<1> HIDE DEF P
<1>2. IsFiniteSet(P)
  BY <1>1, FS_BoundedSetOfNaturals
<1>3. Cardinality(P) \in Nat
  BY <1>2, FS_CardinalityType
<1> QED
  BY <1>2, <1>3 DEF P

LEMMA PrecedingGrows ==
    ASSUME NEW T \in SUBSET Nat, NEW low \in Nat, NEW r \in T, NEW s \in T, low < r, r <= s
    PROVE  /\ Cardinality(Preceding(T, low, r)) <= Cardinality(Preceding(T, low, s))
           /\ r < s => Cardinality(Preceding(T, low, r)) < Cardinality(Preceding(T, low, s))
<1> DEFINE P == Preceding(T, low, r)
           Q == Preceding(T, low, s)
<1>1. r \in Nat /\ s \in Nat
  OBVIOUS
<1>2. P \in SUBSET Q /\ r \notin P /\ (r < s => r \in Q)
  <2>1. \A t \in T : t < r => t < s
    BY <1>1
  <2>2. ~ (r < r)
    BY <1>1
  <2> QED
    BY <2>1, <2>2 DEF Preceding
<1>3. IsFiniteSet(Q) /\ Cardinality(P) \in Nat /\ Cardinality(Q) \in Nat
  BY <1>1, PrecedingIsFinite
<1> HIDE DEF P, Q
<1>4. Cardinality(P) <= Cardinality(Q) /\ (Cardinality(Q) = Cardinality(P) => Q = P)
  BY <1>2, <1>3, FS_Subset
<1>5. r < s => Cardinality(P) # Cardinality(Q)
  BY <1>2, <1>4
<1>6. Cardinality(P) <= Cardinality(Q) /\ (r < s => Cardinality(P) < Cardinality(Q))
  BY <1>3, <1>4, <1>5
<1> QED
  BY <1>6 DEF P, Q

\* While something matches after low, the batch is not empty.
LEMMA NothingLeft ==
    ASSUME NEW T \in SUBSET Nat, NEW low \in Nat, NEW size \in Nat \ {0},
           FirstOf(T, low, size) = {}
    PROVE  \A r \in T : r <= low
<1> SUFFICES ASSUME NEW r0 \in T, ~ (r0 <= low) PROVE FALSE
  OBVIOUS
<1> DEFINE After == {r \in T : low < r}
<1>1. r0 \in After /\ After \in SUBSET Nat
  <2>1. r0 \in Nat /\ low < r0
    OBVIOUS
  <2> QED
    BY <2>1
<1>2. PICK x \in After : \A y \in After : x <= y
  <2> HIDE DEF After
  <2> QED
    BY <1>1, LeastNumber
<1>3. x \in T /\ x \in Nat /\ low < x
  BY <1>2
<1>4. ASSUME NEW s \in Preceding(T, low, x) PROVE FALSE
  <2>1. s \in T /\ s \in Nat /\ low < s /\ s < x
    BY <1>4 DEF Preceding
  <2>2. s \in After
    BY <2>1
  <2>3. x <= s
    BY <1>2, <2>2
  <2> QED
    BY <1>3, <2>1, <2>3
<1>5. Cardinality(Preceding(T, low, x)) = 0
  <2>1. Preceding(T, low, x) = {}
    BY <1>4
  <2> QED
    BY <2>1, FS_EmptySet
<1>6. x \in FirstOf(T, low, size)
  BY <1>3, <1>5 DEF FirstOf
<1> QED
  BY <1>6

\* The batch has a last element, and takes everything that matches up to it.
LEMMA BatchIsWhole ==
    ASSUME NEW T \in SUBSET Nat, NEW low \in Nat, NEW size \in Nat \ {0},
           FirstOf(T, low, size) # {}
    PROVE  \E x \in FirstOf(T, low, size) :
               /\ \A s \in FirstOf(T, low, size) : s <= x
               /\ \A r \in T : low < r /\ r <= x => r \in FirstOf(T, low, size)
<1> DEFINE B == FirstOf(T, low, size)
           Before(r) == Cardinality(Preceding(T, low, r))
           Free == {n \in Nat : \E r \in B : n = size - Before(r)}
<1>1. \A r \in B : /\ r \in T /\ r \in Nat /\ low < r /\ Before(r) < size
                   /\ Before(r) \in Nat
  <2>1. \A r \in B : r \in T /\ r \in Nat /\ low < r /\ Before(r) < size
    BY DEF FirstOf
  <2> QED
    BY <2>1, PrecedingIsFinite
<1>2. \A r \in T : low < r /\ Before(r) < size => r \in B
  BY DEF FirstOf
<1>3. Free \in SUBSET Nat /\ Free # {}
  <2>1. PICK r \in B : TRUE
    OBVIOUS
  <2> DEFINE u == Before(r)
  <2>2. u \in Nat /\ u < size
    BY <1>1, <2>1
  <2> HIDE DEF u
  <2>3. size - u \in Nat
    BY <2>2
  <2>4. size - u \in Free
    BY <2>1, <2>3 DEF u
  <2> QED
    BY <2>4
<1>4. PICK n \in Free : \A k \in Free : n <= k
  <2> HIDE DEF Free
  <2> QED
    BY <1>3, LeastNumber
<1>5. PICK x \in B : n = size - Before(x)
  BY <1>4
<1>6. ASSUME NEW s \in B PROVE s <= x
  <2> DEFINE u == Before(x)
             w == Before(s)
  <2>1. u \in Nat /\ w \in Nat /\ w < size /\ u < size /\ n = size - u /\ s \in Nat /\ x \in Nat
    BY <1>1, <1>5, <1>6
  <2>2. x < s => u < w
    BY <1>1, <1>5, <1>6, <2>1, PrecedingGrows
  <2>3. size - w \in Free
    <3>1. size - w \in Nat
      <4> HIDE DEF u, w
      <4> QED
        BY <2>1
    <3> QED
      BY <1>6, <3>1
  <2>4. n <= size - w
    BY <1>4, <2>3
  <2> HIDE DEF u, w
  <2> QED
    BY <2>1, <2>2, <2>4
<1>7. ASSUME NEW r \in T, low < r, r <= x PROVE r \in B
  <2> DEFINE u == Before(x)
             w == Before(r)
  <2>1. w <= u
    BY <1>1, <1>5, <1>7, PrecedingGrows
  <2>2. w \in Nat /\ u \in Nat /\ u < size
    BY <1>1, <1>5, PrecedingIsFinite
  <2>3. w < size
    <3> HIDE DEF u, w
    <3> QED
      BY <2>1, <2>2
  <2> QED
    BY <1>2, <1>7, <2>3
<1> HIDE DEF B
<1>8. (\A s \in B : s <= x) /\ (\A r \in T : low < r /\ r <= x => r \in B)
  BY <1>6, <1>7
<1> QED
  BY <1>5, <1>8 DEF B

----------------------------------------------------------------------------
(* The backend's lock. *)

Stages ==
    {"off", "migration", "clearing", "deciding", "comparing", "sweep", "ready", "failed", "dead"}
LockStages ==
    {"out", "trying", "trying again", "writing", "in", "opening", "reading", "dating",
     "unlinking", "closed", "raising"}

LockTypes ==
    /\ stage \in [Process -> Stages] /\ lockAt \in [Process -> LockStages]
    /\ holder \in [Lock -> Process \cup {NoProcess}]
    /\ file \in [Lock -> {NoFile} \cup [by : Process, pid : BOOLEAN]]
    /\ opened \in [Lock -> SUBSET Process]

\* Who is inside holds the lock; a lock file is that of who writes it or is
\* inside, and cannot be removed, because he has it open.
Holds(p) ==
    /\ lockAt[p] # "out" => stage[p] \in Lock
    /\ lockAt[p] = "writing" => kind = "lockfile"
    /\ lockAt[p] = "in" /\ kind # "lockfile" => holder[stage[p]] = p
    /\ lockAt[p] \in {"in", "writing"} /\ kind = "lockfile" =>
           /\ file[stage[p]] # NoFile /\ file[stage[p]].by = p
           /\ p \in opened[stage[p]]
HoldersKept == \A p \in Process : Holds(p)

LEMMA OneIsInside == LockTypes /\ HoldersKept => OneInside
BY DEF LockTypes, HoldersKept, Holds, OneInside

\* What a step of p may do without disturbing the others.
LEMMA OthersHold ==
    ASSUME LockTypes, HoldersKept, NEW p \in Process, kind' = kind,
           NEW where, NEW next,
           lockAt' = [lockAt EXCEPT ![p] = where], stage' = [stage EXCEPT ![p] = next],
           \A l \in Lock : holder[l] \in Process \ {p} => holder'[l] = holder[l],
           \A l \in Lock : opened[l] \ {p} \subseteq opened'[l],
           \A l \in Lock : file[l] # NoFile /\ opened[l] \ {p} # {} =>
               file'[l] # NoFile /\ file'[l].by = file[l].by
    PROVE  \A q \in Process \ {p} : Holds(q)'
<1> SUFFICES ASSUME NEW q \in Process \ {p} PROVE Holds(q)'
  OBVIOUS
<1>1. lockAt'[q] = lockAt[q] /\ stage'[q] = stage[q] /\ Holds(q)
  BY DEF LockTypes, HoldersKept
<1>2. ASSUME lockAt[q] = "in", kind # "lockfile" PROVE holder'[stage[q]] = q
  BY <1>1, <1>2 DEF Holds
<1>3. ASSUME lockAt[q] \in {"in", "writing"}, kind = "lockfile"
      PROVE  /\ file'[stage[q]] # NoFile /\ file'[stage[q]].by = q /\ q \in opened'[stage[q]]
  BY <1>1, <1>3 DEF Holds
<1> QED
  BY <1>1, <1>2, <1>3 DEF Holds

\* A step of p that leaves the locks to whom they belong.
LEMMA LocksAlone ==
    ASSUME LockTypes, HoldersKept, NEW p \in Process, kind' = kind,
           NEW where \in LockStages, NEW next \in Stages,
           lockAt' = [lockAt EXCEPT ![p] = where], stage' = [stage EXCEPT ![p] = next],
           where \notin {"writing", "in"}, where # "out" => next \in Lock,
           UNCHANGED <<holder, file>>,
           opened' \in [Lock -> SUBSET Process],
           \A l \in Lock : opened[l] \ {p} \subseteq opened'[l]
    PROVE  LockTypes' /\ HoldersKept'
<1>1. LockTypes'
  BY DEF LockTypes
<1>2. \A q \in Process \ {p} : Holds(q)'
  BY OthersHold
<1>3. Holds(p)'
  BY DEF Holds, LockTypes
<1> QED
  BY <1>1, <1>2, <1>3 DEF HoldersKept

\* Turned away, a migration tries again and a sweep is over.
LEMMA AwayIs ==
    ASSUME LockTypes, NEW p \in Process, stage[p] \in Lock, TurnedAway(p)
    PROVE  \E where \in {"trying", "out"}, next \in {stage[p], "ready"} :
               /\ lockAt' = [lockAt EXCEPT ![p] = where]
               /\ stage' = [stage EXCEPT ![p] = next]
               /\ where # "out" => next \in Lock
<1>1. stage = [stage EXCEPT ![p] = stage[p]]
  BY DEF LockTypes
<1> QED
  BY <1>1 DEF TurnedAway, Enter, Reach, Lock

LEMMA AwayKeeps ==
    ASSUME LockTypes, HoldersKept, NEW p \in Process, stage[p] \in Lock, TurnedAway(p),
           UNCHANGED <<kind, holder, file>>, opened' \in [Lock -> SUBSET Process],
           \A l \in Lock : opened[l] \ {p} \subseteq opened'[l]
    PROVE  LockTypes' /\ HoldersKept'
<1> PICK where \in {"trying", "out"}, next \in {stage[p], "ready"} :
        /\ lockAt' = [lockAt EXCEPT ![p] = where]
        /\ stage' = [stage EXCEPT ![p] = next]
        /\ where # "out" => next \in Lock
  BY AwayIs
<1>1. where \in LockStages /\ next \in Stages /\ where \notin {"writing", "in"}
  BY DEF LockTypes, LockStages, Stages
<1> QED
  BY <1>1, LocksAlone

LEMMA EnterKeeps ==
    ASSUME LockTypes, HoldersKept, NEW p \in Process, stage[p] \in Lock,
           NEW where \in LockStages \ {"writing", "in"}, Enter(p, where),
           UNCHANGED <<stage, kind, holder, file>>, opened' \in [Lock -> SUBSET Process],
           \A l \in Lock : opened[l] \ {p} \subseteq opened'[l]
    PROVE  LockTypes' /\ HoldersKept'
<1> DEFINE next == stage[p]
<1>1. stage' = [stage EXCEPT ![p] = next] /\ next \in Stages /\ next \in Lock
  BY DEF LockTypes
<1> HIDE DEF next
<1> QED
  BY <1>1, LocksAlone DEF Enter

LEMMA TryKeeps ==
    ASSUME LockTypes, HoldersKept, NEW p \in Process, TryLock(p)
    PROVE  LockTypes' /\ HoldersKept'
<1> DEFINE l == stage[p]
<1>1. l \in Lock /\ kind # "lockfile" /\ UNCHANGED <<kind, file, opened>>
  BY DEF TryLock, At, Unchanged
<1>2. opened' \in [Lock -> SUBSET Process] /\ \A k \in Lock : opened[k] \ {p} \subseteq opened'[k]
  BY <1>1 DEF LockTypes
<1>3. CASE holder[l] = NoProcess
  <2>1. /\ holder' = [holder EXCEPT ![l] = p] /\ lockAt' = [lockAt EXCEPT ![p] = "in"]
        /\ stage' = stage
    BY <1>3 DEF TryLock, Enter
  <2>2. stage' = [stage EXCEPT ![p] = l] /\ l \in Stages
    BY <2>1 DEF LockTypes
  <2>3. LockTypes'
    BY <1>1, <2>1 DEF LockTypes, LockStages
  <2>4. \A k \in Lock : holder[k] \in Process \ {p} => holder'[k] = holder[k]
    BY <1>1, <1>3, <2>1, SetupAssumption DEF LockTypes
  <2>5. \A k \in Lock : file[k] # NoFile /\ opened[k] \ {p} # {} =>
            file'[k] # NoFile /\ file'[k].by = file[k].by
    BY <1>1
  <2>6. \A q \in Process \ {p} : Holds(q)'
    BY <1>1, <1>2, <2>1, <2>2, <2>4, <2>5, OthersHold
  <2>7. Holds(p)'
    BY <1>1, <2>1 DEF Holds, LockTypes
  <2> QED
    BY <2>3, <2>6, <2>7 DEF HoldersKept
<1>4. CASE TurnedAway(p) /\ UNCHANGED holder
  BY <1>1, <1>2, <1>4, AwayKeeps
<1> QED
  BY <1>3, <1>4 DEF TryLock

LEMMA CreateKeeps ==
    ASSUME LockTypes, HoldersKept, NEW p \in Process, CreateLockfile(p)
    PROVE  LockTypes' /\ HoldersKept'
<1> DEFINE l == stage[p]
<1>1. l \in Lock /\ kind = "lockfile" /\ UNCHANGED <<kind, holder>>
  BY DEF CreateLockfile, At, Unchanged
<1>2. CASE file[l] = NoFile
  <2> DEFINE new == [by |-> p, pid |-> FALSE]
  <2>1. /\ file' = [file EXCEPT ![l] = new]
        /\ opened' = [opened EXCEPT ![l] = @ \cup {p}]
        /\ lockAt' = [lockAt EXCEPT ![p] = "writing"] /\ stage' = stage
    BY <1>2 DEF CreateLockfile, Enter
  <2>2. stage' = [stage EXCEPT ![p] = l] /\ l \in Stages
    BY <2>1 DEF LockTypes
  <2>3. new \in [by : Process, pid : BOOLEAN] /\ new.by = p
    OBVIOUS
  <2> HIDE DEF new
  <2>8. new # NoFile
    BY <2>3, SetupAssumption
  <2>4. LockTypes'
    BY <1>1, <2>1, <2>3 DEF LockTypes, LockStages
  <2>5. /\ \A k \in Lock : opened[k] \ {p} \subseteq opened'[k]
        /\ \A k \in Lock : file[k] # NoFile /\ opened[k] \ {p} # {} =>
               file'[k] # NoFile /\ file'[k].by = file[k].by
        /\ \A k \in Lock : holder[k] \in Process \ {p} => holder'[k] = holder[k]
    BY <1>1, <1>2, <2>1 DEF LockTypes
  <2>6. \A q \in Process \ {p} : Holds(q)'
    BY <1>1, <2>1, <2>2, <2>5, OthersHold
  <2>7. Holds(p)'
    BY <1>1, <2>1, <2>3, <2>8 DEF Holds, LockTypes
  <2> QED
    BY <2>4, <2>6, <2>7 DEF HoldersKept
<1>3. CASE file[l] # NoFile
  <2>1. UNCHANGED <<file, opened>>
    BY <1>3 DEF CreateLockfile
  <2>2. opened' \in [Lock -> SUBSET Process]
        /\ \A k \in Lock : opened[k] \ {p} \subseteq opened'[k]
    BY <2>1 DEF LockTypes
  <2>3. CASE Enter(p, "opening") /\ UNCHANGED stage
    BY <1>1, <2>1, <2>2, <2>3, EnterKeeps DEF LockStages
  <2>4. CASE TurnedAway(p)
    BY <1>1, <2>1, <2>2, <2>4, AwayKeeps
  <2> QED
    BY <1>3, <2>3, <2>4 DEF CreateLockfile
<1> QED
  BY <1>2, <1>3

LEMMA WriteKeeps ==
    ASSUME LockTypes, HoldersKept, NEW p \in Process, WritePid(p)
    PROVE  LockTypes' /\ HoldersKept'
<1> DEFINE l == stage[p]
           new == [file[l] EXCEPT !.pid = TRUE]
<1>1. /\ l \in Lock /\ lockAt[p] = "writing" /\ UNCHANGED <<kind, holder, opened, stage>>
      /\ file' = [file EXCEPT ![l] = new]
      /\ lockAt' = [lockAt EXCEPT ![p] = "in"]
  BY DEF WritePid, At, Unchanged, Enter
<1>2. kind = "lockfile" /\ file[l] # NoFile /\ file[l].by = p /\ p \in opened[l]
  BY <1>1 DEF HoldersKept, Holds
<1>3. new \in [by : Process, pid : BOOLEAN] /\ new.by = p /\ new # NoFile
  <2>1. file[l] \in [by : Process, pid : BOOLEAN]
    BY <1>1, <1>2 DEF LockTypes
  <2> QED
    BY <1>2, <2>1, SetupAssumption
<1> HIDE DEF new
<1>4. stage' = [stage EXCEPT ![p] = l] /\ l \in Stages
  BY <1>1 DEF LockTypes
<1>5. LockTypes'
  BY <1>1, <1>3 DEF LockTypes, LockStages
<1>6. /\ \A k \in Lock : opened[k] \ {p} \subseteq opened'[k]
      /\ \A k \in Lock : file[k] # NoFile /\ opened[k] \ {p} # {} =>
             file'[k] # NoFile /\ file'[k].by = file[k].by
      /\ \A k \in Lock : holder[k] \in Process \ {p} => holder'[k] = holder[k]
  BY <1>1, <1>2, <1>3 DEF LockTypes
<1>7. \A q \in Process \ {p} : Holds(q)'
  BY <1>1, <1>4, <1>6, OthersHold
<1>8. Holds(p)'
  BY <1>1, <1>2, <1>3 DEF Holds, LockTypes
<1> QED
  BY <1>5, <1>7, <1>8 DEF HoldersKept

\* A file that nobody else has open may be removed.
LEMMA UnlinkKeeps ==
    ASSUME LockTypes, HoldersKept, NEW p \in Process, NEW l \in Lock, kind' = kind,
           NEW where \in LockStages \ {"writing", "in"}, NEW next \in Stages,
           lockAt' = [lockAt EXCEPT ![p] = where], stage' = [stage EXCEPT ![p] = next],
           where # "out" => next \in Lock, UNCHANGED holder,
           file' = [file EXCEPT ![l] = NoFile], opened[l] \subseteq {p},
           opened' \in [Lock -> SUBSET Process],
           \A k \in Lock : opened[k] \ {p} \subseteq opened'[k]
    PROVE  LockTypes' /\ HoldersKept'
<1>1. LockTypes'
  BY DEF LockTypes
<1>2. \A k \in Lock : file[k] # NoFile /\ opened[k] \ {p} # {} =>
             file'[k] # NoFile /\ file'[k].by = file[k].by
  BY DEF LockTypes
<1>3. \A q \in Process \ {p} : Holds(q)'
  BY <1>2, OthersHold
<1>4. Holds(p)'
  BY DEF Holds, LockTypes
<1> QED
  BY <1>1, <1>3, <1>4 DEF HoldersKept

LEMMA LockStepsKeep ==
    ASSUME LockTypes, HoldersKept, NEW p \in Process, LockStep(p) \/ WritePidFails(p)
    PROVE  LockTypes' /\ HoldersKept'
<1> DEFINE l == stage[p]
<1>1. stage = [stage EXCEPT ![p] = l] /\ l \in Stages
  BY DEF LockTypes
<1>2. CASE WritePidFails(p)
  <2> DEFINE next == IF l = "migration" THEN "failed" ELSE "ready"
             where == "out"
  <2>1. /\ l \in Lock /\ opened' = [opened EXCEPT ![l] = @ \ {p}]
        /\ lockAt' = [lockAt EXCEPT ![p] = where] /\ stage' = [stage EXCEPT ![p] = next]
        /\ UNCHANGED <<holder, kind>>
        /\ next \in Stages /\ where \in LockStages \ {"writing", "in"}
    BY <1>2 DEF WritePidFails, At, Enter, Reach, Unchanged, Stages, LockStages
  <2>2. opened' \in [Lock -> SUBSET Process]
        /\ \A k \in Lock : opened[k] \ {p} \subseteq opened'[k]
    BY <2>1 DEF LockTypes
  <2>3. CASE opened[l] = {p} /\ file' = [file EXCEPT ![l] = NoFile]
    <3> HIDE DEF next
    <3> QED
      BY <2>1, <2>2, <2>3, UnlinkKeeps
  <2>4. CASE file' = file
    <3> HIDE DEF next
    <3> QED
      BY <2>1, <2>2, <2>4, LocksAlone
  <2> QED
    BY <1>2, <2>3, <2>4 DEF WritePidFails
<1>3. CASE OpenLockfile(p) \/ ReadPid(p) \/ DateLockfile(p)
  <2>1. l \in Lock /\ UNCHANGED <<kind, holder, file>>
    BY <1>3 DEF OpenLockfile, ReadPid, DateLockfile, At, Unchanged, backendVars
  <2>2. \/ opened' = opened \/ opened' = [opened EXCEPT ![l] = @ \cup {p}]
        \/ opened' = [opened EXCEPT ![l] = @ \ {p}]
    BY <1>3 DEF OpenLockfile, ReadPid, DateLockfile, backendVars
  <2>3. opened' \in [Lock -> SUBSET Process]
        /\ \A k \in Lock : opened[k] \ {p} \subseteq opened'[k]
    BY <2>1, <2>2 DEF LockTypes
  <2>4. \/ TurnedAway(p)
        \/ \E where \in {"dating", "reading", "unlinking"} : Enter(p, where) /\ UNCHANGED stage
    BY <1>3 DEF OpenLockfile, ReadPid, DateLockfile
  <2> QED
    BY <2>1, <2>3, <2>4, AwayKeeps, EnterKeeps DEF LockStages
<1>4. CASE UnlinkStale(p)
  <2>1. l \in Lock /\ UNCHANGED <<kind, holder, opened>>
    BY <1>4 DEF UnlinkStale, At, Unchanged
  <2>2. opened' \in [Lock -> SUBSET Process]
        /\ \A k \in Lock : opened[k] \ {p} \subseteq opened'[k]
    BY <2>1 DEF LockTypes
  <2>3. CASE TurnedAway(p) /\ UNCHANGED file
    BY <2>1, <2>2, <2>3, AwayKeeps
  <2>4. CASE /\ opened[l] = {} /\ file' = [file EXCEPT ![l] = NoFile]
             /\ Enter(p, "trying again") /\ UNCHANGED stage
    <3> DEFINE where == "trying again"
    <3>1. where \in LockStages \ {"writing", "in"} /\ lockAt' = [lockAt EXCEPT ![p] = where]
          /\ stage' = [stage EXCEPT ![p] = l]
      BY <1>1, <2>4 DEF Enter, LockStages
    <3> HIDE DEF where, l
    <3> QED
      BY <1>1, <2>1, <2>2, <2>4, <3>1, UnlinkKeeps
  <2> QED
    BY <1>4, <2>3, <2>4 DEF UnlinkStale
<1>5. CASE UnlinkOwn(p)
  <2>1. l \in Lock /\ UNCHANGED <<kind, holder, opened>>
    BY <1>5 DEF UnlinkOwn, At, Unchanged
  <2>2. opened' \in [Lock -> SUBSET Process]
        /\ \A k \in Lock : opened[k] \ {p} \subseteq opened'[k]
    BY <2>1 DEF LockTypes
  <2>3. PICK next \in {"ready", "failed", "clearing"} : stage' = [stage EXCEPT ![p] = next]
    BY <1>5 DEF UnlinkOwn, Left, Reach
  <2> DEFINE where == "out"
  <2>4. /\ lockAt' = [lockAt EXCEPT ![p] = where] /\ where \in LockStages \ {"writing", "in"}
        /\ next \in Stages
    BY <1>5 DEF UnlinkOwn, Left, Enter, LockStages, Stages
  <2>5. CASE file' = file
    BY <2>1, <2>2, <2>3, <2>4, <2>5, LocksAlone
  <2>6. CASE opened[l] = {} /\ file' = [file EXCEPT ![l] = NoFile]
    BY <2>1, <2>2, <2>3, <2>4, <2>6, UnlinkKeeps
  <2> QED
    BY <1>5, <2>5, <2>6 DEF UnlinkOwn
<1> QED
  BY <1>2, <1>3, <1>4, <1>5, TryKeeps, CreateKeeps, WriteKeeps DEF LockStep

LEMMA ReleaseKeeps ==
    ASSUME LockTypes, HoldersKept, NEW p \in Process, At(p, "in"), kind' = kind,
           NEW raised \in BOOLEAN, Release(p, raised)
    PROVE  LockTypes' /\ HoldersKept'
<1> DEFINE l == stage[p]
<1>1. stage = [stage EXCEPT ![p] = l] /\ l \in Stages /\ l \in Lock /\ lockAt[p] = "in"
  BY DEF LockTypes, At
<1>2. CASE kind = "lockfile"
  <2>1. /\ opened' = [opened EXCEPT ![l] = @ \ {p}] /\ UNCHANGED <<holder, file, stage>>
        /\ Enter(p, "raising") \/ Enter(p, "closed")
    BY <1>2 DEF Release
  <2>2. opened' \in [Lock -> SUBSET Process]
        /\ \A k \in Lock : opened[k] \ {p} \subseteq opened'[k]
    BY <2>1 DEF LockTypes
  <2> QED
    BY <1>1, <2>1, <2>2, EnterKeeps DEF LockStages
<1>3. CASE kind # "lockfile"
  <2>1. /\ holder' = [holder EXCEPT ![l] = NoProcess] /\ UNCHANGED <<file, opened>>
        /\ lockAt' = [lockAt EXCEPT ![p] = "out"]
        /\ \E next \in {"ready", "failed", "clearing"} : stage' = [stage EXCEPT ![p] = next]
    BY <1>3 DEF Release, Left, Enter, Reach
  <2> PICK next \in {"ready", "failed", "clearing"} : stage' = [stage EXCEPT ![p] = next]
    BY <2>1
  <2>2. LockTypes'
    BY <1>1, <2>1 DEF LockTypes, LockStages, Stages
  <2>3. /\ \A k \in Lock : opened[k] \ {p} \subseteq opened'[k]
        /\ \A k \in Lock : file[k] # NoFile /\ opened[k] \ {p} # {} =>
               file'[k] # NoFile /\ file'[k].by = file[k].by
    BY <2>1 DEF LockTypes
  <2>4. holder[l] = p
    BY <1>1, <1>3 DEF HoldersKept, Holds
  <2>5. \A k \in Lock : holder[k] \in Process \ {p} => holder'[k] = holder[k]
    BY <1>1, <2>1, <2>4 DEF LockTypes
  <2>6. \A q \in Process \ {p} : Holds(q)'
    BY <2>1, <2>3, <2>5, OthersHold
  <2>7. Holds(p)'
    BY <2>1 DEF Holds, LockTypes
  <2> QED
    BY <2>2, <2>6, <2>7 DEF HoldersKept
<1> QED
  BY <1>2, <1>3

LEMMA EndsKeep ==
    ASSUME LockTypes, HoldersKept, NEW p \in Process, Ends(p)
    PROVE  LockTypes' /\ HoldersKept'
<1> DEFINE where == "out"
           next == "dead"
<1>1. /\ holder' = [l \in Lock |-> IF holder[l] = p THEN NoProcess ELSE holder[l]]
      /\ opened' = [l \in Lock |-> opened[l] \ {p}] /\ UNCHANGED <<file, kind>>
      /\ lockAt' = [lockAt EXCEPT ![p] = where] /\ stage' = [stage EXCEPT ![p] = next]
  BY DEF Ends, Unchanged, Enter, Reach
<1>2. LockTypes'
  BY <1>1 DEF LockTypes, LockStages, Stages
<1>3. /\ \A l \in Lock : opened[l] \ {p} \subseteq opened'[l]
      /\ \A l \in Lock : file[l] # NoFile /\ opened[l] \ {p} # {} =>
             file'[l] # NoFile /\ file'[l].by = file[l].by
      /\ \A l \in Lock : holder[l] \in Process \ {p} => holder'[l] = holder[l]
  BY <1>1 DEF LockTypes
<1>4. \A q \in Process \ {p} : Holds(q)'
  BY <1>1, <1>3, OthersHold
<1>5. Holds(p)'
  BY <1>1 DEF Holds, LockTypes
<1> QED
  BY <1>2, <1>4, <1>5 DEF HoldersKept

\* A step that leaves the lock alone, and its stages or goes to another one
\* without it.
LEMMA LockUnchanged ==
    ASSUME LockTypes, HoldersKept,
           UNCHANGED <<kind, stage, lockAt, holder, file, opened>>
    PROVE  LockTypes' /\ HoldersKept'
BY DEF LockTypes, HoldersKept, Holds

LEMMA OutsideKeeps ==
    ASSUME LockTypes, HoldersKept, NEW p \in Process, NEW next \in Stages,
           NEW where \in {"out", "trying"}, where # "out" => next \in Lock,
           lockAt' = [lockAt EXCEPT ![p] = where], stage' = [stage EXCEPT ![p] = next],
           UNCHANGED <<kind, holder, file, opened>>
    PROVE  LockTypes' /\ HoldersKept'
<1>1. opened' \in [Lock -> SUBSET Process]
      /\ \A l \in Lock : opened[l] \ {p} \subseteq opened'[l]
  BY DEF LockTypes
<1> QED
  BY <1>1, LocksAlone DEF LockStages

LEMMA StepsKeepLocks ==
    ASSUME LockTypes, HoldersKept, [SetupNext]_setupVars
    PROVE  LockTypes' /\ HoldersKept'
<1>1. ASSUME NEW p \in Process, LockStep(p) \/ WritePidFails(p)
      PROVE  LockTypes' /\ HoldersKept'
  BY <1>1, LockStepsKeep
<1>2. ASSUME NEW p \in Process,
             Migrated(p) \/ MigrationFails(p) \/ CommitSweep(p) \/ SweepFails(p)
      PROVE  LockTypes' /\ HoldersKept'
  <2>1. /\ At(p, "in") /\ kind' = kind
        /\ \E raised \in BOOLEAN : Release(p, raised)
    BY <1>2 DEF Migrated, MigrationFails, CommitSweep, SweepFails, Migrating, Sweeping,
       UnchangedButSchema, UnchangedButSweep
  <2> QED
    BY <2>1, ReleaseKeeps
<1>3. ASSUME NEW p \in Process, ReadVersions(p) \/ ApplyVersion(p) \/ RecordVersion(p) \/ DeleteRows(p)
      PROVE  LockTypes' /\ HoldersKept'
  BY <1>3, LockUnchanged DEF ReadVersions, ApplyVersion, RecordVersion, DeleteRows,
     backendVars, UnchangedButSchema, UnchangedButSweep
<1>4. ASSUME NEW p \in Process, Begin(p) \/ Clear(p) \/ ReadTime(p) \/ Compare(p)
      PROVE  LockTypes' /\ HoldersKept'
  <2>1. /\ stage[p] \in {"off", "clearing", "deciding", "comparing"}
        /\ UNCHANGED <<kind, holder, file, opened>>
        /\ \/ /\ lockAt' = lockAt
              /\ \E next \in {"deciding", "failed", "ready", "comparing"} :
                     stage' = [stage EXCEPT ![p] = next]
           \/ /\ lockAt' = [lockAt EXCEPT ![p] = "trying"]
              /\ \E next \in Lock : stage' = [stage EXCEPT ![p] = next]
    BY <1>4 DEF Begin, Clear, ReadTime, Compare, Reach, Enter, backendVars, Unchanged, Lock
  <2>2. lockAt[p] = "out" /\ lockAt = [lockAt EXCEPT ![p] = "out"]
    BY <2>1 DEF LockTypes, HoldersKept, Holds, Lock
  <2>3. Lock \subseteq Stages /\ {"deciding", "failed", "ready", "comparing"} \subseteq Stages
    BY DEF Lock, Stages
  <2>4. CASE /\ lockAt' = lockAt
             /\ \E next \in {"deciding", "failed", "ready", "comparing"} :
                    stage' = [stage EXCEPT ![p] = next]
    BY <2>1, <2>2, <2>3, <2>4, OutsideKeeps
  <2>5. CASE /\ lockAt' = [lockAt EXCEPT ![p] = "trying"]
             /\ \E next \in Lock : stage' = [stage EXCEPT ![p] = next]
    BY <2>1, <2>3, <2>5, OutsideKeeps
  <2> QED
    BY <2>1, <2>4, <2>5
<1>5. ASSUME NEW p \in Process, Exit(p) \/ Die(p)
      PROVE  LockTypes' /\ HoldersKept'
  BY <1>5, EndsKeep DEF Exit, Die
<1>6. CASE (\E l \in Lock : Age(l)) \/ TimePasses \/ UNCHANGED setupVars
  BY <1>6, LockUnchanged DEF Age, TimePasses, Unchanged, backendVars, setupVars
<1> QED
  BY <1>1, <1>2, <1>3, <1>4, <1>5, <1>6 DEF SetupNext, SetupStep

\* Where a step of the lock's block leads.
LEMMA LockStepLeads ==
    ASSUME LockTypes, NEW p \in Process, LockStep(p) \/ WritePidFails(p)
    PROVE  /\ stage[p] \in Lock /\ lockAt[p] # "in"
           /\ UNCHANGED <<kind, versions, known, applying, time, removed, lastRow, rows,
                         lastCleanup, clockNow>>
           /\ \E where \in LockStages, next \in Stages :
                  /\ lockAt' = [lockAt EXCEPT ![p] = where]
                  /\ stage' = [stage EXCEPT ![p] = next]
                  /\ stage[p] = "sweep" => next \in {"sweep", "ready"}
                  /\ stage[p] = "migration" /\ lockAt[p] \notin {"closed", "raising"} =>
                         \/ next = "failed"
                         \/ next = "migration" /\ where \notin {"closed", "raising"}
                  /\ stage[p] = "migration" /\ lockAt[p] = "raising" => next = "failed"
                  /\ stage[p] = "migration" /\ lockAt[p] = "closed" =>
                         next \in {"failed", "clearing"}
<1>1. stage[p] \in Lock /\ lockAt[p] # "in"
  BY DEF LockStep, TryLock, CreateLockfile, WritePid, WritePidFails, OpenLockfile, ReadPid,
     DateLockfile, UnlinkStale, UnlinkOwn, At
<1>2. UNCHANGED <<kind, versions, known, applying, time, removed, lastRow, rows,
                  lastCleanup, clockNow>>
  BY DEF LockStep, TryLock, CreateLockfile, WritePid, WritePidFails, OpenLockfile, ReadPid,
     DateLockfile, UnlinkStale, UnlinkOwn, Unchanged, schemaRows, sweepVars
<1> DEFINE Leads(where, next) ==
               /\ lockAt' = [lockAt EXCEPT ![p] = where]
               /\ stage' = [stage EXCEPT ![p] = next]
               /\ stage[p] = "sweep" => next \in {"sweep", "ready"}
               /\ stage[p] = "migration" /\ lockAt[p] \notin {"closed", "raising"} =>
                      \/ next = "failed"
                      \/ next = "migration" /\ where \notin {"closed", "raising"}
               /\ stage[p] = "migration" /\ lockAt[p] = "raising" => next = "failed"
               /\ stage[p] = "migration" /\ lockAt[p] = "closed" =>
                      next \in {"failed", "clearing"}
<1>3. stage = [stage EXCEPT ![p] = stage[p]] /\ stage[p] \in Stages
  BY DEF LockTypes
<1>4. CASE UnlinkOwn(p)
  <2>1. lockAt[p] \in {"closed", "raising"} /\ stage[p] \in Lock
    BY <1>4 DEF UnlinkOwn, At
  <2>2. \E raised \in BOOLEAN : Left(p, raised) /\ (lockAt[p] = "raising" => raised)
    BY <1>4 DEF UnlinkOwn
  <2> PICK raised \in BOOLEAN : Left(p, raised) /\ (lockAt[p] = "raising" => raised)
    BY <2>2
  <2> DEFINE next == IF stage[p] = "sweep" THEN "ready"
                     ELSE IF raised THEN "failed" ELSE "clearing"
  <2>3. Leads("out", next) /\ next \in Stages
    BY <2>1 DEF Left, Enter, Reach, Stages, Lock
  <2> QED
    BY <1>1, <1>2, <2>3 DEF LockStages
<1>5. CASE WritePidFails(p)
  <2> DEFINE next == IF stage[p] = "migration" THEN "failed" ELSE "ready"
  <2>1. lockAt[p] = "writing" /\ Enter(p, "out") /\ Reach(p, next) /\ next \in Stages
    BY <1>5 DEF WritePidFails, At, Stages
  <2>2. Leads("out", next)
    BY <1>1, <2>1 DEF Enter, Reach, Lock
  <2> QED
    BY <1>1, <1>2, <2>1, <2>2 DEF LockStages
<1>6. ASSUME lockAt[p] \notin {"closed", "raising"},
             NEW where \in LockStages \ {"closed", "raising"}, Enter(p, where), UNCHANGED stage
      PROVE  Leads(where, stage[p])
  BY <1>3, <1>6 DEF Enter
<1>7. ASSUME lockAt[p] \notin {"closed", "raising"}, TurnedAway(p)
      PROVE  \E where \in LockStages, next \in Stages : Leads(where, next)
  <2>1. CASE stage[p] = "migration"
    <3>1. Enter(p, "trying") /\ UNCHANGED stage
      BY <1>7, <2>1 DEF TurnedAway
    <3> QED
      BY <1>3, <1>6, <1>7, <3>1 DEF LockStages
  <2>2. CASE stage[p] # "migration"
    <3>1. Leads("out", "ready")
      BY <1>7, <2>2 DEF TurnedAway, Enter, Reach
    <3> QED
      BY <3>1 DEF LockStages, Stages
  <2> QED
    BY <2>1, <2>2
<1>8. CASE TryLock(p) \/ CreateLockfile(p) \/ WritePid(p) \/ OpenLockfile(p)
           \/ ReadPid(p) \/ DateLockfile(p) \/ UnlinkStale(p)
  <2>1. lockAt[p] \notin {"closed", "raising"}
    BY <1>8 DEF TryLock, CreateLockfile, WritePid, OpenLockfile, ReadPid, DateLockfile,
       UnlinkStale, At
  <2>2. \/ TurnedAway(p)
        \/ \E where \in {"in", "writing", "opening", "dating", "reading", "unlinking",
                         "trying again"} : Enter(p, where) /\ UNCHANGED stage
    BY <1>8 DEF TryLock, CreateLockfile, WritePid, OpenLockfile, ReadPid, DateLockfile,
       UnlinkStale
  <2>3. {"in", "writing", "opening", "dating", "reading", "unlinking", "trying again"}
            \subseteq LockStages \ {"closed", "raising"}
    BY DEF LockStages
  <2> HIDE DEF Leads
  <2>4. \E where \in LockStages, next \in Stages : Leads(where, next)
    BY <1>3, <1>6, <1>7, <2>1, <2>2, <2>3
  <2> QED
    BY <1>1, <1>2, <2>4 DEF Leads
<1> QED
  BY <1>4, <1>5, <1>8 DEF LockStep

----------------------------------------------------------------------------
(* The versions. *)

VersionTypes ==
    /\ versions \in 0..Versions
    /\ known \in [Process -> {NotRead} \cup 0..Versions] /\ applying \in [Process -> BOOLEAN]

NotYetInside(p) ==
    \/ stage[p] = "off"
    \/ stage[p] = "migration" /\ lockAt[p] \notin {"in", "closed", "raising"}
HasMigrated(p) ==
    \/ stage[p] = "migration" /\ lockAt[p] = "closed"
    \/ stage[p] \in {"clearing", "deciding", "comparing", "sweep", "ready"}

\* Who has not been inside has read nothing; and who is through with its
\* migration has left all of the versions recorded.
Knows(p) ==
    /\ NotYetInside(p) => known[p] = NotRead /\ ~applying[p]
    /\ Migrating(p) =>
           /\ known[p] # NotRead => known[p] = versions
           /\ applying[p] => known[p] \in 0..Versions - 1
    /\ HasMigrated(p) => versions = Versions
KnowledgeKept == VersionTypes /\ \A p \in Process : Knows(p)

LEMMA KnowledgeGives == KnowledgeKept => VersionsHold
BY DEF KnowledgeKept, Knows, VersionsHold, HasMigrated

\* A step of p that leaves the versions alone: p comes into the lock's block,
\* and through it, only so.
LEMMA KnowledgeStays ==
    ASSUME LockTypes, KnowledgeKept, NEW p \in Process, NEW where, NEW next,
           lockAt' = [lockAt EXCEPT ![p] = where], stage' = [stage EXCEPT ![p] = next],
           UNCHANGED <<versions, known>>,
           applying' = applying \/ applying' = [applying EXCEPT ![p] = FALSE],
           next = "off" => NotYetInside(p),
           next = "migration" /\ where \notin {"closed", "raising"} => NotYetInside(p),
           (next = "migration" /\ where = "closed")
               \/ next \in {"clearing", "deciding", "comparing", "sweep", "ready"}
               => versions = Versions
    PROVE  KnowledgeKept'
<1>1. VersionTypes'
  BY DEF KnowledgeKept, VersionTypes
<1>2. ASSUME NEW q \in Process, q # p PROVE Knows(q)'
  <2>1. lockAt'[q] = lockAt[q] /\ stage'[q] = stage[q] /\ known'[q] = known[q]
    BY <1>2 DEF LockTypes
  <2>2. (applying'[q] <=> applying[q]) /\ versions' = versions
    BY <1>2 DEF KnowledgeKept, VersionTypes
  <2>3. /\ NotYetInside(q)' <=> NotYetInside(q)
        /\ Migrating(q)' <=> Migrating(q)
        /\ HasMigrated(q)' <=> HasMigrated(q)
    BY <2>1 DEF NotYetInside, Migrating, HasMigrated, At
  <2>4. Knows(q)
    BY DEF KnowledgeKept
  <2> QED
    BY <2>1, <2>2, <2>3, <2>4 DEF Knows
<1>3. Knows(p)'
  <2>1. lockAt'[p] = where /\ stage'[p] = next /\ known'[p] = known[p] /\ versions' = versions
    BY DEF LockTypes
  <2>2. applying'[p] => applying[p]
    BY DEF KnowledgeKept, VersionTypes
  <2>3. NotYetInside(p) => known[p] = NotRead /\ ~applying[p]
    BY DEF KnowledgeKept, Knows
  <2>4. NotYetInside(p)' \/ Migrating(p)' => NotYetInside(p)
    BY <2>1 DEF NotYetInside, Migrating, At
  <2>5. HasMigrated(p)' => versions' = Versions
    BY <2>1 DEF HasMigrated
  <2> QED
    BY <2>1, <2>2, <2>3, <2>4, <2>5 DEF Knows
<1> QED
  BY <1>1, <1>2, <1>3 DEF KnowledgeKept

\* The end of a block inside.
LEMMA ReleaseLeads ==
    ASSUME LockTypes, NEW p \in Process, At(p, "in"), NEW raised \in BOOLEAN,
           Release(p, raised)
    PROVE  \E where \in {"out", "closed", "raising"}, next \in Stages :
               /\ lockAt' = [lockAt EXCEPT ![p] = where]
               /\ stage' = [stage EXCEPT ![p] = next]
               /\ stage[p] = "sweep" => next \in {"sweep", "ready"}
               /\ stage[p] = "migration" =>
                      \/ next = "migration" /\ where = "raising"
                      \/ next = "failed"
                      \/ /\ ~raised
                         /\ next = "clearing" \/ (next = "migration" /\ where = "closed")
<1>1. stage = [stage EXCEPT ![p] = stage[p]] /\ stage[p] \in Stages /\ stage[p] \in Lock
  BY DEF LockTypes, At
<1>2. CASE kind = "lockfile"
  <2>1. Enter(p, IF raised THEN "raising" ELSE "closed") /\ UNCHANGED stage
    BY <1>2 DEF Release
  <2> QED
    BY <1>1, <2>1 DEF Enter, Lock
<1>3. CASE kind # "lockfile"
  <2>1. Left(p, raised)
    BY <1>3 DEF Release
  <2> DEFINE next == IF stage[p] = "sweep" THEN "ready"
                     ELSE IF raised THEN "failed" ELSE "clearing"
  <2>2. /\ lockAt' = [lockAt EXCEPT ![p] = "out"] /\ stage' = [stage EXCEPT ![p] = next]
        /\ next \in Stages
    BY <2>1 DEF Left, Enter, Reach, Stages
  <2> QED
    BY <1>1, <2>2 DEF Lock
<1> QED
  BY <1>2, <1>3

LEMMA RecordKeepsKnowledge ==
    ASSUME LockTypes, HoldersKept, KnowledgeKept, NEW p \in Process, RecordVersion(p)
    PROVE  KnowledgeKept'
<1>1. /\ Migrating(p) /\ applying[p] /\ known' = [known EXCEPT ![p] = @ + 1]
      /\ applying' = [applying EXCEPT ![p] = FALSE] /\ UNCHANGED <<stage, lockAt>>
      /\ versions' = IF known'[p] > versions THEN known'[p] ELSE versions
  BY DEF RecordVersion
<1>2. known[p] \in 0..Versions - 1 /\ known[p] = versions /\ Versions \in Nat
  BY <1>1, SetupAssumption DEF KnowledgeKept, Knows, NotRead
<1>3. known'[p] = versions + 1 /\ versions' = versions + 1 /\ versions' \in 0..Versions
  <2>1. known'[p] = known[p] + 1
    BY <1>1 DEF KnowledgeKept, VersionTypes
  <2> QED
    BY <1>1, <1>2, <2>1
<1>4. VersionTypes'
  BY <1>1, <1>2, <1>3 DEF KnowledgeKept, VersionTypes
<1>5. ASSUME NEW q \in Process, q # p PROVE Knows(q)'
  <2>1. ~Migrating(q)
    BY <1>1, <1>5, OneIsInside DEF OneInside, Migrating, At
  <2>2. ~HasMigrated(q)
    BY <1>2 DEF KnowledgeKept, Knows
  <2>3. known'[q] = known[q] /\ (applying'[q] <=> applying[q])
    BY <1>1, <1>5 DEF KnowledgeKept, VersionTypes
  <2>4. ~Migrating(q)' /\ ~HasMigrated(q)' /\ (NotYetInside(q)' <=> NotYetInside(q))
    BY <1>1, <2>1, <2>2 DEF Migrating, At, HasMigrated, NotYetInside
  <2> QED
    BY <2>3, <2>4 DEF KnowledgeKept, Knows
<1>6. Knows(p)'
  <2>1. ~applying'[p]
    BY <1>1 DEF KnowledgeKept, VersionTypes
  <2>2. ~NotYetInside(p)' /\ ~HasMigrated(p)'
    BY <1>1 DEF Migrating, At, HasMigrated, NotYetInside
  <2> QED
    BY <1>3, <2>1, <2>2 DEF Knows
<1> QED
  BY <1>4, <1>5, <1>6 DEF KnowledgeKept

LEMMA StepsKeepKnowledge ==
    ASSUME LockTypes, HoldersKept, KnowledgeKept, [SetupNext]_setupVars
    PROVE  KnowledgeKept'
<1>1. ASSUME NEW p \in Process, LockStep(p) \/ WritePidFails(p)
      PROVE  KnowledgeKept'
  <2> PICK where \in LockStages, next \in Stages :
                  /\ lockAt' = [lockAt EXCEPT ![p] = where]
                  /\ stage' = [stage EXCEPT ![p] = next]
                  /\ stage[p] = "sweep" => next \in {"sweep", "ready"}
                  /\ stage[p] = "migration" /\ lockAt[p] \notin {"closed", "raising"} =>
                         \/ next = "failed"
                         \/ next = "migration" /\ where \notin {"closed", "raising"}
                  /\ stage[p] = "migration" /\ lockAt[p] = "raising" => next = "failed"
                  /\ stage[p] = "migration" /\ lockAt[p] = "closed" =>
                         next \in {"failed", "clearing"}
    BY <1>1, LockStepLeads
  <2>1. stage[p] \in Lock /\ lockAt[p] # "in" /\ UNCHANGED <<versions, known, applying>>
    BY <1>1, LockStepLeads
  <2>2. HasMigrated(p) => versions = Versions
    BY DEF KnowledgeKept, Knows
  <2>3. /\ next # "off" /\ (next = "migration" => NotYetInside(p))
        /\ next \in {"clearing", "sweep", "ready"} => HasMigrated(p)
        /\ next \notin {"deciding", "comparing"} /\ (next = "migration" => where # "closed")
    BY <2>1 DEF NotYetInside, HasMigrated, Lock
  <2> QED
    BY <2>1, <2>2, <2>3, KnowledgeStays
<1>2. ASSUME NEW p \in Process, NEW raised \in BOOLEAN, At(p, "in"), Release(p, raised),
             UNCHANGED <<versions, known>>,
             applying' = applying \/ applying' = [applying EXCEPT ![p] = FALSE],
             stage[p] = "migration" /\ ~raised => versions = Versions
      PROVE  KnowledgeKept'
  <2> PICK where \in {"out", "closed", "raising"}, next \in Stages :
               /\ lockAt' = [lockAt EXCEPT ![p] = where]
               /\ stage' = [stage EXCEPT ![p] = next]
               /\ stage[p] = "sweep" => next \in {"sweep", "ready"}
               /\ stage[p] = "migration" =>
                      \/ next = "migration" /\ where = "raising"
                      \/ next = "failed"
                      \/ /\ ~raised
                         /\ next = "clearing" \/ (next = "migration" /\ where = "closed")
    BY <1>2, ReleaseLeads
  <2>1. stage[p] = "sweep" => versions = Versions
    BY DEF KnowledgeKept, Knows, HasMigrated
  <2>2. stage[p] \in {"migration", "sweep"}
    BY <1>2 DEF At, Lock
  <2>3. /\ next # "off" /\ (next = "migration" => where \in {"closed", "raising"})
        /\ (next = "migration" /\ where = "closed")
               \/ next \in {"clearing", "deciding", "comparing", "sweep", "ready"}
               => versions = Versions
    BY <1>2, <2>1, <2>2
  <2> QED
    BY <1>2, <2>3, KnowledgeStays
<1>3. ASSUME NEW p \in Process, Migrated(p) PROVE KnowledgeKept'
  <2>1. At(p, "in") /\ Release(p, FALSE) /\ UNCHANGED <<versions, known, applying>>
    BY <1>3 DEF Migrated, Migrating, schemaRows
  <2>2. versions = Versions
    BY <1>3, SetupAssumption DEF Migrated, KnowledgeKept, Knows, NotRead
  <2> QED
    BY <1>2, <2>1, <2>2
<1>4. ASSUME NEW p \in Process, MigrationFails(p) PROVE KnowledgeKept'
  BY <1>2, <1>4 DEF MigrationFails, Migrating
<1>5. ASSUME NEW p \in Process, CommitSweep(p) \/ SweepFails(p) PROVE KnowledgeKept'
  <2>1. /\ At(p, "in") /\ stage[p] = "sweep" /\ UNCHANGED <<versions, known, applying>>
        /\ Release(p, FALSE) \/ Release(p, TRUE)
    BY <1>5 DEF CommitSweep, SweepFails, Sweeping, UnchangedButSweep, schemaRows
  <2> QED
    BY <1>2, <2>1
<1>6. ASSUME NEW p \in Process, ReadVersions(p) \/ ApplyVersion(p) PROVE KnowledgeKept'
  <2>1. /\ Migrating(p) /\ UNCHANGED <<stage, lockAt, versions>>
        /\ \/ /\ known[p] = NotRead /\ known' = [known EXCEPT ![p] = versions]
              /\ applying' = applying
           \/ /\ known[p] \in 0..Versions - 1 /\ applying' = [applying EXCEPT ![p] = TRUE]
              /\ known' = known
    BY <1>6 DEF ReadVersions, ApplyVersion
  <2>2. VersionTypes'
    BY <2>1 DEF KnowledgeKept, VersionTypes
  <2>3. \A q \in Process : /\ NotYetInside(q)' <=> NotYetInside(q)
                           /\ Migrating(q)' <=> Migrating(q)
                           /\ HasMigrated(q)' <=> HasMigrated(q)
    BY <2>1 DEF NotYetInside, Migrating, HasMigrated, At
  <2>4. ASSUME NEW q \in Process, q # p PROVE Knows(q)'
    <3>1. known'[q] = known[q] /\ (applying'[q] <=> applying[q]) /\ versions' = versions
      BY <2>1, <2>4 DEF KnowledgeKept, VersionTypes
    <3>2. Knows(q)
      BY DEF KnowledgeKept
    <3> QED
      BY <2>3, <3>1, <3>2 DEF Knows
  <2>5. ~NotYetInside(p) /\ (HasMigrated(p) => versions = Versions)
        /\ (known[p] # NotRead => known[p] = versions)
        /\ (applying[p] => known[p] \in 0..Versions - 1)
    BY <2>1 DEF KnowledgeKept, Knows, NotYetInside, Migrating, At
  <2>6. CASE known[p] = NotRead /\ known' = [known EXCEPT ![p] = versions] /\ applying' = applying
    <3>1. known'[p] = versions /\ ~applying[p] /\ versions' = versions
      BY <2>1, <2>5, <2>6, SetupAssumption DEF KnowledgeKept, VersionTypes, NotRead
    <3>2. Knows(p)'
      BY <2>3, <2>5, <2>6, <3>1 DEF Knows
    <3> QED
      BY <2>2, <2>4, <3>2 DEF KnowledgeKept
  <2>7. CASE /\ known[p] \in 0..Versions - 1 /\ applying' = [applying EXCEPT ![p] = TRUE]
             /\ known' = known
    <3>1. Knows(p)'
      BY <2>1, <2>3, <2>5, <2>7 DEF Knows
    <3> QED
      BY <2>2, <2>4, <3>1 DEF KnowledgeKept
  <2> QED
    BY <2>1, <2>6, <2>7
<1>7. ASSUME NEW p \in Process, Begin(p) \/ Clear(p) \/ ReadTime(p) \/ Compare(p)
      PROVE  KnowledgeKept'
  <2>1. /\ UNCHANGED <<versions, known, applying>>
        /\ \E where, next :
               /\ lockAt' = [lockAt EXCEPT ![p] = where] /\ stage' = [stage EXCEPT ![p] = next]
               /\ \/ stage[p] = "off" /\ next = "migration" /\ where = "trying"
                  \/ /\ stage[p] \in {"clearing", "deciding", "comparing"}
                     /\ next \in {"failed", "ready", "deciding", "comparing", "sweep"}
    <3>1. lockAt = [lockAt EXCEPT ![p] = lockAt[p]]
      BY DEF LockTypes
    <3>2. CASE Begin(p)
      BY <3>2 DEF Begin, Enter, Reach, Unchanged, schemaRows
    <3>3. CASE Clear(p)
      BY <3>1, <3>3 DEF Clear, Reach, Unchanged, schemaRows
    <3>4. CASE ReadTime(p)
      BY <3>1, <3>4 DEF ReadTime, Reach, schemaRows
    <3>5. CASE Compare(p)
      BY <3>1, <3>5 DEF Compare, Enter, Reach, Unchanged, schemaRows
    <3> QED
      BY <1>7, <3>2, <3>3, <3>4, <3>5
  <2> PICK where, next :
               /\ lockAt' = [lockAt EXCEPT ![p] = where] /\ stage' = [stage EXCEPT ![p] = next]
               /\ \/ stage[p] = "off" /\ next = "migration" /\ where = "trying"
                  \/ /\ stage[p] \in {"clearing", "deciding", "comparing"}
                     /\ next \in {"failed", "ready", "deciding", "comparing", "sweep"}
    BY <2>1
  <2>2. /\ stage[p] = "off" => NotYetInside(p)
        /\ stage[p] \in {"clearing", "deciding", "comparing"} => versions = Versions
    BY DEF KnowledgeKept, Knows, HasMigrated, NotYetInside
  <2> QED
    BY <2>1, <2>2, KnowledgeStays
<1>8. ASSUME NEW p \in Process, Exit(p) \/ Die(p) PROVE KnowledgeKept'
  <2>1. /\ UNCHANGED <<versions, known, applying>> /\ lockAt' = [lockAt EXCEPT ![p] = "out"]
        /\ stage' = [stage EXCEPT ![p] = "dead"]
    BY <1>8 DEF Exit, Die, Ends, Reach, Enter, Unchanged, schemaRows
  <2> QED
    BY <2>1, KnowledgeStays
<1>9. ASSUME UNCHANGED <<stage, lockAt, versions, known, applying>> PROVE KnowledgeKept'
  BY <1>9 DEF KnowledgeKept, VersionTypes, Knows, NotYetInside, HasMigrated, Migrating, At
<1>10. ASSUME \/ \E p \in Process : DeleteRows(p)
              \/ \E l \in Lock : Age(l)
              \/ TimePasses
              \/ UNCHANGED setupVars
       PROVE  KnowledgeKept'
  BY <1>9, <1>10 DEF DeleteRows, Age, TimePasses, setupVars, Unchanged, UnchangedButSweep, schemaRows
<1> QED
  BY <1>1, <1>3, <1>4, <1>5, <1>6, <1>7, <1>8, <1>10, RecordKeepsKnowledge
     DEF SetupNext, SetupStep

----------------------------------------------------------------------------
(* The sweep. *)

SweepTypes ==
    /\ time \in [Process -> Nat] /\ removed \in [Process -> SUBSET Row]
    /\ rows \in SUBSET Row /\ lastCleanup \in Nat
    /\ clockNow \in Nat /\ clockNow <= End
    /\ kind # "advisory" => lastRow \in [Process -> Nat]

BeforeSweep == {"off", "migration", "clearing", "deciding", "comparing"}
IsOld(r, t) == Stamp[r] < t - RowTtl

\* A sweep has taken old rows only; and in batches, everything old up to the
\* last row it took.
Sweeps(p) ==
    /\ time[p] <= clockNow
    /\ \A r \in removed[p] : IsOld(r, time[p])
    /\ stage[p] \in BeforeSweep =>
           removed[p] = {} /\ (kind # "advisory" => lastRow[p] = 0)
    /\ kind # "advisory" =>
           \A r \in rows : IsOld(r, time[p]) /\ r <= lastRow[p] => r \in removed[p]

RowsSwept ==
    /\ \A r \in rows : ~IsOld(r, lastCleanup)
    /\ \A r \in Row \ rows : IsOld(r, End)
SweepKept == SweepTypes /\ RowsSwept /\ \A p \in Process : Sweeps(p)

LEMMA SweepGives == SweepKept => SweptWhole
<1> SUFFICES ASSUME SweepKept PROVE SweptWhole
  OBVIOUS
<1>1. ASSUME NEW r \in rows PROVE Stamp[r] >= lastCleanup - RowTtl
  <2>1. ~ (Stamp[r] < lastCleanup - RowTtl)
    BY DEF SweepKept, RowsSwept, IsOld
  <2>2. Stamp[r] \in Nat /\ lastCleanup \in Nat /\ RowTtl \in Nat
    BY SetupAssumption DEF SweepKept, SweepTypes
  <2> DEFINE u == Stamp[r]
  <2> HIDE DEF u
  <2>3. u >= lastCleanup - RowTtl
    BY <2>1, <2>2 DEF u
  <2> QED
    BY <2>3 DEF u
<1>2. \A r \in Row \ rows : Stamp[r] < End - RowTtl
  BY DEF SweepKept, RowsSwept, IsOld
<1> QED
  BY <1>1, <1>2 DEF SweptWhole

\* What is old by one time is old by a later one.
LEMMA OldStays ==
    ASSUME NEW r \in Row, NEW t \in Nat, NEW w \in Nat, t <= w, IsOld(r, t)
    PROVE  IsOld(r, w)
<1> DEFINE u == Stamp[r]
<1>1. u \in Nat /\ RowTtl \in Nat /\ u < t - RowTtl
  BY SetupAssumption DEF IsOld
<1> HIDE DEF u
<1>2. u < w - RowTtl
  BY <1>1
<1> QED
  BY <1>2 DEF u, IsOld

\* A step that leaves the rows alone: nobody comes back from a sweep.
LEMMA SweepStays ==
    ASSUME SweepKept, UNCHANGED <<kind, time, removed, lastRow, rows, lastCleanup>>,
           clockNow' \in Nat, clockNow <= clockNow', clockNow' <= End,
           \A p \in Process : stage'[p] \in BeforeSweep => stage[p] \in BeforeSweep
    PROVE  SweepKept'
<1>1. SweepTypes'
  BY DEF SweepKept, SweepTypes
<1>2. RowsSwept'
  BY DEF SweepKept, RowsSwept, IsOld
<1>3. ASSUME NEW p \in Process PROVE Sweeps(p)'
  <2>1. time'[p] <= clockNow'
    <3>1. time[p] \in Nat /\ clockNow \in Nat /\ time[p] <= clockNow
      BY DEF SweepKept, SweepTypes, Sweeps
    <3> DEFINE t == time[p]
    <3> HIDE DEF t
    <3>2. t <= clockNow'
      BY <3>1 DEF t
    <3> QED
      BY <3>2 DEF t
  <2>2. Sweeps(p)
    BY DEF SweepKept
  <2> QED
    BY <2>1, <2>2 DEF Sweeps, IsOld
<1> QED
  BY <1>1, <1>2, <1>3 DEF SweepKept

LEMMA StageStays ==
    ASSUME LockTypes, SweepKept, NEW p \in Process, NEW next,
           UNCHANGED <<kind, time, removed, lastRow, rows, lastCleanup, clockNow>>,
           stage' = [stage EXCEPT ![p] = next],
           next \in BeforeSweep => stage[p] \in BeforeSweep
    PROVE  SweepKept'
<1>1. \A q \in Process : stage'[q] \in BeforeSweep => stage[q] \in BeforeSweep
  BY DEF LockTypes
<1>2. clockNow' \in Nat /\ clockNow <= clockNow' /\ clockNow' <= End
  BY DEF SweepKept, SweepTypes
<1> QED
  BY <1>1, <1>2, SweepStays

\* The time of a sweep that has deleted nothing.
LEMMA ReadTimeKeeps ==
    ASSUME LockTypes, SweepKept, NEW p \in Process, ReadTime(p)
    PROVE  SweepKept'
<1>1. /\ stage[p] = "deciding"
      /\ UNCHANGED <<kind, removed, lastRow, rows, lastCleanup, clockNow>>
  BY DEF ReadTime
<1>2. CASE Reach(p, "ready") /\ UNCHANGED time
  BY <1>1, <1>2, StageStays DEF Reach, BeforeSweep
<1>3. CASE Reach(p, "comparing") /\ time' = [time EXCEPT ![p] = clockNow]
  <2>1. SweepTypes'
    BY <1>1, <1>3 DEF SweepKept, SweepTypes
  <2>2. RowsSwept'
    BY <1>1 DEF SweepKept, RowsSwept, IsOld
  <2>3. ASSUME NEW q \in Process, q # p PROVE Sweeps(q)'
    <3>1. time'[q] = time[q] /\ stage'[q] = stage[q] /\ Sweeps(q)
      BY <1>3, <2>3 DEF SweepKept, SweepTypes, LockTypes, Reach
    <3> QED
      BY <1>1, <3>1 DEF Sweeps, IsOld
  <2>4. Sweeps(p)'
    <3>1. removed[p] = {} /\ (kind # "advisory" => lastRow[p] = 0)
      BY <1>1 DEF SweepKept, Sweeps, BeforeSweep
    <3>2. time'[p] = clockNow /\ clockNow' = clockNow /\ clockNow \in Nat
      BY <1>1, <1>3 DEF SweepKept, SweepTypes
    <3>3. time'[p] <= clockNow'
      BY <3>2
    <3>4. \A r \in rows : ~ (r <= 0)
      <4>1. \A r \in rows : r \in Nat \ {0}
        BY SetupAssumption DEF SweepKept, SweepTypes
      <4> QED
        BY <4>1
    <3> QED
      BY <1>1, <3>1, <3>3, <3>4 DEF Sweeps
  <2> QED
    BY <2>1, <2>2, <2>3, <2>4 DEF SweepKept
<1> QED
  BY <1>2, <1>3 DEF ReadTime

LEMMA MatchingIs ==
    ASSUME SweepKept, NEW p \in Process
    PROVE  /\ Matching(p) = {r \in rows \ removed[p] : IsOld(r, time[p])}
           /\ Matching(p) \in SUBSET Row /\ Matching(p) \in SUBSET Nat
           /\ Batch(p) = FirstOf(Matching(p), lastRow[p], BatchSize)
<1>1. Matching(p) = {r \in rows \ removed[p] : IsOld(r, time[p])}
  BY DEF Matching, IsOld
<1>2. Matching(p) \in SUBSET Row
  BY <1>1 DEF SweepKept, SweepTypes
<1>3. Matching(p) \in SUBSET Nat
  BY <1>2, SetupAssumption
<1>4. Batch(p) = FirstOf(Matching(p), lastRow[p], BatchSize)
  BY DEF Batch, FirstOf, Preceding
<1> QED
  BY <1>1, <1>2, <1>3, <1>4

LEMMA DeleteKeeps ==
    ASSUME LockTypes, SweepKept, NEW p \in Process, DeleteRows(p)
    PROVE  SweepKept'
<1> DEFINE M == Matching(p)
           D == Doomed(p)
           x == CHOOSE r \in D : \A s \in D : s <= r
<1>1. /\ stage[p] = "sweep" /\ D # {}
      /\ removed' = [removed EXCEPT ![p] = @ \cup D]
      /\ lastRow' = [lastRow EXCEPT ![p] = x]
      /\ UNCHANGED <<kind, stage, time, rows, lastCleanup, clockNow>>
  BY DEF DeleteRows, Sweeping, UnchangedButSweep
<1>2. D \in SUBSET M /\ M \in SUBSET Row /\ \A r \in M : IsOld(r, time[p])
  BY MatchingIs DEF Doomed, Batch
<1>3. ASSUME kind # "advisory"
      PROVE  /\ x \in Nat
             /\ \A r \in rows : IsOld(r, time[p]) /\ r <= x => r \in removed[p] \cup D
  <2> DEFINE low == lastRow[p]
  <2>1. D = FirstOf(M, low, BatchSize) /\ M \in SUBSET Nat /\ low \in Nat
        /\ BatchSize \in Nat \ {0}
    BY <1>3, MatchingIs, SetupAssumption DEF Doomed, SweepKept, SweepTypes
  <2> HIDE DEF low, D, M
  <2>2. PICK y \in D : /\ \A s \in D : s <= y
                       /\ \A r \in M : low < r /\ r <= y => r \in D
    BY <1>1, <2>1, BatchIsWhole
  <2>3. x \in D /\ \A s \in D : s <= x
    BY <2>2
  <2>4. x = y
    <3>1. x <= y /\ y <= x /\ x \in Nat /\ y \in Nat
      BY <1>2, <2>1, <2>2, <2>3
    <3> HIDE DEF x
    <3> QED
      BY <3>1
  <2>5. ASSUME NEW r \in rows, IsOld(r, time[p]), r <= x PROVE r \in removed[p] \cup D
    <3>1. CASE r <= low
      BY <1>3, <2>5, <3>1 DEF SweepKept, Sweeps, low
    <3>2. CASE ~ (r <= low)
      <4>1. r \in Nat
        BY SetupAssumption DEF SweepKept, SweepTypes
      <4>2. low < r
        BY <2>1, <3>2, <4>1
      <4>3. r \in removed[p] \/ r \in M
        BY <2>5, MatchingIs DEF M
      <4> QED
        BY <2>2, <2>4, <2>5, <4>2, <4>3
    <3> QED
      BY <3>1, <3>2
  <2>6. x \in Nat
    BY <1>2, <2>1, <2>3
  <2> QED
    BY <2>5, <2>6
<1> HIDE DEF D, x
<1>4. SweepTypes'
  <2>1. removed' \in [Process -> SUBSET Row]
    BY <1>1, <1>2 DEF SweepKept, SweepTypes
  <2>2. kind' # "advisory" => lastRow' \in [Process -> Nat]
    BY <1>1, <1>3 DEF SweepKept, SweepTypes
  <2> QED
    BY <1>1, <2>1, <2>2 DEF SweepKept, SweepTypes
<1>5. RowsSwept'
  BY <1>1 DEF SweepKept, RowsSwept, IsOld
<1>6. ASSUME NEW q \in Process, q # p PROVE Sweeps(q)'
  <2>1. removed'[q] = removed[q] /\ (kind # "advisory" => lastRow'[q] = lastRow[q])
    BY <1>1, <1>6 DEF SweepKept, SweepTypes
  <2>2. Sweeps(q)
    BY DEF SweepKept
  <2> QED
    BY <1>1, <2>1, <2>2 DEF Sweeps, IsOld
<1>7. Sweeps(p)'
  <2>1. removed'[p] = removed[p] \cup D /\ (kind # "advisory" => lastRow'[p] = x)
    BY <1>1 DEF SweepKept, SweepTypes
  <2>2. \A r \in removed'[p] : IsOld(r, time[p])
    BY <1>2, <2>1 DEF SweepKept, Sweeps
  <2>3. kind # "advisory" =>
            \A r \in rows : IsOld(r, time[p]) /\ r <= lastRow'[p] => r \in removed'[p]
    BY <1>3, <2>1
  <2>4. stage'[p] \notin BeforeSweep /\ time[p] <= clockNow
    BY <1>1 DEF BeforeSweep, SweepKept, Sweeps
  <2> QED
    BY <1>1, <2>2, <2>3, <2>4 DEF Sweeps, IsOld
<1> QED
  BY <1>4, <1>5, <1>6, <1>7 DEF SweepKept

\* A sweep ends when nothing old is left to it.
LEMMA CommitKeeps ==
    ASSUME LockTypes, SweepKept, NEW p \in Process, CommitSweep(p)
    PROVE  SweepKept'
<1>1. /\ At(p, "in") /\ stage[p] = "sweep" /\ Doomed(p) = {} /\ Release(p, FALSE)
      /\ rows' = rows \ removed[p] /\ lastCleanup' = time[p]
      /\ UNCHANGED <<kind, time, removed, lastRow, clockNow>>
  BY DEF CommitSweep, Sweeping, UnchangedButSweep
<1>2. PICK next : stage' = [stage EXCEPT ![p] = next] /\ next \in {"sweep", "ready"}
  BY <1>1, ReleaseLeads
<1>3. Matching(p) = {}
  <2>1. CASE kind = "advisory"
    BY <1>1, <2>1 DEF Doomed
  <2>2. CASE kind # "advisory"
    <3> DEFINE low == lastRow[p]
               M == Matching(p)
    <3>1. /\ FirstOf(M, low, BatchSize) = {} /\ M \in SUBSET Nat /\ low \in Nat
          /\ BatchSize \in Nat \ {0}
      BY <1>1, <2>2, MatchingIs, SetupAssumption DEF Doomed, SweepKept, SweepTypes
    <3> HIDE DEF low, M
    <3>2. \A r \in M : r <= low
      BY <3>1, NothingLeft
    <3>3. ASSUME NEW r \in M PROVE FALSE
      <4>1. r \in rows /\ r \notin removed[p] /\ IsOld(r, time[p])
        BY MatchingIs DEF M
      <4> QED
        BY <2>2, <3>2, <4>1 DEF SweepKept, Sweeps, low
    <3> QED
      BY <3>3 DEF M
  <2> QED
    BY <2>1, <2>2
<1>4. SweepTypes'
  BY <1>1 DEF SweepKept, SweepTypes
<1>5. RowsSwept'
  <2>1. ASSUME NEW r \in rows' PROVE ~IsOld(r, lastCleanup')
    BY <1>1, <1>3, MatchingIs
  <2>2. ASSUME NEW r \in Row \ rows' PROVE IsOld(r, End)
    <3>1. CASE r \notin rows
      BY <3>1 DEF SweepKept, RowsSwept
    <3>2. CASE r \in removed[p]
      <4> DEFINE t == time[p]
      <4>1. IsOld(r, t) /\ t \in Nat /\ t <= clockNow /\ clockNow \in Nat /\ clockNow <= End
            /\ End \in Nat
        BY <3>2, SetupAssumption DEF SweepKept, Sweeps, SweepTypes
      <4> HIDE DEF t
      <4>2. t <= End
        BY <4>1
      <4> QED
        BY <4>1, <4>2, OldStays
    <3> QED
      BY <1>1, <3>1, <3>2
  <2> QED
    BY <2>1, <2>2 DEF RowsSwept, IsOld
<1>6. ASSUME NEW q \in Process PROVE Sweeps(q)'
  <2>1. Sweeps(q) /\ (stage'[q] \in BeforeSweep => stage[q] \in BeforeSweep)
    BY <1>1, <1>2 DEF SweepKept, LockTypes, BeforeSweep
  <2> QED
    BY <1>1, <2>1 DEF Sweeps, IsOld
<1> QED
  BY <1>4, <1>5, <1>6 DEF SweepKept

LEMMA StepsKeepSweep ==
    ASSUME LockTypes, SweepKept, [SetupNext]_setupVars
    PROVE  SweepKept'
<1>1. ASSUME NEW p \in Process, LockStep(p) \/ WritePidFails(p)
      PROVE  SweepKept'
  <2>1. /\ stage[p] \in Lock
        /\ UNCHANGED <<kind, time, removed, lastRow, rows, lastCleanup, clockNow>>
        /\ \E next : /\ stage' = [stage EXCEPT ![p] = next]
                     /\ stage[p] = "sweep" => next \in {"sweep", "ready"}
    BY <1>1, LockStepLeads
  <2>2. PICK next : /\ stage' = [stage EXCEPT ![p] = next]
                    /\ stage[p] = "sweep" => next \in {"sweep", "ready"}
    BY <2>1
  <2>3. next \in BeforeSweep => stage[p] \in BeforeSweep
    BY <2>1, <2>2 DEF BeforeSweep, Lock
  <2> QED
    BY <2>1, <2>2, <2>3, StageStays
<1>2. ASSUME NEW p \in Process, Migrated(p) \/ MigrationFails(p) \/ SweepFails(p)
      PROVE  SweepKept'
  <2>1. /\ At(p, "in") /\ \E raised \in BOOLEAN : Release(p, raised)
        /\ UNCHANGED <<kind, time, removed, lastRow, rows, lastCleanup, clockNow>>
    BY <1>2 DEF Migrated, MigrationFails, SweepFails, Migrating, Sweeping, sweepVars,
       UnchangedButSchema, UnchangedButSweep
  <2>2. \E next : /\ stage' = [stage EXCEPT ![p] = next]
                  /\ stage[p] = "sweep" => next \in {"sweep", "ready"}
    BY <2>1, ReleaseLeads
  <2>3. PICK next : /\ stage' = [stage EXCEPT ![p] = next]
                    /\ stage[p] = "sweep" => next \in {"sweep", "ready"}
    BY <2>2
  <2>4. next \in BeforeSweep => stage[p] \in BeforeSweep
    BY <2>1, <2>3 DEF BeforeSweep, Lock, At
  <2> QED
    BY <2>1, <2>3, <2>4, StageStays
<1>3. ASSUME NEW p \in Process, Begin(p) \/ Clear(p) \/ Compare(p) PROVE SweepKept'
  <2>1. /\ stage[p] \in {"off", "clearing", "comparing"}
        /\ \E next : stage' = [stage EXCEPT ![p] = next]
        /\ UNCHANGED <<kind, time, removed, lastRow, rows, lastCleanup, clockNow>>
    BY <1>3 DEF Begin, Clear, Compare, Reach, Unchanged, sweepVars
  <2>2. PICK next : stage' = [stage EXCEPT ![p] = next]
    BY <2>1
  <2> QED
    BY <2>1, <2>2, StageStays DEF BeforeSweep
<1>4. ASSUME NEW p \in Process, Exit(p) \/ Die(p) PROVE SweepKept'
  <2>1. /\ stage' = [stage EXCEPT ![p] = "dead"]
        /\ UNCHANGED <<kind, time, removed, lastRow, rows, lastCleanup, clockNow>>
    BY <1>4 DEF Exit, Die, Ends, Reach, Unchanged, sweepVars
  <2> QED
    BY <2>1, StageStays DEF BeforeSweep
<1>5. ASSUME UNCHANGED <<stage, kind, sweepVars, clockNow>> PROVE SweepKept'
  <2>1. clockNow' \in Nat /\ clockNow <= clockNow' /\ clockNow' <= End
    BY <1>5 DEF SweepKept, SweepTypes
  <2> QED
    BY <1>5, <2>1, SweepStays DEF sweepVars
<1>6. ASSUME NEW p \in Process, ReadVersions(p) \/ ApplyVersion(p) \/ RecordVersion(p)
      PROVE  SweepKept'
  BY <1>5, <1>6 DEF ReadVersions, ApplyVersion, RecordVersion, UnchangedButSchema
<1>7. CASE (\E l \in Lock : Age(l)) \/ UNCHANGED setupVars
  BY <1>5, <1>7 DEF Age, Unchanged, setupVars
<1>8. CASE TimePasses
  <2>1. clockNow' \in Nat /\ clockNow <= clockNow' /\ clockNow' <= End
    BY <1>8, SetupAssumption DEF TimePasses, SweepKept, SweepTypes
  <2> QED
    BY <1>8, <2>1, SweepStays DEF TimePasses, sweepVars
<1> QED
  BY <1>1, <1>2, <1>3, <1>4, <1>6, <1>7, <1>8, ReadTimeKeeps, DeleteKeeps, CommitKeeps
     DEF SetupNext, SetupStep

----------------------------------------------------------------------------
LEMMA SetupBegins ==
    ASSUME SetupInit
    PROVE  LockTypes /\ HoldersKept /\ KnowledgeKept /\ SweepKept
<1>1. LockTypes
  BY DEF SetupInit, LockTypes, Stages, LockStages
<1>2. HoldersKept
  BY DEF SetupInit, HoldersKept, Holds
<1>3. KnowledgeKept
  <2>1. VersionTypes
    BY SetupAssumption DEF SetupInit, VersionTypes, NotRead
  <2> QED
    BY <2>1 DEF SetupInit, KnowledgeKept, Knows, NotYetInside, Migrating, HasMigrated, At
<1>4. SweepKept
  <2>1. SweepTypes
    BY SetupAssumption DEF SetupInit, SweepTypes
  <2>2. RowsSwept
    <3>1. ASSUME NEW r \in rows PROVE ~IsOld(r, lastCleanup)
      <4> DEFINE u == Stamp[r]
      <4>1. u \in Nat /\ RowTtl \in Nat /\ lastCleanup = 0
        BY SetupAssumption DEF SetupInit
      <4> HIDE DEF u
      <4>2. ~ (u < lastCleanup - RowTtl)
        BY <4>1
      <4> QED
        BY <4>2 DEF u, IsOld
    <3> QED
      BY <3>1 DEF SetupInit, RowsSwept
  <2>3. ASSUME NEW p \in Process PROVE Sweeps(p)
    <3>1. \A r \in rows : ~ (r <= 0)
      <4>1. \A r \in rows : r \in Nat \ {0}
        BY SetupAssumption DEF SetupInit
      <4> QED
        BY <4>1
    <3>2. time[p] = 0 /\ clockNow \in Nat /\ removed[p] = {} /\ lastRow[p] = 0
      BY SetupAssumption DEF SetupInit
    <3>3. time[p] <= clockNow
      BY <3>2
    <3> QED
      BY <3>1, <3>2, <3>3 DEF Sweeps
  <2> QED
    BY <2>1, <2>2, <2>3 DEF SweepKept
<1> QED
  BY <1>1, <1>2, <1>3, <1>4

\* However processes that start on one database overlap, fail and die, and for
\* each kind of lock there is: one of them at a time is in a lock's block, no
\* version of the schema is applied over itself, and a sweep that is recorded
\* has deleted what was old, in whatever batches, and nothing else.
THEOREM SetupIsSound == SetupSpec => []SetupInv
<1> DEFINE IInv == LockTypes /\ HoldersKept /\ KnowledgeKept /\ SweepKept
<1>1. SetupInit => IInv
  BY SetupBegins
<1>2. IInv /\ [SetupNext]_setupVars => IInv'
  <2> SUFFICES ASSUME LockTypes, HoldersKept, KnowledgeKept, SweepKept, [SetupNext]_setupVars
               PROVE  LockTypes' /\ HoldersKept' /\ KnowledgeKept' /\ SweepKept'
    OBVIOUS
  <2> QED
    BY StepsKeepLocks, StepsKeepKnowledge, StepsKeepSweep
<1>3. IInv => SetupInv
  BY OneIsInside, KnowledgeGives, SweepGives DEF SetupInv
<1> QED
  BY <1>1, <1>2, <1>3, PTL DEF SetupSpec

----------------------------------------------------------------------------
(* The export and the import of tables.                                     *)

ExportTypes ==
    /\ source \in [Table -> SUBSET Key] /\ \A t \in Table : IsFiniteSet(source[t])
    /\ steady \in [Table -> SUBSET Key] /\ \A t \in Table : steady[t] \subseteq source[t]
    /\ outfile \in [Table -> Seq(Key)] /\ offset \in [Table -> Nat]
    /\ exported \subseteq Table

\* A row that is there since the beginning is in the file, or at or after the
\* offset, and in the end it is in the file.
NotPassed(t) ==
    \A k \in steady[t] \ Filed(t) :
        t \notin exported /\ offset[t] <= Cardinality({j \in source[t] : j < k})

ImportTypes ==
    /\ target \in [Table -> SUBSET Key] /\ importing \in [Table -> {"no", "reading", "batch", "single", "done"}]
    /\ position \in [Table -> Nat] /\ pending \in [Table -> Seq(Key)]
    /\ attempt \in [Table -> Nat] /\ batchSize \in [Table -> Nat \ {0}] /\ lockRetries \in Nat
    /\ inserted \in [Table -> Int] /\ conflicts \in [Table -> Int]
    /\ unlucky \in [Table -> SUBSET Key]

\* The rows that are left of the batch are the last that were read; the file is
\* complete before it is read.
Reading(t) ==
    /\ position[t] <= Len(outfile[t]) /\ Len(pending[t]) <= position[t]
    /\ \A i \in 1..Len(pending[t]) : pending[t][i] = outfile[t][position[t] - Len(pending[t]) + i]
    /\ importing[t] = "no" => position[t] = 0
    /\ importing[t] \in {"no", "reading", "done"} => pending[t] = <<>>
    /\ importing[t] = "done" => position[t] = Len(outfile[t])
    /\ importing[t] # "no" => exported = Table

\* A table that is not early begins when the one it refers to is done.
ParentDone(t) ==
    importing[t] # "no" /\ t \notin early /\ HasParent(t) => importing[Parent[t]] = "done"

\* What was read and is not left in the batch has come to its end.
Dealt(t) ==
    \A i \in 1..position[t] - Len(pending[t]) :
        \/ outfile[t][i] \in target[t] \cup unlucky[t]
        \/ t \in early \/ ~HasRowFor(target, t, outfile[t][i])

TransferIndInv ==
    /\ ExportTypes /\ ImportTypes
    /\ \A t \in Table \ rowsDeleted : NotPassed(t)
    /\ \A t \in Table : Reading(t) /\ ParentDone(t) /\ Dealt(t)
    /\ ImportSound

\* A page or a batch is the next rows, as many as there are.
Slices(page, s, first, n) ==
    /\ Len(page) \in Nat /\ Len(page) <= n /\ (first <= Len(s) => first + Len(page) <= Len(s))
    /\ \A i \in 1..Len(page) : page[i] = s[first + i] /\ first + i \in DOMAIN s
    /\ \A i \in DOMAIN s : first < i /\ i <= first + n => i - first \in 1..Len(page)

LEMMA SliceIs ==
    ASSUME NEW X, NEW s \in Seq(X), NEW first \in Nat, NEW n \in Nat, NEW page, page = Slice(s, first, n)
    PROVE  page \in Seq(X) /\ Slices(page, s, first, n)
<1> DEFINE m == IF first + n <= Len(s) THEN n ELSE IF first <= Len(s) THEN Len(s) - first ELSE 0
<1>1. m \in Nat /\ Len(s) \in Nat /\ DOMAIN s = 1..Len(s)
  OBVIOUS
<1>2. {j \in 1..n : first + j <= Len(s)} = 1..m
  BY <1>1
<1>3. /\ m <= n /\ (first <= Len(s) => first + m <= Len(s))
      /\ \A i \in 1..m : first + i \in 1..Len(s)
      /\ \A i \in 1..Len(s) : first < i /\ i <= first + n => i - first \in 1..m
  BY <1>1
<1> HIDE DEF m
<1>4. Cardinality({j \in 1..n : first + j <= Len(s)}) = m
  BY <1>1, <1>2, CountUpTo
<1>5. page = [i \in 1..m |-> s[first + i]]
  BY <1>4 DEF Slice
<1>6. \A i \in 1..m : s[first + i] \in X
  BY <1>1, <1>3
<1>7. page \in Seq(X) /\ Len(page) = m
  BY <1>1, <1>5, <1>6
<1> QED
  BY <1>1, <1>3, <1>5, <1>7 DEF Slices

LEMMA TransferInitInv == TransferInit => TransferIndInv
<1> SUFFICES ASSUME TransferInit PROVE TransferIndInv
  OBVIOUS
<1>1. IsDatabase(source) /\ IsDatabase(target)
  BY TransferAssumption DEF TransferInit
<1>2. ExportTypes /\ ImportTypes
  BY <1>1, TransferAssumption DEF TransferInit, ExportTypes, ImportTypes, IsDatabase
<1>3. ASSUME NEW t \in Table PROVE NotPassed(t)
  <2>1. offset[t] = 0 /\ t \notin exported /\ IsFiniteSet(source[t])
    BY <1>1 DEF TransferInit, IsDatabase
  <2>2. \A k \in steady[t] : Cardinality({j \in source[t] : j < k}) \in Nat
    <3> SUFFICES ASSUME NEW k \in steady[t]
                 PROVE  Cardinality({j \in source[t] : j < k}) \in Nat
      OBVIOUS
    <3>1. {j \in source[t] : j < k} \in SUBSET source[t]
      OBVIOUS
    <3> HIDE DEF TransferInit
    <3> QED
      BY <2>1, <3>1, FS_Subset, FS_CardinalityType
  <2> QED
    BY <2>1, <2>2 DEF NotPassed
<1>4. ASSUME NEW t \in Table PROVE Reading(t) /\ ParentDone(t) /\ Dealt(t)
  BY <1>2 DEF TransferInit, Reading, ParentDone, Dealt, ExportTypes
<1>5. ImportSound
  BY <1>1, TransferAssumption DEF TransferInit, ImportSound, IsDatabase
<1> QED
  BY <1>2, <1>3, <1>4, <1>5 DEF TransferIndInv

----------------------------------------------------------------------------
(* The export. *)

\* While tables are exported, none is imported.
LEMMA ExportLeavesImport ==
    ASSUME TransferIndInv, UNCHANGED importVars, UNCHANGED found, exported # Table
    PROVE  /\ ImportTypes' /\ ImportSound'
           /\ \A t \in Table : ParentDone(t)' /\ importing[t] = "no" /\ position[t] = 0
                               /\ pending[t] = <<>>
<1>1. ImportTypes' /\ ImportSound' /\ \A t \in Table : ParentDone(t)'
  BY DEF TransferIndInv, ImportTypes, ImportSound, ParentDone, importVars, HasRowFor
<1>2. \A t \in Table : importing[t] = "no"
  BY DEF TransferIndInv, ImportTypes, Reading
<1> QED
  BY <1>1, <1>2 DEF TransferIndInv, Reading

LEMMA ReadingNothing ==
    ASSUME NEW t \in Table, importing'[t] = "no", position'[t] = 0, pending'[t] = <<>>,
           outfile'[t] \in Seq(Key)
    PROVE  Reading(t)' /\ Dealt(t)'
BY DEF Reading, Dealt

LEMMA Smaller ==
    ASSUME NEW S, IsFiniteSet(S), NEW k
    PROVE  /\ IsFiniteSet({j \in S : j < k}) /\ Cardinality({j \in S : j < k}) \in Nat
           /\ Cardinality({j \in S : j < k}) <= Cardinality(S) /\ Cardinality(S) \in Nat
<1>1. {j \in S : j < k} \in SUBSET S
  OBVIOUS
<1> QED
  BY <1>1, FS_Subset, FS_CardinalityType

LEMMA ChangesStep ==
    ASSUME TransferIndInv, NEW t \in Table, NEW k \in Key, InsertRow(t, k) \/ DeleteRow(t, k)
    PROVE  TransferIndInv'
<1>1. UNCHANGED <<outfile, offset, exported, importVars, found>> /\ exported # Table
  BY DEF InsertRow, DeleteRow, Changes
<1>2. ImportTypes' /\ ImportSound' /\ \A u \in Table : ParentDone(u)'
  BY <1>1, ExportLeavesImport
<1>3. ASSUME NEW u \in Table PROVE Reading(u)' /\ Dealt(u)'
  <2>1. importing[u] = "no" /\ position[u] = 0 /\ pending[u] = <<>>
    BY <1>1, ExportLeavesImport
  <2>2. outfile[u] \in Seq(Key)
    BY DEF TransferIndInv, ExportTypes
  <2> QED
    BY <1>1, <2>1, <2>2, ReadingNothing DEF importVars
<1>4. CASE InsertRow(t, k)
  <2>1. /\ source' = [source EXCEPT ![t] = @ \cup {k}] /\ steady' = steady
        /\ rowsDeleted' = rowsDeleted
    BY <1>4 DEF InsertRow
  <2>2. \A u \in Table : source'[u] = source[u] \/ source'[u] = source[u] \cup {k}
    BY <2>1 DEF TransferIndInv, ExportTypes
  <2>3. ASSUME NEW u \in Table PROVE IsFiniteSet(source'[u]) /\ source[u] \subseteq source'[u]
    <3>1. IsFiniteSet(source[u]) /\ IsFiniteSet(source[u] \cup {k})
      BY FS_AddElement DEF TransferIndInv, ExportTypes
    <3> QED
      BY <2>2, <3>1
  <2>4. ExportTypes'
    <3>1. source' \in [Table -> SUBSET Key]
      BY <2>1 DEF TransferIndInv, ExportTypes
    <3> QED
      BY <1>1, <2>1, <2>3, <3>1 DEF TransferIndInv, ExportTypes
  <2>5. ASSUME NEW u \in Table \ rowsDeleted' PROVE NotPassed(u)'
    <3> SUFFICES ASSUME NEW l \in steady[u] \ Filed(u)
                 PROVE  u \notin exported /\ offset[u] <= Cardinality({j \in source'[u] : j < l})
      BY <1>1, <2>1 DEF NotPassed, Filed
    <3>1. u \notin exported /\ offset[u] <= Cardinality({j \in source[u] : j < l})
      BY <2>1 DEF TransferIndInv, NotPassed
    <3>2. {j \in source[u] : j < l} \in SUBSET {j \in source'[u] : j < l}
      BY <2>3
    <3>3. Cardinality({j \in source[u] : j < l}) <= Cardinality({j \in source'[u] : j < l})
      BY <2>3, <3>2, Smaller, FS_Subset
    <3>4. Cardinality({j \in source[u] : j < l}) \in Nat /\ Cardinality({j \in source'[u] : j < l}) \in Nat
      BY <2>3, Smaller DEF TransferIndInv, ExportTypes
    <3>5. offset[u] \in Nat
      BY DEF TransferIndInv, ExportTypes
    <3> QED
      BY <3>1, <3>3, <3>4, <3>5
  <2> QED
    BY <1>2, <1>3, <2>4, <2>5 DEF TransferIndInv
<1>5. CASE DeleteRow(t, k)
  <2>1. /\ source' = Cascaded(t, k)
        /\ steady' = [u \in Table |-> steady[u] \cap source'[u]]
        /\ rowsDeleted' = rowsDeleted \cup {u \in Table : source'[u] # source[u]}
    BY <1>5 DEF DeleteRow
  <2>2. \A u \in Table : source'[u] \in SUBSET source[u]
    BY <2>1 DEF Cascaded
  <2>3. source' \in [Table -> SUBSET Key]
    BY <2>1 DEF Cascaded, TransferIndInv, ExportTypes
  <2>4. \A u \in Table : IsFiniteSet(source'[u])
    BY <2>2, FS_Subset DEF TransferIndInv, ExportTypes
  <2>5. ExportTypes'
    BY <1>1, <2>1, <2>3, <2>4 DEF TransferIndInv, ExportTypes
  <2>6. ASSUME NEW u \in Table \ rowsDeleted' PROVE NotPassed(u)'
    <3>1. u \notin rowsDeleted /\ source'[u] = source[u]
      BY <2>1
    <3>2. steady'[u] \subseteq steady[u] /\ NotPassed(u)
      BY <2>1, <3>1 DEF TransferIndInv
    <3> QED
      BY <1>1, <3>1, <3>2 DEF NotPassed, Filed
  <2> QED
    BY <1>2, <1>3, <2>5, <2>6 DEF TransferIndInv
<1> QED
  BY <1>4, <1>5

LEMMA ExportStep ==
    ASSUME TransferIndInv, NEW t \in Table, ExportPage(t)
    PROVE  TransferIndInv'
<1> DEFINE s == Ascending(source[t])
           n == Cardinality(source[t])
           page == NextPage(t)
           below(k) == Cardinality({j \in source[t] : j < k})
<1>1. /\ UNCHANGED <<source, steady, rowsDeleted, importVars, found>> /\ exported # Table
      /\ t \notin exported
  BY DEF ExportPage
<1>2. /\ source \in [Table -> SUBSET Key] /\ IsFiniteSet(source[t]) /\ source[t] \subseteq Int
      /\ steady[t] \subseteq source[t] /\ outfile \in [Table -> Seq(Key)] /\ offset[t] \in Nat
      /\ offset \in [Table -> Nat] /\ exported \subseteq Table
      /\ ExportBatch \in Nat /\ ExportBatch > 0
  <2>1. Key \subseteq Int /\ ExportBatch \in Nat /\ ExportBatch > 0
    BY TransferAssumption
  <2> QED
    BY <2>1 DEF TransferIndInv, ExportTypes
<1>3. SortsUp(s, n, source[t])
  BY <1>2, AscendingIs
<1> HIDE DEF s, n
<1>4. s \in Seq(Key) /\ Len(s) = n /\ n \in Nat /\ DOMAIN s = 1..n
  BY <1>2, <1>3 DEF SortsUp
<1>5. page = Slice(s, offset[t], ExportBatch)
  BY DEF NextPage, s
<1> HIDE DEF page
<1>6. page \in Seq(Key) /\ Slices(page, s, offset[t], ExportBatch)
  BY <1>2, <1>4, <1>5, SliceIs
<1>7. \A k \in source[t] : below(k) \in Nat /\ below(k) + 1 \in 1..n /\ s[below(k) + 1] = k
  <2> SUFFICES ASSUME NEW k \in source[t]
               PROVE  below(k) \in Nat /\ below(k) + 1 \in 1..n /\ s[below(k) + 1] = k
    OBVIOUS
  <2>1. below(k) \in Nat
    BY <1>2, Smaller
  <2>2. below(k) + 1 \in 1..n /\ s[below(k) + 1] = k
    BY <1>3 DEF SortsUp
  <2> QED
    BY <2>1, <2>2
<1> HIDE DEF below
\* A row whose turn it is, is in the page.
<1>8. ASSUME NEW k \in source[t], offset[t] <= below(k), below(k) < offset[t] + ExportBatch
      PROVE  \E i \in 1..Len(page) : page[i] = k
  <2>1. below(k) + 1 \in DOMAIN s /\ offset[t] < below(k) + 1 /\ below(k) + 1 <= offset[t] + ExportBatch
    BY <1>2, <1>4, <1>7, <1>8
  <2>2. (below(k) + 1) - offset[t] \in 1..Len(page)
    BY <1>6, <2>1 DEF Slices
  <2>3. offset[t] + ((below(k) + 1) - offset[t]) = below(k) + 1
    BY <1>2, <1>7
  <2>4. page[(below(k) + 1) - offset[t]] = k
    BY <1>6, <1>7, <2>2, <2>3 DEF Slices
  <2> QED
    BY <2>2, <2>4
<1>9. ImportTypes' /\ ImportSound' /\ \A u \in Table : ParentDone(u)'
  BY <1>1, ExportLeavesImport
<1>10. ASSUME outfile' \in [Table -> Seq(Key)] PROVE \A u \in Table : Reading(u)' /\ Dealt(u)'
  <2> SUFFICES ASSUME NEW u \in Table PROVE Reading(u)' /\ Dealt(u)'
    OBVIOUS
  <2>1. importing[u] = "no" /\ position[u] = 0 /\ pending[u] = <<>>
    BY <1>1, ExportLeavesImport
  <2> QED
    BY <1>1, <1>10, <2>1, ReadingNothing DEF importVars
<1>11. CASE page = <<>>
  <2>1. exported' = exported \cup {t} /\ UNCHANGED <<outfile, offset>>
    BY <1>11 DEF ExportPage, page
  <2>2. ExportTypes'
    BY <1>1, <2>1 DEF TransferIndInv, ExportTypes
  <2>3. ASSUME t \notin rowsDeleted PROVE steady[t] \subseteq Filed(t)
    <3> SUFFICES ASSUME NEW k \in steady[t] \ Filed(t) PROVE FALSE
      OBVIOUS
    <3>1. k \in source[t] /\ offset[t] <= below(k)
      BY <1>2, <2>3 DEF TransferIndInv, NotPassed, below
    <3>2. Len(page) = 0
      BY <1>11
    <3>3. ~ (below(k) < offset[t] + ExportBatch)
      BY <1>8, <3>1, <3>2
    \* The row at the offset would be in the page.
    <3>4. offset[t] + 1 \in DOMAIN s
      BY <1>2, <1>4, <1>7, <3>1
    <3>5. offset[t] < offset[t] + 1 /\ offset[t] + 1 <= offset[t] + ExportBatch
      BY <1>2
    <3>6. (offset[t] + 1) - offset[t] \in 1..Len(page)
      BY <1>6, <3>4, <3>5 DEF Slices
    <3> QED
      BY <1>2, <3>2, <3>6
  <2>4. ASSUME NEW u \in Table \ rowsDeleted' PROVE NotPassed(u)'
    BY <1>1, <2>1, <2>3 DEF TransferIndInv, NotPassed, Filed
  <2> QED
    BY <1>2, <1>9, <1>10, <2>1, <2>2, <2>4 DEF TransferIndInv
<1>12. CASE page # <<>>
  <2>1. /\ outfile' = [outfile EXCEPT ![t] = @ \o page]
        /\ offset' = [offset EXCEPT ![t] = @ + ExportBatch] /\ exported' = exported
    BY <1>12 DEF ExportPage, page
  <2>2. /\ outfile' \in [Table -> Seq(Key)] /\ outfile'[t] = outfile[t] \o page
        /\ offset' \in [Table -> Nat] /\ offset'[t] = offset[t] + ExportBatch
    BY <1>2, <1>6, <2>1
  <2>3. ExportTypes'
    BY <1>1, <2>1, <2>2 DEF TransferIndInv, ExportTypes
  <2>4. Filed(t) \subseteq Filed(t)' /\ \A i \in 1..Len(page) : page[i] \in Filed(t)'
    <3>1. outfile[t] \in Seq(Key)
      BY <1>2
    <3> DEFINE old == outfile[t]
               new == outfile'[t]
    <3> HIDE DEF old, new
    <3>2. new = old \o page /\ old \in Seq(Key)
      BY <2>2, <3>1 DEF old, new
    <3>3. \A i \in DOMAIN old : i \in DOMAIN new /\ new[i] = old[i]
      BY <1>6, <3>2
    <3>4. \A i \in 1..Len(page) : Len(old) + i \in DOMAIN new /\ new[Len(old) + i] = page[i]
      BY <1>6, <3>2
    <3> QED
      BY <3>3, <3>4 DEF Filed, old, new
  <2>5. ASSUME NEW u \in Table \ rowsDeleted' PROVE NotPassed(u)'
    <3>1. CASE u = t
      <4> SUFFICES ASSUME NEW k \in steady[t], k \notin Filed(t)'
                   PROVE  offset[t] + ExportBatch <= below(k)
        BY <1>1, <2>1, <2>2, <3>1 DEF NotPassed, below
      <4>1. k \in source[t] /\ offset[t] <= below(k)
        BY <1>1, <1>2, <2>4, <3>1 DEF TransferIndInv, NotPassed, below
      <4>2. ~ (below(k) < offset[t] + ExportBatch)
        BY <1>8, <2>4, <4>1
      <4> QED
        BY <1>2, <1>7, <4>1, <4>2
    <3>2. CASE u # t
      <4>1. outfile'[u] = outfile[u] /\ offset'[u] = offset[u] /\ NotPassed(u)
        BY <1>1, <1>2, <2>1, <3>2 DEF TransferIndInv
      <4> QED
        BY <1>1, <2>1, <4>1 DEF NotPassed, Filed
    <3> QED
      BY <3>1, <3>2
  <2> QED
    BY <1>9, <1>10, <2>2, <2>3, <2>5 DEF TransferIndInv
<1> QED
  BY <1>11, <1>12

----------------------------------------------------------------------------
(* The import. *)

LEMMA ImportLeavesExport ==
    ASSUME TransferIndInv, UNCHANGED exportVars
    PROVE  ExportTypes' /\ \A t \in Table \ rowsDeleted' : NotPassed(t)'
BY DEF TransferIndInv, ExportTypes, NotPassed, Filed, exportVars

\* What an import does to its own table.
OfTable(t) ==
    /\ importing[t] \in {"reading", "batch", "single"} /\ early' = early
    /\ \A u \in Table \ {t} :
           /\ importing'[u] = importing[u] /\ position'[u] = position[u] /\ pending'[u] = pending[u]
           /\ target'[u] = target[u] /\ unlucky'[u] = unlucky[u]
           /\ batchSize'[u] = batchSize[u] /\ inserted'[u] = inserted[u]
           /\ conflicts'[u] = conflicts[u]
    /\ target[t] \subseteq target'[t]
    /\ importing'[t] \in {"reading", "batch", "single", "done"}

\* A table that refers to one in the middle of its import is early or waits.
LEMMA OtherTables ==
    ASSUME TransferIndInv, NEW t \in Table, OfTable(t), UNCHANGED exportVars, UNCHANGED found
    PROVE  /\ \A u \in Table : ParentDone(u)'
           /\ \A u \in Table \ {t} :
                  /\ Reading(u)' /\ Dealt(u)' /\ found'[u] \subseteq target'[u]
                  /\ \A k \in target'[u] : HasRowFor(target', u, k)
                  /\ batchSize'[u] > 0
                  /\ inserted'[u] + conflicts'[u] + Len(pending'[u]) = position'[u]
<1>0. outfile' = outfile /\ exported' = exported
  BY DEF exportVars
<1>1. ASSUME NEW u \in Table PROVE ParentDone(u)'
  BY TransferAssumption DEF TransferIndInv, ImportTypes, ParentDone, OfTable, HasParent
<1>2. ASSUME NEW u \in Table \ {t} PROVE Reading(u)'
  BY <1>0 DEF TransferIndInv, Reading, OfTable
<1>3. ASSUME NEW u \in Table \ {t} PROVE Dealt(u)'
  <2>1. Dealt(u) /\ ParentDone(u) /\ Reading(u)
    BY DEF TransferIndInv
  <2>2. CASE HasParent(u) /\ Parent[u] = t
    <3>1. u \in early \/ (importing[u] = "no" /\ position[u] = 0 /\ pending[u] = <<>>)
      BY <2>1, <2>2 DEF ParentDone, OfTable, Reading
    <3>2. early' = early /\ position'[u] = position[u] /\ pending'[u] = pending[u]
      BY DEF OfTable
    <3> QED
      BY <3>1, <3>2 DEF Dealt
  <2>3. CASE ~ (HasParent(u) /\ Parent[u] = t)
    <3>1. \A k : HasRowFor(target', u, k) <=> HasRowFor(target, u, k)
      BY <2>3, TransferAssumption DEF HasRowFor, HasParent, OfTable
    <3>2. /\ early' = early /\ position'[u] = position[u] /\ pending'[u] = pending[u]
          /\ target'[u] = target[u] /\ unlucky'[u] = unlucky[u]
      BY DEF OfTable
    <3> QED
      BY <1>0, <2>1, <3>1, <3>2 DEF Dealt
  <2> QED
    BY <2>2, <2>3
<1>4. ASSUME NEW u \in Table \ {t}
      PROVE  /\ found'[u] \subseteq target'[u] /\ batchSize'[u] > 0
             /\ inserted'[u] + conflicts'[u] + Len(pending'[u]) = position'[u]
             /\ \A k \in target'[u] : HasRowFor(target', u, k)
  <2>1. /\ found[u] \subseteq target[u] /\ batchSize[u] > 0
        /\ inserted[u] + conflicts[u] + Len(pending[u]) = position[u]
        /\ \A k \in target[u] : HasRowFor(target, u, k)
    BY DEF TransferIndInv, ImportSound
  <2>2. \A k : HasRowFor(target, u, k) => HasRowFor(target', u, k)
    BY TransferAssumption DEF HasRowFor, HasParent, OfTable
  <2> QED
    BY <2>1, <2>2 DEF OfTable
<1> QED
  BY <1>1, <1>2, <1>3, <1>4

\* so that it is enough to know of the table itself.
LEMMA OwnTable ==
    ASSUME TransferIndInv, NEW t \in Table, OfTable(t), UNCHANGED exportVars, UNCHANGED found,
           ImportTypes', Reading(t)', Dealt(t)', batchSize'[t] > 0,
           \A k \in target'[t] : HasRowFor(target', t, k),
           inserted'[t] + conflicts'[t] + Len(pending'[t]) = position'[t]
    PROVE  TransferIndInv'
<1>1. ExportTypes' /\ \A u \in Table \ rowsDeleted' : NotPassed(u)'
  BY ImportLeavesExport
<1>2. found[t] \subseteq target[t]
  BY DEF TransferIndInv, ImportSound
<1>3. found'[t] \subseteq target'[t]
  BY <1>2 DEF OfTable
<1>4. ImportSound'
  BY <1>3, OtherTables DEF ImportSound
<1>5. \A u \in Table : Reading(u)' /\ ParentDone(u)' /\ Dealt(u)'
  BY OtherTables
<1> QED
  BY <1>1, <1>4, <1>5 DEF TransferIndInv

LEMMA BeginImportStep ==
    ASSUME TransferIndInv, NEW t \in Table, BeginImport(t)
    PROVE  TransferIndInv'
<1>1. /\ UNCHANGED <<exportVars, found, target, position, pending, attempt, batchSize,
                     lockRetries, inserted, conflicts, unlucky>>
      /\ importing' = [importing EXCEPT ![t] = "reading"] /\ importing[t] = "no" /\ exported = Table
      /\ early' = IF HasParent(t) /\ importing[Parent[t]] # "done" THEN early \cup {t} ELSE early
  BY DEF BeginImport
<1>2. ExportTypes' /\ \A u \in Table \ rowsDeleted' : NotPassed(u)'
  BY <1>1, ImportLeavesExport
<1>3. ImportTypes' /\ ImportSound'
  BY <1>1 DEF TransferIndInv, ImportTypes, ImportSound, HasRowFor
<1>4. ASSUME NEW u \in Table PROVE Reading(u)' /\ ParentDone(u)' /\ Dealt(u)'
  <2>0. outfile' = outfile /\ exported' = exported
    BY <1>1 DEF exportVars
  <2>1. Reading(u) /\ ParentDone(u) /\ Dealt(u) /\ Parent[u] \in Table
    BY TransferAssumption DEF TransferIndInv
  <2>2. importing'[u] = (IF u = t THEN "reading" ELSE importing[u])
    BY <1>1 DEF TransferIndInv, ImportTypes
  <2>3. importing'[Parent[u]] = (IF Parent[u] = t THEN "reading" ELSE importing[Parent[u]])
    BY <1>1, <2>1 DEF TransferIndInv, ImportTypes
  <2>4. Reading(u)'
    BY <1>1, <2>0, <2>1, <2>2 DEF Reading
  <2>5. ParentDone(u)'
    BY <1>1, <2>1, <2>2, <2>3 DEF ParentDone, HasParent
  <2>6. Dealt(u)'
    BY <1>1, <2>0, <2>1 DEF Dealt, HasRowFor
  <2> QED
    BY <2>4, <2>5, <2>6
<1> QED
  BY <1>2, <1>3, <1>4 DEF TransferIndInv

LEMMA ReadBatchStep ==
    ASSUME TransferIndInv, NEW t \in Table, ReadBatch(t)
    PROVE  TransferIndInv'
<1> DEFINE batch == UpcomingRows(t)
<1>1. /\ UNCHANGED <<exportVars, found, target, batchSize, lockRetries, inserted,
                     conflicts, early, unlucky>>
      /\ importing[t] = "reading"
      /\ pending' = [pending EXCEPT ![t] = batch] /\ position' = [position EXCEPT ![t] = @ + Len(batch)]
      /\ importing' = [importing EXCEPT ![t] = IF batch = <<>> THEN "done" ELSE "batch"]
      /\ attempt' = [attempt EXCEPT ![t] = 1]
  BY DEF ReadBatch
<1>2. /\ outfile' = outfile /\ exported' = exported /\ outfile[t] \in Seq(Key)
      /\ position[t] \in Nat /\ batchSize[t] \in Nat /\ batchSize[t] > 0 /\ pending[t] = <<>>
      /\ position[t] <= Len(outfile[t]) /\ Len(outfile[t]) \in Nat
      /\ DOMAIN outfile[t] = 1..Len(outfile[t]) /\ exported = Table
  BY <1>1 DEF TransferIndInv, ExportTypes, ImportTypes, Reading, exportVars
<1>3. batch = Slice(outfile[t], position[t], batchSize[t])
  BY DEF UpcomingRows
<1> HIDE DEF batch
<1>4. batch \in Seq(Key) /\ Slices(batch, outfile[t], position[t], batchSize[t])
  BY <1>2, <1>3, SliceIs
<1>5. ImportTypes'
  <2>1. Len(batch) \in Nat
    BY <1>4 DEF Slices
  <2>2. ImportTypes
    BY DEF TransferIndInv
  <2>3. position' \in [Table -> Nat] /\ pending' \in [Table -> Seq(Key)]
    BY <1>1, <1>2, <1>4, <2>1, <2>2 DEF ImportTypes
  <2>4. /\ attempt' \in [Table -> Nat]
        /\ importing' \in [Table -> {"no", "reading", "batch", "single", "done"}]
    BY <1>1, <2>2 DEF ImportTypes
  <2> QED
    BY <1>1, <2>2, <2>3, <2>4 DEF ImportTypes
<1>6. /\ pending'[t] = batch /\ position'[t] = position[t] + Len(batch)
      /\ importing'[t] = (IF batch = <<>> THEN "done" ELSE "batch")
  BY <1>1 DEF TransferIndInv, ImportTypes
<1>7. OfTable(t)
  BY <1>1, <1>6 DEF OfTable, TransferIndInv, ImportTypes
<1>8. batch = <<>> => position[t] = Len(outfile[t])
  <2> SUFFICES ASSUME batch = <<>>, position[t] < Len(outfile[t]) PROVE FALSE
    BY <1>2
  <2>1. (position[t] + 1) - position[t] \in 1..Len(batch)
    BY <1>2, <1>4 DEF Slices
  <2> QED
    BY <1>2, <2>1
<1>9. Reading(t)'
  <2>1. Len(batch) \in Nat /\ position'[t] <= Len(outfile[t]) /\ Len(batch) <= position'[t]
    BY <1>2, <1>4, <1>6 DEF Slices
  <2>2. \A i \in 1..Len(batch) : batch[i] = outfile[t][position'[t] - Len(batch) + i]
    <3>1. position'[t] - Len(batch) = position[t]
      BY <1>2, <1>6, <2>1
    <3> QED
      BY <1>4, <3>1 DEF Slices
  <2>3. batch = <<>> => position'[t] = Len(outfile[t])
    BY <1>2, <1>6, <1>8
  <2> QED
    BY <1>2, <1>6, <2>1, <2>2, <2>3 DEF Reading
<1>10. Dealt(t)'
  <2>1. position'[t] - Len(pending'[t]) = position[t] - Len(pending[t])
    BY <1>2, <1>4, <1>6 DEF Slices
  <2>2. Dealt(t)
    BY DEF TransferIndInv
  <2> QED
    BY <1>1, <1>2, <2>1, <2>2 DEF Dealt, HasRowFor
<1>11. /\ batchSize'[t] > 0 /\ \A k \in target'[t] : HasRowFor(target', t, k)
       /\ inserted'[t] + conflicts'[t] + Len(pending'[t]) = position'[t]
  <2>1. /\ batchSize[t] > 0 /\ \A k \in target[t] : HasRowFor(target, t, k)
        /\ inserted[t] + conflicts[t] + Len(pending[t]) = position[t]
        /\ inserted[t] \in Int /\ conflicts[t] \in Int
    BY DEF TransferIndInv, ImportSound, ImportTypes
  <2>2. inserted[t] + conflicts[t] + Len(batch) = position'[t]
    BY <1>2, <1>4, <1>6, <2>1 DEF Slices
  <2> QED
    BY <1>1, <1>6, <2>1, <2>2 DEF HasRowFor
<1> QED
  BY <1>1, <1>5, <1>7, <1>9, <1>10, <1>11, OwnTable

LEMMA BatchGivesUp ==
    ASSUME TransferIndInv, NEW t \in Table, BatchLocked(t) \/ BatchFails(t)
    PROVE  TransferIndInv'
<1>1. /\ UNCHANGED <<exportVars, found, target, position, pending, batchSize, inserted,
                     conflicts, early, unlucky>>
      /\ importing[t] = "batch"
      /\ importing' = importing \/ importing' = [importing EXCEPT ![t] = "single"]
  BY DEF BatchLocked, BatchFails
<1>2. /\ attempt' = attempt \/ attempt' = [attempt EXCEPT ![t] = @ + 1]
      /\ lockRetries' = lockRetries \/ lockRetries' = lockRetries + 1
  BY DEF BatchLocked, BatchFails
<1>3. importing' \in [Table -> {"no", "reading", "batch", "single", "done"}]
      /\ importing'[t] \in {"batch", "single"}
      /\ \A u \in Table \ {t} : importing'[u] = importing[u]
  BY <1>1 DEF TransferIndInv, ImportTypes
<1>4. ImportTypes'
  <2>1. ImportTypes
    BY DEF TransferIndInv
  <2>2. attempt' \in [Table -> Nat] /\ lockRetries' \in Nat
    <3>1. attempt \in [Table -> Nat] /\ lockRetries \in Nat
      BY <2>1 DEF ImportTypes
    <3>2. attempt' = [attempt EXCEPT ![t] = @ + 1] => attempt' \in [Table -> Nat]
      BY <3>1
    <3> QED
      BY <1>2, <3>1, <3>2
  <2> QED
    BY <1>1, <1>3, <2>1, <2>2 DEF ImportTypes
<1>5. OfTable(t)
  BY <1>1, <1>3 DEF OfTable
<1>6. Reading(t)' /\ Dealt(t)'
  BY <1>1, <1>3 DEF TransferIndInv, Reading, Dealt, HasRowFor, exportVars
<1>7. /\ batchSize'[t] > 0 /\ \A k \in target'[t] : HasRowFor(target', t, k)
      /\ inserted'[t] + conflicts'[t] + Len(pending'[t]) = position'[t]
  BY <1>1 DEF TransferIndInv, ImportSound, HasRowFor
<1> QED
  BY <1>1, <1>4, <1>5, <1>6, <1>7, OwnTable

LEMMA EndBatchCounts ==
    ASSUME ImportTypes, NEW t \in Table, NEW batch \in Nat, NEW good \in Int, NEW locks \in Nat,
           EndBatch(t, batch, good, locks)
    PROVE  /\ inserted' \in [Table -> Int] /\ conflicts' \in [Table -> Int]
           /\ inserted'[t] + conflicts'[t] = inserted[t] + conflicts[t] + batch
           /\ importing' = [importing EXCEPT ![t] = "reading"]
           /\ batchSize' \in [Table -> Nat \ {0}] /\ lockRetries' \in Nat
           /\ \A u \in Table \ {t} : inserted'[u] = inserted[u] /\ conflicts'[u] = conflicts[u]
                                     /\ batchSize'[u] = batchSize[u]
<1>1. /\ batchSize \in [Table -> Nat \ {0}] /\ inserted \in [Table -> Int]
      /\ conflicts \in [Table -> Int]
  BY DEF ImportTypes
<1>2. Adapted(t, locks) \in Nat \ {0}
  <2> DEFINE size == batchSize[t]
  <2>1. size \in Nat /\ size > 0
    BY <1>1
  <2>2. ImportBatch \in Nat /\ ImportBatch > 0 /\ MinBatch \in Nat /\ MinBatch > 0
    BY TransferAssumption
  <2>3. size \div 2 \in Nat /\ (size * 3) \div 2 \in Nat /\ (size * 3) \div 2 > 0
    BY <2>1
  <2> QED
    BY <2>1, <2>2, <2>3 DEF Adapted
<1>3. /\ inserted' = [inserted EXCEPT ![t] = @ + good]
      /\ conflicts' = [conflicts EXCEPT ![t] = @ + batch - good]
      /\ importing' = [importing EXCEPT ![t] = "reading"]
      /\ batchSize' = batchSize \/ batchSize' = [batchSize EXCEPT ![t] = Adapted(t, locks)]
      /\ lockRetries' \in {0, locks}
  BY DEF EndBatch
<1>4. inserted'[t] = inserted[t] + good /\ conflicts'[t] = conflicts[t] + batch - good
  BY <1>1, <1>3
<1>5. inserted' \in [Table -> Int] /\ conflicts' \in [Table -> Int]
  BY <1>1, <1>3
<1>6. inserted'[t] + conflicts'[t] = inserted[t] + conflicts[t] + batch
  BY <1>1, <1>4
<1>7. batchSize' \in [Table -> Nat \ {0}]
  BY <1>1, <1>2, <1>3
<1>8. \A u \in Table \ {t} : inserted'[u] = inserted[u] /\ conflicts'[u] = conflicts[u]
                             /\ batchSize'[u] = batchSize[u]
  BY <1>1, <1>3
<1> QED
  BY <1>3, <1>5, <1>6, <1>7, <1>8

\* Both ways to insert a batch: the rows in some places are let in, and the
\* others cannot be, or met a lock.
LEMMA BatchIn ==
    ASSUME TransferIndInv, NEW t \in Table, importing[t] \in {"batch", "single"},
           NEW G, NEW L, G \subseteq DOMAIN pending[t], L \subseteq DOMAIN pending[t],
           \A i \in G : Insertable(t, pending[t][i]),
           \A i \in DOMAIN pending[t] \ (G \cup L) : ~Insertable(t, pending[t][i]),
           NEW good \in Int, NEW locks \in Nat, EndBatch(t, Len(pending[t]), good, locks),
           target' = [target EXCEPT ![t] = @ \cup {pending[t][i] : i \in G}],
           unlucky' = [unlucky EXCEPT ![t] = @ \cup {pending[t][i] : i \in L}],
           pending' = [pending EXCEPT ![t] = <<>>],
           UNCHANGED <<exportVars, parallel, found, position, attempt, early>>
    PROVE  TransferIndInv'
<1> DEFINE batch == pending[t]
<1>1. /\ batch \in Seq(Key) /\ Len(batch) \in Nat /\ DOMAIN batch = 1..Len(batch)
      /\ target \in [Table -> SUBSET Key] /\ unlucky \in [Table -> SUBSET Key]
      /\ pending \in [Table -> Seq(Key)] /\ ImportTypes
      /\ importing \in [Table -> {"no", "reading", "batch", "single", "done"}]
  BY DEF TransferIndInv, ImportTypes
<1>2. /\ inserted' \in [Table -> Int] /\ conflicts' \in [Table -> Int]
      /\ inserted'[t] + conflicts'[t] = inserted[t] + conflicts[t] + Len(batch)
      /\ importing' = [importing EXCEPT ![t] = "reading"]
      /\ batchSize' \in [Table -> Nat \ {0}] /\ lockRetries' \in Nat
      /\ \A u \in Table \ {t} : inserted'[u] = inserted[u] /\ conflicts'[u] = conflicts[u]
                                /\ batchSize'[u] = batchSize[u]
  BY <1>1, EndBatchCounts
<1>3. /\ target'[t] = target[t] \cup {batch[i] : i \in G} /\ target' \in [Table -> SUBSET Key]
      /\ \A u \in Table \ {t} : target'[u] = target[u]
  BY <1>1
<1>4. /\ unlucky'[t] = unlucky[t] \cup {batch[i] : i \in L} /\ unlucky' \in [Table -> SUBSET Key]
      /\ \A u \in Table \ {t} : unlucky'[u] = unlucky[u]
  BY <1>1
<1>5. /\ pending'[t] = <<>> /\ pending' \in [Table -> Seq(Key)]
      /\ \A u \in Table \ {t} : pending'[u] = pending[u]
  BY <1>1
<1>6. importing'[t] = "reading" /\ importing' \in [Table -> {"no", "reading", "batch", "single", "done"}]
      /\ \A u \in Table \ {t} : importing'[u] = importing[u]
  BY <1>1, <1>2
<1>7. ImportTypes'
  <2>1. position' = position /\ attempt' = attempt
    OBVIOUS
  <2>2. position \in [Table -> Nat] /\ attempt \in [Table -> Nat]
    BY <1>1 DEF ImportTypes
  <2> QED
    BY <1>2, <1>3, <1>4, <1>5, <1>6, <2>1, <2>2 DEF ImportTypes
<1>8. OfTable(t)
  BY <1>2, <1>3, <1>4, <1>5, <1>6 DEF OfTable
<1>9. \A k : HasRowFor(target', t, k) <=> HasRowFor(target, t, k)
  BY <1>3, TransferAssumption DEF HasRowFor, HasParent
<1>10. Reading(t) /\ Dealt(t) /\ position[t] \in Nat /\ outfile' = outfile /\ position' = position
       /\ early' = early /\ exported' = exported
  BY <1>1 DEF TransferIndInv, ImportTypes, exportVars
<1>11. Reading(t)'
  BY <1>5, <1>6, <1>10 DEF Reading
<1>12. Dealt(t)'
  <2> SUFFICES ASSUME NEW i \in 1..position[t]
               PROVE  \/ outfile[t][i] \in target'[t] \cup unlucky'[t]
                      \/ t \in early \/ ~HasRowFor(target, t, outfile[t][i])
    <3>1. position'[t] - Len(pending'[t]) = position[t]
      BY <1>5, <1>10
    <3> QED
      BY <1>9, <1>10, <3>1 DEF Dealt
  <2>1. CASE i <= position[t] - Len(batch)
    <3>1. i \in 1..position[t] - Len(batch)
      BY <1>1, <1>10, <2>1
    <3> QED
      BY <1>3, <1>4, <1>10, <3>1 DEF Dealt
  <2>2. CASE i > position[t] - Len(batch)
    <3> DEFINE j == i - (position[t] - Len(batch))
    <3>1. j \in 1..Len(batch) /\ position[t] - Len(batch) + j = i
      BY <1>1, <1>10, <2>2 DEF Reading
    <3> HIDE DEF j
    <3>2. batch[j] = outfile[t][i]
      BY <1>10, <3>1 DEF Reading
    <3>3. j \in G \/ j \in L \/ ~Insertable(t, batch[j])
      BY <1>1, <3>1
    <3> QED
      BY <1>3, <1>4, <3>2, <3>3 DEF Insertable
  <2> QED
    BY <1>1, <1>10, <2>1, <2>2
<1>13. \A k \in target'[t] : HasRowFor(target', t, k)
  <2>1. \A k \in target[t] : HasRowFor(target, t, k)
    BY DEF TransferIndInv, ImportSound
  <2> QED
    BY <1>3, <1>9, <2>1 DEF Insertable
<1>14. inserted'[t] + conflicts'[t] + Len(pending'[t]) = position'[t]
  <2>1. inserted[t] + conflicts[t] + Len(batch) = position[t]
    BY DEF TransferIndInv, ImportSound
  <2>2. Len(pending'[t]) = 0 /\ inserted'[t] \in Int /\ conflicts'[t] \in Int
    BY <1>2, <1>5
  <2> QED
    BY <1>2, <1>10, <2>1, <2>2
<1>15. batchSize'[t] > 0
  BY <1>2
<1> QED
  BY <1>7, <1>8, <1>11, <1>12, <1>13, <1>14, <1>15, OwnTable

LEMMA ExecuteManyStep ==
    ASSUME TransferIndInv, NEW t \in Table, ExecuteMany(t)
    PROVE  TransferIndInv'
<1> DEFINE L == {}
           G == DOMAIN pending[t]
           locks == IF attempt[t] > 1 /\ lockRetries > 0 THEN lockRetries - 1 ELSE lockRetries
<1>1. /\ importing[t] = "batch" /\ \A i \in G : Insertable(t, pending[t][i])
      /\ target' = [target EXCEPT ![t] = @ \cup {pending[t][i] : i \in G}]
      /\ pending' = [pending EXCEPT ![t] = <<>>]
      /\ EndBatch(t, Len(pending[t]), Len(pending[t]), locks)
      /\ UNCHANGED <<exportVars, parallel, found, position, attempt, early, unlucky>>
  BY DEF ExecuteMany
<1>2. Len(pending[t]) \in Nat /\ locks \in Nat /\ attempt[t] \in Nat
  BY DEF TransferIndInv, ImportTypes
<1>3. unlucky' = [unlucky EXCEPT ![t] = @ \cup {pending[t][i] : i \in L}]
  <2>1. unlucky \in [Table -> SUBSET Key]
    BY DEF TransferIndInv, ImportTypes
  <2>2. {pending[t][i] : i \in L} = {}
    OBVIOUS
  <2> QED
    BY <1>1, <2>1, <2>2
<1>4. G \subseteq DOMAIN pending[t] /\ L \subseteq DOMAIN pending[t]
      /\ \A i \in DOMAIN pending[t] \ (G \cup L) : ~Insertable(t, pending[t][i])
  OBVIOUS
<1> HIDE DEF L, G, locks
<1>5. Len(pending[t]) \in Int /\ importing[t] \in {"batch", "single"}
  BY <1>1, <1>2
<1>6. UNCHANGED <<exportVars, parallel, found, position, attempt, early>>
  BY <1>1
<1>7. EndBatch(t, Len(pending[t]), Len(pending[t]), locks) /\ locks \in Nat
  BY <1>1, <1>2
<1>8. /\ target' = [target EXCEPT ![t] = @ \cup {pending[t][i] : i \in G}]
      /\ pending' = [pending EXCEPT ![t] = <<>>] /\ \A i \in G : Insertable(t, pending[t][i])
  BY <1>1
<1> QED
  BY <1>3, <1>4, <1>5, <1>6, <1>7, <1>8, BatchIn

LEMMA InsertSinglesStep ==
    ASSUME TransferIndInv, NEW t \in Table, InsertSingles(t)
    PROVE  TransferIndInv'
<1>1. pending[t] \in Seq(Key) /\ Len(pending[t]) \in Nat /\ DOMAIN pending[t] = 1..Len(pending[t])
      /\ lockRetries \in Nat
  BY DEF TransferIndInv, ImportTypes
<1>2. PICK L \in SUBSET DOMAIN pending[t] :
        LET G == {i \in DOMAIN pending[t] \ L : Insertable(t, pending[t][i])}
        IN  /\ target' = [target EXCEPT ![t] = @ \cup {pending[t][i] : i \in G}]
            /\ unlucky' = [unlucky EXCEPT ![t] = @ \cup {pending[t][i] : i \in L}]
            /\ EndBatch(t, Len(pending[t]), Cardinality(G), lockRetries)
  BY DEF InsertSingles
<1> DEFINE G == {i \in DOMAIN pending[t] \ L : Insertable(t, pending[t][i])}
<1>3. G \in SUBSET (1..Len(pending[t])) /\ IsFiniteSet(1..Len(pending[t]))
  BY <1>1, CountUpTo
<1>4. /\ L \subseteq DOMAIN pending[t] /\ G \subseteq DOMAIN pending[t]
      /\ \A i \in G : Insertable(t, pending[t][i])
      /\ \A i \in DOMAIN pending[t] \ (G \cup L) : ~Insertable(t, pending[t][i])
  OBVIOUS
<1>5. /\ target' = [target EXCEPT ![t] = @ \cup {pending[t][i] : i \in G}]
      /\ EndBatch(t, Len(pending[t]), Cardinality(G), lockRetries)
  BY <1>2
<1>6. /\ importing[t] = "single" /\ pending' = [pending EXCEPT ![t] = <<>>]
      /\ UNCHANGED <<exportVars, parallel, found, position, attempt, early>>
  BY DEF InsertSingles
<1> HIDE DEF G
<1>7. Cardinality(G) \in Int
  <2>1. IsFiniteSet(G)
    BY <1>3, FS_Subset
  <2> QED
    BY <2>1, FS_CardinalityType
<1> QED
  BY <1>1, <1>2, <1>4, <1>5, <1>6, <1>7, BatchIn

----------------------------------------------------------------------------
LEMMA TransferStep == TransferIndInv /\ [TransferNext]_transferVars => TransferIndInv'
<1> SUFFICES ASSUME TransferIndInv, [TransferNext]_transferVars PROVE TransferIndInv'
  OBVIOUS
<1>1. CASE UNCHANGED transferVars
  <2>1. UNCHANGED <<exportVars, importVars, found>>
    BY <1>1 DEF transferVars
  <2>2. ExportTypes' /\ \A t \in Table \ rowsDeleted' : NotPassed(t)'
    BY <2>1, ImportLeavesExport
  <2>3. ImportTypes' /\ ImportSound'
    BY <2>1 DEF TransferIndInv, ImportTypes, ImportSound, HasRowFor, importVars
  <2>4. \A t \in Table : Reading(t)' /\ ParentDone(t)' /\ Dealt(t)'
    BY <2>1 DEF TransferIndInv, Reading, ParentDone, Dealt, HasRowFor, importVars, exportVars
  <2> QED
    BY <2>2, <2>3, <2>4 DEF TransferIndInv
<1>2. ASSUME NEW t \in Table,
             \/ ExportPage(t) \/ \E k \in Key : InsertRow(t, k) \/ DeleteRow(t, k)
             \/ BeginImport(t) \/ ReadBatch(t) \/ ExecuteMany(t) \/ BatchLocked(t)
             \/ BatchFails(t) \/ InsertSingles(t)
      PROVE  TransferIndInv'
  <2>1. ASSUME NEW k \in Key, InsertRow(t, k) \/ DeleteRow(t, k) PROVE TransferIndInv'
    BY <2>1, ChangesStep
  <2>2. CASE ExportPage(t)
    BY <2>2, ExportStep
  <2>3. CASE BeginImport(t)
    BY <2>3, BeginImportStep
  <2>4. CASE ReadBatch(t)
    BY <2>4, ReadBatchStep
  <2>5. CASE ExecuteMany(t)
    BY <2>5, ExecuteManyStep
  <2>6. CASE BatchLocked(t) \/ BatchFails(t)
    BY <2>6, BatchGivesUp
  <2>7. CASE InsertSingles(t)
    BY <2>7, InsertSinglesStep
  <2> QED
    BY <1>2, <2>1, <2>2, <2>3, <2>4, <2>5, <2>6, <2>7
<1> QED
  BY <1>1, <1>2 DEF TransferNext

LEMMA TransferIndInvImplies == TransferIndInv => TransferInv
<1> SUFFICES ASSUME TransferIndInv PROVE TransferInv
  OBVIOUS
<1>1. ExportKeeps
  BY DEF TransferIndInv, ExportKeeps, NotPassed, ExportTypes
<1>2. ImportKeeps
  <2> SUFFICES ASSUME NEW t \in Table, importing[t] = "done",
                      NEW k \in Filed(t) \ (target[t] \cup unlucky[t])
               PROVE  t \in early \/ ~HasRowFor(target, t, k)
    BY DEF ImportKeeps
  <2>1. outfile[t] \in Seq(Key) /\ Reading(t) /\ Dealt(t)
    BY DEF TransferIndInv, ExportTypes
  <2>2. PICK i \in DOMAIN outfile[t] : outfile[t][i] = k
    BY DEF Filed
  <2>3. i \in 1..position[t] - Len(pending[t])
    BY <2>1, <2>2 DEF Reading
  <2> QED
    BY <2>1, <2>2, <2>3 DEF Dealt
<1> QED
  BY <1>1, <1>2 DEF TransferIndInv, TransferInv

\* Rows that are in their table during the whole export are in its file, unless
\* some were deleted, and each row of a file is in the target in the end, unless
\* it refers to a row that is missing or met a lock; nothing that was there is
\* lost (core/db_manager.py, db_cli.py).
THEOREM TransfersAreSound == TransferSpec => []TransferInv
<1>1. TransferIndInv /\ [TransferNext]_transferVars => TransferIndInv'
  BY TransferStep
<1> QED
  BY TransferInitInv, <1>1, TransferIndInvImplies, PTL DEF TransferSpec
=============================================================================
