---------------------------- MODULE StreamProofs ----------------------------
(***************************************************************************)
(* Proofs about requests for streams: the scrape lock, for any clients,    *)
(* clocks, TTL and precision (ScrapeLock), the scrapes under it            *)
(* (ScrapeRequest), which file of a torrent is played (LinkSelection), the *)
(* connections through the proxy (StreamProxy) and what is known of the    *)
(* debrid services (DebridAvailability).                                   *)
(***************************************************************************)
EXTENDS ScrapeRequest, StreamAnswer, LinkSelection, StreamProxy, DebridAvailability,
        Lemmas

----------------------------------------------------------------------------
(* What the precision of a REAL column does to a time. *)

\* A later time is never stored below an earlier one, however the column
\* rounds, ties included.
LEMMA StoredMonotone ==
    ASSUME NEW a \in Nat, NEW b \in Nat, a <= b
    PROVE  /\ Stored(a) \in Nat
           /\ Stored(a) <= Stored(b)
BY QuantumAssumption, NearestMonotone DEF Stored, Nearest

----------------------------------------------------------------------------
(* Arithmetic of the expiry. *)

\* A later attempt never asks for an earlier expiry.
LEMMA ExpiryMonotone ==
    ASSUME NEW a \in Nat, NEW b \in Nat, a <= b
    PROVE  /\ ExpiryFrom(a) \in Nat
           /\ ExpiryFrom(a) <= ExpiryFrom(b)
<1> DEFINE p == (a + TTL) \div Second
           q == (b + TTL) \div Second
<1>1. TTL \in Nat /\ Second \in Nat \ {0}
  BY LockAssumption
<1>2. p \in Nat /\ q \in Nat /\ p <= q
  BY <1>1, DivMonotone
<1> HIDE DEF p, q
<1>3. p * Second \in Nat /\ p * Second <= q * Second
  BY <1>1, <1>2
<1> QED
  BY <1>3 DEF ExpiryFrom, p, q

----------------------------------------------------------------------------
(* Type correctness. *)

LEMMA InitTypeOK == Init => TypeOK
  BY LockAssumption DEF Init, TypeOK, NoWait, Waiting, Releasing

\* Every step keeps every variable in its type.
LEMMA NextTypeOK == TypeOK /\ [Next]_lockVars => TypeOK'
<1> SUFFICES ASSUME TypeOK, [Next]_lockVars
             PROVE  TypeOK'
  OBVIOUS
<1> USE LockAssumption DEF TypeOK, Goto, Waiting, Releasing
<1>1. ASSUME NEW i \in Client
      PROVE  Now(i) \in Nat
  BY DEF Now
<1>2. ASSUME NEW i \in Client
      PROVE  /\ Stored(ExpiryFrom(stamp[i])) \in Nat
             /\ ExpiryFrom(stamp[i]) \in Nat
  BY ExpiryMonotone, StoredMonotone
<1>3. ASSUME NEW i \in Client, NEW w \in WaitTimeouts[i], BeginAcquire(i, w)
      PROVE  TypeOK'
  BY <1>1, <1>3 DEF BeginAcquire
<1>4. ASSUME NEW i \in Client, Upsert(i)
      PROVE  TypeOK'
  BY <1>2, <1>4 DEF Upsert
<1>5. ASSUME NEW i \in Client, Granted(i)
      PROVE  TypeOK'
  BY <1>2, <1>5 DEF Granted
<1>6. ASSUME NEW i \in Client, Refused(i)
      PROVE  TypeOK'
  BY <1>6 DEF Refused
<1>7. ASSUME NEW i \in Client, Retry(i)
      PROVE  TypeOK'
  BY <1>1, <1>7 DEF Retry
<1>8. ASSUME NEW i \in Client, BeginRelease(i)
      PROVE  TypeOK'
  BY <1>8 DEF BeginRelease
<1>9. ASSUME NEW i \in Client, Delete(i)
      PROVE  TypeOK'
  BY <1>9 DEF Delete
<1>10. ASSUME NEW i \in Client, Released(i)
       PROVE  TypeOK'
  BY <1>10 DEF Released
<1>11. ASSUME NEW i \in Client, Fail(i)
       PROVE  TypeOK'
  BY <1>11 DEF Fail
<1>12. ASSUME NEW i \in Client, Crash(i)
       PROVE  TypeOK'
  BY <1>12 DEF Crash
<1>13. CASE Cleanup
  BY <1>13 DEF Cleanup
<1>14. CASE Tick
  BY <1>14 DEF Tick
<1>15. CASE UNCHANGED lockVars
  BY <1>15 DEF lockVars
<1> QED
  BY <1>3, <1>4, <1>5, <1>6, <1>7, <1>8, <1>9, <1>10, <1>11, <1>12, <1>13,
     <1>14, <1>15
     DEF Next, ClientStep

\* TypeOK holds in every reachable state.
THEOREM TypeCorrect == Spec => []TypeOK
  BY InitTypeOK, NextTypeOK, PTL DEF Spec

----------------------------------------------------------------------------
(* The lease is honoured. *)

LEMMA InitLeaseInv == Init => LeaseInv
<1> SUFFICES ASSUME Init
             PROVE  LeaseInv
  OBVIOUS
<1>1. Protected = {}
  BY DEF Init, Protected
<1>2. ASSUME NEW i \in Client
      PROVE  /\ stamp[i] = 0 /\ lease[i] = 0 /\ pc[i] = "idle"
             /\ Now(i) \in Nat
             /\ ExpiryFrom(stamp[i]) \in Nat
  BY LockAssumption, ExpiryMonotone DEF Init, Now
<1> QED
  BY <1>1, <1>2 DEF LeaseInv, LeaseHonoured, Releasing

\* What the conversions give for the times of a state.
LEMMA StateTimes ==
    ASSUME TypeOK, LeaseInv, NEW i \in Client
    PROVE  /\ Now(i) \in Nat /\ LatestNow \in Nat /\ Now(i) <= LatestNow
           /\ stamp[i] \in Nat /\ stamp[i] <= LatestNow
           /\ lease[i] \in Nat /\ Stored(lease[i]) \in Nat
           /\ ExpiryFrom(stamp[i]) \in Nat
           /\ Stored(ExpiryFrom(stamp[i])) \in Nat
           /\ lease[i] <= ExpiryFrom(stamp[i])
           /\ Stored(lease[i]) <= Stored(ExpiryFrom(stamp[i]))
           /\ ExpiryFrom(stamp[i]) <= ExpiryFrom(Now(i))
<1>1. Now(i) \in Nat /\ LatestNow \in Nat /\ Now(i) <= LatestNow
  BY LockAssumption DEF TypeOK, Now, LatestNow
<1>2. stamp[i] \in Nat /\ lease[i] \in Nat /\ stamp[i] <= Now(i)
  BY DEF TypeOK, LeaseInv
<1>3. /\ ExpiryFrom(stamp[i]) \in Nat
      /\ ExpiryFrom(stamp[i]) <= ExpiryFrom(Now(i))
  BY <1>1, <1>2, ExpiryMonotone
<1>4. lease[i] <= ExpiryFrom(stamp[i])
  BY DEF LeaseInv
<1>5. /\ Stored(lease[i]) \in Nat
      /\ Stored(lease[i]) <= Stored(ExpiryFrom(stamp[i]))
      /\ Stored(ExpiryFrom(stamp[i])) \in Nat
  BY <1>2, <1>3, <1>4, StoredMonotone
<1> QED
  BY <1>1, <1>2, <1>3, <1>4, <1>5

\* A promise not yet expired, seen or not, keeps everybody else's upsert out.
LEMMA NoSteal ==
    ASSUME TypeOK, LeaseInv, NEW i \in Client, NEW j \in Client,
           NEW t \in Nat, LatestNow <= t, rowOwner = j,
           rowExpires >= Stored(t), i # j
    PROVE  ~ (rowOwner \in {NoClient, i} \/ rowExpires < Stored(stamp[i]))
<1>1. stamp[i] \in Nat /\ stamp[i] <= t
  BY StateTimes
<1>2. Stored(stamp[i]) \in Nat /\ Stored(stamp[i]) <= Stored(t)
  BY <1>1, StoredMonotone
<1>3. Stored(t) \in Nat /\ rowExpires \in Nat
  BY StoredMonotone DEF TypeOK
<1>4. j # NoClient
  BY LockAssumption
<1> QED
  BY <1>2, <1>3, <1>4

\* Every step preserves the strengthened invariant.
LEMMA NextLeaseInv == TypeOK /\ LeaseInv /\ [Next]_lockVars => LeaseInv'
<1> SUFFICES ASSUME TypeOK, LeaseInv, [Next]_lockVars
             PROVE  LeaseInv'
  OBVIOUS
<1> USE DEF Goto, Releasing
<1>1. TypeOK'
  BY NextTypeOK
<1> DEFINE Promise(k) == lease[k] # 0 /\ LatestNow <= lease[k]
           Unseen(k) == /\ pc[k] = "reply" /\ reply[k]
                        /\ LatestNow <= ExpiryFrom(stamp[k])
           Clauses(k) ==
              /\ stamp[k] <= Now(k)
              /\ lease[k] <= ExpiryFrom(stamp[k])
              /\ pc[k] \in Releasing \cup {"crashed"} => lease[k] = 0
              /\ Promise(k) =>
                    rowOwner = k /\ rowExpires >= Stored(lease[k])
              /\ Unseen(k) =>
                    rowOwner = k /\ rowExpires >= Stored(ExpiryFrom(stamp[k]))
<1>2. ASSUME NEW k \in Client PROVE Clauses(k)
  BY DEF LeaseInv, LeaseHonoured, Protected
<1>3. SUFFICES ASSUME NEW k \in Client PROVE Clauses(k)'
  BY DEF LeaseInv, LeaseHonoured, Protected
<1>4. /\ Clauses(k)
      /\ Now(k) \in Nat /\ LatestNow \in Nat /\ Now(k) <= LatestNow
      /\ stamp[k] \in Nat /\ lease[k] \in Nat
      /\ ExpiryFrom(stamp[k]) \in Nat
      /\ Stored(lease[k]) <= Stored(ExpiryFrom(stamp[k]))
      /\ ExpiryFrom(stamp[k]) <= ExpiryFrom(Now(k))
      /\ ExpiryFrom(Now(k)) \in Nat
  BY <1>2, StateTimes, ExpiryMonotone
<1>5. ASSUME NEW i \in Client, NEW w \in WaitTimeouts[i], BeginAcquire(i, w)
      PROVE  Clauses(k)'
  BY <1>4, <1>5 DEF BeginAcquire, TypeOK, Now, LatestNow
<1>6. ASSUME NEW i \in Client, Upsert(i)
      PROVE  Clauses(k)'
  <2> DEFINE free == \/ rowOwner \in {NoClient, i}
                     \/ rowExpires < Stored(stamp[i])
  <2>1. UNCHANGED <<clock, stamp, lease>> /\ pc'[i] = "reply"
    BY <1>6 DEF Upsert, TypeOK
  <2>2. CASE i = k
    <3>1. CASE free
      <4>1. rowOwner' = k /\ rowExpires' = Stored(ExpiryFrom(stamp[k]))
        BY <1>6, <2>2, <3>1 DEF Upsert
      <4>2. rowExpires' \in Nat /\ Stored(lease[k]) \in Nat
        BY <1>1, StateTimes DEF TypeOK
      <4> QED
        BY <1>4, <2>1, <2>2, <4>1, <4>2 DEF Now, LatestNow
    <3>2. CASE ~free
      <4>1. rowOwner' = rowOwner /\ rowOwner # k /\ ~reply'[k]
        BY <1>6, <2>2, <3>2 DEF Upsert, TypeOK
      <4>2. ~Promise(k)
        BY <1>4, <4>1
      <4> QED
        BY <1>4, <2>1, <2>2, <4>1, <4>2 DEF Now, LatestNow
    <3> QED
      BY <3>1, <3>2
  <2>3. CASE i # k
    <3>1. pc'[k] = pc[k] /\ reply'[k] = reply[k]
      BY <1>6, <2>3 DEF Upsert, TypeOK
    <3>2. (Promise(k) \/ Unseen(k)) => ~free
      BY <1>4, <2>3, NoSteal
    <3>3. ~free => UNCHANGED <<rowOwner, rowExpires>>
      BY <1>6 DEF Upsert
    <3> QED
      BY <1>4, <2>1, <3>1, <3>2, <3>3 DEF Now, LatestNow
  <2> QED
    BY <2>2, <2>3
<1>7. ASSUME NEW i \in Client, Granted(i)
      PROVE  Clauses(k)'
  <2>1. UNCHANGED <<clock, rowOwner, rowExpires, stamp>>
    BY <1>7 DEF Granted
  <2>2. CASE i = k
    <3>1. Unseen(k) <=> LatestNow <= ExpiryFrom(stamp[k])
      BY <1>7, <2>2 DEF Granted
    <3>2. lease'[k] = ExpiryFrom(stamp[k]) /\ pc'[k] = "idle"
      BY <1>7, <2>2 DEF Granted, TypeOK
    <3> QED
      BY <1>4, <2>1, <3>1, <3>2 DEF Now, LatestNow
  <2>3. CASE i # k
    <3>1. /\ pc'[k] = pc[k] /\ reply'[k] = reply[k] /\ lease'[k] = lease[k]
      BY <1>7, <2>3 DEF Granted, TypeOK
    <3> QED
      BY <1>4, <2>1, <3>1 DEF Now, LatestNow
  <2> QED
    BY <2>2, <2>3
<1>8. ASSUME NEW i \in Client, Refused(i)
      PROVE  Clauses(k)'
  BY <1>4, <1>8 DEF Refused, TypeOK, Now, LatestNow
<1>9. ASSUME NEW i \in Client, Retry(i)
      PROVE  Clauses(k)'
  BY <1>4, <1>9 DEF Retry, TypeOK, Now, LatestNow
<1>10. ASSUME NEW i \in Client, BeginRelease(i)
      PROVE  Clauses(k)'
  BY <1>4, <1>10 DEF BeginRelease, TypeOK, Now, LatestNow
<1>11. ASSUME NEW i \in Client, Delete(i)
      PROVE  Clauses(k)'
  BY <1>4, <1>11 DEF Delete, TypeOK, Now, LatestNow
<1>12. ASSUME NEW i \in Client, Released(i)
      PROVE  Clauses(k)'
  BY <1>4, <1>12 DEF Released, TypeOK, Now, LatestNow
<1>13. ASSUME NEW i \in Client, Fail(i)
      PROVE  Clauses(k)'
  BY <1>4, <1>13 DEF Fail, TypeOK, Now, LatestNow
<1>14. ASSUME NEW i \in Client, Crash(i)
      PROVE  Clauses(k)'
  BY <1>4, <1>14 DEF Crash, TypeOK, Now, LatestNow
<1>15. CASE Cleanup
  <2>1. UNCHANGED <<clock, pc, stamp, reply, lease>>
    BY <1>15 DEF Cleanup
  <2>2. rowExpires < Stored(LatestNow) /\ rowExpires \in Nat
    BY <1>15 DEF Cleanup, TypeOK
  <2>3. ASSUME NEW t \in Nat, LatestNow <= t
        PROVE  ~ (rowExpires >= Stored(t))
    <3>1. /\ Stored(LatestNow) \in Nat /\ Stored(t) \in Nat
          /\ Stored(LatestNow) <= Stored(t)
      BY <1>4, <2>3, StoredMonotone
    <3> QED
      BY <2>2, <3>1
  <2>4. ~Promise(k) /\ ~Unseen(k)
    BY <1>4, <2>3
  <2> QED
    BY <1>4, <2>1, <2>4 DEF Now, LatestNow
<1>16. CASE Tick
  BY <1>4, <1>16, LockAssumption DEF Tick, TypeOK, Now, LatestNow
<1>17. CASE UNCHANGED lockVars
  BY <1>4, <1>17 DEF lockVars, Now, LatestNow
<1> QED
  BY <1>5, <1>6, <1>7, <1>8, <1>9, <1>10, <1>11, <1>12, <1>13, <1>14, <1>15,
     <1>16, <1>17
     DEF Next, ClientStep

\* LeaseHonoured holds in every reachable state: whatever the clients, their
\* clocks, the TTL and the precision of the column, nobody loses a lock it
\* was granted before the time it asked for has passed everywhere.
THEOREM LeaseIsHonoured == Spec => []LeaseHonoured
<1>1. Init => TypeOK /\ LeaseInv
  BY InitTypeOK, InitLeaseInv
<1>2. TypeOK /\ LeaseInv /\ [Next]_lockVars => TypeOK' /\ LeaseInv'
  BY NextTypeOK, NextLeaseInv
<1>3. LeaseInv => LeaseHonoured
  BY DEF LeaseInv
<1> QED
  BY <1>1, <1>2, <1>3, PTL DEF Spec

----------------------------------------------------------------------------
(* The lock implements a mutex. *)

\* Two protected clients would both own the one row.
LEMMA AtMostOne == LeaseInv => \A i, j \in Protected : i = j
  BY DEF LeaseInv, LeaseHonoured

\* A step that protects a client takes protection from nobody: only a client
\* that sees its upsert succeed becomes protected, and time stands still then.
LEMMA JoinKeeps ==
    ASSUME TypeOK, [Next]_lockVars, NEW j \in Protected', j \notin Protected
    PROVE  Protected \subseteq Protected'
<1> USE DEF Protected, LatestNow, TypeOK
<1>1. ASSUME NEW i \in Client, Granted(i)
      PROVE  Protected \subseteq Protected'
  <2>1. clock' = clock /\ lease' = [lease EXCEPT ![i] = ExpiryFrom(stamp[i])]
    BY <1>1 DEF Granted
  <2>2. j = i
    BY <2>1
  <2> QED
    BY <2>1, <2>2
<1>2. ASSUME NEW i \in Client, Refused(i) \/ BeginRelease(i) \/ Crash(i)
      PROVE  FALSE
  <2>1. clock' = clock /\ lease' = [lease EXCEPT ![i] = 0]
    BY <1>2 DEF Refused, BeginRelease, Crash
  <2> QED
    BY <2>1
<1>3. CASE Tick
  BY <1>3, LockAssumption DEF Tick
<1>4. CASE UNCHANGED <<clock, lease>>
  BY <1>4
<1>5. \/ \E i \in Client : Granted(i)
      \/ \E i \in Client : Refused(i) \/ BeginRelease(i) \/ Crash(i)
      \/ Tick
      \/ UNCHANGED <<clock, lease>>
  BY DEF Next, ClientStep, BeginAcquire, Upsert, Retry, Delete, Released,
         Fail, Cleanup, lockVars
<1> QED
  BY <1>1, <1>2, <1>3, <1>4, <1>5

\* Every step of the lock is a step of LeaseMutex, or leaves the protected
\* clients as they are.
LEMMA StepSimulation ==
    TypeOK /\ LeaseInv /\ LeaseInv' /\ [Next]_lockVars
       => [Mutex!Next]_Protected
<1> SUFFICES ASSUME TypeOK, LeaseInv, LeaseInv', [Next]_lockVars,
                    Protected' # Protected
             PROVE  Mutex!Next
  OBVIOUS
<1>1. \A i, j \in Protected : i = j
  BY AtMostOne
<1>2. \A i, j \in Protected' : i = j
  BY DEF LeaseInv, LeaseHonoured
<1>3. Protected \subseteq Client /\ Protected' \subseteq Client
  BY DEF Protected
<1>4. CASE \E j \in Protected' : j \notin Protected
  <2>1. PICK j \in Protected' : j \notin Protected
    BY <1>4
  <2>2. Protected \subseteq Protected'
    BY <2>1, JoinKeeps
  <2>3. Protected = {} /\ Protected' = {j}
    BY <1>2, <2>1, <2>2
  <2> QED
    BY <1>3, <2>1, <2>3 DEF Mutex!Next, Mutex!Enter
<1>5. CASE Protected' \subseteq Protected
  <2>1. PICK i \in Protected : i \notin Protected'
    BY <1>5
  <2>2. Protected = {i} /\ Protected' = {}
    BY <1>1, <1>5, <2>1
  <2> QED
    BY <1>3, <2>1, <2>2 DEF Mutex!Next, Mutex!Leave
<1> QED
  BY <1>4, <1>5

\* The lock implements LeaseMutex: whatever the interleaving of statements,
\* failures, crashes and clocks, one client at a time is protected.
THEOREM LockImplementsMutex == Spec => ImplementsLeaseMutex
<1>1. Init => Mutex!Init
  BY DEF Init, Mutex!Init, Protected
<1>2. Init => TypeOK /\ LeaseInv
  BY InitTypeOK, InitLeaseInv
<1>3. TypeOK /\ LeaseInv /\ [Next]_lockVars => TypeOK' /\ LeaseInv'
  BY NextTypeOK, NextLeaseInv
<1>4. TypeOK /\ LeaseInv /\ LeaseInv' /\ [Next]_lockVars
         => [Mutex!Next]_Protected
  BY StepSimulation
<1> QED
  BY <1>1, <1>2, <1>3, <1>4, PTL
     DEF Spec, ImplementsLeaseMutex, Mutex!Spec

----------------------------------------------------------------------------
(* Requests implement clients of the lock. *)

LEMMA RequestStepsLock == [ReqNext]_vars => [Next]_lockVars
<1> SUFFICES ASSUME [ReqNext]_vars PROVE [Next]_lockVars
  OBVIOUS
<1> USE RequestAssumption DEF Next, ClientStep
<1>1. ASSUME NEW i \in Client,
             \/ ReadCache(i) \/ ReadFresh(i) \/ CheckFirst(i) \/ AnswerWait(i)
             \/ AnswerFromCache(i) \/ Scrape(i) \/ WriteCache(i)
      PROVE  UNCHANGED lockVars
  BY <1>1 DEF ReadCache, ReadFresh, CheckFirst, AnswerWait, AnswerFromCache, Scrape,
              WriteCache
<1>2. ASSUME NEW i \in Client,
             AcquireWhenEmpty(i) \/ ForceAcquire(i) \/ AcquireInBackground(i)
      PROVE  BeginAcquire(i, NoWait)
  BY <1>2 DEF AcquireWhenEmpty, ForceAcquire, AcquireInBackground
<1>3. ASSUME NEW i \in Client, LockGranted(i) \/ LockRefused(i) \/ LockReleased(i)
      PROVE  Granted(i) \/ Refused(i) \/ Released(i)
  BY <1>3 DEF LockGranted, LockRefused, LockReleased
<1>4. ASSUME NEW i \in Client, EndScrape(i) \/ LockStatement(i)
      PROVE  BeginRelease(i) \/ Upsert(i) \/ Delete(i)
  BY <1>4 DEF EndScrape, LockStatement
<1>5. ASSUME NEW i \in Client, LockError(i) \/ ReleaseError(i) \/ Dies(i)
      PROVE  Fail(i) \/ Crash(i)
  BY <1>5 DEF LockError, ReleaseError, Dies
<1>6. ASSUME NEW k \in MayAge, Age(k) PROVE UNCHANGED lockVars
  BY <1>6 DEF Age
<1>7. CASE UNCHANGED vars
  BY <1>7 DEF vars
<1> QED
  BY <1>1, <1>2, <1>3, <1>4, <1>5, <1>6, <1>7 DEF ReqNext, Step

\* Whatever the requests do, the lock goes through behaviours of its own
\* specification: they bring no step into it.
THEOREM RequestsUseTheLock == ReqSpec => Spec
<1>1. ReqInit => Init
  BY DEF ReqInit
<1> QED
  BY <1>1, RequestStepsLock, PTL DEF ReqSpec, Spec

----------------------------------------------------------------------------
(* The inductive invariant of the requests. *)

\* A request asks once: it never sleeps in acquire().  It scrapes with the lock
\* object idle and acquired, for a promise that is not empty.
AsksOnce ==
    \A i \in Client :
        /\ phase[i] \in Asking => pc[i] \in {"query", "reply"} /\ wait[i] = NoWait
        /\ phase[i] \in Scraping => acquired[i] /\ lease[i] # 0

\* The row of a request that lost no statement is there because it scrapes,
\* because it has been granted the lock and has not seen it yet, or because its
\* release has not been executed.
RowAccounted ==
    \A i \in Client : rowOwner = i /\ i \notin lost =>
        \/ phase[i] \in Scraping
        \/ pc[i] = "reply" /\ reply[i]
        \/ pc[i] = "delete"

FirstIsKnown ==
    /\ \A i \in Client : first[i] => demand
    /\ FirstSearchOnce

IndInv ==
    ReqTypeOK /\ LeaseInv /\ AsksOnce /\ RowAccounted /\ FirstIsKnown

LEMMA RequestInit == ReqInit => IndInv
<1> SUFFICES ASSUME ReqInit PROVE IndInv
  OBVIOUS
<1>1. TypeOK /\ LeaseInv
  BY InitTypeOK, InitLeaseInv DEF ReqInit
<1>2. ReqTypeOK
  BY <1>1, RequestAssumption
     DEF ReqInit, Init, ReqTypeOK, Asking, Waiting, Releasing, Scraping, Answered
<1>3. AsksOnce /\ RowAccounted /\ FirstIsKnown
  BY LockAssumption
     DEF ReqInit, Init, AsksOnce, RowAccounted, FirstIsKnown, FirstSearchOnce,
         Asking, Scraping
<1> QED
  BY <1>1, <1>2, <1>3 DEF IndInv

\* An expiry is never 0, as a lock is asked for at least a second.
LEMMA PromiseNotEmpty ==
    ASSUME NEW t \in Nat PROVE ExpiryFrom(t) # 0
<1>1. TTL \in Nat /\ Second \in Nat \ {0} /\ TTL >= Second
  BY LockAssumption, RequestAssumption
<1>2. (t + TTL) \div Second \in Nat /\ (t + TTL) \div Second # 0
  BY <1>1
<1> QED
  BY <1>1, <1>2 DEF ExpiryFrom

----------------------------------------------------------------------------
(* Every step preserves it. *)

\* What IndInv says of one request and its lock object.
Sound(k) ==
    /\ phase[k] \in Asking <=> pc[k] \in Waiting
    /\ phase[k] = "releasing" <=> pc[k] \in Releasing
    /\ phase[k] = "crashed" <=> pc[k] = "crashed"
    /\ phase[k] \in Asking => pc[k] \in {"query", "reply"} /\ wait[k] = NoWait
    /\ phase[k] \in Scraping => acquired[k] /\ lease[k] # 0
    /\ rowOwner = k /\ k \notin lost =>
          \/ phase[k] \in Scraping
          \/ pc[k] = "reply" /\ reply[k]
          \/ pc[k] = "delete"

DataTypes ==
    /\ cache \in [Kind -> {"none", "stale", "fresh"}]
    /\ demand \in BOOLEAN
    /\ phase \in [Client -> {"new", "found", "counted", "decide", "refused",
                             "background", "releasing", "crashed"}
                            \cup Asking \cup Scraping \cup Answered]
    /\ count \in [Client -> BOOLEAN] /\ primary \in [Client -> BOOLEAN]
    /\ fresh \in [Client -> BOOLEAN] /\ first \in [Client -> BOOLEAN]
    /\ writing \subseteq Client /\ lost \subseteq Client

LEMMA IndInvParts ==
    IndInv <=> /\ TypeOK /\ LeaseInv /\ DataTypes /\ FirstIsKnown
               /\ \A k \in Client : Sound(k)
  BY DEF IndInv, ReqTypeOK, DataTypes, Sound, AsksOnce, RowAccounted

\* A flag of one request is set to a truth value.
LEMMA FlagSet ==
    ASSUME NEW S, NEW f \in [S -> BOOLEAN], NEW i \in S, NEW b \in BOOLEAN
    PROVE  [f EXCEPT ![i] = b] \in [S -> BOOLEAN]
  OBVIOUS

LEMMA TypesNext == IndInv /\ [ReqNext]_vars => DataTypes'
<1> SUFFICES ASSUME IndInv, [ReqNext]_vars PROVE DataTypes'
  OBVIOUS
<1> USE DEF Becomes
<1>1. /\ DataTypes
      /\ phase \in [Client -> {"new", "found", "counted", "decide", "refused",
                               "background", "releasing", "crashed"}
                              \cup Asking \cup Scraping \cup Answered]
  BY IndInvParts DEF DataTypes
<1>2. ASSUME NEW i \in Client, Step(i) \/ LockError(i) \/ ReleaseError(i) \/ Dies(i)
      PROVE  phase' \in [Client -> {"new", "found", "counted", "decide", "refused",
                               "background", "releasing", "crashed"}
                              \cup Asking \cup Scraping \cup Answered]
  BY <1>1, <1>2
     DEF Step, LockError, ReleaseError, Dies, ReadCache, ReadFresh, CheckFirst,
         AcquireWhenEmpty, ForceAcquire, AnswerWait, AnswerFromCache,
         AcquireInBackground, LockGranted, LockRefused, LockReleased, Scrape,
         EndScrape, WriteCache, LockStatement, AfterGrant, AfterRefusal, reqVars,
         Asking, Scraping, Answered
<1>3. ASSUME NEW i \in Client, Step(i) \/ LockError(i) \/ ReleaseError(i) \/ Dies(i)
      PROVE  /\ cache' \in [Kind -> {"none", "stale", "fresh"}]
             /\ demand' \in BOOLEAN
             /\ writing' \subseteq Client /\ lost' \subseteq Client
  BY <1>1, <1>3
     DEF DataTypes, Step, LockError, ReleaseError, Dies, ReadCache, ReadFresh,
         CheckFirst, AcquireWhenEmpty, ForceAcquire, AnswerWait, AnswerFromCache,
         AcquireInBackground, LockGranted, LockRefused, LockReleased, Scrape,
         EndScrape, WriteCache, LockStatement, reqVars
<1>4. ASSUME NEW i \in Client, Step(i) \/ LockError(i) \/ ReleaseError(i) \/ Dies(i)
      PROVE  /\ count' \in [Client -> BOOLEAN] /\ primary' \in [Client -> BOOLEAN]
             /\ fresh' \in [Client -> BOOLEAN] /\ first' \in [Client -> BOOLEAN]
  <2>1. ASSUME Forget(i)
        PROVE  /\ count' \in [Client -> BOOLEAN] /\ primary' \in [Client -> BOOLEAN]
               /\ fresh' \in [Client -> BOOLEAN]
    BY <1>1, <2>1, FlagSet DEF DataTypes, Forget
  <2>2. CASE ReadCache(i)
    BY <1>1, <2>2, FlagSet DEF DataTypes, ReadCache
  <2>3. CASE ReadFresh(i)
    BY <1>1, <2>3, FlagSet DEF DataTypes, ReadFresh
  <2>4. CASE CheckFirst(i)
    BY <1>1, <2>4, FlagSet DEF DataTypes, CheckFirst
  <2>5. CASE /\ UNCHANGED first
             /\ Forget(i) \/ UNCHANGED <<count, primary, fresh>>
    BY <1>1, <2>1, <2>5 DEF DataTypes
  <2> QED
    BY <1>4, <2>2, <2>3, <2>4, <2>5
       DEF Step, LockError, ReleaseError, Dies, AcquireWhenEmpty, ForceAcquire,
           AnswerWait, AnswerFromCache, AcquireInBackground, LockGranted,
           LockRefused, LockReleased, Scrape, EndScrape, WriteCache, LockStatement,
           reqVars
<1>5. ASSUME NEW i \in Client, Step(i) \/ LockError(i) \/ ReleaseError(i) \/ Dies(i)
      PROVE  DataTypes'
  BY <1>2, <1>3, <1>4, <1>5 DEF DataTypes
<1>6. ASSUME NEW k \in MayAge, Age(k) PROVE DataTypes'
  BY <1>1, <1>6, RequestAssumption DEF DataTypes, Age
<1>7. CASE UNCHANGED reqVars
  BY <1>1, <1>7 DEF DataTypes, reqVars
<1> QED
  BY <1>5, <1>6, <1>7 DEF ReqNext, vars

LEMMA FirstNext == IndInv /\ [ReqNext]_vars => FirstIsKnown'
<1> SUFFICES ASSUME IndInv, [ReqNext]_vars PROVE FirstIsKnown'
  OBVIOUS
<1>1. DataTypes /\ FirstIsKnown
  BY IndInvParts
<1>2. ASSUME NEW i \in Client, CheckFirst(i) PROVE FirstIsKnown'
  <2>1. CASE UNCHANGED first /\ demand' \in {demand, TRUE}
    <3>1. demand => demand'
      BY <2>1
    <3> QED
      BY <1>1, <2>1, <3>1 DEF FirstIsKnown, FirstSearchOnce
  <2>2. CASE demand' = TRUE /\ first' = [first EXCEPT ![i] = ~demand]
    BY <1>1, <2>2 DEF FirstIsKnown, FirstSearchOnce, DataTypes
  <2> QED
    BY <1>2, <2>1, <2>2 DEF CheckFirst
<1>3. CASE UNCHANGED <<demand, first>>
  BY <1>1, <1>3 DEF FirstIsKnown, FirstSearchOnce
<1>4. ASSUME NEW i \in Client, Step(i) \/ LockError(i) \/ ReleaseError(i) \/ Dies(i),
             ~CheckFirst(i)
      PROVE  UNCHANGED <<demand, first>>
  BY <1>4
     DEF Step, LockError, ReleaseError, Dies, ReadCache, ReadFresh,
         AcquireWhenEmpty, ForceAcquire, AnswerWait, AnswerFromCache,
         AcquireInBackground, LockGranted, LockRefused, LockReleased, Scrape,
         EndScrape, WriteCache, LockStatement, reqVars
<1>5. ASSUME NEW k \in MayAge, Age(k) PROVE UNCHANGED <<demand, first>>
  BY <1>5 DEF Age
<1>6. CASE UNCHANGED reqVars
  BY <1>3, <1>6 DEF reqVars
<1> QED
  BY <1>2, <1>3, <1>4, <1>5, <1>6 DEF ReqNext, vars

\* A step of another client leaves what is sound of a request sound: at most it
\* takes the row.
LEMMA OthersKeepSound ==
    ASSUME IndInv, NEW k \in Client, Sound(k), NEW i \in Client, i # k,
           \/ Step(i) \/ LockError(i) \/ ReleaseError(i) \/ Dies(i)
    PROVE  Sound(k)'
<1>1. TypeOK /\ DataTypes /\ NoClient \notin Client
  BY IndInvParts, LockAssumption
<1>2. phase'[k] = phase[k]
  BY <1>1
     DEF DataTypes, Becomes, Step, LockError, ReleaseError, Dies, ReadCache, ReadFresh,
         CheckFirst, AcquireWhenEmpty, ForceAcquire, AnswerWait, AnswerFromCache,
         AcquireInBackground, LockGranted, LockRefused, LockReleased, Scrape,
         EndScrape, WriteCache, LockStatement, AfterGrant, AfterRefusal, reqVars
<1>3. k \in lost => k \in lost'
  BY DEF Step, LockError, ReleaseError, Dies, ReadCache, ReadFresh,
         CheckFirst, AcquireWhenEmpty, ForceAcquire, AnswerWait, AnswerFromCache,
         AcquireInBackground, LockGranted, LockRefused, LockReleased, Scrape,
         EndScrape, WriteCache, LockStatement, reqVars
<1>4. /\ pc'[k] = pc[k] /\ acquired'[k] = acquired[k] /\ reply'[k] = reply[k]
      /\ lease'[k] = lease[k] /\ wait'[k] = wait[k]
      /\ rowOwner' = k => rowOwner = k
  <2>1. \/ BeginAcquire(i, NoWait) \/ Upsert(i) \/ Granted(i) \/ Refused(i)
        \/ BeginRelease(i) \/ Delete(i) \/ Released(i) \/ Fail(i) \/ Crash(i)
        \/ UNCHANGED lockVars
    BY DEF Step, LockError, ReleaseError, Dies, ReadCache, ReadFresh,
           CheckFirst, AcquireWhenEmpty, ForceAcquire, AnswerWait, AnswerFromCache,
           AcquireInBackground, LockGranted, LockRefused, LockReleased, Scrape,
           EndScrape, WriteCache, LockStatement
  <2> QED
    BY <1>1, <2>1
       DEF TypeOK, Goto, BeginAcquire, Upsert, Granted, Refused, BeginRelease, Delete,
           Released, Fail, Crash, lockVars
<1> QED
  BY <1>2, <1>3, <1>4 DEF Sound

\* What a request does itself.
LEMMA OwnStepSound ==
    ASSUME IndInv, NEW i \in Client, Sound(i),
           \/ Step(i) \/ LockError(i) \/ ReleaseError(i) \/ Dies(i)
    PROVE  Sound(i)'
<1>1. TypeOK /\ DataTypes /\ NoClient \notin Client
  BY IndInvParts, LockAssumption
<1> USE <1>1 DEF Becomes, Goto, Waiting, Releasing, Asking, Scraping, TypeOK,
                 DataTypes, Sound
<1>2. CASE ReadCache(i) \/ ReadFresh(i) \/ CheckFirst(i)
  <2>1. CASE ReadCache(i)
    BY <2>1 DEF ReadCache, lockVars
  <2>2. CASE ReadFresh(i)
    BY <2>2 DEF ReadFresh, lockVars
  <2>3. CASE CheckFirst(i)
    BY <2>3 DEF CheckFirst, lockVars
  <2> QED
    BY <1>2, <2>1, <2>2, <2>3
<1>3. CASE AcquireWhenEmpty(i) \/ ForceAcquire(i) \/ AcquireInBackground(i)
  <2>1. CASE AcquireWhenEmpty(i)
    BY <2>1 DEF AcquireWhenEmpty, BeginAcquire
  <2>2. CASE ForceAcquire(i)
    BY <2>2 DEF ForceAcquire, BeginAcquire
  <2>3. CASE AcquireInBackground(i)
    BY <2>3 DEF AcquireInBackground, BeginAcquire
  <2> QED
    BY <1>3, <2>1, <2>2, <2>3
<1>4. CASE AnswerWait(i) \/ AnswerFromCache(i)
  BY <1>4 DEF AnswerWait, AnswerFromCache, lockVars
<1>5. CASE LockGranted(i)
  <2>1. ExpiryFrom(stamp[i]) # 0
    BY PromiseNotEmpty
  <2>2. phase'[i] \in {"scraping", "refreshing"} /\ lost' = lost
    BY <1>5 DEF LockGranted, AfterGrant
  <2>3. pc'[i] = "idle" /\ acquired'[i] /\ lease'[i] # 0
    BY <1>5, <2>1 DEF LockGranted, Granted
  <2> QED
    BY <2>2, <2>3
<1>6. CASE LockRefused(i)
  <2>1. phase'[i] \in {"refused", "wait", "done"} /\ lost' = lost
    BY <1>6 DEF LockRefused, AfterRefusal
  <2>2. pc'[i] = "idle" /\ rowOwner' = rowOwner /\ ~(rowOwner = i /\ i \notin lost)
    BY <1>6 DEF LockRefused, Refused, GivesUp
  <2> QED
    BY <2>1, <2>2
<1>7. CASE LockError(i)
  <2>1. phase'[i] \in {"refused", "wait", "done"} /\ i \in lost'
    BY <1>7 DEF LockError, AfterRefusal
  <2>2. pc'[i] = "idle"
    BY <1>7 DEF LockError, Fail
  <2> QED
    BY <2>1, <2>2
<1>8. CASE Scrape(i)
  BY <1>8 DEF Scrape, lockVars
<1>9. CASE EndScrape(i)
  BY <1>9 DEF EndScrape, BeginRelease
<1>10. CASE LockReleased(i)
  BY <1>10 DEF LockReleased, Released
<1>11. CASE ReleaseError(i)
  BY <1>11 DEF ReleaseError, Fail
<1>12. CASE WriteCache(i)
  BY <1>12 DEF WriteCache, lockVars
<1>13. CASE Dies(i)
  BY <1>13 DEF Dies, Crash
<1>14. CASE Upsert(i) /\ UNCHANGED reqVars
  <2> DEFINE free == \/ rowOwner \in {NoClient, i}
                     \/ rowExpires < Stored(stamp[i])
  <2>1. /\ pc[i] = "query" /\ pc'[i] = "reply" /\ reply'[i] = free
        /\ rowOwner' = IF free THEN i ELSE rowOwner
        /\ UNCHANGED <<acquired, wait, lease, phase, lost>>
    BY <1>14 DEF Upsert, reqVars
  <2> HIDE DEF free
  <2>2. free \/ rowOwner # i
    BY DEF free
  <2> QED
    BY <2>1, <2>2
<1>15. CASE Delete(i) /\ UNCHANGED reqVars
  BY <1>15 DEF Delete, reqVars
<1> QED
  BY <1>2, <1>3, <1>4, <1>5, <1>6, <1>7, <1>8, <1>9, <1>10, <1>11, <1>12, <1>13,
     <1>14, <1>15
     DEF Step, LockStatement

LEMMA IndInvNext == IndInv /\ [ReqNext]_vars => IndInv'
<1> SUFFICES ASSUME IndInv, [ReqNext]_vars PROVE IndInv'
  OBVIOUS
<1>1. TypeOK' /\ LeaseInv'
  BY IndInvParts, RequestStepsLock, NextTypeOK, NextLeaseInv
<1>2. DataTypes' /\ FirstIsKnown'
  BY TypesNext, FirstNext
<1>3. ASSUME NEW k \in Client PROVE Sound(k)'
  <2>1. Sound(k) /\ NoClient \notin Client
    BY IndInvParts, LockAssumption
  <2>2. ASSUME NEW i \in Client,
               Step(i) \/ LockError(i) \/ ReleaseError(i) \/ Dies(i)
        PROVE  Sound(k)'
    BY <2>1, <2>2, OthersKeepSound, OwnStepSound
  <2>3. CASE \/ \E m \in MayAge : Age(m)
             \/ Cleanup /\ UNCHANGED reqVars
             \/ Tick /\ UNCHANGED reqVars
             \/ UNCHANGED vars
    BY <2>1, <2>3 DEF Sound, Age, Cleanup, Tick, vars, reqVars, lockVars
  <2> QED
    BY <2>2, <2>3 DEF ReqNext
<1> QED
  BY <1>1, <1>2, <1>3 DEF IndInv, ReqTypeOK, DataTypes, Sound, AsksOnce, RowAccounted

\* RequestInv holds in every reachable state, for any requests, clocks, TTL and
\* cached rows: no path of a request scrapes without the lock, two requests
\* scrape together only when a lock has outlived its TTL, one of them is told
\* that it is the first, and none leaves its row behind.
THEOREM RequestsAreSound == ReqSpec => []RequestInv
<1>1. IndInv => RequestInv
  <2> SUFFICES ASSUME IndInv PROVE RequestInv
    OBVIOUS
  <2>1. OneScrapePerLease
    <3>1. \A i, j \in Protected : i = j
      BY AtMostOne DEF IndInv
    <3> QED
      BY <3>1 DEF IndInv, AsksOnce, OneScrapePerLease
  <2>2. NoLockLeft
    BY DEF IndInv, ReqTypeOK, RowAccounted, NoLockLeft, Answered, Asking, Scraping,
           Waiting, Releasing
  <2> QED
    BY <2>1, <2>2 DEF IndInv, FirstIsKnown, RequestInv
<1> QED
  BY <1>1, RequestInit, IndInvNext, PTL DEF ReqSpec

----------------------------------------------------------------------------
(* The score of a file. *)

Sized(f) == f.size \in Nat \cup {Missing}

\* What the parts of a score may be.
LEMMA PartsOfScore ==
    ASSUME NEW p, NEW f, Sized(f)
    PROVE  /\ EpisodeScore(p, f) \in {0, 2000, 5000, 10000}
           /\ Worth(f.named, 1) \in {0, 1} /\ Worth(f.titled, 1) \in {0, 1}
           /\ Worth(IndexMatches(p, f), 1) \in {0, 1}
           /\ SizeScore(f) \in 0..100
           /\ Score(p, f) = EpisodeScore(p, f) + 1000 * Worth(f.named, 1)
                  + 500 * Worth(f.titled, 1) + 250 * Worth(IndexMatches(p, f), 1)
                  + SizeScore(f)
<1>1. EpisodeScore(p, f) \in {0, 2000, 5000, 10000}
  BY DEF EpisodeScore
<1>2. SizeScore(f) \in 0..100
  BY DEF SizeScore, Sized, Missing
<1>3. ASSUME NEW b, NEW n \in Nat
      PROVE  Worth(b, 1) \in {0, 1} /\ Worth(b, n) = n * Worth(b, 1)
  BY DEF Worth
<1>4. /\ Worth(f.named, 1000) = 1000 * Worth(f.named, 1)
      /\ Worth(f.titled, 500) = 500 * Worth(f.titled, 1)
      /\ Worth(IndexMatches(p, f), 250) = 250 * Worth(IndexMatches(p, f), 1)
  BY <1>3
<1> QED BY <1>1, <1>2, <1>3, <1>4 DEF Score

\* Of any two files the one with the higher score is the one that comes first by
\* the priorities of the docstring, and equal scores mean equal priorities: the
\* points of lower priorities never add up to those of a higher one.
THEOREM ScoreIsLexicographic ==
    ASSUME NEW p, NEW f, NEW g, Sized(f), Sized(g)
    PROVE  /\ Score(p, f) > Score(p, g) <=> Precedes(Priorities(p, f), Priorities(p, g))
           /\ Score(p, f) = Score(p, g) <=> Priorities(p, f) = Priorities(p, g)
<1> DEFINE a == Priorities(p, f)
           b == Priorities(p, g)
<1>1. /\ a[1] \in {0, 2000, 5000, 10000} /\ b[1] \in {0, 2000, 5000, 10000}
      /\ a[2] \in {0, 1} /\ a[3] \in {0, 1} /\ a[4] \in {0, 1} /\ a[5] \in 0..100
      /\ b[2] \in {0, 1} /\ b[3] \in {0, 1} /\ b[4] \in {0, 1} /\ b[5] \in 0..100
      /\ Score(p, f) = a[1] + 1000 * a[2] + 500 * a[3] + 250 * a[4] + a[5]
      /\ Score(p, g) = b[1] + 1000 * b[2] + 500 * b[3] + 250 * b[4] + b[5]
  BY PartsOfScore DEF Priorities
<1>2. DOMAIN a = 1..5
  BY DEF Priorities
<1>3. Precedes(a, b) <=>
         \/ a[1] > b[1]
         \/ a[1] = b[1] /\ a[2] > b[2]
         \/ a[1] = b[1] /\ a[2] = b[2] /\ a[3] > b[3]
         \/ a[1] = b[1] /\ a[2] = b[2] /\ a[3] = b[3] /\ a[4] > b[4]
         \/ a[1] = b[1] /\ a[2] = b[2] /\ a[3] = b[3] /\ a[4] = b[4] /\ a[5] > b[5]
  <2> HIDE DEF a, b
  <2> QED BY <1>2 DEF Precedes
<1>4. a = b <=> a[1] = b[1] /\ a[2] = b[2] /\ a[3] = b[3] /\ a[4] = b[4] /\ a[5] = b[5]
  BY DEF Priorities
<1> HIDE DEF a, b
<1>5. /\ Score(p, f) > Score(p, g) <=>
             \/ a[1] > b[1]
             \/ a[1] = b[1] /\ a[2] > b[2]
             \/ a[1] = b[1] /\ a[2] = b[2] /\ a[3] > b[3]
             \/ a[1] = b[1] /\ a[2] = b[2] /\ a[3] = b[3] /\ a[4] > b[4]
             \/ a[1] = b[1] /\ a[2] = b[2] /\ a[3] = b[3] /\ a[4] = b[4] /\ a[5] > b[5]
      /\ Score(p, f) = Score(p, g) <=>
             a[1] = b[1] /\ a[2] = b[2] /\ a[3] = b[3] /\ a[4] = b[4] /\ a[5] = b[5]
  <2> DEFINE u1 == a[1]  u2 == a[2]  u3 == a[3]  u4 == a[4]  u5 == a[5]
             v1 == b[1]  v2 == b[2]  v3 == b[3]  v4 == b[4]  v5 == b[5]
             u == Score(p, f)
             v == Score(p, g)
  <2>1. /\ u1 \in {0, 2000, 5000, 10000} /\ v1 \in {0, 2000, 5000, 10000}
        /\ u2 \in {0, 1} /\ u3 \in {0, 1} /\ u4 \in {0, 1} /\ u5 \in 0..100
        /\ v2 \in {0, 1} /\ v3 \in {0, 1} /\ v4 \in {0, 1} /\ v5 \in 0..100
        /\ u = u1 + 1000 * u2 + 500 * u3 + 250 * u4 + u5
        /\ v = v1 + 1000 * v2 + 500 * v3 + 250 * v4 + v5
    BY <1>1
  <2> HIDE DEF u1, u2, u3, u4, u5, v1, v2, v3, v4, v5, u, v
  <2>2. /\ u > v <=>
              \/ u1 > v1
              \/ u1 = v1 /\ u2 > v2
              \/ u1 = v1 /\ u2 = v2 /\ u3 > v3
              \/ u1 = v1 /\ u2 = v2 /\ u3 = v3 /\ u4 > v4
              \/ u1 = v1 /\ u2 = v2 /\ u3 = v3 /\ u4 = v4 /\ u5 > v5
        /\ u = v <=> u1 = v1 /\ u2 = v2 /\ u3 = v3 /\ u4 = v4 /\ u5 = v5
    BY <2>1, SMTT(60)
  <2> QED
    BY <2>2 DEF u1, u2, u3, u4, u5, v1, v2, v3, v4, v5, u, v
<1>6. Score(p, f) > Score(p, g) <=> Precedes(a, b)
  BY <1>3, <1>5
<1>7. Score(p, f) = Score(p, g) <=> a = b
  BY <1>4, <1>5
<1> QED BY <1>6, <1>7 DEF a, b

----------------------------------------------------------------------------
\* The order of the files is strict.
LEMMA FilesInOrder ==
    ASSUME NEW p \in Plays,
           NEW before, before = {x \in Candidates(p) \X Candidates(p) : IsAhead(p, x[1], x[2])}
    PROVE  /\ IsFiniteSet(Candidates(p)) /\ Candidates(p) \subseteq DOMAIN p.files
           /\ StrictOrder(Candidates(p), before)
           /\ Sorts(ScoredFiles(p), Cardinality(Candidates(p)), Candidates(p), before)
<1> DEFINE C == Candidates(p)
           score(i) == Score(p, p.files[i])
<1>1. TypeOfPlay(p)
  BY LinkAssumption
<1>2. C \in SUBSET (1..Len(p.files)) /\ Len(p.files) \in Nat
  BY <1>1 DEF TypeOfPlay, Candidates
<1>3. IsFiniteSet(C)
  BY <1>2, CountUpTo, FS_Subset
<1>4. ASSUME NEW i \in C PROVE score(i) \in Int /\ i \in Int
  <2>1. Sized(p.files[i])
    BY <1>1, <1>2 DEF TypeOfPlay, TypeOfFile, Sized
  <2> DEFINE f == p.files[i]
             e == EpisodeScore(p, f)
             z == SizeScore(f)
             a == Worth(f.named, 1)
             b == Worth(f.titled, 1)
             c == Worth(IndexMatches(p, f), 1)
  <2>2. /\ e \in Int /\ z \in Int /\ a \in Int /\ b \in Int /\ c \in Int
        /\ score(i) = e + 1000 * a + 500 * b + 250 * c + z
    BY <2>1, PartsOfScore
  <2> HIDE DEF score, e, z, a, b, c
  <2>3. score(i) \in Int
    BY <2>2
  <2>4. i \in Int
    BY <1>2
  <2> QED
    BY <2>3, <2>4
<1> HIDE DEF score, C
<1>5. \A i, j \in C : <<i, j>> \in before <=>
          score(i) > score(j) \/ (score(i) = score(j) /\ i < j)
  BY DEF IsAhead, C, score
<1>6. StrictOrder(C, before)
  <2>1. ASSUME NEW i \in C, NEW j \in C, NEW k \in C
        PROVE  /\ score(i) \in Int /\ score(j) \in Int /\ score(k) \in Int
               /\ i \in Int /\ j \in Int /\ k \in Int
    BY <1>4
  <2> QED
    BY <1>5, <2>1 DEF StrictOrder
<1>7. ScoredFiles(p) = InOrder(C, before)
  BY DEF ScoredFiles, C
<1> QED
  BY <1>2, <1>3, <1>6, <1>7, InOrderIs, <1>1 DEF C, TypeOfPlay

\* What is selected, once something is.
LinkIndInv ==
    /\ play \in Plays
    /\ \/ target = 0 /\ toCache = <<>>
       \/ /\ Candidates(play) # {}
          /\ target = ScoredFiles(play)[1] /\ toCache = AllFilesForCache(play)

LEMMA LinkStep == LinkIndInv /\ [LinkNext]_linkVars => LinkIndInv'
BY DEF LinkIndInv, LinkNext, AddMagnet, SelectFile, GenerateLink, linkVars

\* The first of the sorted files comes before all others.
LEMMA FirstIsBest ==
    ASSUME NEW p \in Plays, Candidates(p) # {}, NEW best, best = ScoredFiles(p)[1]
    PROVE  /\ best \in Candidates(p)
           /\ \A i \in Candidates(p) \ {best} : IsAhead(p, best, i)
<1> DEFINE C == Candidates(p)
           n == Cardinality(C)
           s == ScoredFiles(p)
           before == {x \in C \X C : IsAhead(p, x[1], x[2])}
<1>1. IsFiniteSet(C) /\ Sorts(s, n, C, before)
  BY FilesInOrder
<1>2. \A i, j \in C : <<i, j>> \in before => IsAhead(p, i, j)
  OBVIOUS
<1> HIDE DEF before, C, n, s
<1>3. PICK c \in C : TRUE
  BY DEF C
<1>4. n \in Nat /\ n >= 1 /\ \A x \in C : Rank(C, before, x) + 1 \in 1..n /\ s[Rank(C, before, x) + 1] = x
  BY <1>1, <1>3 DEF Sorts
<1>5. s[1] \in C
  BY <1>1, <1>4 DEF Sorts
<1>6. ASSUME NEW i \in C, i # s[1] PROVE IsAhead(p, s[1], i)
  <2>1. PICK m \in 1..n : s[m] = i
    BY <1>4
  <2>2. 1 < m /\ 1 \in 1..n
    BY <1>4, <1>6, <2>1
  <2>3. <<s[1], s[m]>> \in before
    BY <1>1, <2>2 DEF Sorts
  <2> QED
    BY <1>2, <1>5, <2>1, <2>3
<1> QED
  BY <1>5, <1>6 DEF C, s

\* The files that have a scope are cached, and the target after them.
LEMMA RowsAre ==
    ASSUME NEW p \in Plays, Candidates(p) # {}, NEW scopes, scopes = AllFilesForCache(p)
    PROVE  \E n \in Nat :
             /\ \A i \in 1..n : \E f \in Candidates(p) : HasScope(p, f) /\ scopes[i] = RowOf(p, f)
             /\ IF p.season # Missing \/ p.episode # Missing
                THEN DOMAIN scopes = 1..n + 1 /\ scopes[n + 1] = <<p.season, p.episode, ScoredFiles(p)[1]>>
                ELSE DOMAIN scopes = 1..n
<1> DEFINE C == Candidates(p)
           s == ScoredFiles(p)
           P == {i \in DOMAIN s : HasScope(p, s[i])}
           t == Picked(s, P)
           o == Ascending(P)
           n == Cardinality(P)
           scoped == [i \in DOMAIN t |-> RowOf(p, t[i])]
           last == IF p.season # Missing \/ p.episode # Missing
                   THEN <<<<p.season, p.episode, s[1]>>>> ELSE <<>>
<1>1. s \in Seq(C) /\ P \in SUBSET (DOMAIN s)
  BY FilesInOrder DEF Sorts
<1>2. scopes = scoped \o last
  BY DEF AllFilesForCache
<1>3. \A x \in P : HasScope(p, s[x])
  OBVIOUS
<1> HIDE DEF C, s, P, t, o, n
<1>4. t \in Seq(C) /\ Picks(t, n, s, P, o)
  BY <1>1, PickedIs DEF t, o, n
<1>5. n \in Nat /\ DOMAIN t = 1..n /\ \A i \in 1..n : t[i] \in C /\ HasScope(p, t[i])
  BY <1>3, <1>4 DEF Picks
<1>6. scoped \in Seq({RowOf(p, f) : f \in C}) /\ Len(scoped) = n
  BY <1>5
<1>7. \A i \in 1..n : scoped[i] = RowOf(p, t[i])
  BY <1>5
<1>8. last = <<>> \/ last = <<<<p.season, p.episode, s[1]>>>>
  OBVIOUS
<1> HIDE DEF scoped
<1> DEFINE S == {RowOf(p, f) : f \in C} \cup {<<p.season, p.episode, s[1]>>}
<1>9. scoped \in Seq(S) /\ last \in Seq(S)
  <2> DEFINE R == {RowOf(p, f) : f \in C}
             row == <<p.season, p.episode, s[1]>>
  <2> HIDE DEF R, row
  <2>1. scoped \in Seq(R) /\ S = R \cup {row} /\ (last = <<>> \/ last = <<row>>)
    BY <1>6, <1>8 DEF R, row
  <2> HIDE DEF S, last
  <2>2. scoped \in Seq(S)
    BY <2>1
  <2>3. row \in S /\ <<row>> \in Seq(S) /\ <<>> \in Seq(S)
    BY <2>1
  <2>4. last \in Seq(S)
    BY <2>1, <2>3
  <2> QED
    BY <2>2, <2>4
<1> HIDE DEF S
<1>10. /\ \A i \in 1..n : scopes[i] = scoped[i]
       /\ DOMAIN scopes = 1..n + Len(last)
       /\ Len(last) = 1 => scopes[n + 1] = last[1]
  <2> HIDE DEF last
  <2>1. Len(scoped) = n /\ Len(last) \in Nat /\ n \in Nat
    BY <1>5, <1>6, <1>9
  <2>2. /\ Len(scopes) = n + Len(last) /\ DOMAIN scopes = 1..Len(scopes)
        /\ \A i \in 1..Len(scopes) : scopes[i] = IF i <= n THEN scoped[i] ELSE last[i - n]
    <3>1. scopes \in Seq(S)
      BY <1>2, <1>9
    <3>2. Len(scopes) = Len(scoped) + Len(last)
      BY <1>2, <1>9
    <3>3. \A i \in 1..Len(scoped) + Len(last) :
              scopes[i] = IF i <= Len(scoped) THEN scoped[i] ELSE last[i - Len(scoped)]
      BY <1>2, <1>9
    <3> QED
      BY <2>1, <3>1, <3>2, <3>3
  <2>3. \A i \in 1..n : i \in 1..Len(scopes) /\ i <= n
    BY <2>1, <2>2
  <2>4. Len(last) = 1 => n + 1 \in 1..Len(scopes) /\ ~ (n + 1 <= n) /\ (n + 1) - n = 1
    BY <2>1, <2>2
  <2> QED
    BY <2>2, <2>3, <2>4
<1>11. \A i \in 1..n : t[i] \in Candidates(p) /\ HasScope(p, t[i]) /\ scopes[i] = RowOf(p, t[i])
  BY <1>5, <1>7, <1>10 DEF C
<1>12. IF p.season # Missing \/ p.episode # Missing
       THEN DOMAIN scopes = 1..n + 1 /\ scopes[n + 1] = <<p.season, p.episode, ScoredFiles(p)[1]>>
       ELSE DOMAIN scopes = 1..n
  <2>1. CASE p.season # Missing \/ p.episode # Missing
    <3>1. Len(last) = 1 /\ last[1] = <<p.season, p.episode, s[1]>>
      BY <2>1
    <3> QED
      BY <1>10, <2>1, <3>1 DEF s
  <2>2. CASE ~ (p.season # Missing \/ p.episode # Missing)
    <3>1. Len(last) = 0
      BY <2>2
    <3> QED
      BY <1>5, <1>10, <2>2, <3>1
  <2> QED
    BY <2>1, <2>2
<1> QED
  BY <1>5, <1>11, <1>12

LEMMA LinkIndInvImplies == LinkIndInv => LinkInv
<1> SUFFICES ASSUME LinkIndInv PROVE LinkInv
  OBVIOUS
<1>1. play \in Plays /\ TypeOfPlay(play)
  BY LinkAssumption DEF LinkIndInv
<1>2. CASE target = 0 /\ toCache = <<>>
  BY <1>2 DEF LinkInv, TargetIsFirst, RequestedRowIsTarget
<1>3. CASE /\ Candidates(play) # {} /\ target = ScoredFiles(play)[1]
           /\ toCache = AllFilesForCache(play)
  <2>1. /\ target \in Candidates(play)
        /\ \A i \in Candidates(play) \ {target} : IsAhead(play, target, i)
    BY <1>1, <1>3, FirstIsBest
  <2>2. TargetIsFirst
    <3> SUFFICES ASSUME NEW i \in Candidates(play) \ {target}
                 PROVE  LET a == Priorities(play, play.files[target])
                            b == Priorities(play, play.files[i])
                        IN  Precedes(a, b) \/ (a = b /\ target < i)
      BY <2>1 DEF TargetIsFirst
    <3>1. Sized(play.files[target]) /\ Sized(play.files[i])
      BY <1>1, <2>1 DEF TypeOfPlay, TypeOfFile, Sized, Candidates
    <3>2. IsAhead(play, target, i)
      BY <2>1
    <3> QED
      BY <3>1, <3>2, ScoreIsLexicographic DEF IsAhead
  <2>3. RequestedRowIsTarget
    <3>1. PICK n \in Nat :
             /\ \A i \in 1..n : \E f \in Candidates(play) : HasScope(play, f) /\ toCache[i] = RowOf(play, f)
             /\ IF play.season # Missing \/ play.episode # Missing
                THEN DOMAIN toCache = 1..n + 1 /\ toCache[n + 1] = <<play.season, play.episode, target>>
                ELSE DOMAIN toCache = 1..n
      BY <1>1, <1>3, RowsAre
    <3> DEFINE requested == {m \in DOMAIN toCache :
                          toCache[m][1] = play.season /\ toCache[m][2] = play.episode}
    <3>2. CASE play.season # Missing \/ play.episode # Missing
      <4>1. n + 1 \in requested /\ toCache[n + 1][3] = target
        BY <3>1, <3>2
      <4>2. \A m \in requested : (\A k \in requested : k <= m) => m = n + 1
        BY <3>1, <3>2, <4>1
      <4> QED
        BY <4>1, <4>2 DEF RequestedRowIsTarget
    <3>3. CASE play.season = Missing /\ play.episode = Missing
      <4>1. ASSUME NEW m \in DOMAIN toCache PROVE m \notin requested
        <5>1. PICK f \in Candidates(play) : HasScope(play, f) /\ toCache[m] = RowOf(play, f)
          BY <3>1, <3>3
        <5> DEFINE at == ScopeOf(play, play.files[f])
        <5>2. at = <<at[1], at[2]>>
          BY DEF ScopeOf
        <5>3. at[1] # Missing \/ at[2] # Missing
          BY <5>1, <5>2 DEF HasScope
        <5>4. /\ toCache[m][1] = (IF at[1] = Missing THEN play.season ELSE at[1])
              /\ toCache[m][2] = at[2]
          BY <5>1 DEF RowOf
        <5> QED
          BY <3>3, <5>3, <5>4
      <4> QED
        BY <4>1 DEF RequestedRowIsTarget
    <3> QED
      BY <3>2, <3>3
  <2> QED
    BY <2>2, <2>3 DEF LinkInv
<1> QED
  BY <1>2, <1>3 DEF LinkIndInv

\* Whatever files a torrent has, the one that is played comes first by the
\* priorities of the docstring, and the row of the episode that was asked for is
\* that of this file (generate_download_link() of debrid/stremthru.py).
THEOREM LinksAreBest == LinkSpec => []LinkInv
<1>1. LinkInit => LinkIndInv
  BY DEF LinkInit, LinkIndInv
<1> QED
  BY <1>1, LinkStep, LinkIndInvImplies, PTL DEF LinkSpec

----------------------------------------------------------------------------
(* The proxy of debrid streams. *)

StreamStages ==
    {"new", "linked", "refused", "adding", "starting", "opening", "open", "closing",
     "ending", "deleting", "gone"}

\* What the rows depend on.
RowTypes ==
    /\ stream \in [Stream -> StreamStages] /\ metrics \subseteq Stream
    /\ silent \subseteq Stream /\ popped \in [Process -> SUBSET Stream]

\* What the total depends on.
TotalTypes ==
    /\ chunks \in [Stream -> Nat] /\ session \in [Process -> Nat]
    /\ alltime \in [Process -> Nat] /\ synced \in [Process -> Nat]
    /\ syncing \in [Process -> Nat \cup {-1}] /\ stored \in Nat

Untouched(p) == \A s \in Stream : Home[s] = p => chunks[s] = 0

\* The total that is being written lies between what was written and what there
\* is; a process that has transferred nothing has nothing to write.
WritesBetween ==
    \A p \in Process :
        /\ syncing[p] # -1 => (synced[p] <= syncing[p] /\ syncing[p] <= alltime[p])
        /\ Untouched(p) => (syncing[p] = -1 /\ alltime[p] = synced[p])

ProxyIndInv == RowTypes /\ TotalTypes /\ RowsHaveOwners /\ TotalIsWhole /\ WritesBetween

LEMMA ProxyStarts == ProxyInit => ProxyIndInv
<1> SUFFICES ASSUME ProxyInit PROVE ProxyIndInv
  OBVIOUS
<1>1. RowTypes /\ TotalTypes
  BY DEF ProxyInit, RowTypes, TotalTypes, StreamStages
<1>2. RowsHaveOwners
  BY DEF ProxyInit, RowsHaveOwners
<1>3. TotalIsWhole /\ WritesBetween
  BY DEF ProxyInit, TotalIsWhole, WritesBetween
<1> QED
  BY <1>1, <1>2, <1>3 DEF ProxyIndInv

\* ---- the rows
\* A stream goes on, and what it still owns may be given to others.
LEMMA StreamGoesOn ==
    ASSUME RowTypes, RowsHaveOwners, NEW s \in Stream, NEW where \in StreamStages,
           stream' = [stream EXCEPT ![s] = where],
           metrics \subseteq metrics' \cup {s}, metrics' \subseteq Stream,
           silent' \subseteq Stream, popped' = popped,
           connections' \subseteq connections \cup {s}, leaked \subseteq leaked',
           s \in connections' =>
               \/ s \in metrics' \cup leaked' \/ where \in {"starting", "deleting"}
               \/ /\ s \in connections /\ (s \in metrics => s \in metrics')
                  /\ stream[s] \notin {"starting", "deleting"}
    PROVE  RowTypes' /\ RowsHaveOwners'
<1>1. RowTypes'
  BY DEF RowTypes
<1>2. ASSUME NEW r \in connections', r # s
      PROVE  r \in metrics' \cup Popped' \cup leaked'
                 \cup {q \in Stream : stream'[q] \in {"starting", "deleting"}}
  <2>1. r \in metrics \cup Popped \cup leaked
               \cup {q \in Stream : stream[q] \in {"starting", "deleting"}}
    BY <1>2 DEF RowsHaveOwners
  <2>2. Popped' = Popped
    BY DEF Popped
  <2>3. r \in Stream => stream'[r] = stream[r]
    BY <1>2 DEF RowTypes
  <2> QED
    BY <1>2, <2>1, <2>2, <2>3
<1>3. ASSUME s \in connections'
      PROVE  s \in metrics' \cup Popped' \cup leaked'
                 \cup {q \in Stream : stream'[q] \in {"starting", "deleting"}}
  <2>1. stream'[s] = where /\ Popped' = Popped
    BY DEF RowTypes, Popped
  <2>2. CASE /\ s \in connections /\ (s \in metrics => s \in metrics')
             /\ stream[s] \notin {"starting", "deleting"}
    <3>1. s \in metrics \cup Popped \cup leaked
               \cup {q \in Stream : stream[q] \in {"starting", "deleting"}}
      BY <2>2 DEF RowsHaveOwners
    <3> QED
      BY <2>1, <2>2, <3>1
  <2>3. CASE s \in metrics' \cup leaked' \/ where \in {"starting", "deleting"}
    BY <2>1, <2>3
  <2> QED
    BY <1>3, <2>2, <2>3
<1> QED
  BY <1>1, <1>2, <1>3 DEF RowsHaveOwners

LEMMA StreamsKeepRows ==
    ASSUME RowTypes, RowsHaveOwners, NEW s \in Stream,
           StreamStep(s) \/ AddFails(s) \/ StreamEnds(s)
    PROVE  RowTypes' /\ RowsHaveOwners'
<1> USE DEF RowTypes, StreamStages
<1>1. CASE GetLink(s)
  BY <1>1, StreamGoesOn DEF GetLink, To
<1>2. CASE CheckIpConnections(s)
  BY <1>2, StreamGoesOn DEF CheckIpConnections, To
<1>3. CASE AddActiveConnection(s)
  BY <1>3, StreamGoesOn DEF AddActiveConnection, To
<1>4. CASE AddFails(s)
  BY <1>4, StreamGoesOn DEF AddFails, To
<1>5. CASE StartConnection(s)
  BY <1>5, StreamGoesOn DEF StartConnection, To
<1>6. CASE HandleStreamRequest(s)
  BY <1>6, StreamGoesOn DEF HandleStreamRequest, To
<1>7. CASE StreamEnds(s)
  BY <1>7, StreamGoesOn DEF StreamEnds, To
<1>8. CASE CloseStreamer(s)
  BY <1>8, StreamGoesOn DEF CloseStreamer, To
<1>9. CASE EndConnection(s)
  BY <1>9, StreamGoesOn DEF EndConnection, To
<1>10. CASE DeleteConnection(s)
  BY <1>10, StreamGoesOn DEF DeleteConnection, To
<1>11. CASE FallSilent(s)
  BY <1>11 DEF FallSilent, RowsHaveOwners, Popped
<1> QED
  BY <1>1, <1>2, <1>3, <1>4, <1>5, <1>6, <1>7, <1>8, <1>9, <1>10, <1>11 DEF StreamStep

LEMMA MonitorKeepsRows ==
    ASSUME RowTypes, RowsHaveOwners, NEW p \in Process, MonitorStep(p)
    PROVE  RowTypes' /\ RowsHaveOwners'
<1> DEFINE Owned == {s \in Stream : stream[s] \in {"starting", "deleting"}}
<1>1. CASE PopInactive(p)
  <2>1. Inactive(p) \subseteq Stream /\ popped' = [popped EXCEPT ![p] = Inactive(p)]
        /\ metrics' = metrics \ Inactive(p) /\ silent' = silent \ Inactive(p)
        /\ popped[p] = {} /\ UNCHANGED <<stream, connections, leaked>>
    BY <1>1 DEF PopInactive, Inactive, RowTypes
  <2>2. RowTypes'
    BY <2>1 DEF RowTypes
  <2>3. Inactive(p) \subseteq Popped' /\ Popped \subseteq Popped'
    BY <2>1 DEF Popped, RowTypes
  <2> QED
    BY <2>1, <2>2, <2>3 DEF RowsHaveOwners
<1>2. CASE DeleteInactive(p)
  <2>1. popped' = [popped EXCEPT ![p] = {}] /\ UNCHANGED <<stream, metrics, silent>>
    BY <1>2 DEF DeleteInactive
  <2>2. RowTypes'
    BY <2>1 DEF RowTypes
  <2>3. Popped \subseteq Popped' \cup popped[p]
    BY <2>1 DEF Popped, RowTypes
  <2>4. \/ connections' = connections \ popped[p] /\ leaked' = leaked
        \/ connections' = connections /\ leaked' = leaked \cup popped[p]
    BY <1>2 DEF DeleteInactive
  <2> QED
    BY <2>1, <2>2, <2>3, <2>4 DEF RowsHaveOwners
<1> QED
  BY <1>1, <1>2 DEF MonitorStep

LEMMA RestartKeepsRows ==
    ASSUME RowTypes, NEW p \in Process, Restart(p)
    PROVE  RowTypes' /\ RowsHaveOwners'
BY DEF Restart, RowTypes, RowsHaveOwners, StreamStages

\* ---- the total
\* A step of one process p; the others have the same numbers.
LEMMA TotalOf ==
    ASSUME TotalTypes, TotalIsWhole, WritesBetween, TotalTypes', NEW p \in Process,
           \A q \in Process \ {p} :
               /\ session'[q] = session[q] /\ alltime'[q] = alltime[q]
               /\ synced'[q] = synced[q] /\ syncing'[q] = syncing[q],
           \A s \in Stream : Home[s] # p => chunks'[s] = chunks[s],
           \A s \in Stream : chunks'[s] = 0 => chunks[s] = 0,
           ~misread' => ~misread, Untouched(p) => stored' = stored,
           synced'[p] <= alltime'[p], session'[p] <= alltime'[p],
           \/ synced'[p] <= stored' \/ misread'
           \/ stored' = stored /\ synced'[p] = synced[p],
           syncing'[p] # -1 => (synced'[p] <= syncing'[p] /\ syncing'[p] <= alltime'[p]),
           Untouched(p)' => (syncing'[p] = -1 /\ alltime'[p] = synced'[p])
    PROVE  TotalIsWhole' /\ WritesBetween'
<1>1. ASSUME NEW q \in Process, q # p
      PROVE  /\ synced'[q] <= alltime'[q] /\ session'[q] <= alltime'[q]
             /\ syncing'[q] # -1 => (synced'[q] <= syncing'[q] /\ syncing'[q] <= alltime'[q])
             /\ Untouched(q)' => (syncing'[q] = -1 /\ alltime'[q] = synced'[q])
  <2>1. Untouched(q)' => Untouched(q)
    BY DEF Untouched
  <2> QED
    BY <1>1, <2>1 DEF TotalIsWhole, WritesBetween
<1>2. ASSUME NEW q \in Process, ~misread', \A s \in Stream : Home[s] # q => chunks'[s] = 0
      PROVE  synced'[q] <= stored'
  <2>1. ~misread /\ \A s \in Stream : Home[s] # q => chunks[s] = 0
    BY <1>2
  <2>2. synced[q] <= stored
    BY <2>1 DEF TotalIsWhole
  <2>3. CASE q = p
    BY <1>2, <2>2, <2>3
  <2>4. CASE q # p
    <3>1. Untouched(p)
      BY <2>1, <2>4 DEF Untouched
    <3> QED
      BY <2>2, <2>4, <3>1
  <2> QED
    BY <2>3, <2>4
<1>3. TotalIsWhole'
  BY <1>1, <1>2 DEF TotalIsWhole
<1>4. WritesBetween'
  BY <1>1 DEF WritesBetween
<1> QED
  BY <1>3, <1>4

LEMMA ChunkKeepsTotal ==
    ASSUME TotalTypes, TotalIsWhole, WritesBetween, NEW s \in Stream, Chunk(s)
    PROVE  TotalTypes' /\ TotalIsWhole' /\ WritesBetween'
<1> DEFINE p == Home[s]
<1>1. p \in Process
  BY ProxyAssumption
<1>2. /\ chunks' = [chunks EXCEPT ![s] = @ + 1]
      /\ \/ /\ session' = [session EXCEPT ![p] = @ + 1]
            /\ alltime' = [alltime EXCEPT ![p] = @ + 1]
         \/ session' = session /\ alltime' = alltime
      /\ UNCHANGED <<synced, syncing, stored, misread>>
  BY DEF Chunk
<1>3. TotalTypes'
  BY <1>1, <1>2 DEF TotalTypes
<1>4. /\ session[p] \in Nat /\ alltime[p] \in Nat /\ synced[p] \in Nat
      /\ syncing[p] \in Nat \cup {-1}
      /\ synced[p] <= alltime[p] /\ session[p] <= alltime[p]
      /\ syncing[p] # -1 => (synced[p] <= syncing[p] /\ syncing[p] <= alltime[p])
  BY <1>1 DEF TotalTypes, TotalIsWhole, WritesBetween
<1>5. /\ \A q \in Process \ {p} : session'[q] = session[q] /\ alltime'[q] = alltime[q]
      /\ \/ session'[p] = session[p] + 1 /\ alltime'[p] = alltime[p] + 1
         \/ session'[p] = session[p] /\ alltime'[p] = alltime[p]
  BY <1>1, <1>2 DEF TotalTypes
<1>6. /\ chunks'[s] = chunks[s] + 1 /\ chunks[s] \in Nat
      /\ \A r \in Stream \ {s} : chunks'[r] = chunks[r]
  BY <1>2 DEF TotalTypes
<1>7. ~Untouched(p)'
  BY <1>6 DEF Untouched
<1>8. /\ \A r \in Stream : Home[r] # p => chunks'[r] = chunks[r]
      /\ \A r \in Stream : chunks'[r] = 0 => chunks[r] = 0
  BY <1>6
<1> HIDE DEF p
<1>9. synced'[p] <= alltime'[p] /\ session'[p] <= alltime'[p]
      /\ (syncing'[p] # -1 => synced'[p] <= syncing'[p] /\ syncing'[p] <= alltime'[p])
  BY <1>2, <1>4, <1>5
<1>10. \A q \in Process \ {p} : synced'[q] = synced[q] /\ syncing'[q] = syncing[q]
  BY <1>2
<1> QED
  BY <1>1, <1>2, <1>3, <1>5, <1>7, <1>8, <1>9, <1>10, TotalOf

LEMMA SyncKeepsTotal ==
    ASSUME TotalTypes, TotalIsWhole, WritesBetween, NEW p \in Process,
           BeginSync(p) \/ PersistTotalBytes(p)
    PROVE  TotalTypes' /\ TotalIsWhole' /\ WritesBetween'
<1>1. /\ session[p] \in Nat /\ alltime[p] \in Nat /\ synced[p] \in Nat /\ stored \in Nat
      /\ syncing[p] \in Nat \cup {-1}
      /\ synced[p] <= alltime[p] /\ session[p] <= alltime[p]
      /\ syncing[p] # -1 => (synced[p] <= syncing[p] /\ syncing[p] <= alltime[p])
      /\ Untouched(p) => (syncing[p] = -1 /\ alltime[p] = synced[p])
  BY DEF TotalTypes, TotalIsWhole, WritesBetween
<1>2. UNCHANGED <<chunks, session, alltime, misread>> /\ Untouched(p)' = Untouched(p)
  BY DEF BeginSync, PersistTotalBytes, Untouched
<1>3. CASE BeginSync(p)
  <2>1. /\ syncing' = [syncing EXCEPT ![p] = alltime[p]] /\ UNCHANGED <<synced, stored>>
        /\ alltime[p] # synced[p]
    BY <1>3 DEF BeginSync
  <2>2. TotalTypes'
    BY <1>1, <1>2, <2>1 DEF TotalTypes
  <2>3. syncing'[p] = alltime[p] /\ \A q \in Process \ {p} : syncing'[q] = syncing[q]
    BY <2>1 DEF TotalTypes
  <2> QED
    BY <1>1, <1>2, <2>1, <2>2, <2>3, TotalOf
<1>4. CASE PersistTotalBytes(p)
  <2>1. /\ syncing[p] # -1 /\ syncing' = [syncing EXCEPT ![p] = -1]
        /\ \/ stored' = syncing[p] /\ synced' = [synced EXCEPT ![p] = syncing[p]]
           \/ stored' \in {stored, syncing[p]} /\ synced' = synced
    BY <1>4 DEF PersistTotalBytes
  <2>2. TotalTypes' /\ ~Untouched(p)
    BY <1>1, <1>2, <2>1 DEF TotalTypes
  <2>3. syncing'[p] = -1 /\ \A q \in Process \ {p} : syncing'[q] = syncing[q]
    BY <2>1 DEF TotalTypes
  <2>4. /\ \A q \in Process \ {p} : synced'[q] = synced[q]
        /\ \/ stored' = syncing[p] /\ synced'[p] = syncing[p]
           \/ stored' \in {stored, syncing[p]} /\ synced'[p] = synced[p]
    BY <2>1 DEF TotalTypes
  <2>5. synced'[p] <= alltime'[p] /\ session'[p] <= alltime'[p]
        /\ (synced'[p] <= stored' \/ (stored' = stored /\ synced'[p] = synced[p]))
    <3>1. synced'[p] \in {synced[p], syncing[p]} /\ syncing[p] # -1
      BY <2>1, <2>4
    <3>2. alltime'[p] = alltime[p] /\ session'[p] = session[p]
      BY <1>2
    <3>3. synced'[p] <= alltime'[p]
      BY <1>1, <3>1, <3>2
    <3>4. synced'[p] <= stored' \/ (stored' = stored /\ synced'[p] = synced[p])
      BY <1>1, <2>1, <2>4
    <3> QED
      BY <1>1, <3>2, <3>3, <3>4
  <2>6. /\ \A s \in Stream : Home[s] # p => chunks'[s] = chunks[s]
        /\ \A s \in Stream : chunks'[s] = 0 => chunks[s] = 0
        /\ ~misread' => ~misread
        /\ \A q \in Process \ {p} :
               /\ session'[q] = session[q] /\ alltime'[q] = alltime[q]
               /\ synced'[q] = synced[q] /\ syncing'[q] = syncing[q]
    BY <1>2, <2>3, <2>4
  <2>7. \/ synced'[p] <= stored' \/ misread'
        \/ stored' = stored /\ synced'[p] = synced[p]
    BY <2>5
  <2>8. /\ Untouched(p) => stored' = stored
        /\ syncing'[p] # -1 => (synced'[p] <= syncing'[p] /\ syncing'[p] <= alltime'[p])
        /\ Untouched(p)' => (syncing'[p] = -1 /\ alltime'[p] = synced'[p])
        /\ synced'[p] <= alltime'[p] /\ session'[p] <= alltime'[p]
    BY <1>2, <2>2, <2>3, <2>5
  <2> QED
    BY <2>2, <2>6, <2>7, <2>8, TotalOf
<1> QED
  BY <1>3, <1>4

LEMMA RestartKeepsTotal ==
    ASSUME TotalTypes, TotalIsWhole, WritesBetween, NEW p \in Process, Restart(p)
    PROVE  TotalTypes' /\ TotalIsWhole' /\ WritesBetween'
<1> PICK total \in {stored, 0} :
           /\ alltime' = [alltime EXCEPT ![p] = total] /\ synced' = [synced EXCEPT ![p] = total]
           /\ misread' = (misread \/ total # stored)
  BY DEF Restart
<1>1. /\ syncing' = [syncing EXCEPT ![p] = -1] /\ session' = [session EXCEPT ![p] = 0]
      /\ UNCHANGED <<chunks, stored>> /\ stored \in Nat /\ total \in Nat
  BY DEF Restart, TotalTypes
<1>2. TotalTypes'
  BY <1>1 DEF TotalTypes
<1>3. /\ syncing'[p] = -1 /\ session'[p] = 0 /\ alltime'[p] = total /\ synced'[p] = total
      /\ \A q \in Process \ {p} :
             /\ session'[q] = session[q] /\ alltime'[q] = alltime[q]
             /\ synced'[q] = synced[q] /\ syncing'[q] = syncing[q]
  BY <1>1 DEF TotalTypes
<1>4. /\ synced'[p] <= alltime'[p] /\ session'[p] <= alltime'[p]
      /\ synced'[p] <= stored' \/ misread'
  BY <1>1, <1>3
<1>5. /\ ~misread' => ~misread
      /\ \A s \in Stream : Home[s] # p => chunks'[s] = chunks[s]
      /\ \A s \in Stream : chunks'[s] = 0 => chunks[s] = 0
  BY <1>1
<1> QED
  BY <1>1, <1>2, <1>3, <1>4, <1>5, TotalOf

\* The other steps leave the total alone.
LEMMA TotalStays ==
    ASSUME TotalTypes, TotalIsWhole, WritesBetween, UNCHANGED byteVars
    PROVE  TotalTypes' /\ TotalIsWhole' /\ WritesBetween'
BY DEF byteVars, TotalTypes, TotalIsWhole, WritesBetween, Untouched

\* ProxyInv holds in every reachable state, for any streams, processes and limits:
\* a row of active_connections is never without somebody who will delete it, and the
\* total of a process that alone transfers is not made smaller by restarts.
THEOREM ProxyIsSound == ProxySpec => []ProxyInv
<1>1. ProxyIndInv /\ [ProxyNext]_proxyVars => ProxyIndInv'
  <2> SUFFICES ASSUME ProxyIndInv, [ProxyNext]_proxyVars PROVE ProxyIndInv'
    OBVIOUS
  <2> USE DEF ProxyIndInv
  <2>1. ASSUME NEW s \in Stream, StreamStep(s) \/ AddFails(s) \/ StreamEnds(s) PROVE ProxyIndInv'
    <3>1. UNCHANGED byteVars
      BY <2>1 DEF StreamStep, AddFails, StreamEnds, GetLink, CheckIpConnections,
         AddActiveConnection, StartConnection, HandleStreamRequest, CloseStreamer,
         EndConnection, DeleteConnection, FallSilent
    <3> QED
      BY <2>1, <3>1, StreamsKeepRows, TotalStays
  <2>2. ASSUME NEW s \in Stream, Chunk(s) PROVE ProxyIndInv'
    <3>1. RowTypes' /\ RowsHaveOwners'
      BY <2>2 DEF Chunk, RowTypes, RowsHaveOwners, Popped
    <3> QED
      BY <2>2, <3>1, ChunkKeepsTotal
  <2>3. ASSUME NEW p \in Process, MonitorStep(p) PROVE ProxyIndInv'
    <3>1. UNCHANGED byteVars
      BY <2>3 DEF MonitorStep, PopInactive, DeleteInactive
    <3> QED
      BY <2>3, <3>1, MonitorKeepsRows, TotalStays
  <2>4. ASSUME NEW p \in Process, BeginSync(p) \/ PersistTotalBytes(p) PROVE ProxyIndInv'
    <3>1. RowTypes' /\ RowsHaveOwners'
      BY <2>4 DEF BeginSync, PersistTotalBytes, RowTypes, RowsHaveOwners, Popped
    <3> QED
      BY <2>4, <3>1, SyncKeepsTotal
  <2>5. ASSUME NEW p \in Process, Restart(p) PROVE ProxyIndInv'
    BY <2>5, RestartKeepsRows, RestartKeepsTotal
  <2>6. CASE UNCHANGED proxyVars
    <3>1. RowTypes' /\ RowsHaveOwners' /\ UNCHANGED byteVars
      BY <2>6 DEF proxyVars, RowTypes, RowsHaveOwners, Popped
    <3> QED
      BY <3>1, TotalStays
  <2> QED
    BY <2>1, <2>2, <2>3, <2>4, <2>5, <2>6 DEF ProxyNext
<1>2. ProxyIndInv => ProxyInv
  BY DEF ProxyIndInv, ProxyInv
<1> QED
  BY ProxyStarts, <1>1, <1>2, PTL DEF ProxySpec

----------------------------------------------------------------------------
(* What debrid services have cached. *)

Number == {None} \cup Nat
FileSet == [title : {None} \cup Torrent \cup Title, index : Number, size : Number]

\* What names no file has no index and no size, either.
Proper(f) == f \in FileSet /\ (f.title = None => f = Unset)
Full(f) == f.index # None /\ f.size # None

RowSet == [title : {None} \cup Torrent \cup Title, index : Number, size : Number, at : Nat]
AnswerSet == [at : Nat, files : [Torrent -> Seq(FileSet)]]
WriteSet == [by : Asker, store : Store, files : [Torrent -> Seq(FileSet)], seen : Nat,
             at : Number]
Tables == UNION {[S -> RowSet] : S \in SUBSET Key}
AnswerMaps == UNION {[S -> AnswerSet] : S \in SUBSET Store}
AskerSet == [phase : {"idle", "rows", "stores", "done"}, waiting : SUBSET Store,
             shown : [Torrent -> FileSet], status : SUBSET (Torrent \X Store),
             answers : AnswerMaps, seen : SUBSET (Torrent \X FileSet), asks : Nat]

ClockOk ==
    /\ scope \in {"whole", "episode"} /\ offcloud \subseteq Store
    /\ moment \in 0..ClockEnd /\ moves \in 0..MaxMoves
    /\ held \in [Store -> [Torrent -> Holdings]]
    /\ lastHeld \in [Store -> [Torrent -> Number]]
    /\ \A s \in Store, t \in Torrent :
           lastHeld[s][t] <= moment /\ (held[s][t] # {} => lastHeld[s][t] = moment)

\* A row is not older than its torrent was held, but for the delay of its write.
RowsOk ==
    /\ rows \in Tables /\ DOMAIN confirmed = DOMAIN rows
    /\ \A k \in DOMAIN rows :
           /\ Proper(ColumnsOf(rows[k])) /\ rows[k].at <= moment
           /\ lastHeld[k[1]][k[2]] >= rows[k].at - Lag
           /\ confirmed[k] \in 0..moment
           /\ \/ confirmed[k] - rows[k].at <= UpdateInterval
              \/ confirmed[k] - rows[k].at <= Lag

\* What a service told, it held.
ToldOk(s, files, at) ==
    \A t \in Torrent : /\ \A i \in DOMAIN files[t] : Proper(files[t][i])
                       /\ files[t] # <<>> => lastHeld[s][t] >= at

WriteOk(w) ==
    /\ w \in WriteSet /\ ToldOk(w.store, w.files, w.seen)
    /\ w.seen <= moment /\ w.seen >= moment - Lag
    /\ w.at # None => w.seen <= w.at /\ w.at <= moment

\* Unless a file lacks a number, one file is shown, and none of the answers
\* that have been merged has a larger one.
Shows(q, t) ==
    (\A f \in FileSet : <<t, f>> \in q.seen /\ f # Unset => Full(f)) =>
        /\ q.shown[t] = Scraped[t] \/ (<<t, q.shown[t]>> \in q.seen /\ q.shown[t] # Unset)
        /\ \A s \in DOMAIN q.answers \ q.waiting :
               \A i \in DOMAIN q.answers[s].files[t] :
                   q.answers[s].files[t][i].size <= q.shown[t].size

AskerOk(q) ==
    /\ q \in AskerSet
    /\ q.phase = "idle" => q.seen = {} /\ q.shown = Scraped
    /\ q.phase \in {"idle", "rows"} => q.answers = <<>>
    /\ \A s \in DOMAIN q.answers :
           /\ ToldOk(s, q.answers[s].files, q.answers[s].at) /\ q.answers[s].at <= moment
           /\ q.phase = "stores" /\ s \in q.waiting => q.answers[s].at >= moment - Lag
    /\ \A t \in Torrent : Shows(q, t)

AvailIndInv ==
    /\ ClockOk /\ RowsOk
    /\ \A w \in writes : WriteOk(w)
    /\ DOMAIN asker = Asker /\ \A r \in Asker : AskerOk(asker[r])

----------------------------------------------------------------------------
(* Files *)

LEMMA GreaterOfTwo ==
    ASSUME NEW a \in Int, NEW b \in Int
    PROVE  Max({a, b}) = IF a >= b THEN a ELSE b
<1>1. \A x \in {a, b} : (\A y \in {a, b} : x >= y) <=> x = (IF a >= b THEN a ELSE b)
  OBVIOUS
<1> QED
  BY <1>1 DEF Max

LEMMA OverIs ==
    ASSUME NEW torrent \in FileSet, NEW f, Proper(f)
    PROVE  /\ Over(torrent, f) \in FileSet
           /\ f = Unset => Over(torrent, f) = torrent
           /\ f # Unset /\ Full(f) => Over(torrent, f) = f
<1>1. /\ f \in FileSet /\ f = [title |-> f.title, index |-> f.index, size |-> f.size]
      /\ torrent = [title |-> torrent.title, index |-> torrent.index, size |-> torrent.size]
  BY DEF Proper, FileSet
<1>2. Over(torrent, f) \in FileSet
  BY <1>1 DEF Over, FileSet
<1>3. f = Unset => Over(torrent, f) = torrent
  BY <1>1 DEF Over, Unset
<1>4. f # Unset /\ Full(f) => Over(torrent, f) = f
  BY <1>1 DEF Over, Full, Proper
<1> QED
  BY <1>2, <1>3, <1>4

LEMMA MergedIs ==
    ASSUME NEW torrent \in FileSet, NEW f, Proper(f)
    PROVE  /\ Merged(torrent, f) \in FileSet
           /\ f = Unset => Merged(torrent, f) = torrent
           /\ f # Unset /\ Full(f) => Merged(torrent, f) \in {torrent, f}
           /\ f = Unset \/ Full(f) => /\ Merged(torrent, f).size >= torrent.size
                                      /\ Merged(torrent, f).size >= f.size
<1>1. torrent.size \in Number /\ f.size \in Number
  BY DEF Proper, FileSet
<1>2. /\ Max({f.size, 0}) = (IF f.size >= 0 THEN f.size ELSE 0)
      /\ Max({torrent.size, 0}) = (IF torrent.size >= 0 THEN torrent.size ELSE 0)
  BY <1>1, GreaterOfTwo DEF Number, None
<1>3. Merged(torrent, f) = (IF (IF f.size >= 0 THEN f.size ELSE 0)
                                  >= (IF torrent.size >= 0 THEN torrent.size ELSE 0)
                            THEN Over(torrent, f) ELSE torrent)
  BY <1>2 DEF Merged
<1>4. f = Unset => f.size = None
  BY DEF Unset
<1>5. /\ Merged(torrent, f) \in FileSet
      /\ f = Unset => Merged(torrent, f) = torrent
      /\ f # Unset /\ Full(f) => Merged(torrent, f) \in {torrent, f}
  BY <1>3, OverIs
<1>6. CASE f = Unset
  BY <1>1, <1>4, <1>5, <1>6 DEF Number, None
<1>7. CASE f # Unset /\ Full(f)
  <2>1. f.size \in Nat
    BY <1>1, <1>7 DEF Full, Number
  <2>2. Over(torrent, f) = f
    BY <1>7, OverIs
  <2> QED
    BY <1>1, <1>3, <1>5, <1>7, <2>1, <2>2 DEF Number, None
<1> QED
  BY <1>5, <1>6, <1>7

\* The files of an answer, one after the other.
LEMMA AllMergedIs ==
    ASSUME NEW torrent \in FileSet, NEW files \in Seq(FileSet),
           \A i \in DOMAIN files : Proper(files[i]),
           NEW z, z = AllMerged(torrent, files)
    PROVE  /\ z \in FileSet
           /\ (\A i \in DOMAIN files : files[i] = Unset \/ Full(files[i])) =>
                 /\ z = torrent \/ \E i \in DOMAIN files : z = files[i] /\ files[i] # Unset
                 /\ z.size >= torrent.size
                 /\ \A i \in DOMAIN files : files[i].size <= z.size
<1> DEFINE n == Len(files)
           op == [x \in FileSet \X (1..n) |-> Merged(x[1], files[x[2]])]
           IsAfter(f) == f = [k \in 0..n |-> IF k = 0 THEN torrent ELSE Merged(f[k - 1], files[k])]
<1>0. n \in Nat /\ DOMAIN files = 1..n
  OBVIOUS
<1>1. ASSUME NEW l \in FileSet, NEW k \in 1..n
      PROVE  op[<<l, k>>] = Merged(l, files[k]) /\ Merged(l, files[k]) \in FileSet
  BY <1>0, MergedIs
<1> HIDE DEF op, n
<1>2. \A l \in FileSet : \A k \in 1..n : op[<<l, k>>] \in FileSet
  BY <1>1
<1>3. PICK f \in [0..n -> FileSet] : Steps(f, n, torrent, op)
  BY <1>0, <1>2, StepsExist
<1>4. IsAfter(f)
  <2>1. f = [k \in 0..n |-> IF k = 0 THEN torrent ELSE op[<<f[k - 1], k>>]]
    BY <1>3 DEF Steps
  <2>2. \A k \in 0..n : k # 0 => op[<<f[k - 1], k>>] = Merged(f[k - 1], files[k])
    BY <1>0, <1>1, <1>3
  <2> QED
    BY <2>1, <2>2
<1>5. z = (CHOOSE g : IsAfter(g))[n]
  BY DEF AllMerged, n
<1> HIDE DEF IsAfter
<1>6. PICK g : IsAfter(g) /\ z = g[n]
  BY <1>4, <1>5
<1>7. \A k \in 0..n : g[k] = IF k = 0 THEN torrent ELSE Merged(g[k - 1], files[k])
  BY <1>6 DEF IsAfter
<1> DEFINE Told == \A i \in 1..n : files[i] = Unset \/ Full(files[i])
           Good == {k \in 0..n :
                      /\ g[k] \in FileSet
                      /\ Told => /\ g[k] = torrent \/ \E i \in 1..n : g[k] = files[i] /\ files[i] # Unset
                                 /\ g[k].size >= torrent.size
                                 /\ \A i \in 1..k : files[i].size <= g[k].size}
<1>8. \A l \in FileSet : l.size \in Int
  BY DEF FileSet, Number, None
<1>9. 0 \in Good
  BY <1>0, <1>7, <1>8
<1>10. ASSUME NEW k \in 0..n, k \in Good, k < n PROVE k + 1 \in Good
  <2>1. k + 1 \in 1..n /\ k + 1 \in 0..n /\ (k + 1) - 1 = k /\ k + 1 # 0
    BY <1>0, <1>10
  <2> DEFINE m == files[k + 1]
             new == g[k + 1]
  <2>2. Proper(m) /\ new = Merged(g[k], m) /\ g[k] \in FileSet
    BY <1>0, <1>7, <1>10, <2>1
  <2>3. new \in FileSet /\ (m = Unset => new = g[k]) /\ (m # Unset /\ Full(m) => new \in {g[k], m})
        /\ (m = Unset \/ Full(m) => new.size >= g[k].size /\ new.size >= m.size)
    BY <2>2, MergedIs
  <2>4. ASSUME Told
        PROVE  /\ new = torrent \/ \E i \in 1..n : new = files[i] /\ files[i] # Unset
               /\ new.size >= torrent.size
               /\ \A i \in 1..k + 1 : files[i].size <= new.size
    <3>1. m = Unset \/ Full(m)
      BY <2>1, <2>4
    <3>2. new = g[k] \/ (new = m /\ m # Unset)
      BY <2>3, <3>1
    <3>3. /\ g[k] = torrent \/ \E i \in 1..n : g[k] = files[i] /\ files[i] # Unset
          /\ g[k].size >= torrent.size /\ \A i \in 1..k : files[i].size <= g[k].size
      BY <1>10, <2>4
    <3>4. new.size \in Int /\ g[k].size \in Int /\ torrent.size \in Int
          /\ \A i \in 1..n : files[i].size \in Int
      BY <1>0, <1>8, <2>2, <2>3
    <3>5. new.size >= g[k].size /\ new.size >= m.size
      BY <2>3, <3>1
    <3>6. ASSUME NEW i \in 1..k + 1 PROVE files[i].size <= new.size
      <4>1. i \in 1..k \/ i = k + 1
        BY <2>1
      <4>2. i \in 1..n
        BY <1>0, <2>1
      <4> HIDE DEF new
      <4>3. CASE i \in 1..k
        BY <3>3, <3>4, <3>5, <4>2, <4>3
      <4>4. CASE i = k + 1
        BY <3>5, <4>4
      <4> QED
        BY <4>1, <4>3, <4>4
    <3> HIDE DEF new
    <3> QED
      BY <2>1, <3>2, <3>3, <3>4, <3>5, <3>6
  <2> QED
    BY <2>1, <2>3, <2>4
<1>11. n \in Good
  <2> HIDE DEF Good
  <2> QED
    BY <1>0, <1>9, <1>10, ReachesEnd
<1> QED
  BY <1>0, <1>6, <1>11

----------------------------------------------------------------------------
(* Rows *)

LEMMA UpdatesRarely == UpdateInterval \in Nat
<1>1. ASSUME CacheTTL > 0 PROVE CacheTTL \div 2 \in Nat
  BY <1>1, AvailabilityAssumption
<1> QED
  BY <1>1, AvailabilityAssumption DEF UpdateInterval

LEMMA ColumnsAre ==
    ASSUME NEW f, Proper(f)
    PROVE  Proper(Columns(f))
BY DEF Proper, Columns, FileSet, Unset, Number

\* A row that was there stays or is replaced by one of now.
UpsertedSo(z, table, k, at) ==
    /\ z \in Tables /\ DOMAIN z = DOMAIN table \cup {k}
    /\ \A x \in DOMAIN table : x # k => z[x] = table[x]
    /\ \A x \in DOMAIN z : Proper(ColumnsOf(z[x]))
    /\ \/ z[k].at = at
       \/ k \in DOMAIN table /\ z[k] = table[k] /\ z[k].at >= at - UpdateInterval

LEMMA UpsertedIs ==
    ASSUME NEW table \in Tables, \A x \in DOMAIN table : Proper(ColumnsOf(table[x])),
           NEW k \in Key, NEW f, Proper(f), NEW at \in Nat
    PROVE  UpsertedSo(Upserted(table, k, f, at), table, k, at)
<1> DEFINE z == Upserted(table, k, f, at)
           row == [title |-> f.title, index |-> f.index, size |-> Columns(f).size, at |-> at]
<1>1. PICK S \in SUBSET Key : table \in [S -> RowSet]
  BY DEF Tables
<1>2. row \in RowSet /\ ColumnsOf(row) = Columns(f)
  BY ColumnsAre DEF Proper, Columns, ColumnsOf, FileSet, RowSet
<1>3. CASE k \in DOMAIN table /\ ~Replaces(table[k], Columns(f), at)
  <2>1. z = table
    BY <1>3 DEF Upserted
  <2>2. table[k].at >= at - UpdateInterval
    <3>1. table[k].at \in Int /\ UpdateInterval \in Int
      BY <1>1, <1>3, UpdatesRarely DEF RowSet
    <3> QED
      BY <1>3, <3>1 DEF Replaces
  <2> QED
    BY <1>3, <2>1, <2>2 DEF UpsertedSo
<1>4. CASE ~ (k \in DOMAIN table /\ ~Replaces(table[k], Columns(f), at))
  <2>1. z = [x \in DOMAIN table \cup {k} |-> IF x = k THEN row ELSE table[x]]
    BY <1>4 DEF Upserted
  <2> HIDE DEF z, row
  <2>2. z \in [S \cup {k} -> RowSet] /\ DOMAIN z = DOMAIN table \cup {k} /\ z[k] = row
        /\ \A x \in DOMAIN table : x # k => z[x] = table[x]
    BY <1>1, <1>2, <2>1
  <2>3. z \in Tables
    <3>1. S \cup {k} \in SUBSET Key
      OBVIOUS
    <3> QED
      BY <2>2, <3>1 DEF Tables
  <2>4. \A x \in DOMAIN z : Proper(ColumnsOf(z[x]))
    BY <1>2, <2>2, ColumnsAre
  <2>5. row.at = at
    BY DEF row
  <2> QED
    BY <2>2, <2>3, <2>4, <2>5 DEF UpsertedSo, z
<1> QED
  BY <1>3, <1>4

\* The rows after a write of the files of a torrent.
WrittenSo(z, w, t) ==
    /\ z \in Tables
    /\ \A k \in KeysOf(w, t) :
           /\ k \in DOMAIN z /\ Proper(ColumnsOf(z[k])) /\ z[k].at >= w.at - UpdateInterval
           /\ z[k].at = w.at \/ (k \in DOMAIN rows /\ z[k].at = rows[k].at)

LEMMA WrittenIs ==
    ASSUME RowsOk, scope \in {"whole", "episode"}, NEW w \in WriteSet, w.at \in Nat,
           NEW t \in Torrent, \A i \in DOMAIN w.files[t] : Proper(w.files[t][i]),
           NEW z, z = Written(w, t)
    PROVE  WrittenSo(z, w, t)
<1> DEFINE files == w.files[t]
           n == Len(files)
           at == w.at
           key(i) == KeyOf(w, t, files[i])
           op == [x \in Tables \X (1..n) |-> Upserted(x[1], key(x[2]), files[x[2]], at)]
           Valid == {x \in Tables : \A k \in DOMAIN x : Proper(ColumnsOf(x[k]))}
           IsAfter(f) == f = [k \in 0..n |-> IF k = 0 THEN rows
                                             ELSE Upserted(f[k - 1], key(k), files[k], at)]
<1>0. /\ files \in Seq(FileSet) /\ n \in Nat /\ DOMAIN files = 1..n
      /\ \A i \in 1..n : Proper(files[i])
      /\ w.store \in Store
  BY DEF WriteSet
<1>1. \A i \in 1..n : key(i) \in Key
  BY <1>0 DEF KeyOf, Key
<1>2. KeysOf(w, t) = {key(i) : i \in 1..n}
  BY <1>0 DEF KeysOf
<1>3. rows \in Valid /\ rows \in Tables
  BY DEF RowsOk
<1>4. \A l \in Tables : \A k \in 1..n : op[<<l, k>>] = Upserted(l, key(k), files[k], at)
  OBVIOUS
<1>5. ASSUME NEW l \in Valid, NEW k \in 1..n
      PROVE  UpsertedSo(Upserted(l, key(k), files[k], at), l, key(k), at)
  BY <1>0, <1>1, UpsertedIs
<1> HIDE DEF files, n, op, key
<1>6. ASSUME NEW l \in Valid, NEW k \in 1..n
      PROVE  op[<<l, k>>] \in Valid
  <2>1. op[<<l, k>>] = Upserted(l, key(k), files[k], at)
    BY <1>4
  <2> QED
    BY <1>5, <2>1 DEF UpsertedSo
<1> HIDE DEF Valid
<1>7. PICK f \in [0..n -> Valid] : Steps(f, n, rows, op)
  BY <1>0, <1>3, <1>6, StepsExist
<1>8. Valid \subseteq Tables
  BY DEF Valid
<1>9. IsAfter(f)
  <2>1. f = [k \in 0..n |-> IF k = 0 THEN rows ELSE op[<<f[k - 1], k>>]]
    BY <1>7 DEF Steps
  <2>2. \A k \in 0..n : k # 0 => op[<<f[k - 1], k>>] = Upserted(f[k - 1], key(k), files[k], at)
    BY <1>0, <1>4, <1>7, <1>8
  <2> QED
    BY <2>1, <2>2
<1>10. z = (CHOOSE g : IsAfter(g))[n]
  BY DEF Written, n, files, key
<1> HIDE DEF IsAfter
<1>11. PICK g : IsAfter(g) /\ z = g[n]
  BY <1>9, <1>10
<1>12. \A k \in 0..n : g[k] = IF k = 0 THEN rows ELSE Upserted(g[k - 1], key(k), files[k], at)
  BY <1>11 DEF IsAfter
<1> DEFINE Kept(x, y) == x.at = at \/ (y \in DOMAIN rows /\ x.at = rows[y].at)
           Good == {k \in 0..n :
                      /\ g[k] \in Valid
                      /\ \A y \in DOMAIN g[k] : Kept(g[k][y], y)
                      /\ \A i \in 1..k : key(i) \in DOMAIN g[k]
                                         /\ g[k][key(i)].at >= at - UpdateInterval}
<1>13. 0 \in Good
  BY <1>0, <1>3, <1>12
<1>14. at \in Int /\ UpdateInterval \in Nat
  BY UpdatesRarely
<1>15. ASSUME NEW k \in 0..n, k \in Good, k < n PROVE k + 1 \in Good
  <2>1. k + 1 \in 1..n /\ k + 1 \in 0..n /\ (k + 1) - 1 = k /\ k + 1 # 0
    BY <1>0, <1>15
  <2> DEFINE old == g[k]
             new == g[k + 1]
             y1 == key(k + 1)
  <2>2. /\ new = Upserted(old, y1, files[k + 1], at) /\ old \in Valid
        /\ \A y \in DOMAIN old : Kept(old[y], y)
        /\ \A i \in 1..k : key(i) \in DOMAIN old /\ old[key(i)].at >= at - UpdateInterval
    BY <1>12, <1>15, <2>1
  <2>3. UpsertedSo(new, old, y1, at)
    BY <1>5, <2>1, <2>2
  <2> HIDE DEF new, old, y1, Kept
  <2>4. new \in Valid /\ DOMAIN new = DOMAIN old \cup {y1}
        /\ \A y \in DOMAIN old : y # y1 => new[y] = old[y]
    BY <2>3 DEF UpsertedSo, Valid
  <2>5. new[y1].at >= at - UpdateInterval /\ Kept(new[y1], y1)
    <3>1. CASE new[y1].at = at
      BY <1>14, <3>1 DEF Kept
    <3>2. CASE y1 \in DOMAIN old /\ new[y1] = old[y1] /\ new[y1].at >= at - UpdateInterval
      BY <2>2, <3>2
    <3> QED
      BY <2>3, <3>1, <3>2 DEF UpsertedSo
  <2>6. \A y \in DOMAIN new : Kept(new[y], y)
    BY <2>2, <2>4, <2>5
  <2>7. ASSUME NEW i \in 1..k + 1
        PROVE  key(i) \in DOMAIN new /\ new[key(i)].at >= at - UpdateInterval
    <3>1. CASE key(i) = y1
      BY <2>4, <2>5, <3>1
    <3>2. CASE key(i) # y1
      <4>1. i \in 1..k
        BY <2>1, <3>2 DEF y1
      <4>2. key(i) \in DOMAIN old /\ old[key(i)].at >= at - UpdateInterval
        BY <2>2, <4>1
      <4>3. key(i) \in DOMAIN new /\ new[key(i)] = old[key(i)]
        BY <2>4, <3>2, <4>2
      <4> QED
        BY <4>2, <4>3
    <3> QED
      BY <3>1, <3>2
  <2> QED
    BY <2>1, <2>4, <2>6, <2>7 DEF new
<1>16. n \in Good
  <2>1. \A k \in 0..n : k \in Good /\ k < n => k + 1 \in Good
    BY <1>15
  <2> HIDE DEF Good
  <2>2. \A k \in 0..n : k \in Good
    BY <1>0, <1>13, <2>1, ReachesEnd
  <2> QED
    BY <1>0, <2>2
<1>17. z \in Valid /\ \A y \in DOMAIN z : Kept(z[y], y)
  BY <1>11, <1>16
<1>18. \A i \in 1..n : key(i) \in DOMAIN z /\ z[key(i)].at >= at - UpdateInterval
  BY <1>11, <1>16
<1>19. \A k \in KeysOf(w, t) : k \in DOMAIN z /\ z[k].at >= at - UpdateInterval
  BY <1>2, <1>18
<1> HIDE DEF Good
<1>20. z \in Tables /\ \A y \in DOMAIN z : Proper(ColumnsOf(z[y]))
  BY <1>17 DEF Valid
<1> QED
  BY <1>17, <1>19, <1>20 DEF WrittenSo

----------------------------------------------------------------------------
(* The steps of a request *)

LEMMA NoAnswers == <<>> \in AnswerMaps /\ DOMAIN <<>> = {}
<1>1. <<>> \in [{} -> AnswerSet] /\ DOMAIN <<>> = {}
  OBVIOUS
<1>2. {} \in SUBSET Store
  OBVIOUS
<1> QED
  BY <1>1, <1>2 DEF AnswerMaps

LEMMA ScrapedIs == Scraped \in [Torrent -> FileSet]
BY AvailabilityAssumption DEF Scraped, FileSet, Number, None

LEMMA SizesAre ==
    ASSUME NEW f \in FileSet
    PROVE  f.size \in Int
BY DEF FileSet, Number, None

LEMMA AnswersAre ==
    ASSUME NEW answers \in AnswerMaps
    PROVE  /\ DOMAIN answers \in SUBSET Store
           /\ \A s \in DOMAIN answers :
                  answers[s] \in AnswerSet /\ answers[s].at \in Nat
                  /\ \A t \in Torrent : answers[s].files[t] \in Seq(FileSet)
<1>1. PICK S \in SUBSET Store : answers \in [S -> AnswerSet]
  BY DEF AnswerMaps
<1> QED
  BY <1>1 DEF AnswerSet

LEMMA NextPhaseKeeps ==
    ASSUME NEW q, AskerOk(q), q.phase \in {"rows", "stores"}
    PROVE  AskerOk(NextPhase(q))
<1> DEFINE z == NextPhase(q)
<1>1. q \in AskerSet
  BY DEF AskerOk
<1>2. CASE q.waiting # {}
  BY <1>2 DEF NextPhase
<1>3. CASE q.waiting = {} /\ q.phase = "rows"
  <2>1. z = [q EXCEPT !.phase = "stores", !.waiting = Store]
    BY <1>3 DEF NextPhase
  <2>2. /\ z \in AskerSet /\ z.phase = "stores" /\ z.answers = q.answers /\ z.seen = q.seen
        /\ z.shown = q.shown
    BY <1>1, <2>1 DEF AskerSet
  <2>3. q.answers = <<>>
    BY <1>3 DEF AskerOk
  <2> HIDE DEF z
  <2>4. \A t \in Torrent : Shows(z, t)
    <3>1. \A t \in Torrent : Shows(q, t)
      BY DEF AskerOk
    <3> QED
      BY <2>2, <2>3, <3>1, NoAnswers DEF Shows
  <2>5. AskerOk(z)
    BY <2>2, <2>3, <2>4, NoAnswers DEF AskerOk
  <2> QED
    BY <2>5 DEF z
<1>4. CASE q.waiting = {} /\ q.phase = "stores"
  <2>1. z = [q EXCEPT !.phase = "done"]
    BY <1>4 DEF NextPhase
  <2>2. /\ z \in AskerSet /\ z.phase = "done" /\ z.answers = q.answers /\ z.seen = q.seen
        /\ z.shown = q.shown /\ z.waiting = q.waiting
    BY <1>1, <2>1 DEF AskerSet
  <2> HIDE DEF z
  <2>3. \A t \in Torrent : Shows(z, t)
    <3>1. \A t \in Torrent : Shows(q, t)
      BY DEF AskerOk
    <3> QED
      BY <2>2, <3>1 DEF Shows
  <2>4. AskerOk(z)
    BY <2>2, <2>3 DEF AskerOk
  <2> QED
    BY <2>4 DEF z
<1> QED
  BY <1>2, <1>3, <1>4

\* Files of rows are shown over what is known.
ReadSo(q, q1, T, c) ==
    /\ q1.answers = <<>>
    /\ q1.shown = [t \in Torrent |-> IF t \in T THEN Over(q.shown[t], c[t]) ELSE q.shown[t]]
    /\ q1.seen = q.seen \cup {<<t, c[t]>> : t \in T}

LEMMA ReadShows ==
    ASSUME NEW q, AskerOk(q), NEW T \in SUBSET Torrent, NEW c, \A t \in T : Proper(c[t]),
           NEW q1, ReadSo(q, q1, T, c)
    PROVE  /\ q1.shown \in [Torrent -> FileSet] /\ q1.seen \in SUBSET (Torrent \X FileSet)
           /\ \A t \in Torrent : Shows(q1, t)
<1> USE DEF ReadSo
<1>1. q.shown \in [Torrent -> FileSet] /\ q.seen \in SUBSET (Torrent \X FileSet)
  BY DEF AskerOk, AskerSet
<1>2. ASSUME NEW t \in T
      PROVE  /\ Over(q.shown[t], c[t]) \in FileSet /\ c[t] \in FileSet
             /\ c[t] = Unset => Over(q.shown[t], c[t]) = q.shown[t]
             /\ c[t] # Unset /\ Full(c[t]) => Over(q.shown[t], c[t]) = c[t]
  <2>1. q.shown[t] \in FileSet /\ c[t] \in FileSet
    BY <1>1 DEF Proper
  <2> QED
    BY <2>1, OverIs
<1>3. q1.shown \in [Torrent -> FileSet] /\ q1.seen \in SUBSET (Torrent \X FileSet)
  BY <1>1, <1>2
<1>4. ASSUME NEW t \in Torrent, \A f \in FileSet : <<t, f>> \in q1.seen /\ f # Unset => Full(f)
      PROVE  q1.shown[t] = Scraped[t] \/ (<<t, q1.shown[t]>> \in q1.seen /\ q1.shown[t] # Unset)
  <2>1. \A f \in FileSet : <<t, f>> \in q.seen /\ f # Unset => Full(f)
    BY <1>4
  <2>2. q.shown[t] = Scraped[t] \/ (<<t, q.shown[t]>> \in q.seen /\ q.shown[t] # Unset)
    BY <2>1 DEF AskerOk, Shows
  <2>3. CASE t \in T /\ c[t] # Unset
    <3>1. <<t, c[t]>> \in q1.seen /\ c[t] \in FileSet
      BY <1>2, <2>3
    <3>2. q1.shown[t] = c[t]
      BY <1>2, <1>4, <2>3, <3>1
    <3> QED
      BY <2>3, <3>1, <3>2
  <2>4. CASE ~ (t \in T /\ c[t] # Unset)
    <3>1. q1.shown[t] = q.shown[t]
      BY <1>2, <2>4
    <3> QED
      BY <2>2, <3>1
  <2> QED
    BY <2>3, <2>4
<1>5. \A t \in Torrent : Shows(q1, t)
  BY <1>4, NoAnswers DEF Shows
<1> QED
  BY <1>3, <1>5

\* What AskerOk says depends on the clock and on what was held.
Onward ==
    /\ lastHeld \in [Store -> [Torrent -> Number]] /\ lastHeld' \in [Store -> [Torrent -> Number]]
    /\ \A s \in Store, t \in Torrent : lastHeld[s][t] <= lastHeld'[s][t]
    /\ moment \in Nat /\ moment' \in Nat /\ moment <= moment'

LEMMA ToldStays ==
    ASSUME Onward, NEW s \in Store, NEW files, NEW at \in Nat, ToldOk(s, files, at)
    PROVE  ToldOk(s, files, at)'
<1>1. \A t \in Torrent : lastHeld[s][t] \in Int /\ lastHeld'[s][t] \in Int
  BY DEF Onward, Number, None
<1>2. \A t \in Torrent : lastHeld[s][t] >= at => lastHeld'[s][t] >= at
  BY <1>1 DEF Onward
<1> QED
  BY <1>2 DEF ToldOk

LEMMA AskerStays ==
    ASSUME Onward, NEW q, AskerOk(q),
           moment' = moment
             \/ \A s \in DOMAIN q.answers : q.phase = "stores" /\ s \in q.waiting
                                              => q.answers[s].at >= moment' - Lag
    PROVE  AskerOk(q)'
<1>1. q \in AskerSet
  BY DEF AskerOk
<1>2. q.answers \in AnswerMaps
  BY <1>1 DEF AskerSet
<1>3. ASSUME NEW s \in DOMAIN q.answers
      PROVE  /\ ToldOk(s, q.answers[s].files, q.answers[s].at)' /\ q.answers[s].at <= moment'
             /\ q.phase = "stores" /\ s \in q.waiting => q.answers[s].at >= moment' - Lag
  <2>1. s \in Store /\ q.answers[s].at \in Nat
    BY <1>2, AnswersAre
  <2>2. ToldOk(s, q.answers[s].files, q.answers[s].at) /\ q.answers[s].at <= moment
        /\ (q.phase = "stores" /\ s \in q.waiting => q.answers[s].at >= moment - Lag)
    BY DEF AskerOk
  <2>3. ToldOk(s, q.answers[s].files, q.answers[s].at)'
    BY <2>1, <2>2, ToldStays
  <2>4. q.answers[s].at <= moment'
    BY <2>1, <2>2 DEF Onward
  <2> QED
    BY <2>2, <2>3, <2>4
<1>4. \A t \in Torrent : Shows(q, t)'
  BY DEF AskerOk, Shows
<1> QED
  BY <1>1, <1>3, <1>4 DEF AskerOk

LEMMA WriteStays ==
    ASSUME Onward, NEW w, WriteOk(w), w.seen >= moment' - Lag
    PROVE  WriteOk(w)'
<1>1. w \in WriteSet
  BY DEF WriteOk
<1>2. w.store \in Store /\ w.seen \in Nat /\ w.at \in Int
  BY <1>1 DEF WriteSet, Number, None
<1>3. ToldOk(w.store, w.files, w.seen)'
  BY <1>2, ToldStays DEF WriteOk
<1>4. w.seen <= moment' /\ (w.at # None => w.seen <= w.at /\ w.at <= moment')
  BY <1>2 DEF WriteOk, Onward
<1> QED
  BY <1>1, <1>3, <1>4 DEF WriteOk

\* A step of a request changes it and, at most, the writes.
Others == <<scope, offcloud, moment, held, moves, lastHeld, rows, confirmed>>

LEMMA RequestSteps ==
    ASSUME AvailIndInv, UNCHANGED Others, NEW r \in Asker, NEW q1, AskerOk(q1),
           asker' = [asker EXCEPT ![r] = q1],
           \A w \in writes' : w \in writes \/ WriteOk(w)
    PROVE  AvailIndInv'
<1>1. ClockOk' /\ RowsOk'
  BY DEF AvailIndInv, ClockOk, RowsOk, Others, Holdings
<1>2. moment' = moment /\ lastHeld' = lastHeld /\ Onward
  <2>1. lastHeld \in [Store -> [Torrent -> Number]] /\ moment \in Nat
        /\ moment' = moment /\ lastHeld' = lastHeld
    BY AvailabilityAssumption DEF AvailIndInv, ClockOk, Others
  <2>2. \A s \in Store, t \in Torrent : lastHeld[s][t] \in Int
    BY <2>1 DEF Number, None
  <2> QED
    BY <2>1, <2>2 DEF Onward
<1>3. ASSUME NEW x \in Asker, NEW y, y = asker'[x] PROVE AskerOk(y)'
  <2>1. AskerOk(y)
    BY <1>3 DEF AvailIndInv
  <2> QED
    BY <1>2, <2>1, AskerStays
<1>4. ASSUME NEW w \in writes' PROVE WriteOk(w)'
  <2>1. WriteOk(w)
    BY DEF AvailIndInv
  <2>2. w.seen >= moment - Lag
    BY <2>1 DEF WriteOk
  <2> QED
    BY <1>2, <2>1, <2>2, WriteStays
<1>5. DOMAIN asker' = Asker
  BY DEF AvailIndInv
<1> QED
  <2>1. \A x \in Asker : AskerOk(asker[x])'
    BY <1>3 DEF AskerOk, ToldOk
  <2> QED
    BY <1>1, <1>4, <1>5, <2>1 DEF AvailIndInv

LEMMA BeginKeeps ==
    ASSUME AvailIndInv, NEW r \in Asker, Begin(r)
    PROVE  AvailIndInv'
<1> DEFINE q == asker[r]
           q1 == [q EXCEPT !.phase = "rows", !.waiting = Store]
<1>1. AskerOk(q) /\ q.phase = "idle" /\ q \in AskerSet
  BY DEF AvailIndInv, Begin, AskerOk
<1>2. /\ q1 \in AskerSet /\ q1.phase = "rows" /\ q1.answers = q.answers /\ q1.seen = q.seen
      /\ q1.shown = q.shown
  BY <1>1 DEF AskerSet
<1>3. q.answers = <<>>
  BY <1>1 DEF AskerOk
<1> HIDE DEF q1
<1>4. \A t \in Torrent : Shows(q1, t)
  <2>1. \A t \in Torrent : Shows(q, t)
    BY <1>1 DEF AskerOk
  <2> QED
    BY <1>2, <1>3, <2>1, NoAnswers DEF Shows
<1>5. AskerOk(q1)
  BY <1>2, <1>3, <1>4, NoAnswers DEF AskerOk
<1>6. asker' = [asker EXCEPT ![r] = q1] /\ UNCHANGED Others /\ writes' = writes
  BY DEF Begin, Others, q1
<1> QED
  BY <1>5, <1>6, RequestSteps

LEMMA FinishKeeps ==
    ASSUME AvailIndInv, NEW r \in Asker, Finish(r)
    PROVE  AvailIndInv'
<1> DEFINE q1 == [Idle EXCEPT !.asks = asker[r].asks + 1]
<1>1. asker[r].asks + 1 \in Nat
  BY DEF AvailIndInv, AskerOk, AskerSet
<1>2. /\ Idle \in AskerSet /\ Idle.phase = "idle" /\ Idle.answers = <<>> /\ Idle.seen = {}
      /\ Idle.shown = Scraped
  BY NoAnswers, ScrapedIs DEF Idle, AskerSet
<1>3. AskerOk(q1)
  <2>1. /\ q1 \in AskerSet /\ q1.phase = "idle" /\ q1.answers = <<>> /\ q1.seen = {}
        /\ q1.shown = Scraped
    BY <1>1, <1>2 DEF AskerSet
  <2> HIDE DEF q1
  <2>2. \A t \in Torrent : Shows(q1, t)
    BY <2>1, NoAnswers DEF Shows
  <2> QED
    BY <2>1, <2>2, NoAnswers DEF AskerOk
<1>4. asker' = [asker EXCEPT ![r] = q1] /\ UNCHANGED Others /\ writes' = writes
  BY DEF Finish, Others
<1> HIDE DEF q1
<1> QED
  BY <1>3, <1>4, RequestSteps

LEMMA BeginTorrentKeeps ==
    ASSUME AvailIndInv, NEW r \in Asker, BeginTorrent(r)
    PROVE  AvailIndInv'
<1> DEFINE q == asker[r]
           found == {t \in Torrent : FoundAnywhere(t) # {}}
<1>1. AskerOk(q) /\ q.phase = "idle" /\ q \in AskerSet
  BY DEF AvailIndInv, BeginTorrent, AskerOk
<1>2. q.answers = <<>> /\ q.seen = {} /\ q.shown = Scraped
  BY <1>1 DEF AskerOk
<1> DEFINE file(of) == [t \in found |-> ColumnsOf(rows[<<of[t], t, scope>>])]
           after(c) == [q EXCEPT !.phase = "done",
                           !.shown = [t \in Torrent |-> IF t \in found THEN Over(q.shown[t], c[t])
                                                        ELSE q.shown[t]],
                           !.seen = q.seen \cup {<<t, c[t]>> : t \in found}]
<1>3. PICK of \in [Torrent -> Store] :
          /\ \A t \in found : <<of[t], t, scope>> \in FoundAnywhere(t)
          /\ asker' = [asker EXCEPT ![r] = after(file(of))]
  BY DEF BeginTorrent
<1> DEFINE c == file(of)
           q1 == after(c)
<1>4. asker' = [asker EXCEPT ![r] = q1]
  BY <1>3
<1>5. \A t \in found : Proper(c[t])
  <2>1. \A t \in found : <<of[t], t, scope>> \in DOMAIN rows
    BY <1>3 DEF FoundAnywhere, IsYoung, IsStored
  <2>2. \A t \in found : Proper(ColumnsOf(rows[<<of[t], t, scope>>]))
    BY <2>1 DEF AvailIndInv, RowsOk
  <2> QED
    BY <2>2
<1>6. /\ q1.phase = "done" /\ q1.answers = <<>>
      /\ q1.shown = [t \in Torrent |-> IF t \in found THEN Over(q.shown[t], c[t])
                                                        ELSE q.shown[t]]
      /\ q1.seen = q.seen \cup {<<t, c[t]>> : t \in found}
  BY <1>1, <1>2 DEF AskerSet
<1>7. found \in SUBSET Torrent
  OBVIOUS
<1>8. /\ q1.shown \in [Torrent -> FileSet] /\ q1.seen \in SUBSET (Torrent \X FileSet)
      /\ \A t \in Torrent : Shows(q1, t)
  <2>1. ReadSo(q, q1, found, c)
    <3> HIDE DEF q1, q, c, found
    <3> QED
      BY <1>6 DEF ReadSo
  <2> HIDE DEF q1, q, c, found
  <2> QED
    BY <1>1, <1>5, <1>7, <2>1, ReadShows
<1>9. q1 \in AskerSet
  <2>1. q1 = [q EXCEPT !.phase = "done", !.shown = q1.shown, !.seen = q1.seen]
    BY <1>1, <1>6 DEF AskerSet
  <2> HIDE DEF q1, q
  <2> QED
    BY <1>1, <1>8, <2>1 DEF AskerSet
<1>10. AskerOk(q1)
  <2> HIDE DEF q1
  <2> QED
    BY <1>6, <1>8, <1>9, NoAnswers DEF AskerOk
<1>11. UNCHANGED Others /\ writes' = writes
  BY DEF BeginTorrent, Others
<1> HIDE DEF q1
<1> QED
  BY <1>4, <1>10, <1>11, RequestSteps

LEMMA ReadRowsKeeps ==
    ASSUME AvailIndInv, NEW r \in Asker, NEW s \in Store, ReadRows(r, s)
    PROVE  AvailIndInv'
<1> DEFINE q == asker[r]
           found(t) == {ColumnsOf(rows[k]) : k \in Found(s, t)}
           T == {t \in Torrent : found(t) # {}}
           c == [t \in T |-> CHOOSE f \in found(t) : TRUE]
           q1 == [q EXCEPT
               !.waiting = q.waiting \ {s},
               !.status = q.status \cup (T \X {s}),
               !.shown = [t \in Torrent |-> IF t \in T THEN Over(q.shown[t], c[t]) ELSE q.shown[t]],
               !.seen = q.seen \cup {<<t, c[t]>> : t \in T}]
<1>1. AskerOk(q) /\ q.phase = "rows" /\ q \in AskerSet
  BY DEF AvailIndInv, ReadRows, Waits, AskerOk
<1>2. q.answers = <<>>
  BY <1>1 DEF AskerOk
<1>3. asker' = [asker EXCEPT ![r] = NextPhase(q1)]
  BY DEF ReadRows
<1>4. \A t \in T : Proper(c[t])
  <2>1. \A t \in Torrent : \A k \in Found(s, t) : k \in DOMAIN rows
    BY DEF Found, IsYoung, IsStored
  <2>2. \A t \in Torrent : \A f \in found(t) : Proper(f)
    BY <2>1 DEF AvailIndInv, RowsOk
  <2> QED
    BY <2>2
<1>5. /\ q1.phase = "rows" /\ q1.answers = <<>> /\ q1.waiting = q.waiting \ {s}
      /\ q1.status = q.status \cup (T \X {s})
      /\ q1.shown = [t \in Torrent |-> IF t \in T THEN Over(q.shown[t], c[t]) ELSE q.shown[t]]
      /\ q1.seen = q.seen \cup {<<t, c[t]>> : t \in T}
  BY <1>1, <1>2 DEF AskerSet
<1>6. T \in SUBSET Torrent
  OBVIOUS
<1>7. /\ q1.shown \in [Torrent -> FileSet] /\ q1.seen \in SUBSET (Torrent \X FileSet)
      /\ \A t \in Torrent : Shows(q1, t)
  <2> HIDE DEF q1, q, c, T
  <2>1. ReadSo(q, q1, T, c)
    BY <1>5 DEF ReadSo
  <2> QED
    BY <1>1, <1>4, <1>6, <2>1, ReadShows
<1>8. q1 \in AskerSet
  <2>1. q1 = [q EXCEPT !.waiting = q1.waiting, !.status = q1.status, !.shown = q1.shown,
                       !.seen = q1.seen]
    BY <1>1, <1>5 DEF AskerSet
  <2> HIDE DEF q1, q
  <2>2. q1.waiting \in SUBSET Store /\ q1.status \in SUBSET (Torrent \X Store)
    BY <1>1, <1>5, <1>6 DEF AskerSet
  <2> QED
    BY <1>1, <1>7, <2>1, <2>2 DEF AskerSet
<1>9. AskerOk(q1)
  <2> HIDE DEF q1
  <2> QED
    BY <1>5, <1>7, <1>8, NoAnswers DEF AskerOk
<1>10. UNCHANGED Others /\ writes' = writes
  BY DEF ReadRows, Others
<1> HIDE DEF q1
<1>11. AskerOk(NextPhase(q1))
  BY <1>5, <1>9, NextPhaseKeeps
<1> QED
  BY <1>3, <1>10, <1>11, RequestSteps

LEMMA ReadFailsKeeps ==
    ASSUME AvailIndInv, NEW r \in Asker, NEW s \in Store, ReadFails(r, s)
    PROVE  AvailIndInv'
<1> DEFINE q == asker[r]
           q1 == [q EXCEPT !.waiting = q.waiting \ {s}]
<1>1. AskerOk(q) /\ q.phase = "rows" /\ q \in AskerSet
  BY DEF AvailIndInv, ReadFails, Waits, AskerOk
<1>2. /\ q1 \in AskerSet /\ q1.phase = "rows" /\ q1.answers = q.answers /\ q1.seen = q.seen
      /\ q1.shown = q.shown
  BY <1>1 DEF AskerSet
<1>3. q.answers = <<>> /\ \A t \in Torrent : Shows(q, t)
  BY <1>1 DEF AskerOk
<1>4. asker' = [asker EXCEPT ![r] = NextPhase(q1)] /\ UNCHANGED Others /\ writes' = writes
  BY DEF ReadFails, Others
<1> HIDE DEF q1
<1>5. \A t \in Torrent : Shows(q1, t)
  BY <1>2, <1>3, NoAnswers DEF Shows
<1>6. AskerOk(q1)
  BY <1>2, <1>3, <1>5, NoAnswers DEF AskerOk
<1>7. AskerOk(NextPhase(q1))
  BY <1>2, <1>6, NextPhaseKeeps
<1> QED
  BY <1>4, <1>7, RequestSteps

\* What a store answers is what it holds.
LEMMA FilesAre ==
    ASSUME ClockOk, NEW s \in Store, NEW t \in Torrent
    PROVE  /\ Files(s, t) \in Seq(FileSet)
           /\ \A i \in DOMAIN Files(s, t) : Proper(Files(s, t)[i])
           /\ Files(s, t) # <<>> => lastHeld[s][t] >= moment
<1> DEFINE Named == [title : Title, index : Number, size : Number]
           z == Files(s, t)
<1>1. held[s][t] \in Holdings
  BY DEF ClockOk
<1>2. \A l \in held[s][t] : l \in Seq(Named)
  BY <1>1, AvailabilityAssumption DEF Holdings, Number
<1>3. \A f \in Named : Proper(f)
  BY AvailabilityAssumption DEF Proper, FileSet
<1>4. Named \subseteq FileSet
  BY DEF FileSet
<1>5. Proper(Unset) /\ Unset \in FileSet
  BY DEF Proper, Unset, FileSet, Number
<1>6. \A l \in Seq(Named) : l \in Seq(FileSet) /\ \A i \in DOMAIN l : Proper(l[i])
  <2> HIDE DEF Named
  <2> SUFFICES ASSUME NEW l \in Seq(Named)
               PROVE  l \in Seq(FileSet) /\ \A i \in DOMAIN l : Proper(l[i])
    OBVIOUS
  <2>1. \A i \in DOMAIN l : l[i] \in Named
    OBVIOUS
  <2>2. l \in [1..Len(l) -> FileSet] /\ Len(l) \in Nat
    BY <1>4, <2>1
  <2> QED
    BY <1>3, <2>1, <2>2
<1>7. CASE held[s][t] = {} \/ (s \in offcloud /\ scope = "episode")
  <2>1. z = <<>>
    BY <1>7 DEF Files
  <2> QED
    BY <2>1
<1>8. CASE held[s][t] # {} /\ ~ (s \in offcloud /\ scope = "episode")
  <2>1. lastHeld[s][t] >= moment
    <3>1. lastHeld[s][t] = moment /\ moment \in Int
      BY <1>8 DEF ClockOk
    <3> QED
      BY <3>1
  <2>2. z = <<Unset>> \/ z \in held[s][t]
    BY <1>8 DEF Files
  <2>3. CASE z = <<Unset>>
    <3>1. z \in Seq(FileSet) /\ DOMAIN z = {1} /\ z[1] = Unset
      BY <1>5, <2>3
    <3> QED
      BY <1>5, <2>1, <3>1
  <2>4. CASE z \in held[s][t]
    BY <1>2, <1>6, <2>1, <2>4
  <2> QED
    BY <2>2, <2>3, <2>4
<1> QED
  BY <1>7, <1>8

LEMMA AnswerKeeps ==
    ASSUME AvailIndInv, NEW r \in Asker, NEW s \in Store, Answer(r, s)
    PROVE  AvailIndInv'
<1> DEFINE q == asker[r]
           now == [at |-> moment, files |-> [t \in Torrent |-> Files(s, t)]]
           answers == [x \in DOMAIN q.answers \cup {s} |-> IF x = s THEN now ELSE q.answers[x]]
           q1 == [q EXCEPT !.answers = answers]
<1>1. AskerOk(q) /\ q.phase = "stores" /\ q \in AskerSet /\ s \in q.waiting
  BY DEF AvailIndInv, Answer, Waits, AskerOk
<1>2. q.answers \in AnswerMaps /\ moment \in Nat /\ ClockOk
  BY <1>1, AvailabilityAssumption DEF AskerSet, AvailIndInv, ClockOk
<1>3. now \in AnswerSet /\ now.at = moment /\ ToldOk(s, now.files, now.at)
  BY <1>2, FilesAre DEF AnswerSet, ToldOk
<1>4. answers \in AnswerMaps /\ DOMAIN answers = DOMAIN q.answers \cup {s} /\ answers[s] = now
      /\ \A x \in DOMAIN q.answers : x # s => answers[x] = q.answers[x]
  <2> HIDE DEF now
  <2>1. PICK S \in SUBSET Store : q.answers \in [S -> AnswerSet]
    BY <1>2 DEF AnswerMaps
  <2>2. answers \in [S \cup {s} -> AnswerSet] /\ S \cup {s} \in SUBSET Store
    BY <1>3, <2>1
  <2> QED
    BY <2>1, <2>2 DEF AnswerMaps
<1>5. /\ q1.phase = "stores" /\ q1.answers = answers /\ q1.waiting = q.waiting
      /\ q1.shown = q.shown /\ q1.seen = q.seen
  <2> HIDE DEF answers
  <2> QED
    BY <1>1 DEF AskerSet
<1>6. q1 \in AskerSet
  <2> HIDE DEF answers
  <2> QED
    BY <1>1, <1>4 DEF AskerSet
<1>7. UNCHANGED Others /\ writes' = writes /\ asker' = [asker EXCEPT ![r] = q1]
  BY DEF Answer, Others
<1> HIDE DEF q1, answers, now, q
<1>8. \A t \in Torrent : Shows(q1, t)
  <2>1. \A t \in Torrent : Shows(q, t)
    BY <1>1 DEF AskerOk
  <2>2. \A x \in DOMAIN answers \ q.waiting : x \in DOMAIN q.answers \ q.waiting /\ x # s
    BY <1>1, <1>4
  <2> QED
    BY <1>4, <1>5, <2>1, <2>2 DEF Shows
<1>9. ASSUME NEW x \in DOMAIN answers
      PROVE  /\ ToldOk(x, answers[x].files, answers[x].at) /\ answers[x].at <= moment
             /\ q.phase = "stores" /\ x \in q.waiting => answers[x].at >= moment - Lag
  <2>1. CASE x = s
    <3>1. moment >= moment - Lag /\ moment <= moment
      BY <1>2, AvailabilityAssumption
    <3> QED
      BY <1>3, <1>4, <2>1, <3>1
  <2>2. CASE x # s
    <3>1. x \in DOMAIN q.answers /\ answers[x] = q.answers[x]
      BY <1>4, <2>2
    <3> QED
      BY <1>1, <3>1 DEF AskerOk
  <2> QED
    BY <2>1, <2>2
<1>10. AskerOk(q1)
  BY <1>1, <1>5, <1>6, <1>8, <1>9 DEF AskerOk
<1> QED
  BY <1>7, <1>10, RequestSteps

LEMMA AskFailsKeeps ==
    ASSUME AvailIndInv, NEW r \in Asker, NEW s \in Store, AskFails(r, s)
    PROVE  AvailIndInv'
<1> DEFINE q == asker[r]
           answers == [x \in DOMAIN q.answers \ {s} |-> q.answers[x]]
           q1 == [q EXCEPT !.waiting = q.waiting \ {s}, !.answers = answers]
<1>1. AskerOk(q) /\ q.phase = "stores" /\ q \in AskerSet
  BY DEF AvailIndInv, AskFails, Waits, AskerOk
<1>2. q.answers \in AnswerMaps
  BY <1>1 DEF AskerSet
<1>3. answers \in AnswerMaps /\ DOMAIN answers = DOMAIN q.answers \ {s}
      /\ \A x \in DOMAIN answers : answers[x] = q.answers[x]
  <2>1. PICK S \in SUBSET Store : q.answers \in [S -> AnswerSet]
    BY <1>2 DEF AnswerMaps
  <2>2. answers \in [S \ {s} -> AnswerSet] /\ S \ {s} \in SUBSET Store
    BY <2>1
  <2> QED
    BY <2>1, <2>2 DEF AnswerMaps
<1>4. /\ q1.phase = "stores" /\ q1.answers = answers /\ q1.waiting = q.waiting \ {s}
      /\ q1.shown = q.shown /\ q1.seen = q.seen
  <2> HIDE DEF answers
  <2> QED
    BY <1>1 DEF AskerSet
<1>5. q1 \in AskerSet
  <2> HIDE DEF answers
  <2> QED
    BY <1>1, <1>3 DEF AskerSet
<1>6. UNCHANGED Others /\ writes' = writes /\ asker' = [asker EXCEPT ![r] = NextPhase(q1)]
  BY DEF AskFails, Others
<1> HIDE DEF q1, answers, q
<1>7. \A t \in Torrent : Shows(q1, t)
  <2>1. \A t \in Torrent : Shows(q, t)
    BY <1>1 DEF AskerOk
  <2>2. \A x \in DOMAIN answers \ q1.waiting : x \in DOMAIN q.answers \ q.waiting
    BY <1>3, <1>4
  <2> QED
    BY <1>3, <1>4, <2>1, <2>2 DEF Shows
<1>8. \A x \in DOMAIN answers :
          /\ ToldOk(x, answers[x].files, answers[x].at) /\ answers[x].at <= moment
          /\ q.phase = "stores" /\ x \in q1.waiting => answers[x].at >= moment - Lag
  BY <1>1, <1>3, <1>4 DEF AskerOk
<1>9. AskerOk(q1)
  BY <1>1, <1>4, <1>5, <1>7, <1>8 DEF AskerOk
<1>10. AskerOk(NextPhase(q1))
  BY <1>4, <1>9, NextPhaseKeeps
<1> QED
  BY <1>6, <1>10, RequestSteps

\* The files of an answer are merged into what is shown.
MergeSo(q, q1, s, of) ==
    /\ q1.answers = q.answers /\ q1.waiting = q.waiting \ {s}
    /\ q1.shown = [t \in Torrent |-> AllMerged(q.shown[t], of[t])]
    /\ q1.seen = q.seen \cup UNION {{<<t, f>> : f \in ToSet(of[t])} : t \in Torrent}

LEMMA MergeShows ==
    ASSUME NEW q, AskerOk(q), NEW s \in DOMAIN q.answers, NEW of, of = q.answers[s].files,
           NEW q1, MergeSo(q, q1, s, of)
    PROVE  /\ q1.shown \in [Torrent -> FileSet] /\ q1.seen \in SUBSET (Torrent \X FileSet)
           /\ \A t \in Torrent : Shows(q1, t)
<1>1. q.shown \in [Torrent -> FileSet] /\ q.seen \in SUBSET (Torrent \X FileSet)
      /\ q.answers \in AnswerMaps
  BY DEF AskerOk, AskerSet
<1>2. ASSUME NEW t \in Torrent
      PROVE  /\ of[t] \in Seq(FileSet) /\ \A i \in DOMAIN of[t] : Proper(of[t][i])
             /\ q.shown[t] \in FileSet
  <2>1. of[t] \in Seq(FileSet)
    BY <1>1, AnswersAre
  <2>2. ToldOk(s, of, q.answers[s].at)
    BY DEF AskerOk
  <2> QED
    BY <1>1, <2>1, <2>2 DEF ToldOk
<1>3. ASSUME NEW t \in Torrent
      PROVE  /\ q1.shown[t] \in FileSet
             /\ (\A i \in DOMAIN of[t] : of[t][i] = Unset \/ Full(of[t][i])) =>
                   /\ q1.shown[t] = q.shown[t]
                      \/ \E i \in DOMAIN of[t] : q1.shown[t] = of[t][i] /\ of[t][i] # Unset
                   /\ q1.shown[t].size >= q.shown[t].size
                   /\ \A i \in DOMAIN of[t] : of[t][i].size <= q1.shown[t].size
  <2> DEFINE z == q1.shown[t]
             torrent == q.shown[t]
             files == of[t]
  <2>1. z = AllMerged(torrent, files)
    BY DEF MergeSo
  <2>2. files \in Seq(FileSet) /\ torrent \in FileSet /\ \A i \in DOMAIN files : Proper(files[i])
    BY <1>2
  <2> HIDE DEF z, torrent, files
  <2>3. /\ z \in FileSet
        /\ (\A i \in DOMAIN files : files[i] = Unset \/ Full(files[i])) =>
              /\ z = torrent \/ \E i \in DOMAIN files : z = files[i] /\ files[i] # Unset
              /\ z.size >= torrent.size
              /\ \A i \in DOMAIN files : files[i].size <= z.size
    BY <2>1, <2>2, AllMergedIs
  <2> QED
    BY <2>3 DEF z, torrent, files
<1>4. q1.shown \in [Torrent -> FileSet]
  BY <1>3 DEF MergeSo
<1>5. \A t \in Torrent : \A i \in DOMAIN of[t] :
          of[t][i] \in FileSet /\ <<t, of[t][i]>> \in q1.seen
  <2> SUFFICES ASSUME NEW t \in Torrent, NEW i \in DOMAIN of[t]
               PROVE  of[t][i] \in FileSet /\ <<t, of[t][i]>> \in q1.seen
    OBVIOUS
  <2>1. of[t][i] \in ToSet(of[t])
    BY DEF ToSet
  <2>2. <<t, of[t][i]>> \in {<<t, f>> : f \in ToSet(of[t])}
    BY <2>1
  <2>3. of[t][i] \in FileSet
    BY <1>2
  <2> QED
    BY <2>2, <2>3 DEF MergeSo
<1>6. q1.seen \in SUBSET (Torrent \X FileSet)
  <2>1. \A t \in Torrent : \A f \in ToSet(of[t]) : f \in FileSet
    BY <1>2 DEF ToSet
  <2>2. UNION {{<<t, f>> : f \in ToSet(of[t])} : t \in Torrent} \in SUBSET (Torrent \X FileSet)
    BY <2>1
  <2> QED
    BY <1>1, <2>2 DEF MergeSo
<1>7. q.seen \subseteq q1.seen
  BY DEF MergeSo
<1>8. ASSUME NEW t \in Torrent, \A f \in FileSet : <<t, f>> \in q1.seen /\ f # Unset => Full(f)
      PROVE  /\ q1.shown[t] = Scraped[t] \/ (<<t, q1.shown[t]>> \in q1.seen /\ q1.shown[t] # Unset)
             /\ \A x \in DOMAIN q1.answers \ q1.waiting :
                    \A i \in DOMAIN q1.answers[x].files[t] :
                        q1.answers[x].files[t][i].size <= q1.shown[t].size
  <2>1. \A i \in DOMAIN of[t] : of[t][i] = Unset \/ Full(of[t][i])
    BY <1>5, <1>8
  <2>2. /\ q1.shown[t] = q.shown[t]
           \/ \E i \in DOMAIN of[t] : q1.shown[t] = of[t][i] /\ of[t][i] # Unset
        /\ q1.shown[t].size >= q.shown[t].size
        /\ \A i \in DOMAIN of[t] : of[t][i].size <= q1.shown[t].size
    BY <1>3, <2>1
  <2>3. \A f \in FileSet : <<t, f>> \in q.seen /\ f # Unset => Full(f)
    BY <1>7, <1>8
  <2>4. /\ q.shown[t] = Scraped[t] \/ (<<t, q.shown[t]>> \in q.seen /\ q.shown[t] # Unset)
        /\ \A x \in DOMAIN q.answers \ q.waiting :
               \A i \in DOMAIN q.answers[x].files[t] :
                   q.answers[x].files[t][i].size <= q.shown[t].size
    BY <2>3 DEF AskerOk, Shows
  <2>5. q1.shown[t] = Scraped[t] \/ (<<t, q1.shown[t]>> \in q1.seen /\ q1.shown[t] # Unset)
    <3>1. CASE q1.shown[t] = q.shown[t]
      BY <1>7, <2>4, <3>1
    <3>2. CASE \E i \in DOMAIN of[t] : q1.shown[t] = of[t][i] /\ of[t][i] # Unset
      BY <1>5, <3>2
    <3> QED
      BY <2>2, <3>1, <3>2
  <2>6. ASSUME NEW x \in DOMAIN q1.answers \ q1.waiting,
               NEW i \in DOMAIN q1.answers[x].files[t]
        PROVE  q1.answers[x].files[t][i].size <= q1.shown[t].size
    <3>1. x \in DOMAIN q.answers /\ i \in DOMAIN q.answers[x].files[t]
          /\ q1.answers[x].files[t][i] = q.answers[x].files[t][i]
      BY DEF MergeSo
    <3>2. CASE x = s
      BY <2>2, <3>1, <3>2
    <3>3. CASE x # s
      <4>1. x \in DOMAIN q.answers \ q.waiting
        BY <3>1, <3>3 DEF MergeSo
      <4>2. q.answers[x].files[t][i].size <= q.shown[t].size
        BY <2>4, <3>1, <4>1
      <4>3. q.answers[x].files[t] \in Seq(FileSet)
        BY <1>1, <3>1, AnswersAre
      <4>4. q.answers[x].files[t][i] \in FileSet
        BY <3>1, <4>3
      <4>5. q.answers[x].files[t][i].size \in Int /\ q.shown[t].size \in Int
            /\ q1.shown[t].size \in Int
        BY <1>2, <1>3, <4>4, SizesAre
      <4> QED
        BY <2>2, <3>1, <4>2, <4>5
    <3> QED
      BY <3>2, <3>3
  <2> QED
    BY <2>5, <2>6
<1>9. \A t \in Torrent : Shows(q1, t)
  BY <1>8 DEF Shows
<1> QED
  BY <1>4, <1>6, <1>9

LEMMA ApplyKeeps ==
    ASSUME AvailIndInv, NEW r \in Asker, NEW s \in Store, Apply(r, s)
    PROVE  AvailIndInv'
<1> DEFINE q == asker[r]
           of == q.answers[s].files
           told == {t \in Torrent : of[t] # <<>>}
           new == [by |-> r, store |-> s, files |-> of, seen |-> q.answers[s].at, at |-> None]
           q1 == [q EXCEPT
               !.waiting = q.waiting \ {s},
               !.status = q.status \cup (told \X {s}),
               !.shown = [t \in Torrent |-> AllMerged(q.shown[t], of[t])],
               !.seen = q.seen \cup UNION {{<<t, f>> : f \in ToSet(of[t])} : t \in Torrent}]
<1>1. /\ AskerOk(q) /\ q.phase = "stores" /\ q \in AskerSet /\ s \in q.waiting
      /\ s \in DOMAIN q.answers
  BY DEF AvailIndInv, Apply, Waits, AskerOk
<1>2. asker' = [asker EXCEPT ![r] = NextPhase(q1)] /\ UNCHANGED Others
  BY DEF Apply, Others
<1>3. writes' = (IF told = {} THEN writes ELSE writes \cup {new})
  BY DEF Apply
<1>4. WriteOk(new)
  <2>1. q.answers \in AnswerMaps
    BY <1>1 DEF AskerSet
  <2>2. q.answers[s] \in AnswerSet
    BY <1>1, <2>1, AnswersAre
  <2>3. of \in [Torrent -> Seq(FileSet)] /\ q.answers[s].at \in Nat
    BY <2>2 DEF AnswerSet
  <2>4. ToldOk(s, of, q.answers[s].at) /\ q.answers[s].at <= moment
        /\ q.answers[s].at >= moment - Lag
    BY <1>1 DEF AskerOk
  <2>5. new \in WriteSet
    BY <2>3 DEF WriteSet, Number
  <2> QED
    BY <2>4, <2>5 DEF WriteOk
<1>5. /\ q1.phase = "stores" /\ q1.answers = q.answers /\ q1.waiting = q.waiting \ {s}
      /\ q1.status = q.status \cup (told \X {s})
      /\ q1.shown = [t \in Torrent |-> AllMerged(q.shown[t], of[t])]
      /\ q1.seen = q.seen \cup UNION {{<<t, f>> : f \in ToSet(of[t])} : t \in Torrent}
  BY <1>1 DEF AskerSet
<1>6. /\ q1.shown \in [Torrent -> FileSet] /\ q1.seen \in SUBSET (Torrent \X FileSet)
      /\ \A t \in Torrent : Shows(q1, t)
  <2>1. of = q.answers[s].files
    OBVIOUS
  <2> HIDE DEF q1, q, of
  <2>2. MergeSo(q, q1, s, of)
    BY <1>5 DEF MergeSo
  <2> QED
    BY <1>1, <2>1, <2>2, MergeShows
<1>7. q1 \in AskerSet
  <2>1. q1 = [q EXCEPT !.waiting = q1.waiting, !.status = q1.status, !.shown = q1.shown,
                       !.seen = q1.seen]
    BY <1>1, <1>5 DEF AskerSet
  <2>2. told \in SUBSET Torrent
    OBVIOUS
  <2> HIDE DEF q1, q, told
  <2>3. q1.waiting \in SUBSET Store /\ q1.status \in SUBSET (Torrent \X Store)
    BY <1>1, <1>5, <2>2 DEF AskerSet
  <2> QED
    BY <1>1, <1>6, <2>1, <2>3 DEF AskerSet
<1>8. AskerOk(q1)
  <2> HIDE DEF q1, q
  <2>1. \A x \in DOMAIN q1.answers :
          /\ ToldOk(x, q1.answers[x].files, q1.answers[x].at) /\ q1.answers[x].at <= moment
          /\ q1.phase = "stores" /\ x \in q1.waiting => q1.answers[x].at >= moment - Lag
    BY <1>1, <1>5 DEF AskerOk
  <2> QED
    BY <1>5, <1>6, <1>7, <2>1 DEF AskerOk
<1> HIDE DEF q1
<1>9. AskerOk(NextPhase(q1))
  BY <1>5, <1>8, NextPhaseKeeps
<1>10. \A w \in writes' : w \in writes \/ WriteOk(w)
  <2> HIDE DEF new
  <2> QED
    BY <1>3, <1>4
<1> QED
  BY <1>2, <1>9, <1>10, RequestSteps

----------------------------------------------------------------------------
(* The other steps *)

\* Steps that leave the requests, and the history they rest on, as they are.
LEMMA OnlyWrites ==
    ASSUME AvailIndInv,
           UNCHANGED <<scope, offcloud, moment, held, moves, lastHeld, asker>>,
           \A w \in writes' : w \in writes \/ WriteOk(w)
    PROVE  /\ ClockOk' /\ (\A w \in writes' : WriteOk(w)')
           /\ DOMAIN asker' = Asker /\ \A r \in Asker : AskerOk(asker[r])'
<1>1. ClockOk'
  BY DEF AvailIndInv, ClockOk, Holdings
<1>2. \A w \in writes' : WriteOk(w)
  BY DEF AvailIndInv
<1>3. \A w \in writes' : WriteOk(w)'
  BY <1>2 DEF WriteOk, ToldOk
<1>4. \A r \in Asker : AskerOk(asker[r])
  BY DEF AvailIndInv
<1>5. \A r \in Asker : AskerOk(asker[r])'
  BY <1>4 DEF AskerOk, ToldOk
<1> QED
  BY <1>1, <1>3, <1>5 DEF AvailIndInv

LEMMA StartWriteKeeps ==
    ASSUME AvailIndInv, NEW w \in writes, StartWrite(w)
    PROVE  AvailIndInv'
<1> DEFINE v == [w EXCEPT !.at = moment]
<1>1. WriteOk(w) /\ w \in WriteSet /\ moment \in Nat
  BY AvailabilityAssumption DEF AvailIndInv, WriteOk, ClockOk
<1>2. /\ v \in WriteSet /\ v.at = moment /\ v.store = w.store /\ v.files = w.files
      /\ v.seen = w.seen
  BY <1>1 DEF WriteSet, Number
<1>3. writes' = (writes \ {w}) \cup {v}
  BY DEF StartWrite
<1> HIDE DEF v
<1>4. WriteOk(v)
  <2>1. moment <= moment
    BY <1>1
  <2> QED
    BY <1>1, <1>2, <2>1 DEF WriteOk
<1>5. \A x \in writes' : x \in writes \/ WriteOk(x)
  BY <1>3, <1>4
<1>6. UNCHANGED <<scope, offcloud, moment, held, moves, lastHeld, rows, confirmed, asker>>
  BY DEF StartWrite
<1>7. RowsOk'
  BY <1>6 DEF AvailIndInv, RowsOk
<1> QED
  BY <1>5, <1>6, <1>7, OnlyWrites DEF AvailIndInv

LEMMA WriteFailsKeeps ==
    ASSUME AvailIndInv, NEW w \in writes, WriteFails(w)
    PROVE  AvailIndInv'
<1>1. UNCHANGED <<scope, offcloud, moment, held, moves, lastHeld, rows, confirmed, asker>>
      /\ writes' \subseteq writes
  BY DEF WriteFails
<1>2. RowsOk'
  BY <1>1 DEF AvailIndInv, RowsOk
<1> QED
  BY <1>1, <1>2, OnlyWrites DEF AvailIndInv

LEMMA EndWriteKeeps ==
    ASSUME AvailIndInv, NEW w \in writes, EndWrite(w)
    PROVE  AvailIndInv'
<1> DEFINE keys == UNION {KeysOf(w, t) : t \in Torrent}
           newest(k) == IF k \in DOMAIN confirmed THEN Max({confirmed[k], w.at}) ELSE w.at
<1>1. /\ rows' = [k \in DOMAIN rows \cup keys |->
                     IF k \in keys THEN Written(w, k[2])[k] ELSE rows[k]]
      /\ confirmed' = [k \in DOMAIN confirmed \cup keys |->
                          IF k \notin keys THEN confirmed[k] ELSE newest(k)]
      /\ w.at # None /\ writes' \subseteq writes
      /\ UNCHANGED <<scope, offcloud, moment, held, moves, lastHeld, asker>>
  BY DEF EndWrite
<1>2. /\ WriteOk(w) /\ w \in WriteSet /\ moment \in Nat /\ scope \in {"whole", "episode"}
      /\ lastHeld \in [Store -> [Torrent -> Number]] /\ RowsOk
  BY AvailabilityAssumption DEF AvailIndInv, WriteOk, ClockOk
<1>3. /\ w.at \in Nat /\ w.seen \in Nat /\ w.store \in Store
      /\ w.seen <= moment /\ w.seen >= moment - Lag /\ w.seen <= w.at /\ w.at <= moment
      /\ w.files \in [Torrent -> Seq(FileSet)] /\ ToldOk(w.store, w.files, w.seen)
  BY <1>1, <1>2 DEF WriteOk, WriteSet, Number
<1>4. ASSUME NEW t \in Torrent
      PROVE  /\ WrittenSo(Written(w, t), w, t)
             /\ \A k \in KeysOf(w, t) : k \in Key /\ k[1] = w.store /\ k[2] = t
             /\ KeysOf(w, t) # {} => lastHeld[w.store][t] >= w.seen
  <2>1. \A i \in DOMAIN w.files[t] : Proper(w.files[t][i])
    BY <1>3 DEF ToldOk
  <2>2. WrittenSo(Written(w, t), w, t)
    BY <1>2, <1>3, <2>1, WrittenIs
  <2>3. \A k \in KeysOf(w, t) : k \in Key /\ k[1] = w.store /\ k[2] = t
    BY <1>2, <1>3 DEF KeysOf, KeyOf, Key
  <2>4. KeysOf(w, t) # {} => lastHeld[w.store][t] >= w.seen
    <3>1. w.files[t] = <<>> => DOMAIN w.files[t] = {}
      OBVIOUS
    <3> QED
      BY <1>3, <3>1 DEF KeysOf, ToldOk
  <2> QED
    BY <2>2, <2>3, <2>4
<1>5. keys \subseteq Key
  BY <1>4
<1>6. rows \in Tables /\ DOMAIN confirmed = DOMAIN rows
  BY <1>2 DEF RowsOk
<1>7. PICK S \in SUBSET Key : rows \in [S -> RowSet]
  BY <1>6 DEF Tables
<1>8. Lag \in Nat /\ UpdateInterval \in Nat
  BY UpdatesRarely, AvailabilityAssumption
\* A row that is written,
<1>9. ASSUME NEW k \in keys
      PROVE  /\ rows'[k] \in RowSet /\ Proper(ColumnsOf(rows'[k])) /\ rows'[k].at <= moment
             /\ lastHeld[k[1]][k[2]] >= rows'[k].at - Lag
             /\ confirmed'[k] \in 0..moment
             /\ confirmed'[k] - rows'[k].at <= UpdateInterval \/ confirmed'[k] - rows'[k].at <= Lag
  <2>1. PICK t \in Torrent : k \in KeysOf(w, t)
    OBVIOUS
  <2> DEFINE z == Written(w, t)
  <2>2. k \in Key /\ k[1] = w.store /\ k[2] = t /\ lastHeld[w.store][t] >= w.seen
    BY <1>4, <2>1
  <2>3. rows'[k] = z[k]
    BY <1>1, <2>2
  <2>4. /\ z \in Tables /\ k \in DOMAIN z /\ Proper(ColumnsOf(z[k]))
        /\ z[k].at >= w.at - UpdateInterval
        /\ z[k].at = w.at \/ (k \in DOMAIN rows /\ z[k].at = rows[k].at)
    BY <1>4, <2>1 DEF WrittenSo
  <2>5. z[k] \in RowSet
    <3> HIDE DEF z
    <3>1. PICK D \in SUBSET Key : z \in [D -> RowSet]
      BY <2>4 DEF Tables
    <3> QED
      BY <2>4, <3>1
  <2>6. z[k].at \in Nat
    BY <2>5 DEF RowSet
  <2>7. lastHeld[w.store][t] \in Int
    BY <1>2, <1>3 DEF Number, None
  <2>8. confirmed'[k] = newest(k)
    BY <1>1
  <2> DEFINE row == z[k]
             last == lastHeld[w.store][t]
             was == rows[k].at
             said == confirmed[k]
  <2>9. ASSUME k \in DOMAIN rows
        PROVE  /\ was \in Nat /\ was <= moment /\ last >= was - Lag /\ said \in 0..moment
               /\ said - was <= UpdateInterval \/ said - was <= Lag
    <3>1. was \in Nat
      BY <1>7, <2>9 DEF RowSet
    <3> QED
      BY <1>2, <2>2, <2>9, <3>1 DEF RowsOk
  <2>10. newest(k) = IF k \in DOMAIN rows THEN IF said >= w.at THEN said ELSE w.at ELSE w.at
    <3>1. CASE k \in DOMAIN rows
      <4>1. said \in Int /\ w.at \in Int
        BY <1>3, <2>9, <3>1
      <4> QED
        BY <1>6, <3>1, <4>1, GreaterOfTwo
    <3>2. CASE k \notin DOMAIN rows
      BY <1>6, <3>2
    <3> QED
      BY <3>1, <3>2
  <2> HIDE DEF row, last, was, said, newest, z
  <2>11. row.at <= moment /\ last >= row.at - Lag
    <3>1. last >= w.seen /\ last \in Int /\ row.at \in Nat
      BY <2>2, <2>6, <2>7 DEF last, row
    <3>2. CASE row.at = w.at
      BY <1>2, <1>3, <1>8, <3>1, <3>2
    <3>3. CASE k \in DOMAIN rows /\ row.at = was
      BY <2>9, <3>3
    <3> QED
      BY <2>4, <3>2, <3>3 DEF row, was
  <2>12. newest(k) \in 0..moment
    BY <1>2, <1>3, <2>9, <2>10
  <2>13. newest(k) - row.at <= UpdateInterval \/ newest(k) - row.at <= Lag
    <3>1. row.at \in Nat /\ row.at >= w.at - UpdateInterval
      BY <2>4, <2>6 DEF row
    <3>2. CASE k \notin DOMAIN rows \/ said < w.at
      <4>1. newest(k) = w.at
        BY <1>3, <2>9, <2>10, <3>2
      <4> QED
        BY <1>3, <1>8, <3>1, <4>1
    <3>3. CASE k \in DOMAIN rows /\ ~ (said < w.at)
      <4>1. newest(k) = said /\ said \in 0..moment
        BY <1>3, <2>9, <2>10, <3>3
      <4>2. CASE row.at = w.at
        BY <1>2, <1>3, <1>8, <4>1, <4>2
      <4>3. CASE row.at = was
        BY <2>9, <3>3, <4>1, <4>3
      <4> QED
        BY <2>4, <4>2, <4>3 DEF row, was
    <3> QED
      BY <3>2, <3>3
  <2> QED
    BY <2>2, <2>3, <2>4, <2>5, <2>8, <2>11, <2>12, <2>13 DEF row, last
\* and one that is not.
<1>10. ASSUME NEW k \in DOMAIN rows, k \notin keys
       PROVE  rows'[k] = rows[k] /\ confirmed'[k] = confirmed[k]
  BY <1>1, <1>6, <1>10
<1> HIDE DEF keys
<1>11. RowsOk'
  <2>1. DOMAIN rows' = DOMAIN rows \cup keys /\ DOMAIN confirmed' = DOMAIN rows \cup keys
    BY <1>1, <1>6
  <2>2. \A k \in DOMAIN rows \cup keys : rows'[k] \in RowSet
    BY <1>7, <1>9, <1>10
  <2>3. rows' \in [DOMAIN rows \cup keys -> RowSet]
    BY <1>1, <2>1, <2>2
  <2>4. DOMAIN rows \cup keys \in SUBSET Key
    BY <1>5, <1>7
  <2>5. rows' \in Tables
    BY <2>3, <2>4 DEF Tables
  <2>6. moment' = moment /\ lastHeld' = lastHeld
    BY <1>1
  <2>7. ASSUME NEW k \in DOMAIN rows \cup keys
        PROVE  /\ Proper(ColumnsOf(rows'[k])) /\ rows'[k].at <= moment
               /\ lastHeld[k[1]][k[2]] >= rows'[k].at - Lag
               /\ confirmed'[k] \in 0..moment
               /\ confirmed'[k] - rows'[k].at <= UpdateInterval
                  \/ confirmed'[k] - rows'[k].at <= Lag
    <3>1. CASE k \in keys
      BY <1>9, <3>1
    <3>2. CASE k \notin keys
      <4>1. k \in DOMAIN rows /\ rows'[k] = rows[k] /\ confirmed'[k] = confirmed[k]
        BY <1>10, <3>2
      <4> QED
        BY <1>2, <4>1 DEF RowsOk
    <3> QED
      BY <3>1, <3>2
  <2>8. UpdateInterval' = UpdateInterval
    BY DEF UpdateInterval
  <2> QED
    BY <2>1, <2>5, <2>6, <2>7, <2>8 DEF RowsOk
<1> QED
  BY <1>1, <1>11, OnlyWrites DEF AvailIndInv

\* What was held and the clock only grow.
LEMMA Later ==
    ASSUME AvailIndInv, Onward, ClockOk', UNCHANGED <<rows, writes, confirmed, asker>>,
           moment' = moment \/ (moment' = moment + 1 /\ \A at \in Pending : at > moment - Lag)
    PROVE  AvailIndInv'
<1>1. moment \in Nat /\ moment' \in Nat /\ moment <= moment' /\ Lag \in Nat
  BY AvailabilityAssumption DEF Onward
<1>2. RowsOk'
  <2>1. rows \in Tables /\ DOMAIN confirmed = DOMAIN rows /\ RowsOk
    BY DEF AvailIndInv, RowsOk
  <2>2. PICK S \in SUBSET Key : rows \in [S -> RowSet]
    BY <2>1 DEF Tables
  <2>3. ASSUME NEW k \in DOMAIN rows
        PROVE  /\ rows[k].at <= moment' /\ lastHeld'[k[1]][k[2]] >= rows[k].at - Lag
               /\ confirmed[k] \in 0..moment'
    <3>1. k[1] \in Store /\ k[2] \in Torrent /\ rows[k].at \in Nat
      BY <2>2 DEF Key, RowSet
    <3>2. /\ rows[k].at <= moment /\ lastHeld[k[1]][k[2]] >= rows[k].at - Lag
          /\ confirmed[k] \in 0..moment
      BY <2>1 DEF RowsOk
    <3>3. /\ lastHeld[k[1]][k[2]] \in Int /\ lastHeld'[k[1]][k[2]] \in Int
          /\ lastHeld[k[1]][k[2]] <= lastHeld'[k[1]][k[2]]
      BY <3>1 DEF Onward, Number, None
    <3> QED
      BY <1>1, <3>1, <3>2, <3>3
  <2>4. UpdateInterval' = UpdateInterval
    BY DEF UpdateInterval
  <2> QED
    BY <2>1, <2>3, <2>4 DEF RowsOk
<1>3. ASSUME NEW w \in writes PROVE WriteOk(w)'
  <2>1. WriteOk(w) /\ w.seen \in Pending
    BY DEF AvailIndInv, Pending
  <2>2. w.seen \in Nat /\ w.seen >= moment - Lag
    BY <2>1 DEF WriteOk, WriteSet
  <2>3. w.seen >= moment' - Lag
    BY <1>1, <2>1, <2>2
  <2> QED
    BY <2>1, <2>3, WriteStays
<1>4. ASSUME NEW r \in Asker, NEW q, q = asker[r] PROVE AskerOk(q)'
  <2>1. AskerOk(q) /\ q.answers \in AnswerMaps
    BY <1>4 DEF AvailIndInv, AskerOk, AskerSet
  <2>2. ASSUME NEW s \in DOMAIN q.answers, q.phase = "stores", s \in q.waiting
        PROVE  q.answers[s].at >= moment' - Lag
    <3>1. s \in Store /\ q.answers[s].at \in Nat
      BY <2>1, AnswersAre
    <3>2. q.answers[s].at >= moment - Lag
      BY <2>1, <2>2 DEF AskerOk
    <3>3. q.answers[s].at \in Pending
      <4>1. <<r, s>> \in {y \in Asker \X Store : Waits(y[1], "stores", y[2])
                                      /\ y[2] \in DOMAIN asker[y[1]].answers}
        BY <1>4, <2>2, <3>1 DEF Waits
      <4>2. asker[<<r, s>>[1]].answers[<<r, s>>[2]].at \in Pending
        BY <4>1 DEF Pending
      <4> QED
        BY <1>4, <4>2
    <3> QED
      BY <1>1, <3>1, <3>2, <3>3
  <2> QED
    BY <2>1, <2>2, AskerStays
<1>5. \A r \in Asker : AskerOk(asker[r])'
  BY <1>4 DEF AskerOk, ToldOk
<1>6. \A w \in writes' : WriteOk(w)'
  BY <1>3
<1>7. DOMAIN asker' = Asker
  BY DEF AvailIndInv
<1> QED
  BY <1>2, <1>5, <1>6, <1>7 DEF AvailIndInv

LEMMA MoveKeeps ==
    ASSUME AvailIndInv, NEW s \in Store, NEW t \in Torrent, NEW h \in Holdings, Move(s, t, h)
    PROVE  AvailIndInv'
<1>1. ClockOk /\ moment \in Nat /\ MaxMoves \in Nat
  BY AvailabilityAssumption DEF AvailIndInv, ClockOk
<1>2. /\ held \in [Store -> [Torrent -> Holdings]] /\ lastHeld \in [Store -> [Torrent -> Number]]
      /\ \A x \in Store, y \in Torrent :
             lastHeld[x][y] <= moment /\ (held[x][y] # {} => lastHeld[x][y] = moment)
  BY <1>1 DEF ClockOk
<1>3. /\ held' = [held EXCEPT ![s][t] = h] /\ moves' = moves + 1 /\ moves < MaxMoves
      /\ lastHeld' = [lastHeld EXCEPT ![s][t] = IF h = {} THEN lastHeld[s][t] ELSE moment]
      /\ UNCHANGED <<scope, offcloud, moment, rows, writes, confirmed, asker>>
  BY DEF Move
<1>4. held' \in [Store -> [Torrent -> Holdings]] /\ lastHeld' \in [Store -> [Torrent -> Number]]
  BY <1>1, <1>2, <1>3 DEF Number
<1>5. ASSUME NEW x \in Store, NEW y \in Torrent
      PROVE  /\ lastHeld[x][y] <= lastHeld'[x][y] /\ lastHeld'[x][y] <= moment
             /\ held'[x][y] # {} => lastHeld'[x][y] = moment
  <2>1. lastHeld[x][y] \in Int
    BY <1>2 DEF Number, None
  <2>2. CASE x = s /\ y = t
    <3>1. held'[x][y] = h /\ lastHeld'[x][y] = IF h = {} THEN lastHeld[x][y] ELSE moment
      BY <1>2, <1>3, <2>2
    <3> QED
      BY <1>1, <1>2, <2>1, <3>1
  <2>3. CASE ~ (x = s /\ y = t)
    <3>1. held'[x][y] = held[x][y] /\ lastHeld'[x][y] = lastHeld[x][y]
      BY <1>2, <1>3, <2>3
    <3> QED
      BY <1>2, <2>1, <3>1
  <2> QED
    BY <2>2, <2>3
<1>6. Onward
  BY <1>1, <1>2, <1>3, <1>4, <1>5 DEF Onward
<1>7. moves' \in 0..MaxMoves
  BY <1>1, <1>3 DEF ClockOk
<1>8. ClockOk'
  <2>1. Holdings' = Holdings
    BY DEF Holdings
  <2> QED
    BY <1>1, <1>3, <1>4, <1>5, <1>7, <2>1 DEF ClockOk
<1> QED
  BY <1>3, <1>6, <1>8, Later

LEMMA WaitKeeps ==
    ASSUME AvailIndInv, Wait
    PROVE  AvailIndInv'
<1>1. ClockOk /\ moment \in Nat /\ ClockEnd \in Nat
  BY AvailabilityAssumption DEF AvailIndInv, ClockOk
<1>2. /\ lastHeld \in [Store -> [Torrent -> Number]]
      /\ \A x \in Store, y \in Torrent :
             lastHeld[x][y] <= moment /\ (held[x][y] # {} => lastHeld[x][y] = moment)
  BY <1>1 DEF ClockOk
<1>3. /\ moment < ClockEnd /\ moment' = moment + 1 /\ \A at \in Pending : at > moment - Lag
      /\ lastHeld' = [s \in Store |-> [t \in Torrent |->
                         IF held[s][t] = {} THEN lastHeld[s][t] ELSE moment + 1]]
      /\ UNCHANGED <<scope, offcloud, held, moves, rows, writes, confirmed, asker>>
  BY DEF Wait
<1>4. \A x \in Store, y \in Torrent :
          /\ lastHeld[x][y] \in Int /\ lastHeld[x][y] \in Number
          /\ lastHeld'[x][y] = IF held[x][y] = {} THEN lastHeld[x][y] ELSE moment + 1
  BY <1>2, <1>3 DEF Number, None
<1>5. \A x \in Store, y \in Torrent :
          /\ lastHeld[x][y] <= lastHeld'[x][y] /\ lastHeld'[x][y] <= moment + 1
          /\ held[x][y] # {} => lastHeld'[x][y] = moment + 1
          /\ lastHeld'[x][y] \in Number
  BY <1>1, <1>2, <1>4 DEF Number
<1>6. lastHeld' \in [Store -> [Torrent -> Number]]
  BY <1>3, <1>4, <1>5
<1>7. Onward
  BY <1>1, <1>2, <1>3, <1>5, <1>6 DEF Onward
<1>8. moment' \in 0..ClockEnd
  BY <1>1, <1>3
<1>9. ClockOk'
  <2>1. Holdings' = Holdings
    BY DEF Holdings
  <2> QED
    BY <1>1, <1>3, <1>5, <1>6, <1>8, <2>1 DEF ClockOk
<1> QED
  BY <1>3, <1>7, <1>9, Later

----------------------------------------------------------------------------
(* The invariant *)

LEMMA AvailabilityStart == AvailabilityInit => AvailIndInv
<1> SUFFICES ASSUME AvailabilityInit PROVE AvailIndInv
  OBVIOUS
<1>1. ClockOk
  <2>1. /\ held = [s \in Store |-> [t \in Torrent |-> {}]] /\ {} \in Holdings
        /\ lastHeld = [s \in Store |-> [t \in Torrent |-> None]] /\ None \in Number
    BY DEF AvailabilityInit, Holdings, Number
  <2>2. /\ held \in [Store -> [Torrent -> Holdings]] /\ lastHeld \in [Store -> [Torrent -> Number]]
        /\ \A s \in Store, t \in Torrent : held[s][t] = {} /\ lastHeld[s][t] = None
    BY <2>1
  <2>3. None <= 0
    BY DEF None
  <2> QED
    BY <2>2, <2>3, AvailabilityAssumption DEF ClockOk, AvailabilityInit
<1>2. RowsOk
  <2>1. <<>> \in [{} -> RowSet] /\ {} \in SUBSET Key /\ DOMAIN <<>> = {}
    OBVIOUS
  <2>2. <<>> \in Tables
    BY <2>1 DEF Tables
  <2> QED
    BY <2>1, <2>2 DEF RowsOk, AvailabilityInit
<1>3. AskerOk(Idle)
  <2>1. /\ Idle \in AskerSet /\ Idle.phase = "idle" /\ Idle.answers = <<>> /\ Idle.seen = {}
        /\ Idle.shown = Scraped
    BY NoAnswers, ScrapedIs DEF Idle, AskerSet
  <2>2. \A t \in Torrent : Shows(Idle, t)
    BY <2>1, NoAnswers DEF Shows
  <2> QED
    BY <2>1, <2>2, NoAnswers DEF AskerOk
<1> QED
  BY <1>1, <1>2, <1>3 DEF AvailIndInv, AvailabilityInit

LEMMA AvailabilityStep == AvailIndInv /\ [AvailabilityNext]_availabilityVars => AvailIndInv'
<1> SUFFICES ASSUME AvailIndInv, [AvailabilityNext]_availabilityVars PROVE AvailIndInv'
  OBVIOUS
<1>1. CASE \E r \in Asker : Begin(r) \/ BeginTorrent(r) \/ Finish(r)
  BY <1>1, BeginKeeps, BeginTorrentKeeps, FinishKeeps
<1>2. CASE \E r \in Asker, s \in Store :
              \/ ReadRows(r, s) \/ ReadFails(r, s) \/ Answer(r, s) \/ Apply(r, s)
              \/ AskFails(r, s)
  BY <1>2, ReadRowsKeeps, ReadFailsKeeps, AnswerKeeps, ApplyKeeps, AskFailsKeeps
<1>3. CASE \E w \in writes : StartWrite(w) \/ EndWrite(w) \/ WriteFails(w)
  BY <1>3, StartWriteKeeps, EndWriteKeeps, WriteFailsKeeps
<1>4. CASE \E s \in Store, t \in Torrent, h \in Holdings : Move(s, t, h)
  BY <1>4, MoveKeeps
<1>5. CASE Wait
  BY <1>5, WaitKeeps
<1>6. CASE UNCHANGED availabilityVars
  <2>1. UNCHANGED <<scope, offcloud, moment, held, moves, lastHeld, rows, writes, confirmed, asker>>
    BY <1>6 DEF availabilityVars
  <2>2. RowsOk'
    BY <2>1 DEF AvailIndInv, RowsOk
  <2> QED
    BY <2>1, <2>2, OnlyWrites DEF AvailIndInv
<1> QED
  BY <1>1, <1>2, <1>3, <1>4, <1>5, <1>6 DEF AvailabilityNext

LEMMA AvailabilityFollows == AvailIndInv => AvailabilityInv
<1> SUFFICES ASSUME AvailIndInv PROVE AvailabilityInv
  OBVIOUS
<1>0. /\ moment \in Nat /\ Lag \in Nat /\ CacheTTL \in Int /\ UpdateInterval \in Nat
      /\ lastHeld \in [Store -> [Torrent -> Number]] /\ RowsOk
  BY UpdatesRarely, AvailabilityAssumption DEF AvailIndInv, ClockOk
<1>1. PICK S \in SUBSET Key : rows \in [S -> RowSet]
  BY <1>0 DEF RowsOk, Tables
<1>2. \A k \in DOMAIN rows : k \in Key /\ rows[k].at \in Nat
  BY <1>1 DEF RowSet
<1>3. AvailabilityTypeOK
  <2>1. \A k \in DOMAIN rows : rows[k].at \in 0..moment
    BY <1>0, <1>2 DEF RowsOk
  <2>2. \A r \in Asker : asker[r].status \subseteq Torrent \X Store
    BY DEF AvailIndInv, AskerOk, AskerSet
  <2>3. DOMAIN rows \subseteq Key /\ DOMAIN confirmed = DOMAIN rows
    BY <1>0, <1>2 DEF RowsOk
  <2> QED
    BY <2>1, <2>2, <2>3 DEF AvailIndInv, ClockOk, AvailabilityTypeOK
<1>4. FoundWasHeld
  <2> SUFFICES ASSUME NEW s \in Store, NEW t \in Torrent, Found(s, t) # {}
               PROVE  lastHeld[s][t] >= moment - CacheTTL - Lag
    BY DEF FoundWasHeld
  <2>1. PICK k : k \in DOMAIN rows /\ k[1] = s /\ k[2] = t /\ rows[k].at >= moment - CacheTTL
    BY DEF Found, IsYoung, IsStored
  <2>2. lastHeld[s][t] >= rows[k].at - Lag /\ lastHeld[s][t] \in Int /\ rows[k].at \in Nat
    BY <1>0, <1>2, <2>1 DEF RowsOk, Number, None
  <2> QED
    BY <1>0, <2>1, <2>2
<1>5. ConfirmedStays
  <2>1. Max({UpdateInterval, Lag}) = IF UpdateInterval >= Lag THEN UpdateInterval ELSE Lag
    BY <1>0, GreaterOfTwo
  <2> SUFFICES ASSUME NEW k \in DOMAIN confirmed
               PROVE  confirmed[k] - rows[k].at <= Max({UpdateInterval, Lag})
    BY DEF ConfirmedStays
  <2>2. /\ confirmed[k] \in Int /\ rows[k].at \in Int
        /\ confirmed[k] - rows[k].at <= UpdateInterval \/ confirmed[k] - rows[k].at <= Lag
    BY <1>0, <1>2 DEF RowsOk
  <2> QED
    BY <1>0, <2>1, <2>2
<1>6. ShowsOneFile
  <2> SUFFICES ASSUME NEW r \in Asker, NEW t \in Torrent, NEW q, q = asker[r], NEW files,
                      files = {x[2] : x \in {x \in q.seen : x[1] = t /\ x[2] # Unset}},
                      \A f \in files : None \notin {f.index, f.size}
               PROVE  /\ q.shown[t] \in files \cup {Scraped[t]}
                      /\ \A s \in DOMAIN q.answers \ q.waiting :
                             \A i \in DOMAIN q.answers[s].files[t] :
                                 q.answers[s].files[t][i].size <= q.shown[t].size
    BY DEF ShowsOneFile
  <2>1. AskerOk(q)
    BY DEF AvailIndInv
  <2>2. ASSUME NEW f, <<t, f>> \in q.seen, f # Unset PROVE f \in files
    <3>1. <<t, f>> \in {x \in q.seen : x[1] = t /\ x[2] # Unset}
      BY <2>2
    <3>2. <<t, f>>[2] \in files
      BY <3>1
    <3> QED
      BY <3>2
  <2>3. \A f \in FileSet : <<t, f>> \in q.seen /\ f # Unset => Full(f)
    BY <2>2 DEF Full
  <2>4. /\ q.shown[t] = Scraped[t] \/ (<<t, q.shown[t]>> \in q.seen /\ q.shown[t] # Unset)
        /\ \A s \in DOMAIN q.answers \ q.waiting :
               \A i \in DOMAIN q.answers[s].files[t] :
                   q.answers[s].files[t][i].size <= q.shown[t].size
    BY <2>1, <2>3 DEF AskerOk, Shows
  <2> QED
    BY <2>2, <2>4
<1> QED
  BY <1>3, <1>4, <1>5, <1>6 DEF AvailabilityInv

\* Whatever a request finds in the table its service held not long ago, a row
\* that was confirmed keeps half of its life, and what is shown of a torrent is
\* one file (debrid_cache.py, debrid.py): whatever number of services, of
\* requests and of writes that overtake each other.
THEOREM AvailabilityIsSound == AvailabilitySpec => []AvailabilityInv
<1>1. AvailabilityInit => AvailIndInv
  BY AvailabilityStart
<1>2. AvailIndInv /\ [AvailabilityNext]_availabilityVars => AvailIndInv'
  BY AvailabilityStep
<1>3. AvailIndInv => AvailabilityInv
  BY AvailabilityFollows
<1> QED
  BY <1>1, <1>2, <1>3, PTL DEF AvailabilitySpec

----------------------------------------------------------------------------
(* The streams of an answer. *)

Members(s) == {s[i] : i \in DOMAIN s}

\* One sequence after another.
Joined(s, a, b) ==
    /\ Len(s) = Len(a) + Len(b)
    /\ \A i \in 1..Len(a) : s[i] = a[i]
    /\ \A i \in 1..Len(b) : s[Len(a) + i] = b[i]
    /\ \A i \in 1..Len(s) : \/ i \in 1..Len(a) /\ s[i] = a[i]
                            \/ i - Len(a) \in 1..Len(b) /\ s[i] = b[i - Len(a)]

LEMMA JoinedIs ==
    ASSUME NEW S, NEW a \in Seq(S), NEW b \in Seq(S), NEW s, s = a \o b
    PROVE  s \in Seq(S) /\ Joined(s, a, b)
BY DEF Joined

\* Three of them: where each place is from.
Parts(s, a, b, c) ==
    LET low == Len(a)
        high == Len(a) + Len(b)
    IN  /\ Len(s) = high + Len(c)
        /\ \A i \in 1..Len(a) : s[i] = a[i]
        /\ \A i \in 1..Len(b) : s[low + i] = b[i]
        /\ \A i \in 1..Len(c) : s[high + i] = c[i]
        /\ \A i \in 1..Len(s) : \/ i \in 1..Len(a) /\ s[i] = a[i]
                                \/ i - low \in 1..Len(b) /\ s[i] = b[i - low]
                                \/ i - high \in 1..Len(c) /\ s[i] = c[i - high]

LEMMA PartsAre ==
    ASSUME NEW S, NEW a \in Seq(S), NEW b \in Seq(S), NEW c \in Seq(S), NEW s, s = a \o b \o c
    PROVE  s \in Seq(S) /\ Parts(s, a, b, c)
<1> DEFINE d == a \o b
<1>1. d \in Seq(S) /\ Joined(d, a, b)
  BY JoinedIs
<1>2. s = d \o c
  OBVIOUS
<1> HIDE DEF d
<1>3. s \in Seq(S) /\ Joined(s, d, c)
  BY <1>1, <1>2, JoinedIs
<1>4. Len(a) \in Nat /\ Len(b) \in Nat /\ Len(c) \in Nat
  OBVIOUS
<1>5. Len(d) = Len(a) + Len(b) /\ Len(s) = Len(a) + Len(b) + Len(c)
  BY <1>1, <1>3, <1>4 DEF Joined
<1>6. \A i \in 1..Len(d) : s[i] = d[i]
  BY <1>3 DEF Joined
<1>7. (\A i \in 1..Len(a) : d[i] = a[i]) /\ \A i \in 1..Len(b) : d[Len(a) + i] = b[i]
  BY <1>1 DEF Joined
<1>8. \A i \in 1..Len(a) : s[i] = a[i]
  BY <1>4, <1>5, <1>6, <1>7
<1>9. \A i \in 1..Len(b) : s[Len(a) + i] = b[i]
  BY <1>4, <1>5, <1>6, <1>7
<1>10. \A i \in 1..Len(c) : s[Len(a) + Len(b) + i] = c[i]
  BY <1>3, <1>5 DEF Joined
<1>11. ASSUME NEW i \in 1..Len(s)
       PROVE  \/ i \in 1..Len(a) /\ s[i] = a[i]
              \/ i - Len(a) \in 1..Len(b) /\ s[i] = b[i - Len(a)]
              \/ i - (Len(a) + Len(b)) \in 1..Len(c) /\ s[i] = c[i - (Len(a) + Len(b))]
  <2>1. \/ i \in 1..Len(d) /\ s[i] = d[i]
        \/ i - Len(d) \in 1..Len(c) /\ s[i] = c[i - Len(d)]
    BY <1>3 DEF Joined
  <2>2. i \in 1..Len(d) => \/ i \in 1..Len(a) /\ d[i] = a[i]
                           \/ i - Len(a) \in 1..Len(b) /\ d[i] = b[i - Len(a)]
    BY <1>1 DEF Joined
  <2> QED
    BY <1>5, <2>1, <2>2
<1> QED
  BY <1>3, <1>5, <1>8, <1>9, <1>10, <1>11 DEF Parts

\* The places of what is in a set are as many as its elements, when no element
\* is in two places.
LEMMA PlacesCount ==
    ASSUME NEW S, NEW s \in Seq(S), NEW U,
           \A i, j \in 1..Len(s) : s[i] = s[j] => i = j
    PROVE  /\ IsFiniteSet({x \in Members(s) : x \in U})
           /\ Cardinality({i \in DOMAIN s : s[i] \in U}) = Cardinality({x \in Members(s) : x \in U})
<1> DEFINE I == {i \in DOMAIN s : s[i] \in U}
           T == {x \in Members(s) : x \in U}
           f == [i \in I |-> s[i]]
<1>1. DOMAIN s = 1..Len(s) /\ Len(s) \in Nat
  OBVIOUS
<1>2. IsFiniteSet(I)
  <2>1. I \in SUBSET (1..Len(s))
    BY <1>1
  <2> QED
    BY <1>1, <2>1, CountUpTo, FS_Subset
<1>3. f \in [I -> T]
  BY DEF Members
<1>4. \A x \in T : \E i \in I : f[i] = x
  BY DEF Members
<1>5. \A i, j \in I : f[i] = f[j] => i = j
  BY <1>1
<1> HIDE DEF I, T, f
<1>6. f \in Surjection(I, T) /\ f \in Injection(I, T)
  BY <1>3, <1>4, <1>5 DEF Surjection, Injection, IsInjective
<1>7. IsFiniteSet(T) /\ Cardinality(T) = Cardinality(I)
  BY <1>2, <1>6, FS_Surjection
<1> QED
  BY <1>7 DEF I, T

----------------------------------------------------------------------------
(* Which torrents are selected. *)

LEMMA RequestIs ==
    ASSUME NEW r \in Requests
    PROVE  /\ Len(r.torrents) \in Nat /\ DOMAIN r.torrents = 1..Len(r.torrents)
           /\ \A t \in DOMAIN r.torrents :
                 r.torrents[t].length \in Nat /\ r.torrents[t].release \in BOOLEAN
           /\ Len(r.entries) \in Nat /\ DOMAIN r.entries = 1..Len(r.entries)
           /\ \A i \in DOMAIN r.entries : r.entries[i] \in Service
           /\ r.maxResults \in Int
<1> DEFINE T == [resolution : STRING, release : BOOLEAN, fits : BOOLEAN, file : STRING,
                 length : Nat, cachedOn : SUBSET Service, onR2 : BOOLEAN]
<1>1. r.torrents \in Seq(T) /\ r.entries \in Seq(Service) /\ r.maxResults \in Int
  BY AnswerAssumption DEF TypeOfRequest
<1>2. \A x \in T : x.length \in Nat /\ x.release \in BOOLEAN
  OBVIOUS
<1> HIDE DEF T
<1>3. \A t \in DOMAIN r.torrents : r.torrents[t] \in T
  BY <1>1
<1> QED
  BY <1>1, <1>2, <1>3

LEMMA BetterIsOneWay ==
    ASSUME NEW r \in Requests, NEW t \in DOMAIN r.torrents, NEW u \in DOMAIN r.torrents,
           Better(r, t, u)
    PROVE  ~Better(r, u, t) /\ t # u
<1>1. t \in Int /\ u \in Int
  BY RequestIs
<1>2. \A x \in {t, u} : OnR2(r, x) => IsCached(r, x)
  BY DEF OnR2
<1> QED
  BY <1>1, <1>2 DEF Better

\* All torrents that may be selected are tried, the better ones first.
TriesAll(r, s) ==
    /\ s \in Seq(DOMAIN r.torrents)
    /\ \A t \in DOMAIN r.torrents :
          (SelectCachedOnly(r) => IsCached(r, t)) => \E k \in 1..Len(s) : s[k] = t
    /\ \A j, k \in 1..Len(s) : j < k => Better(r, s[j], s[k])

LEMMA AscendingOf ==
    ASSUME NEW r \in Requests, NEW T, T \subseteq DOMAIN r.torrents, NEW s, s = Ascending(T)
    PROVE  /\ s \in Seq(DOMAIN r.torrents)
           /\ \A k \in 1..Len(s) : s[k] \in T
           /\ \A t \in T : \E k \in 1..Len(s) : s[k] = t
           /\ \A j, k \in 1..Len(s) : j < k => s[j] < s[k]
<1> DEFINE n == Cardinality(T)
<1>1. DOMAIN r.torrents = 1..Len(r.torrents) /\ Len(r.torrents) \in Nat
  BY RequestIs
<1>2. IsFiniteSet(T) /\ T \subseteq Int
  BY <1>1, CountUpTo, FS_Subset
<1>3. SortsUp(s, n, T)
  BY <1>2, AscendingIs
<1> HIDE DEF n
<1>4. n \in Nat /\ s \in [1..n -> T] /\ Len(s) = n
  BY <1>3 DEF SortsUp
<1>5. s \in Seq(DOMAIN r.torrents)
  BY <1>4
<1> QED
  BY <1>3, <1>4, <1>5 DEF SortsUp

LEMMA TriedIs ==
    ASSUME NEW r \in Requests, NEW s, s = Tried(r)
    PROVE  TriesAll(r, s)
<1> DEFINE D == DOMAIN r.torrents
           A == {t \in D : OnR2(r, t)}
           B == {t \in D : Acceleratable(r, t)}
           C == {t \in D : ~SelectCachedOnly(r) /\ ~IsCached(r, t)}
           E == {t \in D : SelectCachedOnly(r) => IsCached(r, t)}
<1>1. CASE ~PrioritizeCached(r)
  <2>1. s = Ascending(E) /\ E \subseteq D
    BY <1>1 DEF Tried
  <2> HIDE DEF E
  <2>2. /\ s \in Seq(D)
        /\ \A t \in E : \E k \in 1..Len(s) : s[k] = t
        /\ \A j, k \in 1..Len(s) : j < k => s[j] < s[k]
    BY <2>1, AscendingOf
  <2>3. \A j, k \in 1..Len(s) : j < k => Better(r, s[j], s[k])
    BY <1>1, <2>2 DEF Better
  <2> QED
    BY <2>2, <2>3 DEF TriesAll, E
<1>2. CASE PrioritizeCached(r)
  <2> DEFINE a == Ascending(A)
             b == Ascending(B)
             c == Ascending(C)
  <2>1. s = a \o b \o c
    BY <1>2 DEF Tried
  <2>2. A \subseteq D /\ B \subseteq D /\ C \subseteq D
    OBVIOUS
  <2>3. /\ \A t \in A : t \in D /\ OnR2(r, t)
        /\ \A t \in B : t \in D /\ IsCached(r, t) /\ ~OnR2(r, t)
        /\ \A t \in C : t \in D /\ ~IsCached(r, t)
    BY DEF Acceleratable, OnR2
  <2>4. \A t \in D : (SelectCachedOnly(r) => IsCached(r, t)) => t \in A \/ t \in B \/ t \in C
    BY DEF Acceleratable, OnR2
  <2> HIDE DEF A, B, C, a, b, c
  <2>5. /\ a \in Seq(D)
        /\ \A k \in 1..Len(a) : a[k] \in A
        /\ \A t \in A : \E k \in 1..Len(a) : a[k] = t
        /\ \A j, k \in 1..Len(a) : j < k => a[j] < a[k]
    BY <2>2, AscendingOf DEF a
  <2>6. /\ b \in Seq(D)
        /\ \A k \in 1..Len(b) : b[k] \in B
        /\ \A t \in B : \E k \in 1..Len(b) : b[k] = t
        /\ \A j, k \in 1..Len(b) : j < k => b[j] < b[k]
    BY <2>2, AscendingOf DEF b
  <2>7. /\ c \in Seq(D)
        /\ \A k \in 1..Len(c) : c[k] \in C
        /\ \A t \in C : \E k \in 1..Len(c) : c[k] = t
        /\ \A j, k \in 1..Len(c) : j < k => c[j] < c[k]
    BY <2>2, AscendingOf DEF c
  <2> HIDE DEF D
  <2>8. s \in Seq(D) /\ Parts(s, a, b, c)
    BY <2>1, <2>5, <2>6, <2>7, PartsAre
  <2>9. Len(a) \in Nat /\ Len(b) \in Nat /\ Len(c) \in Nat
    BY <2>5, <2>6, <2>7
  <2> DEFINE m == Len(a)
             n == Len(a) + Len(b)
  <2>10. /\ Len(s) = n + Len(c)
         /\ \A i \in 1..m : s[i] = a[i]
         /\ \A i \in 1..Len(b) : s[m + i] = b[i]
         /\ \A i \in 1..Len(c) : s[n + i] = c[i]
         /\ \A i \in 1..Len(s) : \/ i \in 1..m /\ s[i] = a[i]
                                 \/ i - m \in 1..Len(b) /\ s[i] = b[i - m]
                                 \/ i - n \in 1..Len(c) /\ s[i] = c[i - n]
    BY <2>8 DEF Parts
  <2>11. ASSUME NEW t \in D, SelectCachedOnly(r) => IsCached(r, t)
         PROVE  \E k \in 1..Len(s) : s[k] = t
    <3>1. CASE t \in A
      <4>1. PICK k \in 1..m : a[k] = t
        BY <2>5, <3>1
      <4>2. k \in 1..Len(s) /\ s[k] = t
        BY <2>9, <2>10, <4>1
      <4> QED
        BY <4>2
    <3>2. CASE t \in B
      <4>1. PICK k \in 1..Len(b) : b[k] = t
        BY <2>6, <3>2
      <4>2. m + k \in 1..Len(s) /\ s[m + k] = t
        BY <2>9, <2>10, <4>1
      <4> QED
        BY <4>2
    <3>3. CASE t \in C
      <4>1. PICK k \in 1..Len(c) : c[k] = t
        BY <2>7, <3>3
      <4>2. n + k \in 1..Len(s) /\ s[n + k] = t
        BY <2>9, <2>10, <4>1
      <4> QED
        BY <4>2
    <3> QED
      BY <2>4, <2>11, <3>1, <3>2, <3>3
  <2>12. ASSUME NEW j \in 1..Len(s), NEW k \in 1..Len(s), j < k
         PROVE  Better(r, s[j], s[k])
    <3>1. \/ j \in 1..m /\ s[j] = a[j]
          \/ j - m \in 1..Len(b) /\ s[j] = b[j - m]
          \/ j - n \in 1..Len(c) /\ s[j] = c[j - n]
      BY <2>10
    <3>2. \/ k \in 1..m /\ s[k] = a[k]
          \/ k - m \in 1..Len(b) /\ s[k] = b[k - m]
          \/ k - n \in 1..Len(c) /\ s[k] = c[k - n]
      BY <2>10
    <3>3. Len(s) \in Nat /\ m \in Nat /\ n \in Nat /\ n >= m
      BY <2>9, <2>10
    <3> HIDE DEF m, n
    <3>4. CASE j \in 1..m /\ s[j] = a[j]
      <4>1. s[j] \in A
        BY <2>5, <3>4 DEF m
      <4>2. k \in 1..m /\ s[k] = a[k] => s[k] \in A /\ s[j] < s[k]
        BY <2>5, <2>12, <3>4 DEF m
      <4>3. ~(k \in 1..m /\ s[k] = a[k]) => s[k] \in B \cup C
        BY <2>6, <2>7, <3>2
      <4>4. \A t \in A : OnR2(r, t) /\ IsCached(r, t)
        BY <2>3 DEF OnR2
      <4>5. \A t \in B \cup C : ~OnR2(r, t)
        BY <2>3 DEF OnR2
      <4> QED
        BY <1>2, <4>1, <4>2, <4>3, <4>4, <4>5 DEF Better
    <3>5. CASE j - m \in 1..Len(b) /\ s[j] = b[j - m]
      <4>1. s[j] \in B
        BY <2>6, <3>5
      <4>2. ~(k \in 1..m)
        BY <2>9, <2>12, <3>3, <3>5
      <4>3. k - m \in 1..Len(b) /\ s[k] = b[k - m] => s[k] \in B /\ s[j] < s[k]
        BY <2>6, <2>12, <3>3, <3>5
      <4>4. k - n \in 1..Len(c) /\ s[k] = c[k - n] => s[k] \in C
        BY <2>7
      <4>5. \A t \in B : OnR2(r, t) = FALSE /\ IsCached(r, t) = TRUE
        BY <2>3 DEF OnR2, IsCached
      <4>6. \A t \in C : IsCached(r, t) = FALSE
        BY <2>3 DEF IsCached
      <4> QED
        BY <1>2, <3>2, <4>1, <4>2, <4>3, <4>4, <4>5, <4>6 DEF Better
    <3>6. CASE j - n \in 1..Len(c) /\ s[j] = c[j - n]
      <4>1. s[j] \in C
        BY <2>7, <3>6
      <4>2. j > n /\ k > n
        BY <2>9, <2>12, <3>3, <3>6
      <4>3. ~(k \in 1..m) /\ ~(k - m \in 1..Len(b))
        BY <2>9, <3>3, <4>2 DEF m, n
      <4>4. k - n \in 1..Len(c) /\ s[k] = c[k - n]
        BY <3>2, <4>3
      <4>5. s[k] \in C /\ s[j] < s[k]
        BY <2>7, <2>12, <3>3, <3>6, <4>4
      <4>6. \A t \in C : OnR2(r, t) = FALSE /\ IsCached(r, t) = FALSE
        BY <2>3 DEF OnR2, IsCached
      <4> QED
        BY <4>1, <4>5, <4>6 DEF Better
    <3> QED
      BY <3>1, <3>4, <3>5, <3>6
  <2> QED
    BY <2>8, <2>11, <2>12 DEF TriesAll, D
<1> QED
  BY <1>1, <1>2

\* After k torrents: how many of a kind are selected at most, and what was against
\* those that are not.
Limited(r, t, T) == {x \in T : SameLimit(r, t, x)}
SelectsWell(r, s, k, sel) ==
    /\ sel \in Seq(DOMAIN r.torrents)
    /\ \A i, j \in 1..Len(sel) : sel[i] = sel[j] => i = j
    /\ \A x \in Members(sel) : \E j \in 1..k : x = s[j]
    /\ \A t \in DOMAIN r.torrents : Cardinality(Limited(r, t, Members(sel))) <= r.maxResults
    /\ \A j \in 1..k :
          s[j] \notin Members(sel) =>
             Cardinality({x \in Members(sel) : SameLimit(r, s[j], x) /\ Better(r, x, s[j])})
                 = r.maxResults

LEMMA LimitedCount ==
    ASSUME NEW r \in Requests, NEW sel \in Seq(DOMAIN r.torrents), NEW t \in DOMAIN r.torrents,
           \A i, j \in 1..Len(sel) : sel[i] = sel[j] => i = j
    PROVE  /\ IsFiniteSet(Limited(r, t, Members(sel)))
           /\ Cardinality({i \in DOMAIN sel : SameLimit(r, t, sel[i])})
                 = Cardinality(Limited(r, t, Members(sel)))
<1> DEFINE D == DOMAIN r.torrents
           U == {x \in D : SameLimit(r, t, x)}
<1>1. DOMAIN sel = 1..Len(sel) /\ \A i \in DOMAIN sel : sel[i] \in D
  OBVIOUS
<1>2. \A x \in Members(sel) : x \in D
  BY <1>1 DEF Members
<1>3. /\ {i \in DOMAIN sel : SameLimit(r, t, sel[i])} = {i \in DOMAIN sel : sel[i] \in U}
      /\ Limited(r, t, Members(sel)) = {x \in Members(sel) : x \in U}
  BY <1>1, <1>2 DEF Limited
<1>4. sel \in Seq(D)
  OBVIOUS
<1> HIDE DEF U, D
<1>5. /\ IsFiniteSet({x \in Members(sel) : x \in U})
      /\ Cardinality({i \in DOMAIN sel : sel[i] \in U}) = Cardinality({x \in Members(sel) : x \in U})
  BY <1>4, PlacesCount
<1> QED
  BY <1>3, <1>5

Longer(z, s, x) ==
    /\ Len(z) = Len(s) + 1 /\ Len(s) \in Nat
    /\ \A i \in 1..Len(s) : z[i] = s[i]
    /\ z[Len(s) + 1] = x
    /\ Members(z) = Members(s) \cup {x}

LEMMA Appended ==
    ASSUME NEW S, NEW s \in Seq(S), NEW x \in S, NEW z, z = Append(s, x)
    PROVE  z \in Seq(S) /\ Longer(z, s, x)
<1>1. /\ z \in Seq(S) /\ Len(z) = Len(s) + 1 /\ Len(s) \in Nat
      /\ DOMAIN z = 1..Len(s) + 1 /\ DOMAIN s = 1..Len(s)
      /\ \A i \in 1..Len(s) : z[i] = s[i]
      /\ z[Len(s) + 1] = x
  OBVIOUS
<1>2. \A i \in 1..Len(s) + 1 : i \in 1..Len(s) \/ i = Len(s) + 1
  BY <1>1
<1>3. Members(z) = Members(s) \cup {x}
  BY <1>1, <1>2 DEF Members
<1> QED
  BY <1>1, <1>3 DEF Longer

LEMMA SelectStep ==
    ASSUME NEW r \in Requests, r.maxResults > 0, NEW s, TriesAll(r, s),
           NEW k \in Nat, k + 1 \in 1..Len(s),
           NEW sel, SelectsWell(r, s, k, sel),
           NEW t, t = s[k + 1], NEW z, z = TrySelect(r, sel, t)
    PROVE  SelectsWell(r, s, k + 1, z)
<1> DEFINE D == DOMAIN r.torrents
           M == Members(sel)
           m == r.maxResults
<1>1. m \in Int /\ DOMAIN r.torrents = 1..Len(r.torrents)
      /\ \A x \in D : r.torrents[x].release \in BOOLEAN
  BY RequestIs
<1>2. s \in Seq(D) /\ \A i, j \in 1..Len(s) : i < j => Better(r, s[i], s[j])
  BY DEF TriesAll
<1>3. t \in D /\ \A j \in 1..k : s[j] \in D /\ Better(r, s[j], t) /\ j \in 1..Len(s)
  BY <1>2
<1>4. \A j \in 1..k : ~Better(r, t, s[j]) /\ t # s[j]
  BY <1>3, BetterIsOneWay
<1>5. /\ sel \in Seq(D)
      /\ \A i, j \in 1..Len(sel) : sel[i] = sel[j] => i = j
      /\ \A x \in M : \E j \in 1..k : x = s[j]
      /\ \A u \in D : Cardinality(Limited(r, u, M)) <= m
      /\ \A j \in 1..k :
            s[j] \notin M =>
               Cardinality({x \in M : SameLimit(r, s[j], x) /\ Better(r, x, s[j])}) = m
  BY DEF SelectsWell
<1>6. \A u \in D : IsFiniteSet(Limited(r, u, M))
  BY <1>5, LimitedCount
<1>7. \A u \in D : Cardinality(Limited(r, u, M)) \in Nat
  BY <1>6, FS_CardinalityType
<1>8. Cardinality({i \in DOMAIN sel : SameLimit(r, t, sel[i])}) = Cardinality(Limited(r, t, M))
  BY <1>3, <1>5, LimitedCount
<1>try. z = IF \/ r.torrents[t].release
               \/ Cardinality({i \in DOMAIN sel : SameLimit(r, t, sel[i])}) < m
          THEN Append(sel, t) ELSE sel
  BY DEF TrySelect
<1> HIDE DEF D, M, m
<1>9. t \notin M
  BY <1>4, <1>5
<1>10. \A j \in 1..k + 1 : j \in 1..k \/ (j = k + 1 /\ s[j] = t)
  OBVIOUS
<1>11. CASE r.torrents[t].release \/ Cardinality(Limited(r, t, M)) < m
  <2>1. z = Append(sel, t)
    BY <1>try, <1>8, <1>11
  <2> DEFINE N == Members(z)
  <2>2. /\ z \in Seq(D) /\ Len(z) = Len(sel) + 1 /\ Len(sel) \in Nat
        /\ \A i \in 1..Len(sel) : z[i] = sel[i]
        /\ z[Len(sel) + 1] = t
        /\ N = M \cup {t}
    <3>1. t \in D /\ sel \in Seq(D)
      BY <1>3, <1>5
    <3>2. N = Members(z)
      OBVIOUS
    <3> HIDE DEF N
    <3>3. z \in Seq(D) /\ Longer(z, sel, t)
      BY <2>1, <3>1, Appended
    <3> QED
      BY <3>2, <3>3 DEF M, Longer
  <2> HIDE DEF N
  <2>3. \A i \in 1..Len(sel) : sel[i] \in M
    BY <1>5 DEF M, Members
  <2>4. ASSUME NEW i \in 1..Len(z), NEW j \in 1..Len(z), z[i] = z[j] PROVE i = j
    <3>1. (i \in 1..Len(sel) \/ i = Len(sel) + 1) /\ (j \in 1..Len(sel) \/ j = Len(sel) + 1)
      BY <2>2
    <3> QED
      BY <1>5, <1>9, <2>2, <2>3, <2>4, <3>1
  <2>5. \A x \in N : \E j \in 1..k + 1 : x = s[j]
    <3>1. k + 1 \in 1..k + 1 /\ \A j \in 1..k : j \in 1..k + 1
      OBVIOUS
    <3> QED
      BY <1>5, <2>2, <3>1
  <2>6. ASSUME NEW u \in D PROVE Cardinality(Limited(r, u, N)) <= m
    <3>1. CASE ~SameLimit(r, u, t)
      <4>1. Limited(r, u, N) = Limited(r, u, M)
        BY <2>2, <3>1 DEF Limited
      <4> QED
        BY <1>5, <4>1
    <3>2. CASE SameLimit(r, u, t)
      <4>1. ~r.torrents[t].release /\ r.torrents[t].resolution = r.torrents[u].resolution
        BY <3>2 DEF SameLimit
      <4>2. Limited(r, u, M) = Limited(r, t, M)
        BY <4>1 DEF Limited, SameLimit
      <4>3. Cardinality(Limited(r, u, M)) < m
        BY <1>11, <4>1, <4>2
      <4>4. Limited(r, u, N) = Limited(r, u, M) \cup {t} /\ t \notin Limited(r, u, M)
        BY <1>9, <2>2, <3>2 DEF Limited
      <4>5. Cardinality(Limited(r, u, N)) = Cardinality(Limited(r, u, M)) + 1
        BY <1>6, <4>4, FS_AddElement
      <4> QED
        BY <1>1, <1>7, <4>3, <4>5 DEF m
    <3> QED
      BY <3>1, <3>2
  <2>7. ASSUME NEW j \in 1..k + 1, s[j] \notin N
        PROVE  Cardinality({x \in N : SameLimit(r, s[j], x) /\ Better(r, x, s[j])}) = m
    <3>1. j \in 1..k /\ s[j] \notin M
      BY <1>10, <2>2, <2>7
    <3>2. ~Better(r, t, s[j])
      BY <1>4, <3>1
    <3>3. {x \in N : SameLimit(r, s[j], x) /\ Better(r, x, s[j])}
             = {x \in M : SameLimit(r, s[j], x) /\ Better(r, x, s[j])}
      BY <2>2, <3>2
    <3> QED
      BY <1>5, <3>1, <3>3
  <2> QED
    BY <2>2, <2>4, <2>5, <2>6, <2>7 DEF SelectsWell, N, D, m
<1>12. CASE ~(r.torrents[t].release \/ Cardinality(Limited(r, t, M)) < m)
  <2>1. z = sel
    BY <1>try, <1>8, <1>12
  <2>2. Cardinality(Limited(r, t, M)) = m
    BY <1>1, <1>3, <1>5, <1>7, <1>12 DEF m
  <2>3. {x \in M : SameLimit(r, t, x) /\ Better(r, x, t)} = Limited(r, t, M)
    BY <1>3, <1>5 DEF Limited
  <2>4. \A j \in 1..k + 1 :
            s[j] \notin M =>
               Cardinality({x \in M : SameLimit(r, s[j], x) /\ Better(r, x, s[j])}) = m
    BY <1>5, <1>10, <2>2, <2>3
  <2>5. \A x \in M : \E j \in 1..k + 1 : x = s[j]
    <3>1. \A j \in 1..k : j \in 1..k + 1
      OBVIOUS
    <3> QED
      BY <1>5, <3>1
  <2> QED
    BY <1>5, <2>1, <2>4, <2>5 DEF SelectsWell, D, M, m
<1> QED
  BY <1>11, <1>12

LEMMA SelectedIs ==
    ASSUME NEW r \in Requests, NEW z, z = SelectInfoHashes(r)
    PROVE  /\ z \in Seq(DOMAIN r.torrents)
           /\ r.maxResults > 0 =>
                 \E s : TriesAll(r, s) /\ SelectsWell(r, s, Len(s), z)
<1> DEFINE D == DOMAIN r.torrents
           s == Tried(r)
           n == Len(s)
           op == [x \in Seq(D) \X (1..n) |-> TrySelect(r, x[1], s[x[2]])]
           IsAfter(f) == f = [k \in 0..n |-> IF k = 0 THEN <<>> ELSE TrySelect(r, f[k - 1], s[k])]
<1>1. r.maxResults \in Int /\ D = 1..Len(r.torrents) /\ Len(r.torrents) \in Nat
  BY RequestIs
<1>2. CASE r.maxResults <= 0
  <2>1. z = [i \in D |-> i]
    BY <1>2 DEF SelectInfoHashes, Ranked
  <2>2. z \in Seq(D)
    BY <1>1, <2>1
  <2> QED
    BY <1>1, <1>2, <2>2
<1>3. CASE ~(r.maxResults <= 0)
  <2>1. TriesAll(r, s)
    BY TriedIs
  <2> HIDE DEF s
  <2>2. s \in Seq(D) /\ n \in Nat /\ \A k \in 1..n : s[k] \in D
    BY <2>1 DEF TriesAll
  <2>3. z = (CHOOSE g : IsAfter(g))[n]
    BY <1>3 DEF SelectInfoHashes, s
  <2> HIDE DEF D, n
  <2>4. ASSUME NEW l \in Seq(D), NEW k \in 1..n
        PROVE  op[<<l, k>>] = TrySelect(r, l, s[k]) /\ TrySelect(r, l, s[k]) \in Seq(D)
    <3>1. s[k] \in D
      BY <2>2
    <3>2. Append(l, s[k]) \in Seq(D)
      BY <3>1
    <3> QED
      BY <3>2 DEF TrySelect
  <2> HIDE DEF op
  <2>5. \A l \in Seq(D) : \A k \in 1..n : op[<<l, k>>] \in Seq(D)
    BY <2>4
  <2>6. <<>> \in Seq(D)
    OBVIOUS
  <2> DEFINE Q == Seq(D)
  <2>7. \E f \in [0..n -> Q] : Steps(f, n, <<>>, op)
    <3> HIDE DEF Q
    <3>1. <<>> \in Q /\ \A l \in Q : \A k \in 1..n : op[<<l, k>>] \in Q
      BY <2>5, <2>6 DEF Q
    <3> QED
      BY <2>2, <3>1, StepsExist
  <2>8. PICK f \in [0..n -> Q] : Steps(f, n, <<>>, op)
    BY <2>7
  <2>9. IsAfter(f)
    <3>1. f = [k \in 0..n |-> IF k = 0 THEN <<>> ELSE op[<<f[k - 1], k>>]]
      BY <2>8 DEF Steps
    <3>2. ASSUME NEW k \in 0..n, k # 0 PROVE op[<<f[k - 1], k>>] = TrySelect(r, f[k - 1], s[k])
      <4>1. k - 1 \in 0..n /\ k \in 1..n
        BY <2>2, <3>2
      <4>2. f[k - 1] \in Seq(D)
        BY <2>8, <4>1
      <4> QED
        BY <2>4, <4>1, <4>2
    <3> QED
      BY <3>1, <3>2
  <2> HIDE DEF IsAfter
  <2>10. PICK g : IsAfter(g) /\ z = g[n]
    BY <2>3, <2>9
  <2>11. \A k \in 0..n : g[k] = IF k = 0 THEN <<>> ELSE TrySelect(r, g[k - 1], s[k])
    BY <2>10 DEF IsAfter
  <2> DEFINE Good == {k \in 0..n : SelectsWell(r, s, k, g[k])}
  <2>12. 0 \in Good
    <3>1. 0 \in 0..n /\ g[0] = <<>>
      BY <2>2, <2>11
    <3>2. Members(<<>>) = {} /\ <<>> \in Seq(D) /\ Len(<<>>) = 0
      BY DEF Members
    <3>3. \A t : Limited(r, t, {}) = {}
      BY DEF Limited
    <3>4. Cardinality({}) = 0
      BY FS_EmptySet
    <3>5. <<>> \in Seq(DOMAIN r.torrents)
      BY <3>2 DEF D
    <3>6. \A t \in DOMAIN r.torrents : Cardinality(Limited(r, t, Members(<<>>))) <= r.maxResults
      <4>1. 0 <= r.maxResults
        BY <1>1, <1>3
      <4> QED
        BY <3>2, <3>3, <3>4, <4>1
    <3>7. SelectsWell(r, s, 0, <<>>)
      BY <3>2, <3>5, <3>6 DEF SelectsWell
    <3> QED
      BY <3>1, <3>7
  <2>13. ASSUME NEW k \in 0..n, k \in Good, k < n PROVE k + 1 \in Good
    <3>1. k \in Nat /\ k + 1 \in 1..n /\ k + 1 \in 0..n /\ (k + 1) - 1 = k /\ k + 1 # 0
      BY <2>2, <2>13
    <3>2. g[k + 1] = TrySelect(r, g[k], s[k + 1])
      BY <2>11, <3>1
    <3>3. SelectsWell(r, s, k, g[k]) /\ r.maxResults > 0
      BY <1>1, <1>3, <2>13
    <3>4. SelectsWell(r, s, k + 1, g[k + 1])
      BY <2>1, <3>1, <3>2, <3>3, SelectStep DEF n
    <3> QED
      BY <3>1, <3>4
  <2> HIDE DEF Good
  <2>14. n \in Good
    <3>1. \A k \in 0..n : k \in Good
      BY <2>2, <2>12, <2>13, ReachesEnd
    <3> QED
      BY <2>2, <3>1
  <2>15. SelectsWell(r, s, n, z)
    BY <2>10, <2>14 DEF Good
  <2>16. z \in Seq(DOMAIN r.torrents)
    BY <2>15 DEF SelectsWell
  <2> QED
    BY <2>1, <2>15, <2>16 DEF n
<1> QED
  BY <1>2, <1>3

\* So who is not selected was not wanted, or found its limit full of better ones.
LEMMA LimitsAreFair ==
    ASSUME NEW r \in Requests, r.maxResults > 0, NEW t \in DOMAIN r.torrents \ Chosen(r)
    PROVE  \/ SelectCachedOnly(r) /\ ~IsCached(r, t)
           \/ Cardinality({x \in Chosen(r) : SameLimit(r, t, x) /\ Better(r, x, t)})
                 = r.maxResults
<1> DEFINE z == SelectInfoHashes(r)
<1>1. Chosen(r) = Members(z)
  BY DEF Chosen, Members
<1>2. PICK s : TriesAll(r, s) /\ SelectsWell(r, s, Len(s), z)
  BY SelectedIs
<1> HIDE DEF z
<1>3. SUFFICES ASSUME SelectCachedOnly(r) => IsCached(r, t)
               PROVE  Cardinality({x \in Chosen(r) : SameLimit(r, t, x) /\ Better(r, x, t)})
                         = r.maxResults
  OBVIOUS
<1>4. PICK j \in 1..Len(s) : s[j] = t
  BY <1>2, <1>3 DEF TriesAll
<1> QED
  BY <1>1, <1>2, <1>4 DEF SelectsWell

----------------------------------------------------------------------------
(* The streams of the selected torrents. *)

StreamSet(r) ==
    [torrent : DOMAIN r.torrents, service : Service \cup {P2P}, cached : BOOLEAN]

IsStreamOf(r, t, s) ==
    /\ s \in StreamSet(r) /\ s.torrent = t
    /\ \/ \E i \in DOMAIN r.entries : HasStream(r, t, i) /\ s = DebridStream(r, t, i)
       \/ /\ s.service = P2P /\ ~s.cached
          /\ r.deduplicate => ~IsAdded(r, t, Len(r.entries))

HasBoth(s, a, b) == Members(s) = Members(a) \cup Members(b)

LEMMA MembersJoined ==
    ASSUME NEW S, NEW a \in Seq(S), NEW b \in Seq(S), NEW s, s = a \o b
    PROVE  s \in Seq(S) /\ HasBoth(s, a, b)
<1>1. s \in Seq(S) /\ Joined(s, a, b)
  BY JoinedIs
<1>2. /\ DOMAIN a = 1..Len(a) /\ DOMAIN b = 1..Len(b) /\ DOMAIN s = 1..Len(s)
      /\ Len(a) \in Nat /\ Len(b) \in Nat
  BY <1>1
<1>3. /\ Len(s) = Len(a) + Len(b)
      /\ \A i \in 1..Len(a) : s[i] = a[i]
      /\ \A i \in 1..Len(b) : s[Len(a) + i] = b[i]
      /\ \A i \in 1..Len(s) : \/ i \in 1..Len(a) /\ s[i] = a[i]
                              \/ i - Len(a) \in 1..Len(b) /\ s[i] = b[i - Len(a)]
  BY <1>1 DEF Joined
<1>4. ASSUME NEW x \in Members(s) PROVE x \in Members(a) \cup Members(b)
  BY <1>2, <1>3 DEF Members
<1>5. ASSUME NEW x \in Members(a) PROVE x \in Members(s)
  <2>1. PICK i \in 1..Len(a) : x = a[i]
    BY <1>2 DEF Members
  <2>2. i \in 1..Len(s) /\ s[i] = x
    BY <1>2, <1>3, <2>1
  <2> QED
    BY <1>2, <2>2 DEF Members
<1>6. ASSUME NEW x \in Members(b) PROVE x \in Members(s)
  <2>1. PICK i \in 1..Len(b) : x = b[i]
    BY <1>2 DEF Members
  <2>2. Len(a) + i \in 1..Len(s) /\ s[Len(a) + i] = x
    BY <1>2, <1>3, <2>1
  <2> QED
    BY <1>2, <2>2 DEF Members
<1> QED
  BY <1>1, <1>4, <1>5, <1>6 DEF HasBoth

\* The streams of one torrent.
LEMMA StreamsOfAre ==
    ASSUME NEW r \in Requests, NEW t \in DOMAIN r.torrents, NEW z, z = StreamsOf(r, t)
    PROVE  /\ z \in Seq(StreamSet(r))
           /\ \A s \in Members(z) : IsStreamOf(r, t, s)
           /\ r.torrents[t].fits =>
                 \A i \in DOMAIN r.entries : HasStream(r, t, i) => DebridStream(r, t, i) \in Members(z)
<1> DEFINE S == StreamSet(r)
           H == {i \in DOMAIN r.entries : HasStream(r, t, i)}
           shown == Ascending(H)
           n == Cardinality(H)
           p2p == r.enableTorrent /\ (r.deduplicate => ~IsAdded(r, t, Len(r.entries)))
           its == [torrent |-> t, service |-> P2P, cached |-> FALSE]
           a == [k \in DOMAIN shown |-> DebridStream(r, t, shown[k])]
           b == IF p2p THEN <<its>> ELSE <<>>
<1>1. DOMAIN r.entries = 1..Len(r.entries) /\ Len(r.entries) \in Nat
      /\ \A i \in DOMAIN r.entries : r.entries[i] \in Service
  BY RequestIs
<1>2. IsFiniteSet(H) /\ H \subseteq Int
  BY <1>1, CountUpTo, FS_Subset
<1>3. SortsUp(shown, n, H)
  <2> HIDE DEF H
  <2> QED
    BY <1>2, AscendingIs
<1>4. z = IF ~r.torrents[t].fits THEN <<>> ELSE a \o b
  BY DEF StreamsOf
<1>5. \A i \in DOMAIN r.entries : DebridStream(r, t, i) \in S
  BY <1>1 DEF DebridStream, CachedOn, StreamSet
<1>6. its \in S
  BY DEF StreamSet
<1>7. \A i \in H : IsStreamOf(r, t, DebridStream(r, t, i))
  BY <1>5 DEF IsStreamOf, DebridStream
<1>8. p2p => IsStreamOf(r, t, its)
  BY <1>6 DEF IsStreamOf
<1>9. H \subseteq DOMAIN r.entries
  OBVIOUS
<1>10. \A i \in DOMAIN r.entries : HasStream(r, t, i) => i \in H
  OBVIOUS
<1> HIDE DEF S, H, n, its, p2p, shown
<1>11. n \in Nat /\ shown \in [1..n -> H] /\ \A i \in H : \E k \in 1..n : shown[k] = i
  BY <1>3 DEF SortsUp
<1>12. a = [k \in 1..n |-> DebridStream(r, t, shown[k])]
  BY <1>11
<1>13. a \in [1..n -> S]
  BY <1>5, <1>9, <1>11, <1>12
<1>14. a \in Seq(S)
  BY <1>11, <1>13
<1>15. b \in Seq(S) /\ \A x \in Members(b) : p2p /\ x = its
  BY <1>6 DEF Members
<1>16. \A x \in Members(a) : IsStreamOf(r, t, x)
  BY <1>7, <1>11, <1>12 DEF Members
<1>17. \A i \in H : DebridStream(r, t, i) \in Members(a)
  BY <1>11, <1>12 DEF Members
<1> HIDE DEF a, b
<1>18. CASE ~r.torrents[t].fits
  BY <1>4, <1>18 DEF S, Members
<1>19. CASE r.torrents[t].fits
  <2>1. z = a \o b
    BY <1>4, <1>19
  <2>2. z \in Seq(S) /\ HasBoth(z, a, b)
    BY <1>14, <1>15, <2>1, MembersJoined
  <2> QED
    BY <1>8, <1>10, <1>15, <1>16, <1>17, <2>2 DEF S, HasBoth
<1> QED
  BY <1>18, <1>19

\* Those of all.
LEMMA AllStreamsAre ==
    ASSUME NEW r \in Requests, NEW z, z = AllStreams(r)
    PROVE  /\ z \in Seq(StreamSet(r))
           /\ \A x \in Members(z) : \E t \in Chosen(r) : x \in Members(StreamsOf(r, t))
           /\ \A t \in Chosen(r) : \A x \in Members(StreamsOf(r, t)) : x \in Members(z)
<1> DEFINE D == DOMAIN r.torrents
           Q == Seq(StreamSet(r))
           s == SelectInfoHashes(r)
           n == Len(s)
           op == [x \in Q \X (1..n) |-> x[1] \o StreamsOf(r, s[x[2]])]
           IsAfter(f) == f = [k \in 0..n |-> IF k = 0 THEN <<>> ELSE f[k - 1] \o StreamsOf(r, s[k])]
<1>1. s \in Seq(D)
  BY SelectedIs
<1>2. Chosen(r) = Members(s)
  BY DEF Chosen, Members
<1>3. z = (CHOOSE g : IsAfter(g))[n]
  BY DEF AllStreams
<1> HIDE DEF s
<1>4. n \in Nat /\ DOMAIN s = 1..n /\ \A k \in 1..n : s[k] \in D
  BY <1>1
<1> HIDE DEF D, n, Q
<1>5. \A k \in 1..n : StreamsOf(r, s[k]) \in Q
  BY <1>4, StreamsOfAre DEF D, Q
<1>6. ASSUME NEW l \in Q, NEW k \in 1..n
      PROVE  op[<<l, k>>] = l \o StreamsOf(r, s[k]) /\ l \o StreamsOf(r, s[k]) \in Q
  <2>1. l \o StreamsOf(r, s[k]) \in Q
    BY <1>5, MembersJoined DEF Q
  <2> QED
    BY <2>1
<1> HIDE DEF op
<1>7. \A l \in Q : \A k \in 1..n : op[<<l, k>>] \in Q
  BY <1>6
<1>8. <<>> \in Q
  BY DEF Q
<1>9. PICK f \in [0..n -> Q] : Steps(f, n, <<>>, op)
  BY <1>4, <1>7, <1>8, StepsExist
<1>10. IsAfter(f)
  <2>1. f = [k \in 0..n |-> IF k = 0 THEN <<>> ELSE op[<<f[k - 1], k>>]]
    BY <1>9 DEF Steps
  <2>2. \A k \in 0..n : k # 0 => op[<<f[k - 1], k>>] = f[k - 1] \o StreamsOf(r, s[k])
    <3> SUFFICES ASSUME NEW k \in 0..n, k # 0
                 PROVE  op[<<f[k - 1], k>>] = f[k - 1] \o StreamsOf(r, s[k])
      OBVIOUS
    <3>1. k - 1 \in 0..n /\ k \in 1..n
      BY <1>4
    <3>2. f[k - 1] \in Q
      BY <1>9, <3>1
    <3> QED
      BY <1>6, <3>1, <3>2
  <2> QED
    BY <2>1, <2>2
<1> HIDE DEF IsAfter
<1>11. PICK g : IsAfter(g) /\ z = g[n]
  BY <1>3, <1>10
<1>12. \A k \in 0..n : g[k] = IF k = 0 THEN <<>> ELSE g[k - 1] \o StreamsOf(r, s[k])
  BY <1>11 DEF IsAfter
<1> DEFINE Good == {k \in 0..n :
                      /\ g[k] \in Q
                      /\ \A x \in Members(g[k]) : \E j \in 1..n : x \in Members(StreamsOf(r, s[j]))
                      /\ \A j \in 1..k : \A x \in Members(StreamsOf(r, s[j])) : x \in Members(g[k])}
<1>13. 0 \in Good
  <2>1. 0 \in 0..n /\ g[0] = <<>> /\ 1..0 = {}
    BY <1>4, <1>12
  <2>2. Members(<<>>) = {}
    BY DEF Members
  <2> QED
    BY <1>8, <2>1, <2>2
<1>14. ASSUME NEW k \in 0..n, k \in Good, k < n PROVE k + 1 \in Good
  <2>1. k \in Nat /\ k + 1 \in 1..n /\ k + 1 \in 0..n /\ (k + 1) - 1 = k /\ k + 1 # 0
        /\ \A j \in 1..k + 1 : j \in 1..k \/ j = k + 1
    BY <1>4, <1>14
  <2>2. g[k + 1] = g[k] \o StreamsOf(r, s[k + 1])
    BY <1>12, <2>1
  <2>3. g[k] \in Q /\ StreamsOf(r, s[k + 1]) \in Q
    BY <1>5, <1>14, <2>1
  <2> DEFINE old == g[k]
             more == StreamsOf(r, s[k + 1])
             new == g[k + 1]
  <2>4. new \in Q /\ HasBoth(new, old, more)
    <3>1. old \in Q /\ more \in Q /\ new = old \o more
      BY <2>2, <2>3
    <3> HIDE DEF old, more, new
    <3> QED
      BY <3>1, MembersJoined DEF Q
  <2>5. /\ g[k + 1] \in Q
        /\ Members(g[k + 1]) = Members(g[k]) \cup Members(StreamsOf(r, s[k + 1]))
    BY <2>4 DEF HasBoth
  <2> QED
    BY <1>14, <2>1, <2>5
<1>15. n \in Good
  <2> HIDE DEF Good
  <2>1. \A k \in 0..n : k \in Good
    BY <1>4, <1>13, <1>14, ReachesEnd
  <2> QED
    BY <1>4, <2>1
<1>16. /\ z \in Q
       /\ \A x \in Members(z) : \E j \in 1..n : x \in Members(StreamsOf(r, s[j]))
       /\ \A j \in 1..n : \A x \in Members(StreamsOf(r, s[j])) : x \in Members(z)
  BY <1>11, <1>15
<1>17. \A x : x \in Chosen(r) <=> \E j \in 1..n : x = s[j]
  BY <1>2, <1>4 DEF Members
<1> QED
  BY <1>16, <1>17 DEF Q

\* The lists are put one after another, uncached streams last.
UncachedLast(r, z) ==
    \A j, k \in 1..Len(z) : InThird(r, z[k]) /\ ~InThird(r, z[j]) => j < k

LEMMA PickedMembers ==
    ASSUME NEW S, NEW s \in Seq(S), NEW P \in SUBSET (DOMAIN s), NEW t, t = Picked(s, P)
    PROVE  t \in Seq(S) /\ Members(t) = {s[i] : i \in P}
<1> DEFINE o == Ascending(P)
           n == Cardinality(P)
<1>1. t \in Seq(S) /\ Picks(t, n, s, P, o)
  BY PickedIs
<1> HIDE DEF o, n
<1>2. /\ DOMAIN t = 1..n
      /\ \A i \in 1..n : o[i] \in P /\ t[i] = s[o[i]]
      /\ \A x \in P : \E i \in 1..n : o[i] = x /\ t[i] = s[x]
  BY <1>1 DEF Picks
<1> QED
  BY <1>1, <1>2 DEF Members

LEMMA FinalStreamsAre ==
    ASSUME NEW r \in Requests, NEW z, z = FinalStreams(r)
    PROVE  /\ z \in Seq(StreamSet(r))
           /\ Members(z) = Members(AllStreams(r))
           /\ UncachedLast(r, z)
<1> DEFINE S == StreamSet(r)
           all == AllStreams(r)
           A == {i \in DOMAIN all : InFirst(r, all[i])}
           B == {i \in DOMAIN all : InSecond(r, all[i])}
           C == {i \in DOMAIN all : InThird(r, all[i])}
           a == Picked(all, A)
           b == Picked(all, B)
           c == Picked(all, C)
           d == a \o b
<1>1. all \in Seq(S)
  BY AllStreamsAre
<1>2. z = a \o b \o c
  BY DEF FinalStreams
<1>3. A \in SUBSET (DOMAIN all) /\ B \in SUBSET (DOMAIN all) /\ C \in SUBSET (DOMAIN all)
  OBVIOUS
<1>4. /\ \A i \in A : InFirst(r, all[i])
      /\ \A i \in B : InSecond(r, all[i])
      /\ \A i \in C : InThird(r, all[i])
      /\ \A i \in DOMAIN all : i \in A \cup B \cup C
  BY DEF InSecond, InThird
<1> HIDE DEF all, A, B, C, S
<1>5. a \in Seq(S) /\ Members(a) = {all[i] : i \in A}
  BY <1>1, <1>3, PickedMembers
<1>6. b \in Seq(S) /\ Members(b) = {all[i] : i \in B}
  BY <1>1, <1>3, PickedMembers
<1>7. c \in Seq(S) /\ Members(c) = {all[i] : i \in C}
  BY <1>1, <1>3, PickedMembers
<1> HIDE DEF a, b, c
<1>8. d \in Seq(S) /\ Members(d) = Members(a) \cup Members(b)
  <2>1. d = a \o b
    OBVIOUS
  <2> HIDE DEF d
  <2>2. d \in Seq(S) /\ HasBoth(d, a, b)
    BY <1>5, <1>6, <2>1, MembersJoined
  <2> QED
    BY <2>2 DEF HasBoth
<1>9. z = d \o c
  BY <1>2
<1> HIDE DEF d
<1>10. z \in Seq(S) /\ Joined(z, d, c) /\ Members(z) = Members(d) \cup Members(c)
  <2>1. z \in Seq(S) /\ Joined(z, d, c)
    BY <1>7, <1>8, <1>9, JoinedIs
  <2>2. HasBoth(z, d, c)
    BY <1>7, <1>8, <1>9, MembersJoined
  <2> QED
    BY <2>1, <2>2 DEF HasBoth
<1>11. Members(z) = Members(all)
  <2>1. \A x \in Members(z) : x \in Members(all)
    BY <1>3, <1>5, <1>6, <1>7, <1>8, <1>10 DEF Members
  <2>2. ASSUME NEW x \in Members(all) PROVE x \in Members(z)
    <3>1. PICK i \in DOMAIN all : x = all[i]
      BY DEF Members
    <3>2. i \in A \/ i \in B \/ i \in C
      BY <1>4
    <3> QED
      BY <1>5, <1>6, <1>7, <1>8, <1>10, <3>1, <3>2
  <2> QED
    BY <2>1, <2>2
<1>12. \A x \in Members(d) : ~InThird(r, x)
  <2>1. \A x \in Members(a) : InFirst(r, x)
    BY <1>4, <1>5
  <2>2. \A x \in Members(b) : InSecond(r, x)
    BY <1>4, <1>6
  <2> QED
    BY <1>8, <2>1, <2>2 DEF InSecond, InThird
<1>13. \A x \in Members(c) : InThird(r, x)
  BY <1>4, <1>7
<1>14. ASSUME NEW j \in 1..Len(z), NEW k \in 1..Len(z), InThird(r, z[k]), ~InThird(r, z[j])
       PROVE  j < k
  <2>1. \A i \in 1..Len(z) : \/ i \in 1..Len(d) /\ z[i] = d[i]
                             \/ i - Len(d) \in 1..Len(c) /\ z[i] = c[i - Len(d)]
    BY <1>10 DEF Joined
  <2>2. Len(d) \in Nat /\ DOMAIN d = 1..Len(d) /\ Len(c) \in Nat /\ DOMAIN c = 1..Len(c)
    BY <1>7, <1>8
  <2>3. \A i \in 1..Len(d) : d[i] \in Members(d)
    BY <2>2 DEF Members
  <2>4. \A i \in 1..Len(c) : c[i] \in Members(c)
    BY <2>2 DEF Members
  <2>5. k - Len(d) \in 1..Len(c)
    BY <1>12, <1>14, <2>1, <2>3
  <2>6. j \in 1..Len(d)
    BY <1>13, <1>14, <2>1, <2>4
  <2> QED
    BY <2>2, <2>5, <2>6
<1> QED
  BY <1>10, <1>11, <1>14 DEF UncachedLast, S, all

----------------------------------------------------------------------------
(* What is shown of a cached torrent. *)

LEMMA ChosenAre ==
    ASSUME NEW r \in Requests
    PROVE  \A t \in Chosen(r) : t \in DOMAIN r.torrents
<1> DEFINE z == SelectInfoHashes(r)
<1>1. z \in Seq(DOMAIN r.torrents)
  BY SelectedIs
<1>2. Chosen(r) = Members(z)
  BY DEF Chosen, Members
<1> HIDE DEF z
<1> QED
  BY <1>1, <1>2 DEF Members

\* Each service that has it gives a stream, or the first of them only.
LEMMA CachedStreamsAre ==
    ASSUME NEW r \in Requests, r.deduplicate, NEW t \in Wanted(r)
    PROVE  /\ \A s : IsStreamOf(r, t, s) => s.service # P2P
           /\ \A s : IsStreamOf(r, t, s) /\ s.cached => s.service = FirstWithIt(r, t)
           /\ \E s \in Members(StreamsOf(r, t)) : s.cached /\ IsStreamOf(r, t, s)
<1> DEFINE H == HasIt(r, t)
           IsLeast(i) == i \in H /\ \A j \in H : i <= j
           c == CHOOSE i \in H : \A j \in H : i <= j
<1>1. /\ DOMAIN r.entries = 1..Len(r.entries) /\ Len(r.entries) \in Nat
      /\ \A i \in DOMAIN r.entries : r.entries[i] \in Service
  BY RequestIs
<1>2. t \in DOMAIN r.torrents /\ r.torrents[t].fits /\ H # {}
  BY ChosenAre DEF Wanted
<1>3. \A i : i \in H <=> i \in DOMAIN r.entries /\ CachedOn(r, t, i) /\ Offered(r, t, i)
  BY DEF HasIt, Offered
<1>4. H \in SUBSET Nat
  BY <1>1, <1>3
<1> HIDE DEF H
<1>5. \E i \in H : \A j \in H : i <= j
  BY <1>2, <1>4, LeastNumber
<1>6. c \in H /\ \A j \in H : c <= j
  BY <1>5
<1>7. FirstWithIt(r, t) = r.entries[c]
  BY DEF FirstWithIt, H
<1> HIDE DEF c
<1>8. c \in Nat /\ c \in 1..Len(r.entries) /\ CachedOn(r, t, c) /\ Offered(r, t, c)
  BY <1>1, <1>3, <1>4, <1>6
<1>9. IsAdded(r, t, Len(r.entries))
  BY <1>8 DEF IsAdded
<1>10. ~IsAdded(r, t, c - 1)
  <2> SUFFICES ASSUME NEW i \in 1..c - 1, Offered(r, t, i), CachedOn(r, t, i) PROVE FALSE
    BY DEF IsAdded
  <2>1. i \in 1..Len(r.entries) /\ i < c
    BY <1>1, <1>8
  <2>2. i \in H
    BY <1>1, <1>3, <2>1
  <2> QED
    BY <1>4, <1>6, <2>1, <2>2
<1>11. ASSUME NEW i \in DOMAIN r.entries, HasStream(r, t, i), CachedOn(r, t, i) PROVE i = c
  <2>1. Offered(r, t, i) /\ ~IsAdded(r, t, i - 1)
    BY <1>11 DEF HasStream
  <2>2. i \in H /\ i \in Nat
    BY <1>3, <1>4, <1>11, <2>1
  <2>3. c <= i
    BY <1>6, <2>2
  <2>4. c \in 1..i - 1 => IsAdded(r, t, i - 1)
    BY <1>8 DEF IsAdded
  <2> QED
    BY <1>8, <2>1, <2>2, <2>3, <2>4
<1>12. ASSUME NEW s, IsStreamOf(r, t, s)
       PROVE  \E i \in DOMAIN r.entries : HasStream(r, t, i) /\ s = DebridStream(r, t, i)
  BY <1>9, <1>12 DEF IsStreamOf
<1>13. \A i : /\ DebridStream(r, t, i).service = r.entries[i]
              /\ DebridStream(r, t, i).cached = CachedOn(r, t, i)
  BY DEF DebridStream
<1>14. ASSUME NEW s, IsStreamOf(r, t, s) PROVE s.service # P2P
  <2>1. s.service \in Service
    BY <1>1, <1>12, <1>13, <1>14
  <2> QED
    BY <2>1, AnswerAssumption
<1>15. ASSUME NEW s, IsStreamOf(r, t, s), s.cached PROVE s.service = FirstWithIt(r, t)
  <2>1. PICK i \in DOMAIN r.entries : HasStream(r, t, i) /\ s = DebridStream(r, t, i)
    BY <1>12, <1>15
  <2>2. i = c
    BY <1>11, <1>13, <1>15, <2>1
  <2> QED
    BY <1>7, <1>13, <2>1, <2>2
<1>16. HasStream(r, t, c)
  BY <1>8, <1>10 DEF HasStream
<1> DEFINE z == StreamsOf(r, t)
           s == DebridStream(r, t, c)
<1>17. s \in Members(z) /\ \A x \in Members(z) : IsStreamOf(r, t, x)
  BY <1>1, <1>2, <1>8, <1>16, StreamsOfAre
<1>18. s.cached
  BY <1>8, <1>13
<1> QED
  BY <1>14, <1>15, <1>17, <1>18

\* The first stream of the torrent is a cached one.
LEMMA FirstIsCached ==
    ASSUME NEW r \in Requests, r.deduplicate, ~SortMixed(r), NEW t \in Wanted(r),
           NEW z, z = FinalStreams(r)
    PROVE  /\ \E k \in 1..Len(z) : z[k].torrent = t
           /\ \A k \in 1..Len(z) :
                 z[k].torrent = t /\ (\A j \in 1..k - 1 : z[j].torrent # t)
                    => z[k].service = FirstWithIt(r, t)
<1> DEFINE all == AllStreams(r)
<1>1. z \in Seq(StreamSet(r)) /\ Members(z) = Members(all) /\ UncachedLast(r, z)
  BY FinalStreamsAre
<1>2. /\ \A x \in Members(all) : \E u \in Chosen(r) : x \in Members(StreamsOf(r, u))
      /\ \A u \in Chosen(r) : \A x \in Members(StreamsOf(r, u)) : x \in Members(all)
  BY AllStreamsAre
<1> HIDE DEF all
<1>3. t \in Chosen(r) /\ \A u \in Chosen(r) : u \in DOMAIN r.torrents
  BY ChosenAre DEF Wanted
<1>4. \A u \in Chosen(r) : \A x \in Members(StreamsOf(r, u)) : IsStreamOf(r, u, x)
  BY <1>3, StreamsOfAre
<1>5. \A x \in Members(z) : IsStreamOf(r, x.torrent, x)
  BY <1>1, <1>2, <1>4 DEF IsStreamOf
<1>6. DOMAIN z = 1..Len(z) /\ Len(z) \in Nat
  BY <1>1
<1>7. \A k \in 1..Len(z) : z[k] \in Members(z)
  BY <1>6 DEF Members
<1>8. PICK s \in Members(StreamsOf(r, t)) : s.cached /\ IsStreamOf(r, t, s)
  BY CachedStreamsAre
<1>9. PICK j \in 1..Len(z) : z[j] = s
  BY <1>1, <1>2, <1>3, <1>6, <1>8 DEF Members
<1>10. z[j].torrent = t /\ ~InThird(r, z[j])
  BY <1>8, <1>9 DEF IsStreamOf, InThird
<1>11. ASSUME NEW k \in 1..Len(z), z[k].torrent = t, \A i \in 1..k - 1 : z[i].torrent # t
       PROVE  z[k].service = FirstWithIt(r, t)
  <2>1. IsStreamOf(r, t, z[k])
    BY <1>5, <1>7, <1>11
  <2>2. CASE z[k].cached
    BY <2>1, <2>2, CachedStreamsAre
  <2>3. CASE ~z[k].cached
    <3>1. InThird(r, z[k])
      BY <2>1, <2>3, CachedStreamsAre DEF InThird, InFirst
    <3>2. j < k
      BY <1>1, <1>10, <3>1 DEF UncachedLast
    <3>3. j \in 1..k - 1
      BY <1>6, <3>2
    <3> QED
      BY <1>10, <1>11, <3>3
  <2> QED
    BY <2>2, <2>3
<1> QED
  BY <1>10, <1>11

\* One stream of the torrent is kept, the first.
KeepsOne(r, t, l) ==
    \E i \in 1..Len(l) : /\ l[i].torrent = t /\ l[i].service = FirstWithIt(r, t)
                         /\ \A j \in 1..Len(l) : l[j].torrent = t => j = i
KeepsNone(t, l) == \A j \in 1..Len(l) : l[j].torrent # t

\* A file that no other torrent has.
OwnFile(r, t) ==
    /\ r.torrents[t].file # ""
    /\ \A u \in DOMAIN r.torrents \ {t} : r.torrents[u].file # r.torrents[t].file

LEMMA DedupedIs ==
    ASSUME NEW r \in Requests, NEW t \in DOMAIN r.torrents, OwnFile(r, t),
           NEW l \in Seq(StreamSet(r)), NEW s \in StreamSet(r), NEW z, z = Deduped(r, l, s)
    PROVE  /\ z \in Seq(StreamSet(r))
           /\ KeepsNone(t, l) /\ s.torrent # t => KeepsNone(t, z)
           /\ KeepsNone(t, l) /\ s.torrent = t /\ s.service = FirstWithIt(r, t) => KeepsOne(r, t, z)
           /\ KeepsOne(r, t, l) => KeepsOne(r, t, z)
<1> DEFINE S == StreamSet(r)
           D == DOMAIN r.torrents
           twins == {i \in DOMAIN l : FileOf(r, l[i]) = FileOf(r, s)}
           longer(i) == i \in twins /\ LengthOf(r, s) > LengthOf(r, l[i])
<1>1. \A x \in S : x.torrent \in D
  BY DEF StreamSet
<1>2. \A x \in S : FileOf(r, x) = r.torrents[t].file <=> x.torrent = t
  BY <1>1 DEF OwnFile, FileOf
<1>3. \A x \in S : LengthOf(r, x) \in Nat
  BY <1>1, RequestIs DEF LengthOf
<1>4. \A x, y \in S : x.torrent = y.torrent => LengthOf(r, x) = LengthOf(r, y)
  BY DEF LengthOf
<1>5. z = IF FileOf(r, s) = "" \/ twins = {} THEN Append(l, s)
          ELSE [i \in DOMAIN l |-> IF longer(i) THEN s ELSE l[i]]
  BY DEF Deduped
<1>6. \A i \in twins : i \in DOMAIN l /\ FileOf(r, l[i]) = FileOf(r, s)
  OBVIOUS
<1>7. \A i \in DOMAIN l : FileOf(r, l[i]) = FileOf(r, s) => i \in twins
  OBVIOUS
<1>8. s.torrent = t => FileOf(r, s) # ""
  BY DEF FileOf, OwnFile
<1> HIDE DEF S, D, twins
<1>9. l \in Seq(S) /\ s \in S
  BY DEF S
<1>10. DOMAIN l = 1..Len(l) /\ Len(l) \in Nat /\ \A i \in 1..Len(l) : l[i] \in S
  BY <1>9
<1>11. CASE FileOf(r, s) = "" \/ twins = {}
  <2>1. z = Append(l, s)
    BY <1>5, <1>11
  <2>2. /\ z \in Seq(S) /\ Len(z) = Len(l) + 1
        /\ \A i \in 1..Len(l) : z[i] = l[i]
        /\ z[Len(l) + 1] = s
    BY <1>9, <2>1
  <2>3. \A i \in 1..Len(z) : i \in 1..Len(l) \/ i = Len(l) + 1
    BY <1>10, <2>2
  <2>4. Len(l) + 1 \in 1..Len(z) /\ \A i \in 1..Len(l) : i \in 1..Len(z) /\ i # Len(l) + 1
    BY <1>10, <2>2
  <2>5. KeepsNone(t, l) /\ s.torrent # t => KeepsNone(t, z)
    BY <2>2, <2>3 DEF KeepsNone
  <2>6. KeepsNone(t, l) /\ s.torrent = t /\ s.service = FirstWithIt(r, t) => KeepsOne(r, t, z)
    BY <2>2, <2>3, <2>4 DEF KeepsNone, KeepsOne
  <2>7. ASSUME KeepsOne(r, t, l) PROVE KeepsOne(r, t, z)
    <3>1. PICK i \in 1..Len(l) : /\ l[i].torrent = t /\ l[i].service = FirstWithIt(r, t)
                                 /\ \A j \in 1..Len(l) : l[j].torrent = t => j = i
      BY <2>7 DEF KeepsOne
    <3>2. s.torrent # t
      <4>1. SUFFICES ASSUME s.torrent = t PROVE FALSE
        OBVIOUS
      <4>2. FileOf(r, l[i]) = FileOf(r, s)
        BY <1>2, <1>9, <1>10, <3>1, <4>1
      <4>3. i \in twins
        BY <1>7, <1>10, <4>2
      <4> QED
        BY <1>8, <1>11, <4>1, <4>3
    <3> QED
      BY <2>2, <2>3, <2>4, <3>1, <3>2 DEF KeepsOne
  <2> QED
    BY <2>2, <2>5, <2>6, <2>7 DEF S
<1>12. CASE ~(FileOf(r, s) = "" \/ twins = {})
  <2>1. z = [i \in 1..Len(l) |-> IF longer(i) THEN s ELSE l[i]]
    BY <1>5, <1>10, <1>12
  <2>2. z \in [1..Len(l) -> S]
    BY <1>9, <1>10, <2>1
  <2>3. z \in Seq(S) /\ Len(z) = Len(l)
    BY <1>10, <2>2
  <2>4. \A i \in 1..Len(l) : z[i] = l[i] \/ (z[i] = s /\ longer(i))
    BY <2>1
  <2>5. ASSUME NEW i \in 1..Len(l), longer(i) PROVE s.torrent # t /\ l[i].torrent # t
    <3>1. FileOf(r, l[i]) = FileOf(r, s) /\ LengthOf(r, s) > LengthOf(r, l[i])
      BY <1>6, <2>5
    <3>2. s \in S /\ l[i] \in S
      BY <1>9, <1>10
    <3>3. s.torrent = t <=> l[i].torrent = t
      BY <1>2, <3>1, <3>2
    <3>4. s.torrent # l[i].torrent
      BY <1>3, <1>4, <3>1, <3>2
    <3> QED
      BY <3>3, <3>4
  <2>6. \A i \in 1..Len(l) : /\ z[i].torrent = t <=> l[i].torrent = t
                             /\ l[i].torrent = t => z[i] = l[i]
    BY <2>4, <2>5
  <2>7. KeepsNone(t, l) => KeepsNone(t, z)
    BY <2>3, <2>6 DEF KeepsNone
  <2>8. KeepsOne(r, t, l) => KeepsOne(r, t, z)
    BY <2>3, <2>6 DEF KeepsOne
  <2>9. s.torrent = t => ~KeepsNone(t, l)
    <3>1. SUFFICES ASSUME s.torrent = t PROVE \E i \in 1..Len(l) : l[i].torrent = t
      BY DEF KeepsNone
    <3>2. PICK i \in twins : TRUE
      BY <1>12
    <3>3. i \in 1..Len(l) /\ FileOf(r, l[i]) = FileOf(r, s)
      BY <1>6, <1>10
    <3> QED
      BY <1>2, <1>9, <1>10, <3>1, <3>3
  <2> QED
    BY <2>3, <2>7, <2>8, <2>9 DEF S
<1> QED
  BY <1>11, <1>12

LEMMA DeduplicatedIs ==
    ASSUME NEW r \in Requests, r.deduplicate, ~SortMixed(r), NEW t \in Wanted(r), OwnFile(r, t),
           NEW z, z = Deduplicated(r)
    PROVE  z \in Seq(StreamSet(r)) /\ KeepsOne(r, t, z)
<1> DEFINE Q == Seq(StreamSet(r))
           s == FinalStreams(r)
           n == Len(s)
           op == [x \in Q \X (1..n) |-> Deduped(r, x[1], s[x[2]])]
           IsAfter(f) == f = [k \in 0..n |-> IF k = 0 THEN <<>> ELSE Deduped(r, f[k - 1], s[k])]
<1>1. s \in Q
  BY FinalStreamsAre
<1>2. /\ \E k \in 1..n : s[k].torrent = t
      /\ \A k \in 1..n :
            s[k].torrent = t /\ (\A j \in 1..k - 1 : s[j].torrent # t)
               => s[k].service = FirstWithIt(r, t)
  BY FirstIsCached
<1>3. z = (CHOOSE g : IsAfter(g))[n]
  BY DEF Deduplicated
<1>4. t \in DOMAIN r.torrents
  BY ChosenAre DEF Wanted
<1> HIDE DEF s
<1>5. n \in Nat /\ \A k \in 1..n : s[k] \in StreamSet(r)
  BY <1>1
<1> HIDE DEF n, Q
<1>6. \A l \in Q : \A k \in 1..n : Deduped(r, l, s[k]) \in Q
  BY <1>4, <1>5, DedupedIs DEF Q
<1>7. \A l \in Q : \A k \in 1..n : op[<<l, k>>] = Deduped(r, l, s[k])
  OBVIOUS
<1> HIDE DEF op
<1>8. \A l \in Q : \A k \in 1..n : op[<<l, k>>] \in Q
  BY <1>6, <1>7
<1>9. <<>> \in Q
  BY DEF Q
<1>10. PICK f \in [0..n -> Q] : Steps(f, n, <<>>, op)
  BY <1>5, <1>8, <1>9, StepsExist
<1>11. IsAfter(f)
  <2>1. f = [k \in 0..n |-> IF k = 0 THEN <<>> ELSE op[<<f[k - 1], k>>]]
    BY <1>10 DEF Steps
  <2>2. \A k \in 0..n : k # 0 => op[<<f[k - 1], k>>] = Deduped(r, f[k - 1], s[k])
    <3> SUFFICES ASSUME NEW k \in 0..n, k # 0
                 PROVE  op[<<f[k - 1], k>>] = Deduped(r, f[k - 1], s[k])
      OBVIOUS
    <3>1. k - 1 \in 0..n /\ k \in 1..n
      BY <1>5
    <3>2. f[k - 1] \in Q
      BY <1>10, <3>1
    <3> QED
      BY <1>7, <3>1, <3>2
  <2> QED
    BY <2>1, <2>2
<1> HIDE DEF IsAfter
<1>12. PICK g : IsAfter(g) /\ z = g[n]
  BY <1>3, <1>11
<1>13. \A k \in 0..n : g[k] = IF k = 0 THEN <<>> ELSE Deduped(r, g[k - 1], s[k])
  BY <1>12 DEF IsAfter
<1> DEFINE Good == {k \in 0..n :
                      /\ g[k] \in Q
                      /\ (\E j \in 1..k : s[j].torrent = t) => KeepsOne(r, t, g[k])
                      /\ (\A j \in 1..k : s[j].torrent # t) => KeepsNone(t, g[k])}
<1>14. 0 \in Good
  <2>1. 0 \in 0..n /\ 1..0 = {}
    BY <1>5
  <2>2. g[0] = <<>>
    BY <1>13, <2>1
  <2>3. KeepsNone(t, <<>>)
    BY DEF KeepsNone
  <2> QED
    BY <1>9, <2>1, <2>2, <2>3
<1>15. ASSUME NEW k \in 0..n, k \in Good, k < n PROVE k + 1 \in Good
  <2>1. k \in Nat /\ k + 1 \in 1..n /\ k + 1 \in 0..n /\ (k + 1) - 1 = k /\ k + 1 # 0
        /\ \A j \in 1..k + 1 : j \in 1..k \/ j = k + 1
    BY <1>5, <1>15
  <2>2. g[k + 1] = Deduped(r, g[k], s[k + 1])
    BY <1>13, <2>1
  <2>3. g[k] \in Q /\ s[k + 1] \in StreamSet(r)
    BY <1>5, <1>15, <2>1
  <2> DEFINE old == g[k]
             x == s[k + 1]
             new == g[k + 1]
  <2>4. /\ new \in Q
        /\ KeepsNone(t, old) /\ x.torrent # t => KeepsNone(t, new)
        /\ KeepsNone(t, old) /\ x.torrent = t /\ x.service = FirstWithIt(r, t) => KeepsOne(r, t, new)
        /\ KeepsOne(r, t, old) => KeepsOne(r, t, new)
    <3>1. old \in Q /\ x \in StreamSet(r) /\ new = Deduped(r, old, x)
      BY <2>2, <2>3
    <3> HIDE DEF old, x, new
    <3> QED
      BY <1>4, <3>1, DedupedIs DEF Q
  <2>5. CASE \E j \in 1..k : s[j].torrent = t
    <3>1. KeepsOne(r, t, new)
      BY <1>15, <2>4, <2>5
    <3>2. \E j \in 1..k + 1 : s[j].torrent = t
      BY <2>1, <2>5
    <3> QED
      BY <2>1, <2>4, <3>1, <3>2
  <2>6. CASE \A j \in 1..k : s[j].torrent # t
    <3>1. KeepsNone(t, old)
      BY <1>15, <2>6
    <3>2. CASE x.torrent = t
      <4>1. x.service = FirstWithIt(r, t)
        BY <1>2, <2>1, <2>6, <3>2
      <4>2. KeepsOne(r, t, new) /\ k + 1 \in 1..k + 1
        BY <2>1, <2>4, <3>1, <3>2, <4>1
      <4> QED
        BY <2>1, <2>4, <3>2, <4>2
    <3>3. CASE x.torrent # t
      <4>1. KeepsNone(t, new) /\ \A j \in 1..k + 1 : s[j].torrent # t
        BY <2>1, <2>4, <2>6, <3>1, <3>3
      <4> QED
        BY <2>1, <2>4, <4>1
    <3> QED
      BY <3>2, <3>3
  <2> QED
    BY <2>5, <2>6
<1>16. n \in Good
  <2> HIDE DEF Good
  <2>1. \A k \in 0..n : k \in Good
    BY <1>5, <1>14, <1>15, ReachesEnd
  <2> QED
    BY <1>5, <2>1
<1> QED
  BY <1>2, <1>12, <1>16 DEF Q

\* What is replied.
Reply(r) == IF r.deduplicate THEN Deduplicated(r) ELSE FinalStreams(r)

AnswerIndInv == request \in Requests /\ (replied => streams = Reply(request))

LEMMA ReplyShows == AnswerIndInv => CachedIsShown
<1> SUFFICES ASSUME AnswerIndInv, replied, NEW t \in Wanted(request)
             PROVE  IF ~request.deduplicate
                    THEN \A i \in HasIt(request, t) :
                             \E k \in ShownOf(t) : streams[k] = DebridStream(request, t, i)
                    ELSE \/ OneResult(t)
                         \/ SortMixed(request) \/ request.torrents[t].file = ""
                         \/ \E u \in DOMAIN request.torrents \ {t} :
                                request.torrents[u].file = request.torrents[t].file
  BY DEF CachedIsShown
<1> DEFINE r == request
<1>1. r \in Requests /\ streams = Reply(r)
  BY DEF AnswerIndInv
<1>2. t \in Chosen(r) /\ t \in DOMAIN r.torrents /\ r.torrents[t].fits
  BY <1>1, ChosenAre DEF Wanted
<1>3. t \in Wanted(r)
  OBVIOUS
<1> HIDE DEF r
<1>4. ASSUME ~r.deduplicate, NEW i \in HasIt(r, t)
      PROVE  \E k \in ShownOf(t) : streams[k] = DebridStream(r, t, i)
  <2> DEFINE x == DebridStream(r, t, i)
  <2>1. i \in DOMAIN r.entries /\ HasStream(r, t, i)
    BY <1>4 DEF HasIt, HasStream, Offered
  <2>2. x \in Members(StreamsOf(r, t))
    BY <1>1, <1>2, <2>1, StreamsOfAre
  <2>3. x \in Members(AllStreams(r))
    BY <1>1, <1>2, <2>2, AllStreamsAre
  <2>4. streams = FinalStreams(r)
    BY <1>1, <1>4 DEF Reply
  <2>5. x \in Members(streams)
    BY <1>1, <2>3, <2>4, FinalStreamsAre
  <2>6. x.torrent = t
    BY DEF DebridStream
  <2> HIDE DEF x
  <2> QED
    BY <2>5, <2>6 DEF Members, ShownOf, x
<1>5. ASSUME r.deduplicate, ~SortMixed(r), OwnFile(r, t) PROVE OneResult(t)
  <2>1. streams = Deduplicated(r)
    BY <1>1, <1>5 DEF Reply
  <2>2. streams \in Seq(StreamSet(r)) /\ KeepsOne(r, t, streams)
    BY <1>1, <1>3, <1>5, <2>1, DeduplicatedIs
  <2>3. DOMAIN streams = 1..Len(streams)
    BY <2>2
  <2>4. PICK i \in 1..Len(streams) :
           /\ streams[i].torrent = t /\ streams[i].service = FirstWithIt(r, t)
           /\ \A j \in 1..Len(streams) : streams[j].torrent = t => j = i
    BY <2>2 DEF KeepsOne
  <2>5. ShownOf(t) = {i}
    BY <2>3, <2>4 DEF ShownOf
  <2>6. Cardinality({i}) = 1
    BY FS_Singleton
  <2>7. \A k \in ShownOf(t) : streams[k].service = FirstWithIt(request, t)
    BY <2>4, <2>5 DEF r
  <2> QED
    BY <2>5, <2>6, <2>7 DEF OneResult
<1> QED
  BY <1>4, <1>5 DEF OwnFile, r

\* A limit of results leaves out only torrents that so many better ones of their
\* resolution precede, and each cached torrent that is selected is shown, of the
\* first service that has it when duplicates are removed: for any torrents,
\* services and settings.
THEOREM AnswersAreFair == AnswerSpec => []AnswerInv
<1>1. AnswerInit => AnswerIndInv
  BY DEF AnswerInit, AnswerIndInv
<1>2. ASSUME AnswerIndInv, [AnswerNext]_answerVars PROVE AnswerIndInv'
  <2>1. CASE UNCHANGED answerVars
    BY <1>2, <2>1 DEF AnswerIndInv, answerVars
  <2>2. CASE Respond
    BY <1>2, <2>2 DEF AnswerIndInv, Respond, Reply
  <2> QED
    BY <1>2, <2>1, <2>2 DEF AnswerNext
<1>3. AnswerIndInv => LimitIsFair
  <2> SUFFICES ASSUME AnswerIndInv, request.maxResults > 0,
                      NEW t \in DOMAIN request.torrents \ Chosen(request)
               PROVE  \/ SelectCachedOnly(request) /\ ~IsCached(request, t)
                      \/ Cardinality({u \in Chosen(request) :
                                        SameLimit(request, t, u) /\ Better(request, u, t)})
                            = request.maxResults
    BY DEF LimitIsFair
  <2>1. request \in Requests
    BY DEF AnswerIndInv
  <2> QED
    BY <2>1, LimitsAreFair
<1>4. AnswerIndInv => AnswerInv
  BY <1>3, ReplyShows DEF AnswerInv
<1> QED
  BY <1>1, <1>2, <1>4, PTL DEF AnswerSpec
=============================================================================
