---------------------------- MODULE QueuesProofs ----------------------------
(***************************************************************************)
(* Proofs about the queues between a found torrent and the database: the   *)
(* relay's batch, which several flushers take and put back; the DMM        *)
(* ingester, whose cycle must see its files whole; and the magnet queue,   *)
(* where an entry must have one job, and never none.                       *)
(***************************************************************************)
EXTENDS MagnetQueue, RelayBatch, DmmIngest, FiniteSetTheorems, TLAPS

----------------------------------------------------------------------------
(* The batch of the relay. *)

\* Only a flusher that is sending has a batch, taken from what was posted; the
\* loop and stop() are idle when they take one, and nothing is collected any
\* more once stop() has begun.
FlushersKept ==
    /\ \A f \in Flusher : flush[f] # "sending" => sending[f] = {}
    /\ InFlight \subseteq posted
    /\ life = "running" => flush[Stopper] = "none"
    /\ life # "running" => relayBatch = {}

RelayIndInv == RelayInv /\ FlushersKept

\* Sets of torrents are finite, and disjoint ones add up.
LEMMA TorrentSets ==
    ASSUME NEW S \in SUBSET Torrent
    PROVE  IsFiniteSet(S) /\ Cardinality(S) \in Nat
  BY RelayAssumption, FS_Subset, FS_CardinalityType

LEMMA DisjointAddUp ==
    ASSUME NEW S \in SUBSET Torrent, NEW T \in SUBSET Torrent, S \cap T = {}
    PROVE  Cardinality(S \cup T) = Cardinality(S) + Cardinality(T)
<1>1. Cardinality(S \cap T) = 0
  BY FS_EmptySet
<1> QED
  BY <1>1, TorrentSets, FS_Union

LEMMA RelayInitInv == RelayInit => RelayIndInv
<1> SUFFICES ASSUME RelayInit PROVE RelayIndInv
  OBVIOUS
<1>1. InFlight = {} /\ Cardinality({}) = 0
  BY FS_EmptySet DEF RelayInit, InFlight
<1>2. RelayTypeOK /\ EachInOnePlace
  BY <1>1 DEF RelayInit, RelayTypeOK, EachInOnePlace
<1>3. FullBatchIsDue /\ FlushersKept
  BY <1>1, RelayAssumption DEF RelayInit, FullBatchIsDue, FlushersKept, Flusher
<1> QED
  BY <1>2, <1>3 DEF RelayIndInv, RelayInv

\* A batch taken by an idle flusher: it moves from the batch to its request.
LEMMA TakeKeeps ==
    ASSUME RelayIndInv, NEW f \in Flusher, sending[f] = {}, TakeBatch(f),
           life = "running" \/ UNCHANGED life,
           life' \in {"running", "flushing", "cancelling", "stopped"},
           life' # life => f = Stopper /\ life' = "flushing",
           life' = "running" => f # Stopper,
           UNCHANGED <<relayed, failed, queued>>
    PROVE  RelayIndInv'
<1> USE RelayAssumption DEF RelayIndInv, RelayInv, RelayTypeOK
<1>1. RelayTypeOK'
  BY DEF TakeBatch
<1>2. InFlight' = InFlight \cup relayBatch
  BY DEF TakeBatch, InFlight
<1>3. InFlight \subseteq Torrent /\ InFlight \cap relayBatch = {}
  BY DEF InFlight, FlushersKept, EachInOnePlace
<1>4. /\ Cardinality(InFlight') = Cardinality(InFlight) + Cardinality(relayBatch)
      /\ Cardinality(posted') = Cardinality(posted) + Cardinality(relayBatch)
  BY <1>2, <1>3, DisjointAddUp DEF TakeBatch, EachInOnePlace
<1>5. EachInOnePlace'
  <2>1. \A g, h \in Flusher : g # h => sending'[g] \cap sending'[h] = {}
    BY <1>3 DEF TakeBatch, EachInOnePlace, InFlight
  <2>2. relayBatch' \cap posted' = {} /\ relayBatch' \cup posted' = queued'
    BY DEF TakeBatch, EachInOnePlace
  <2>3. life' \in {"running", "flushing"} => life \in {"running", "flushing"}
    OBVIOUS
  <2> QED
    BY <1>3, <1>4, <2>1, <2>2, <2>3, TorrentSets DEF EachInOnePlace
<1>6. FullBatchIsDue'
  BY FS_EmptySet DEF TakeBatch, FullBatchIsDue
<1>7. FlushersKept'
  BY <1>2 DEF TakeBatch, FlushersKept, Flusher
<1> QED
  BY <1>1, <1>5, <1>6, <1>7

\* A request that ends leaves its torrents to the counters, all of them.
LEMMA ReturnKeeps ==
    ASSUME RelayIndInv, NEW f \in Flusher, flush[f] = "sending", Return(f),
           UNCHANGED life, relayed' \in Nat, failed' \in Nat,
           relayed' + failed' = relayed + failed + Cardinality(sending[f])
    PROVE  RelayIndInv'
<1> USE RelayAssumption DEF RelayIndInv, RelayInv, RelayTypeOK
<1>1. RelayTypeOK'
  BY DEF Return
<1>2. InFlight = InFlight' \cup sending[f] /\ InFlight' \cap sending[f] = {}
  BY DEF Return, InFlight, EachInOnePlace
<1>3. InFlight' \subseteq Torrent /\ sending[f] \subseteq Torrent
  BY <1>2 DEF InFlight
<1>4. Cardinality(InFlight) = Cardinality(InFlight') + Cardinality(sending[f])
  BY <1>2, <1>3, DisjointAddUp
<1>5. EachInOnePlace'
  BY <1>3, <1>4, TorrentSets DEF Return, EachInOnePlace
<1>6. FullBatchIsDue'
  BY DEF Return, FullBatchIsDue
<1>7. FlushersKept'
  BY <1>2 DEF Return, FlushersKept, Flusher
<1> QED
  BY <1>1, <1>5, <1>6, <1>7

LEMMA RelayNextInv == RelayIndInv /\ [RelayNext]_relayVars => RelayIndInv'
<1> SUFFICES ASSUME RelayIndInv, [RelayNext]_relayVars PROVE RelayIndInv'
  OBVIOUS
<1> USE RelayAssumption DEF RelayIndInv, RelayInv, RelayTypeOK
<1>1. ASSUME NEW ts \in SUBSET Torrent, Queue(ts) PROVE RelayIndInv'
  <2>1. RelayTypeOK'
    BY <1>1 DEF Queue
  <2>2. InFlight' = InFlight /\ FlushersKept'
    BY <1>1 DEF Queue, InFlight, FlushersKept, Flusher
  <2>3. EachInOnePlace'
    BY <1>1, <2>2 DEF Queue, EachInOnePlace
  <2>4. FullBatchIsDue'
    BY <1>1 DEF Queue, FullBatchIsDue, Flusher
  <2> QED
    BY <2>1, <2>2, <2>3, <2>4
<1>2. ASSUME NEW f \in Flusher, TaskFlushes(f) PROVE RelayIndInv'
  <2>1. sending[f] = {} /\ f # Stopper
    BY <1>2 DEF TaskFlushes, FlushersKept
  <2> QED
    BY <1>2, <2>1, TakeKeeps DEF TaskFlushes
<1>3. CASE LoopFlushes
  <2>1. Loop \in Flusher /\ Loop # Stopper /\ sending[Loop] = {}
    BY <1>3 DEF LoopFlushes, FlushersKept, Flusher, Loop, Stopper
  <2> QED
    BY <1>3, <2>1, TakeKeeps DEF LoopFlushes
<1>4. CASE BeginRelayStop
  <2>1. Stopper \in Flusher /\ sending[Stopper] = {}
    BY <1>4 DEF BeginRelayStop, FlushersKept, Flusher
  <2> QED
    BY <1>4, <2>1, TakeKeeps DEF BeginRelayStop
<1>5. ASSUME NEW f \in Flusher, RelaySendFails(f) PROVE RelayIndInv'
  <2>1. Cardinality(sending[f]) \in Nat
    BY TorrentSets
  <2>2. flush[f] = "sending" /\ Return(f) /\ UNCHANGED life
    BY <1>5 DEF RelaySendFails, Return
  <2>3. /\ relayed' \in Nat /\ failed' \in Nat
        /\ relayed' + failed' = relayed + failed + Cardinality(sending[f])
    BY <1>5, <2>1 DEF RelaySendFails
  <2> QED
    BY <2>2, <2>3, ReturnKeeps
<1>6. ASSUME NEW f \in Flusher, NEW n \in 0..Cardinality(sending[f]), Answered(f, n)
      PROVE  RelayIndInv'
  <2>1. Cardinality(sending[f]) \in Nat
    BY TorrentSets
  <2>2. flush[f] = "sending" /\ Return(f) /\ UNCHANGED life
    BY <1>6 DEF Answered, Return
  <2>3. /\ relayed' \in Nat /\ failed' \in Nat
        /\ relayed' + failed' = relayed + failed + Cardinality(sending[f])
    BY <1>6, <2>1 DEF Answered
  <2> QED
    BY <2>2, <2>3, ReturnKeeps
<1>7. CASE CancelLoop \/ CancelTasks
  <2>1. RelayTypeOK' /\ life' \in {"cancelling", "stopped"} /\ relayBatch = {}
    BY <1>7 DEF CancelLoop, CancelTasks, FlushersKept
  <2>2. \A f \in Flusher : sending'[f] \subseteq sending[f]
    BY <1>7 DEF CancelLoop, CancelTasks
  <2>3. InFlight' \subseteq InFlight
    BY <2>2 DEF InFlight
  <2>4. UNCHANGED <<relayBatch, posted, queued>>
    BY <1>7 DEF CancelLoop, CancelTasks
  <2>5. EachInOnePlace'
    BY <2>1, <2>2, <2>4 DEF EachInOnePlace
  <2>6. FullBatchIsDue'
    BY <2>1, <2>4, FS_EmptySet DEF FullBatchIsDue
  <2>7. \A f \in Flusher : flush'[f] # "sending" => sending'[f] = {}
    BY <1>7 DEF CancelLoop, CancelTasks, FlushersKept
  <2> QED
    BY <2>1, <2>3, <2>4, <2>5, <2>6, <2>7 DEF FlushersKept
<1>8. CASE UNCHANGED relayVars
  <2>1. InFlight' = InFlight
    BY <1>8 DEF relayVars, InFlight
  <2> QED
    BY <1>8, <2>1 DEF relayVars, EachInOnePlace, FullBatchIsDue, FlushersKept
<1> QED
  BY <1>1, <1>2, <1>3, <1>4, <1>5, <1>6, <1>7, <1>8 DEF RelayNext, Flushing

\* For any torrents, sizes of batches and flush tasks: what was accepted is in
\* the batch, in one request or in the counters, and a full batch is due.
THEOREM RelayKeepsAll == RelaySpec => []RelayInv
<1>1. RelayIndInv => RelayInv
  BY DEF RelayIndInv
<1> QED
  BY RelayInitInv, RelayNextInv, <1>1, PTL DEF RelaySpec

----------------------------------------------------------------------------
(* The DMM ingesters. *)

Place == {"sleep", "down", "ask", "load", "loaded", "unzip", "filter", "batch",
          "read", "insert", "mark", "clean", "release"}

\* Truth values, as a set that the provers need not look into.
Truth == BOOLEAN

LEMMA TruthHas == TRUE \in Truth /\ FALSE \in Truth
  BY DEF Truth

IngesterShape == ingester \in [Ingester -> [at : Place, batch : SUBSET HashList,
                                           ends : Truth]]

\* The types, with the places and the files in full.
IngestTypes ==
    /\ IngesterShape
    /\ zip \in [by : Ingester \cup {Free}, whole : Truth]
    /\ disk \in [HashList -> {"none", "part", "whole"}]
    /\ unzip \in [Ingester -> [left : SUBSET HashList, now : SUBSET HashList]]
    /\ todo \in [Ingester -> SUBSET HashList]
    /\ toRead \in [Ingester -> SUBSET HashList]
    /\ entries \in [Ingester -> SUBSET HashList]

\* An extraction belongs to the cycle that waits for it, and what is half
\* written is being written by one.
UnzipIsAwaited ==
    /\ \A i \in Ingester : Unzipping(i) => At(i, "unzip")
    /\ \A f \in HashList : disk[f] = "part" => \E i \in Ingester : f \in unzip[i].now

\* The files a worker has still to read are whole; those of its batch that it has
\* read have given their entries, which are inserted before they are marked, or
\* have raised.
WholeOf(i) ==
    /\ ingester[i].at \in {"filter", "batch", "read", "insert", "mark"} =>
          \A f \in todo[i] : disk[f] = "whole"
    /\ At(i, "read") => /\ \A f \in toRead[i] : disk[f] = "whole"
                        /\ ingester[i].batch \subseteq toRead[i] \cup entries[i] \cup unread
    /\ At(i, "insert") => ingester[i].batch \subseteq inserted \cup entries[i] \cup unread
    /\ At(i, "mark") => ingester[i].batch \subseteq inserted \cup unread

BatchIsWhole == \A i \in Ingester : WholeOf(i)

DmmIndInv ==
    /\ DmmInv /\ IngestTypes
    /\ spoiled \/ (UnzipIsAwaited /\ BatchIsWhole)

LEMMA DmmInitInv == DmmInit => DmmIndInv
<1> SUFFICES ASSUME DmmInit PROVE DmmIndInv
  OBVIOUS
<1>1. PICK place \in {"sleep", "down"} :
        ingester = [i \in Ingester |-> [at |-> place, batch |-> {}, ends |-> FALSE]]
  BY DEF DmmInit
<1>2. IngesterShape /\ \A i \in Ingester : ingester[i].at = place
  BY <1>1, TruthHas DEF IngesterShape, Place
<1>3. zip \in [by : Ingester \cup {Free}, whole : Truth] /\ zip.by = Free
  BY TruthHas DEF DmmInit, NoZip
<1>4. IngestTypes
  BY <1>2, <1>3 DEF DmmInit, IngestTypes, NotUnzipping, Nowhere
<1>5. DmmTypeOK
  <2>1. \A i \in Ingester : ingester[i].batch = {} /\ toRead[i] = {} /\ entries[i] = {}
    BY <1>1 DEF DmmInit
  <2> QED
    <3>1. dmmLease \in Ingester \cup {Free, Dead} /\ mishaps \in 0..MaxMishaps
      BY DmmAssumption DEF DmmInit
    <3>3. spoiled = FALSE
      BY DEF DmmInit
    <3>2. zip.by = Free /\ \A f \in HashList : disk[f] = "none"
      BY <1>3 DEF DmmInit, Nowhere
    <3> QED
      BY <2>1, <3>1, <3>2, <3>3 DEF DmmInit, DmmTypeOK
<1>6. OneIngester /\ MarkedIsIngested
  BY <1>2 DEF DmmInit, OneIngester, MarkedIsIngested, Cycling
<1>7. UnzipIsAwaited /\ BatchIsWhole
  BY <1>2 DEF DmmInit, UnzipIsAwaited, BatchIsWhole, WholeOf, Unzipping, At, Nowhere
<1> QED
  BY <1>4, <1>5, <1>6, <1>7 DEF DmmIndInv, DmmInv

\* What is assigned to one worker leaves the others alone.
LEMMA OneGoes ==
    ASSUME IngesterShape, NEW i \in Ingester, NEW place \in Place, Goes(i, place)
    PROVE  /\ IngesterShape'
           /\ ingester'[i].at = place /\ ingester'[i].batch = ingester[i].batch
           /\ \A j \in Ingester \ {i} : ingester'[j] = ingester[j]
<1> USE DEF IngesterShape, Goes
<1>1. IngesterShape'
  OBVIOUS
<1>2. ingester'[i].at = place /\ ingester'[i].batch = ingester[i].batch
  OBVIOUS
<1>3. \A j \in Ingester \ {i} : ingester'[j] = ingester[j]
  OBVIOUS
<1> QED
  BY <1>1, <1>2, <1>3

LEMMA OneSet ==
    ASSUME NEW F, NEW f \in [Ingester -> SUBSET F], NEW i \in Ingester,
           NEW S \in SUBSET F
    PROVE  [f EXCEPT ![i] = S] \in [Ingester -> SUBSET F]
  OBVIOUS

\* Every step writes records of that shape.
LEMMA ShapeNext == IngestTypes /\ [DmmNext]_dmmVars => IngesterShape'
<1> SUFFICES ASSUME IngestTypes, [DmmNext]_dmmVars PROVE IngesterShape'
  OBVIOUS
<1>1. IngesterShape
  BY DEF IngestTypes
<1>2. ASSUME NEW i \in Ingester, NEW place \in Place, Goes(i, place)
      PROVE  IngesterShape'
  BY <1>1, <1>2, OneGoes
<1>3. ASSUME UNCHANGED ingester PROVE IngesterShape'
  BY <1>1, <1>3 DEF IngesterShape
<1>4. ASSUME NEW i \in Ingester,
             \/ Acquire(i) \/ OpenZip(i) \/ LoadEnds(i) \/ BeginUnzip(i)
             \/ EndUnzip(i) \/ Filter(i) \/ Insert(i) \/ InsertFails(i)
             \/ Mark(i) \/ MarkFails(i) \/ CycleFails(i)
      PROVE  \E place \in Place : Goes(i, place)
  BY <1>4 DEF Place, Acquire, OpenZip, LoadEnds, BeginUnzip, EndUnzip, Filter,
              Insert, InsertFails, Mark, MarkFails, CycleFails, AfterError
<1>5. ASSUME NEW i \in Ingester, Release(i) PROVE \E place \in Place : Goes(i, place)
  <2>1. (IF ingester[i].ends THEN "down" ELSE "sleep") \in Place
    BY DEF Place
  <2> QED
    BY <1>5, <2>1 DEF Release
<1>6. ASSUME NEW i \in Ingester, Batch(i) PROVE IngesterShape'
  <2>1. CASE NoMore(i)
    <3>1. Goes(i, "clean") /\ "clean" \in Place
      BY <1>6, <2>1 DEF Batch, Place
    <3> QED
      BY <3>1, <1>2
  <2>2. CASE ~NoMore(i)
    <3>1. PICK b \in SUBSET todo[i] :
            ingester' = [ingester EXCEPT ![i] = [@ EXCEPT !.at = "read", !.batch = b]]
      BY <1>6, <2>2 DEF Batch, kSubset
    <3>2. b \in SUBSET HashList /\ "read" \in Place
      BY DEF IngestTypes, Place
    <3> QED
      BY <1>1, <3>1, <3>2 DEF IngesterShape
  <2> QED
    BY <2>1, <2>2
<1>7. ASSUME NEW i \in Ingester, NEW f \in HashList, ReadFile(i, f)
      PROVE  IngesterShape'
  <2>1. "insert" \in Place
    BY DEF Place
  <2> QED
    BY <1>7, <2>1, <1>2, <1>3 DEF ReadFile
<1>8. ASSUME NEW i \in Ingester, Clean(i) PROVE IngesterShape'
  <2>1. "release" \in Place /\ {} \in SUBSET HashList
    BY DEF Place
  <2> QED
    BY <1>1, <1>8, <2>1 DEF Clean, IngesterShape
<1>9. ASSUME NEW i \in Ingester, Restart(i) PROVE IngesterShape'
  <2>1. [at |-> "sleep", batch |-> {}, ends |-> FALSE]
           \in [at : Place, batch : SUBSET HashList, ends : Truth]
    BY TruthHas DEF Place
  <2> QED
    BY <1>1, <1>9, <2>1 DEF Restart, IngesterShape
<1>10. ASSUME NEW i \in Ingester, Shutdown(i) PROVE IngesterShape'
  <2>1. PICK place \in Place :
          ingester' = [ingester EXCEPT ![i].at = place, ![i].ends = TRUE]
    BY <1>10 DEF Shutdown, Place
  <2> QED
    BY <1>1, <2>1, TruthHas DEF IngesterShape
<1>11. ASSUME NEW i \in Ingester, Crash(i) PROVE IngesterShape'
  <2>1. Goes(i, "down") /\ "down" \in Place
    BY <1>11 DEF Crash, Goes, Place
  <2> QED
    BY <2>1, <1>2
<1>12. ASSUME NEW i \in Ingester, NEW f \in HashList,
              UnzipOpens(i, f) \/ UnzipWrites(i, f)
       PROVE  UNCHANGED ingester
  BY <1>12 DEF UnzipOpens, UnzipWrites
<1>13. ASSUME NEW i \in Ingester, LoadChunk(i) PROVE UNCHANGED ingester
  BY <1>13 DEF LoadChunk
<1>14. CASE LapseDead \/ Lapse \/ UNCHANGED dmmVars
  BY <1>3, <1>14 DEF LapseDead, Lapse, dmmVars
<1> QED
  BY <1>2, <1>3, <1>4, <1>5, <1>6, <1>7, <1>8, <1>9, <1>10, <1>11, <1>12, <1>13,
     <1>14
     DEF DmmNext, Ingests

\* What most steps leave alone.
Elsewhere(i) ==
    \/ Acquire(i) \/ LoadChunk(i) \/ Insert(i) \/ InsertFails(i) \/ Mark(i)
    \/ MarkFails(i) \/ Release(i) \/ CycleFails(i) \/ Shutdown(i) \/ Crash(i)

LEMMA FilesKept ==
    ASSUME NEW i \in Ingester, Elsewhere(i)
    PROVE  UNCHANGED <<zip, disk, unzip, todo, toRead, entries>>
  BY DEF Elsewhere, Acquire, LoadChunk, Insert, InsertFails, Mark, MarkFails, Release,
         CycleFails, Shutdown, Crash, files, work

LEMMA IngestTypesNext == IngestTypes /\ [DmmNext]_dmmVars => IngestTypes'
<1> SUFFICES ASSUME IngestTypes, [DmmNext]_dmmVars PROVE IngestTypes'
  OBVIOUS
<1>1. IngesterShape'
  BY ShapeNext
<1> DEFINE Rest ==
        /\ zip' \in [by : Ingester \cup {Free}, whole : Truth]
        /\ disk' \in [HashList -> {"none", "part", "whole"}]
        /\ unzip' \in [Ingester -> [left : SUBSET HashList, now : SUBSET HashList]]
        /\ todo' \in [Ingester -> SUBSET HashList]
        /\ toRead' \in [Ingester -> SUBSET HashList]
        /\ entries' \in [Ingester -> SUBSET HashList]
<1>2. /\ zip \in [by : Ingester \cup {Free}, whole : Truth]
      /\ disk \in [HashList -> {"none", "part", "whole"}]
      /\ unzip \in [Ingester -> [left : SUBSET HashList, now : SUBSET HashList]]
      /\ todo \in [Ingester -> SUBSET HashList]
      /\ toRead \in [Ingester -> SUBSET HashList]
      /\ entries \in [Ingester -> SUBSET HashList]
  BY DEF IngestTypes
<1>17. NoZip \in [by : Ingester \cup {Free}, whole : Truth]
  BY TruthHas DEF NoZip
<1> USE <1>2, <1>17 DEF files, work, Nowhere
<1>3. ASSUME NEW i \in Ingester, Elsewhere(i) PROVE Rest
  BY <1>3, FilesKept
<1>4. ASSUME NEW i \in Ingester, OpenZip(i) PROVE Rest
  <2>1. \/ zip' = [by |-> i, whole |-> FALSE] \/ zip' = zip
    BY <1>4 DEF OpenZip
  <2>2. UNCHANGED <<disk, unzip, todo, toRead, entries>>
    BY <1>4 DEF OpenZip
  <2>3. [by |-> i, whole |-> FALSE] \in [by : Ingester \cup {Free}, whole : Truth]
    BY TruthHas
  <2> QED
    BY <2>1, <2>2, <2>3
<1>5. ASSUME NEW i \in Ingester, LoadEnds(i) PROVE Rest
  <2>1. zip' = [zip EXCEPT !.whole = TRUE] \/ zip' = zip
    BY <1>5 DEF LoadEnds
  <2>2. UNCHANGED <<disk, unzip, todo, toRead, entries>>
    BY <1>5 DEF LoadEnds
  <2>3. [zip EXCEPT !.whole = TRUE] \in [by : Ingester \cup {Free}, whole : Truth]
    BY TruthHas
  <2> QED
    BY <2>1, <2>2, <2>3
<1>6. ASSUME NEW i \in Ingester, BeginUnzip(i) PROVE Rest
  <2>1. unzip' = [unzip EXCEPT ![i].left = HashList] \/ unzip' = unzip
    BY <1>6 DEF BeginUnzip
  <2>2. disk' = Nowhere /\ UNCHANGED <<zip, todo, toRead, entries>>
    BY <1>6 DEF BeginUnzip
  <2> QED
    BY <2>1, <2>2
<1>7. ASSUME NEW i \in Ingester, NEW f \in HashList, UnzipOpens(i, f) PROVE Rest
  BY <1>7 DEF UnzipOpens
<1>8. ASSUME NEW i \in Ingester, NEW f \in HashList, UnzipWrites(i, f) PROVE Rest
  <2>1. unzip' = [unzip EXCEPT ![i].now = {}]
    BY <1>8 DEF UnzipWrites
  <2>2. disk' = [disk EXCEPT ![f] = IF @ = "part" THEN "whole" ELSE @]
    BY <1>8 DEF UnzipWrites
  <2>3. UNCHANGED <<zip, todo, toRead, entries>>
    BY <1>8 DEF UnzipWrites
  <2> QED
    BY <2>1, <2>2, <2>3
<1>9. ASSUME NEW i \in Ingester, EndUnzip(i) PROVE Rest
  <2>1. /\ zip' = NoZip \/ zip' = zip
        /\ \/ todo' = [todo EXCEPT ![i] = {f \in HashList : disk[f] # "none"}]
           \/ todo' = todo
    BY <1>9 DEF EndUnzip
  <2>2. UNCHANGED <<disk, unzip, toRead, entries>>
    BY <1>9 DEF EndUnzip
  <2> QED
    BY <2>1, <2>2, OneSet
<1>10. ASSUME NEW i \in Ingester, Filter(i) PROVE Rest
  BY <1>10, OneSet DEF Filter
<1>11. ASSUME NEW i \in Ingester, Batch(i) PROVE Rest
  <2>1. CASE NoMore(i)
    BY <1>11, <2>1 DEF Batch
  <2>2. CASE ~NoMore(i)
    <3>1. PICK b \in SUBSET todo[i] :
            /\ toRead' = [toRead EXCEPT ![i] = b]
            /\ entries' = [entries EXCEPT ![i] = {}]
            /\ todo' = [todo EXCEPT ![i] = @ \ b]
      BY <1>11, <2>2 DEF Batch, kSubset
    <3> QED
      BY <1>11, <3>1, OneSet DEF Batch
  <2> QED
    BY <2>1, <2>2
<1>12. ASSUME NEW i \in Ingester, NEW f \in HashList, ReadFile(i, f) PROVE Rest
  <2>1. toRead' = [toRead EXCEPT ![i] = @ \ {f}] /\ UNCHANGED <<zip, disk, unzip, todo>>
    BY <1>12 DEF ReadFile
  <2>2. \/ entries' = [entries EXCEPT ![i] = IF disk[f] = "whole" THEN @ \cup {f} ELSE @]
        \/ entries' = entries
    BY <1>12 DEF ReadFile
  <2> DEFINE S == IF disk[f] = "whole" THEN entries[i] \cup {f} ELSE entries[i]
  <2>3. S \in SUBSET HashList /\ toRead[i] \ {f} \in SUBSET HashList
    OBVIOUS
  <2>4. toRead' = [toRead EXCEPT ![i] = toRead[i] \ {f}]
    BY <2>1
  <2>5. entries' = [entries EXCEPT ![i] = S] \/ entries' = entries
    BY <2>2
  <2> HIDE DEF S
  <2>6. [entries EXCEPT ![i] = S] \in [Ingester -> SUBSET HashList]
    BY <2>3, OneSet
  <2>7. [toRead EXCEPT ![i] = toRead[i] \ {f}] \in [Ingester -> SUBSET HashList]
    BY <2>3, OneSet
  <2> QED
    BY <2>1, <2>4, <2>5, <2>6, <2>7
<1>13. ASSUME NEW i \in Ingester, Clean(i) PROVE Rest
  <2>1. /\ todo' = [todo EXCEPT ![i] = {}] /\ toRead' = [toRead EXCEPT ![i] = {}]
        /\ entries' = [entries EXCEPT ![i] = {}]
        /\ zip' = NoZip /\ disk' = Nowhere /\ UNCHANGED unzip
    BY <1>13 DEF Clean
  <2> QED
    BY <2>1, OneSet
<1>14. ASSUME NEW i \in Ingester, Restart(i) PROVE Rest
  <2>1. /\ todo' = [todo EXCEPT ![i] = {}] /\ toRead' = [toRead EXCEPT ![i] = {}]
        /\ entries' = [entries EXCEPT ![i] = {}]
        /\ UNCHANGED <<zip, disk, unzip>>
    BY <1>14 DEF Restart
  <2> QED
    BY <2>1, OneSet
<1>15. ASSUME LapseDead \/ Lapse \/ UNCHANGED dmmVars PROVE Rest
  BY <1>15 DEF LapseDead, Lapse, dmmVars
<1> HIDE DEF Rest
<1>16. Rest
  BY <1>3, <1>4, <1>5, <1>6, <1>7, <1>8, <1>9, <1>10, <1>11, <1>12, <1>13, <1>14,
     <1>15
     DEF DmmNext, Ingests, Elsewhere
<1> QED
  BY <1>1, <1>16 DEF IngestTypes, Rest

\* The steps of a worker.
InsideCycle(i) ==
    \/ OpenZip(i) \/ LoadChunk(i) \/ LoadEnds(i) \/ BeginUnzip(i) \/ EndUnzip(i)
    \/ Filter(i) \/ Batch(i) \/ Insert(i) \/ InsertFails(i) \/ Mark(i) \/ MarkFails(i)
    \/ Clean(i) \/ CycleFails(i) \/ \E f \in HashList : ReadFile(i, f)

Writes(i) == \E f \in HashList : UnzipOpens(i, f) \/ UnzipWrites(i, f)

Outside(i) == Acquire(i) \/ Release(i) \/ Shutdown(i) \/ Crash(i) \/ Restart(i)

LEMMA DmmCases ==
    [DmmNext]_dmmVars <=> \/ \E i \in Ingester : InsideCycle(i) \/ Writes(i) \/ Outside(i)
                          \/ LapseDead \/ Lapse \/ UNCHANGED dmmVars
  BY DEF DmmNext, Ingests, InsideCycle, Writes, Outside

\* They are about that worker.
LEMMA OthersStay ==
    ASSUME IngestTypes, NEW i \in Ingester, InsideCycle(i) \/ Writes(i) \/ Outside(i),
           NEW j \in Ingester, j # i
    PROVE  /\ ingester'[j] = ingester[j] /\ unzip'[j] = unzip[j]
           /\ todo'[j] = todo[j] /\ toRead'[j] = toRead[j] /\ entries'[j] = entries[j]
<1> USE DEF IngestTypes, IngesterShape, Goes, files, work, NoMore
<1>1. CASE Writes(i)
  BY <1>1 DEF Writes, UnzipOpens, UnzipWrites
<1>2. CASE Outside(i)
  BY <1>2 DEF Outside, Acquire, Release, Shutdown, Crash, Restart
<1>3. CASE /\ InsideCycle(i) /\ ~Batch(i) /\ ~Clean(i)
           /\ ~\E f \in HashList : ReadFile(i, f)
  <2>1. /\ unzip'[j] = unzip[j] /\ todo'[j] = todo[j]
        /\ toRead'[j] = toRead[j] /\ entries'[j] = entries[j]
    BY <1>3 DEF InsideCycle, OpenZip, LoadChunk, LoadEnds, BeginUnzip, EndUnzip, Filter,
                Insert, InsertFails, Mark, MarkFails, CycleFails
  <2>2. UNCHANGED ingester \/ \E place : Goes(i, place)
    BY <1>3 DEF InsideCycle, OpenZip, LoadChunk, LoadEnds, BeginUnzip, EndUnzip, Filter,
                Insert, InsertFails, Mark, MarkFails, CycleFails
  <2> QED
    BY <2>1, <2>2
<1>4. CASE Batch(i)
  <2>1. UNCHANGED unzip
    BY <1>4 DEF Batch
  <2>2. CASE NoMore(i)
    BY <1>4, <2>1, <2>2 DEF Batch
  <2>3. CASE ~NoMore(i)
    <3>1. PICK b :
            /\ ingester' = [ingester EXCEPT ![i] = [@ EXCEPT !.at = "read", !.batch = b]]
            /\ toRead' = [toRead EXCEPT ![i] = b]
            /\ entries' = [entries EXCEPT ![i] = {}]
            /\ todo' = [todo EXCEPT ![i] = @ \ b]
      BY <1>4, <2>3 DEF Batch
    <3> QED
      BY <2>1, <3>1
  <2> QED
    BY <2>2, <2>3
<1>5. CASE Clean(i)
  BY <1>5 DEF Clean
<1>6. CASE \E f \in HashList : ReadFile(i, f)
  BY <1>6 DEF ReadFile
<1> QED
  BY <1>1, <1>2, <1>3, <1>4, <1>5, <1>6

\* What a step in a cycle needs and may do to the lease.
LEMMA CycleSteps ==
    ASSUME NEW i \in Ingester, InsideCycle(i)
    PROVE  /\ Cycling(i) /\ spoiled' = spoiled
           /\ dmmLease' = dmmLease \/ Renewed(i)
<1> USE DEF Cycling, At
<1>1. Cycling(i)
  BY DEF InsideCycle, OpenZip, LoadChunk, LoadEnds, BeginUnzip, EndUnzip, Filter, Batch,
         Insert, InsertFails, Mark, MarkFails, Clean, CycleFails, ReadFile
<1>2. spoiled' = spoiled
  BY DEF InsideCycle, OpenZip, LoadChunk, LoadEnds, BeginUnzip, EndUnzip, Filter, Batch,
         Insert, InsertFails, Mark, MarkFails, Clean, CycleFails, ReadFile
<1>3. dmmLease' = dmmLease \/ Renewed(i)
  BY DEF InsideCycle, OpenZip, LoadChunk, LoadEnds, BeginUnzip, EndUnzip, Filter, Batch,
         Insert, InsertFails, Mark, MarkFails, Clean, CycleFails, ReadFile
<1> QED
  BY <1>1, <1>2, <1>3

LEMMA OneIngesterNext ==
    IngestTypes /\ IngestTypes' /\ OneIngester /\ [DmmNext]_dmmVars => OneIngester'
<1> SUFFICES ASSUME IngestTypes, IngestTypes', OneIngester, [DmmNext]_dmmVars, ~spoiled'
             PROVE  \A k \in Ingester : Cycling(k)' => dmmLease' = k
  BY DEF OneIngester
<1>1. ~spoiled => \A k \in Ingester : Cycling(k) => dmmLease = k
  BY DEF OneIngester
<1>2. Ingester \cap {Free, Dead} = {} /\ Free # Dead
  BY DmmAssumption DEF Free, Dead
<1>3. ASSUME NEW i \in Ingester, InsideCycle(i), NEW k \in Ingester, Cycling(k)'
      PROVE  dmmLease' = k
  <2>1. ~spoiled /\ dmmLease = i
    BY <1>1, <1>3, CycleSteps
  <2>2. dmmLease' = i
    BY <1>2, <1>3, <2>1, CycleSteps DEF Renewed
  <2>3. k # i => Cycling(k)
    BY <1>3, OthersStay DEF Cycling
  <2> QED
    BY <1>1, <2>1, <2>2, <2>3
<1>4. ASSUME NEW i \in Ingester, Writes(i) PROVE UNCHANGED <<ingester, dmmLease, spoiled>>
  BY <1>4 DEF Writes, UnzipOpens, UnzipWrites
<1>5. ASSUME NEW i \in Ingester, Outside(i), NEW k \in Ingester, Cycling(k)'
      PROVE  dmmLease' = k
  <2>1. k # i => Cycling(k)
    BY <1>5, OthersStay DEF Cycling
  <2> USE DEF IngestTypes, IngesterShape, At, Goes, Cycling, Place
  <2>2. CASE Acquire(i)
    BY <1>1, <1>2, <1>5, <2>1, <2>2 DEF Acquire, MayIngest, Renewed
  <2>3. CASE Release(i)
    <3>1. ingester'[i].at \in {"down", "sleep"}
      BY <2>3 DEF Release
    <3>2. k # i /\ spoiled' = spoiled
      BY <1>5, <2>3, <3>1 DEF Release
    <3> QED
      BY <1>1, <2>1, <2>3, <3>2 DEF Release
  <2>4. CASE Shutdown(i)
    <3>1. dmmLease' = dmmLease /\ ~spoiled
      BY <2>4 DEF Shutdown
    <3>2. CASE k # i
      BY <1>1, <2>1, <3>1, <3>2
    <3>3. CASE k = i
      <4>1. At(i, "sleep") => ingester'[i].at = "down"
        BY <2>4 DEF Shutdown
      <4>2. Cycling(i)
        BY <1>5, <2>4, <3>3, <4>1 DEF Shutdown
      <4> QED
        BY <1>1, <3>1, <3>3, <4>2
    <3> QED
      BY <3>2, <3>3
  <2>5. CASE Crash(i)
    <3>1. ingester'[i].at = "down"
      BY <2>5 DEF Crash
    <3>2. ~spoiled
      BY <2>5 DEF Crash
    <3> QED
      BY <1>1, <1>2, <1>5, <2>1, <2>5, <3>1, <3>2 DEF Crash
  <2>6. CASE Restart(i)
    <3>1. ingester'[i].at = "sleep"
      BY <2>6 DEF Restart
    <3> QED
      BY <1>1, <1>5, <2>1, <2>6, <3>1 DEF Restart
  <2> QED
    BY <1>5, <2>2, <2>3, <2>4, <2>5, <2>6 DEF Outside
<1>6. CASE Lapse
  BY <1>6 DEF Lapse
<1>7. CASE LapseDead
  BY <1>1, <1>2, <1>7 DEF LapseDead, Cycling
<1>8. CASE UNCHANGED <<ingester, dmmLease, spoiled>>
  BY <1>1, <1>8 DEF Cycling
<1> QED
  BY <1>3, <1>4, <1>5, <1>6, <1>7, <1>8, DmmCases DEF dmmVars

\* While one is in its cycle, no other is.
LEMMA NobodyElse ==
    ASSUME OneIngester, ~spoiled, NEW i \in Ingester, Cycling(i),
           NEW j \in Ingester, j # i
    PROVE  ~Cycling(j)
  BY DEF OneIngester

LEMMA UnzipNext ==
    ASSUME IngestTypes, IngestTypes', OneIngester, UnzipIsAwaited, ~spoiled, ~spoiled',
           [DmmNext]_dmmVars
    PROVE  UnzipIsAwaited'
<1> USE DEF NotUnzipping
<1>1. ASSUME NEW i \in Ingester, InsideCycle(i) \/ Writes(i) \/ Outside(i),
             Unzipping(i)' => At(i, "unzip")',
             \A f \in HashList : disk'[f] = "part" =>
                 \/ f \in unzip'[i].now
                 \/ disk[f] = "part" /\ f \notin unzip[i].now
      PROVE  UnzipIsAwaited'
  <2>1. ASSUME NEW j \in Ingester, Unzipping(j)' PROVE At(j, "unzip")'
    BY <1>1, <2>1, OthersStay DEF UnzipIsAwaited, Unzipping, At
  <2>2. ASSUME NEW f \in HashList, disk'[f] = "part"
        PROVE  \E j \in Ingester : f \in unzip'[j].now
    <3>1. CASE f \in unzip'[i].now
      BY <3>1
    <3>2. CASE disk[f] = "part" /\ f \notin unzip[i].now
      <4>1. PICK j \in Ingester : f \in unzip[j].now
        BY <3>2 DEF UnzipIsAwaited
      <4> QED
        BY <1>1, <3>2, <4>1, OthersStay
    <3> QED
      BY <1>1, <2>2, <3>1, <3>2
  <2> QED
    BY <2>1, <2>2 DEF UnzipIsAwaited
<1>2. ASSUME NEW i \in Ingester, InsideCycle(i) \/ Writes(i) \/ Outside(i),
             ~Unzipping(i), UNCHANGED <<disk, unzip>>
      PROVE  UnzipIsAwaited'
  <2>1. unzip[i].now = {}
    BY <1>2 DEF Unzipping
  <2> QED
    BY <1>1, <1>2, <2>1 DEF Unzipping
<1> USE DEF At
<1>3. ASSUME NEW i \in Ingester, BeginUnzip(i) PROVE UnzipIsAwaited'
  <2>1. ~Unzipping(i) /\ InsideCycle(i)
    BY <1>3 DEF BeginUnzip, UnzipIsAwaited, InsideCycle
  <2>2. \A f \in HashList : disk'[f] = "none"
    BY <1>3 DEF BeginUnzip, Nowhere
  <2>3. Unzipping(i)' => At(i, "unzip")'
    BY <1>3, <2>1 DEF BeginUnzip, Unzipping, IngestTypes, IngesterShape, Goes
  <2> QED
    BY <1>1, <2>1, <2>2, <2>3
<1>4. ASSUME NEW i \in Ingester, NEW f \in HashList, UnzipOpens(i, f)
      PROVE  UnzipIsAwaited'
  <2>1. Writes(i) /\ unzip[i].now = {} /\ unzip[i].left # {} /\ UNCHANGED ingester
    BY <1>4 DEF UnzipOpens, Writes
  <2>2. At(i, "unzip")'
    BY <2>1 DEF UnzipIsAwaited, Unzipping
  <2>3. unzip'[i].now = {f} /\ disk' = [disk EXCEPT ![f] = "part"]
    BY <1>4 DEF UnzipOpens, IngestTypes
  <2>4. \A g \in HashList : disk'[g] = "part" => g = f \/ disk[g] = "part"
    BY <2>3 DEF IngestTypes
  <2> QED
    BY <1>1, <2>1, <2>2, <2>3, <2>4
<1>5. ASSUME NEW i \in Ingester, NEW f \in HashList, UnzipWrites(i, f)
      PROVE  UnzipIsAwaited'
  <2>1. Writes(i) /\ unzip[i].now = {f} /\ UNCHANGED ingester
    BY <1>5 DEF UnzipWrites, Writes
  <2>2. At(i, "unzip")'
    BY <2>1 DEF UnzipIsAwaited, Unzipping
  <2>3. disk' = [disk EXCEPT ![f] = IF @ = "part" THEN "whole" ELSE @]
    BY <1>5 DEF UnzipWrites
  <2>4. \A g \in HashList : disk'[g] = "part" => g # f /\ disk[g] = "part"
    BY <2>3 DEF IngestTypes
  <2> QED
    BY <1>1, <2>1, <2>2, <2>4
<1>6. ASSUME NEW i \in Ingester, EndUnzip(i) PROVE UnzipIsAwaited'
  BY <1>2, <1>6 DEF EndUnzip, InsideCycle, Unzipping
<1>7. ASSUME NEW i \in Ingester, Clean(i) PROVE UnzipIsAwaited'
  <2>1. ~Unzipping(i) /\ InsideCycle(i) /\ UNCHANGED unzip
    BY <1>7 DEF Clean, UnzipIsAwaited, InsideCycle
  <2>2. \A f \in HashList : disk'[f] = "none"
    BY <1>7 DEF Clean, Nowhere
  <2> QED
    BY <1>1, <2>1, <2>2 DEF Unzipping
<1>8. ASSUME NEW i \in Ingester, InsideCycle(i), ~BeginUnzip(i), ~EndUnzip(i), ~Clean(i)
      PROVE  UnzipIsAwaited'
  <2>1. ~At(i, "unzip")
    BY <1>8 DEF InsideCycle, OpenZip, LoadChunk, LoadEnds, Filter, Batch, Insert,
                InsertFails, Mark, MarkFails, CycleFails, ReadFile
  <2>2. UNCHANGED <<disk, unzip>>
    BY <1>8 DEF InsideCycle, OpenZip, LoadChunk, LoadEnds, Filter, Batch, Insert,
                InsertFails, Mark, MarkFails, CycleFails, ReadFile, files
  <2> QED
    BY <1>2, <1>8, <2>1, <2>2 DEF UnzipIsAwaited
<1>9. ASSUME NEW i \in Ingester, Outside(i) PROVE UnzipIsAwaited'
  <2>1. CASE Acquire(i) \/ Release(i) \/ Restart(i)
    <3>1. ~At(i, "unzip")
      BY <2>1 DEF Acquire, Release, Restart
    <3>2. UNCHANGED <<disk, unzip>>
      BY <2>1 DEF Acquire, Release, Restart, files
    <3> QED
      BY <1>2, <1>9, <3>1, <3>2 DEF UnzipIsAwaited
  <2>2. CASE Shutdown(i) \/ Crash(i)
    <3>1. ~Unzipping(i)
      BY <2>2 DEF Shutdown, Crash
    <3>2. UNCHANGED <<disk, unzip>>
      BY <2>2 DEF Shutdown, Crash, files
    <3> QED
      BY <1>2, <1>9, <3>1, <3>2
  <2> QED
    BY <1>9, <2>1, <2>2 DEF Outside
<1>10. CASE LapseDead \/ UNCHANGED dmmVars
  <2>1. UNCHANGED <<ingester, disk, unzip>>
    BY <1>10 DEF LapseDead, dmmVars, files
  <2> QED
    BY <2>1 DEF UnzipIsAwaited, Unzipping
<1>11. ~Lapse
  BY DEF Lapse
<1>12. ASSUME NEW i \in Ingester, Writes(i) PROVE UnzipIsAwaited'
  BY <1>4, <1>5, <1>12 DEF Writes
<1> QED
  BY <1>3, <1>6, <1>7, <1>8, <1>9, <1>10, <1>11, <1>12, DmmCases

\* Only a step in a cycle, or its extraction, changes the files.
LEMMA WhoChangesFiles ==
    ASSUME NEW i \in Ingester, InsideCycle(i) \/ Writes(i) \/ Outside(i),
           UnzipIsAwaited, ~Cycling(i)
    PROVE  UNCHANGED <<disk, inserted, marked, unread>>
<1>1. CASE Writes(i)
  <2>1. Unzipping(i)
    BY <1>1 DEF Writes, UnzipOpens, UnzipWrites, Unzipping, NotUnzipping
  <2> QED
    BY <2>1 DEF UnzipIsAwaited, Cycling, At
<1>2. CASE Outside(i)
  BY <1>2 DEF Outside, Acquire, Release, Shutdown, Crash, Restart, files, tables
<1> QED
  BY <1>1, <1>2, CycleSteps

LEMMA InsertedGrows == [DmmNext]_dmmVars => inserted \subseteq inserted'
<1> SUFFICES ASSUME [DmmNext]_dmmVars PROVE inserted \subseteq inserted'
  OBVIOUS
<1>1. ASSUME NEW i \in Ingester, InsideCycle(i) PROVE inserted \subseteq inserted'
  BY <1>1 DEF InsideCycle, OpenZip, LoadChunk, LoadEnds, BeginUnzip, EndUnzip, Filter,
              Batch, Insert, InsertFails, Mark, MarkFails, Clean, CycleFails, ReadFile,
              tables
<1>2. ASSUME NEW i \in Ingester, Writes(i) \/ Outside(i) PROVE inserted \subseteq inserted'
  BY <1>2 DEF Writes, UnzipOpens, UnzipWrites, Outside, Acquire, Release, Shutdown,
              Crash, Restart, tables
<1>3. CASE LapseDead \/ Lapse \/ UNCHANGED dmmVars
  BY <1>3 DEF LapseDead, Lapse, dmmVars, tables
<1> QED
  BY <1>1, <1>2, <1>3, DmmCases

\* What a worker knows of its own batch.
LEMMA OwnBatch ==
    ASSUME IngestTypes, UnzipIsAwaited, OneIngester, ~spoiled, NEW i \in Ingester, WholeOf(i),
           InsideCycle(i) \/ Writes(i) \/ Outside(i)
    PROVE  WholeOf(i)'
<1> USE DEF WholeOf, At, files, work, tables
<1>1. IngesterShape
  BY DEF IngestTypes
<1>2. ASSUME NEW place \in Place, Goes(i, place)
      PROVE  ingester'[i].at = place /\ ingester'[i].batch = ingester[i].batch
  BY <1>1, <1>2, OneGoes
<1>3. ASSUME ingester'[i].at \notin {"filter", "batch", "read", "insert", "mark"}
      PROVE  WholeOf(i)'
  BY <1>3
<1>4. CASE Writes(i)
  <2>1. ingester'[i].at = "unzip"
    BY <1>4 DEF Writes, UnzipOpens, UnzipWrites, UnzipIsAwaited, Unzipping, NotUnzipping
  <2> QED
    BY <2>1
<1>5. CASE Outside(i)
  <2>1. ingester'[i].at \in {"ask", "sleep", "down", "clean"}
    BY <1>1, <1>5 DEF Outside, Acquire, Release, Shutdown, Crash, Restart, Goes,
                 IngesterShape
  <2> QED
    BY <2>1, <1>3
<1>6. CASE OpenZip(i) \/ LoadEnds(i) \/ BeginUnzip(i) \/ CycleFails(i)
  <2>1. PICK place \in {"load", "clean", "loaded", "unzip"} : Goes(i, place)
    BY <1>6 DEF OpenZip, LoadEnds, BeginUnzip, CycleFails
  <2> QED
    BY <1>2, <1>3, <2>1 DEF Place
<1>7. CASE LoadChunk(i)
  BY <1>3, <1>7 DEF LoadChunk
<1>8. CASE Clean(i)
  <2>1. ingester'[i].at = "release"
    BY <1>1, <1>8 DEF Clean, IngesterShape
  <2> QED
    BY <1>3, <2>1
<1>9. CASE EndUnzip(i)
  <2>1. CASE zip.by = Free
    <3>1. Goes(i, "clean") /\ "clean" \in Place
      BY <1>9, <2>1 DEF EndUnzip, Place
    <3> QED
      BY <1>2, <1>3, <3>1
  <2>2. CASE zip.by # Free
    <3>1. Goes(i, "filter") /\ "filter" \in Place /\ UNCHANGED disk
      BY <1>9, <2>2 DEF EndUnzip, Place
    <3>2. todo'[i] = {f \in HashList : disk[f] # "none"}
      BY <1>9, <2>2 DEF EndUnzip, IngestTypes
    <3>3. \A f \in HashList : disk[f] # "part"
      <4>1. Cycling(i) /\ unzip[i].now = {}
        BY <1>9 DEF EndUnzip, Cycling, NotUnzipping
      <4>2. ASSUME NEW j \in Ingester PROVE unzip[j].now = {}
        <5>1. CASE j = i
          BY <4>1, <5>1
        <5>2. CASE j # i
          <6>1. ~At(j, "unzip")
            BY <4>1, <5>2, NobodyElse DEF Cycling
          <6> QED
            BY <6>1 DEF UnzipIsAwaited, Unzipping, NotUnzipping
        <5> QED
          BY <5>1, <5>2
      <4> QED
        BY <4>2 DEF UnzipIsAwaited
    <3>4. \A f \in todo'[i] : disk[f] = "whole"
      BY <3>2, <3>3 DEF IngestTypes
    <3> QED
      BY <1>2, <3>1, <3>4
  <2> QED
    BY <2>1, <2>2
<1>10. CASE Filter(i)
  <2>1. Goes(i, "batch") /\ "batch" \in Place /\ UNCHANGED disk
    BY <1>10 DEF Filter, Place
  <2>2. todo'[i] \subseteq todo[i] /\ ingester[i].at = "filter"
    BY <1>10 DEF Filter, IngestTypes
  <2> QED
    BY <1>2, <2>1, <2>2
<1>11. CASE Batch(i)
  <2>1. CASE NoMore(i)
    <3>1. Goes(i, "clean") /\ "clean" \in Place
      BY <1>11, <2>1 DEF Batch, Place
    <3> QED
      BY <1>2, <1>3, <3>1
  <2>2. CASE ~NoMore(i)
    <3>1. PICK b \in SUBSET todo[i] :
            /\ ingester' = [ingester EXCEPT ![i] = [@ EXCEPT !.at = "read", !.batch = b]]
            /\ toRead' = [toRead EXCEPT ![i] = b]
            /\ entries' = [entries EXCEPT ![i] = {}]
            /\ todo' = [todo EXCEPT ![i] = @ \ b]
      BY <1>11, <2>2 DEF Batch, kSubset
    <3>2. ingester'[i].at = "read" /\ ingester'[i].batch = b
      BY <1>1, <3>1 DEF IngesterShape
    <3>3. toRead'[i] = b /\ todo'[i] \subseteq todo[i]
      BY <3>1 DEF IngestTypes
    <3>4. UNCHANGED disk /\ ingester[i].at = "batch"
      BY <1>11 DEF Batch
    <3> QED
      BY <3>1, <3>2, <3>3, <3>4
  <2> QED
    BY <2>1, <2>2
<1>12. CASE \E f \in HashList : ReadFile(i, f)
  <2>1. PICK f \in HashList : ReadFile(i, f)
    BY <1>12
  <2>2. /\ ingester[i].at = "read" /\ f \in toRead[i] /\ disk[f] = "whole"
        /\ UNCHANGED <<disk, todo, inserted>>
    BY <2>1 DEF ReadFile
  <2>3. /\ toRead'[i] = toRead[i] \ {f}
        /\ \/ entries'[i] = entries[i] \cup {f} /\ unread' = unread \ {f}
           \/ entries' = entries /\ unread' = unread \cup {f}
    BY <2>1, <2>2 DEF ReadFile, IngestTypes
  <2>4. \/ toRead[i] = {f} /\ Goes(i, "insert")
        \/ UNCHANGED ingester
    BY <2>1 DEF ReadFile
  <2>5. CASE toRead[i] = {f} /\ Goes(i, "insert")
    <3>1. "insert" \in Place
      BY DEF Place
    <3> QED
      BY <1>2, <2>2, <2>3, <2>5, <3>1
  <2>6. CASE UNCHANGED ingester
    BY <2>2, <2>3, <2>6
  <2> QED
    BY <2>4, <2>5, <2>6
<1>13. CASE Insert(i) \/ InsertFails(i) \/ Mark(i) \/ MarkFails(i)
  <2>1. /\ ingester[i].at \in {"insert", "mark"} /\ inserted \subseteq inserted'
        /\ UNCHANGED <<disk, todo, entries, unread>>
    BY <1>13 DEF Insert, InsertFails, Mark, MarkFails
  <2>2. PICK place \in {"insert", "mark", "batch"} :
          /\ Goes(i, place)
          /\ place = "mark" => Insert(i)
    BY <1>13 DEF Insert, InsertFails, Mark, MarkFails, AfterError
  <2>3. Insert(i) => ingester[i].at = "insert" /\ inserted' = inserted \cup entries[i]
    BY DEF Insert
  <2>4. ingester'[i].at = place /\ ingester'[i].batch = ingester[i].batch
    BY <1>2, <2>2 DEF Place
  <2> QED
    BY <2>1, <2>2, <2>3, <2>4
<1> QED
  BY <1>4, <1>5, <1>6, <1>7, <1>8, <1>9, <1>10, <1>11, <1>12, <1>13 DEF InsideCycle

LEMMA BatchNext ==
    ASSUME IngestTypes, OneIngester, UnzipIsAwaited, BatchIsWhole, ~spoiled, ~spoiled',
           [DmmNext]_dmmVars
    PROVE  BatchIsWhole'
<1> SUFFICES ASSUME NEW k \in Ingester PROVE WholeOf(k)'
  BY DEF BatchIsWhole
<1>1. WholeOf(k)
  BY DEF BatchIsWhole
<1>2. ASSUME NEW i \in Ingester, InsideCycle(i) \/ Writes(i) \/ Outside(i)
      PROVE  WholeOf(k)'
  <2>1. CASE k = i
    BY <1>1, <1>2, <2>1, OwnBatch
  <2>2. CASE k # i /\ Cycling(i)
    <3>1. ~Cycling(k)
      BY <2>2, NobodyElse
    <3> QED
      BY <1>2, <2>2, <3>1, OthersStay DEF WholeOf, At, Cycling
  <2>3. CASE k # i /\ ~Cycling(i)
    <3>1. UNCHANGED <<disk, inserted, unread>>
      BY <1>2, <2>3, WhoChangesFiles
    <3> QED
      BY <1>1, <1>2, <2>3, <3>1, OthersStay DEF WholeOf, At
  <2> QED
    BY <2>1, <2>2, <2>3
<1>3. CASE LapseDead \/ Lapse \/ UNCHANGED dmmVars
  BY <1>1, <1>3 DEF LapseDead, Lapse, dmmVars, files, work, tables, WholeOf, At
<1> QED
  BY <1>2, <1>3, DmmCases

\* Files are marked only where their entries are, or as lost.
LEMMA MarkedNext ==
    ASSUME IngestTypes, BatchIsWhole, MarkedIsIngested, ~spoiled, [DmmNext]_dmmVars
    PROVE  MarkedIsIngested'
<1>1. inserted \subseteq inserted'
  BY InsertedGrows
<1>2. ASSUME NEW i \in Ingester, Mark(i) PROVE marked' \subseteq inserted \cup lost'
  BY <1>2 DEF Mark, BatchIsWhole, WholeOf, At, MarkedIsIngested
<1>3. ASSUME NEW i \in Ingester, InsideCycle(i) \/ Writes(i) \/ Outside(i), ~Mark(i)
      PROVE  UNCHANGED <<marked, lost>>
  <2>1. CASE InsideCycle(i)
    BY <1>3, <2>1 DEF InsideCycle, OpenZip, LoadChunk, LoadEnds, BeginUnzip, EndUnzip, Filter,
              Batch, Insert, InsertFails, MarkFails, Clean, CycleFails, ReadFile, tables
  <2>2. CASE Writes(i) \/ Outside(i)
    BY <2>2 DEF Writes, UnzipOpens, UnzipWrites, Outside, Acquire, Release, Shutdown,
              Crash, Restart, tables
  <2> QED
    BY <1>3, <2>1, <2>2
<1>4. CASE LapseDead \/ Lapse \/ UNCHANGED dmmVars
  BY <1>4 DEF LapseDead, Lapse, dmmVars, tables, MarkedIsIngested
<1> QED
  BY <1>1, <1>2, <1>3, <1>4, DmmCases DEF MarkedIsIngested

\* The directory exists while there is something in it, and the types.
LEMMA DmmTypeNext ==
    IngestTypes /\ IngestTypes' /\ DmmTypeOK /\ [DmmNext]_dmmVars => DmmTypeOK'
<1> SUFFICES ASSUME IngestTypes, IngestTypes', DmmTypeOK, [DmmNext]_dmmVars
             PROVE  DmmTypeOK'
  OBVIOUS
<1>1. dmmLease' \in Ingester \cup {Free, Dead}
  <2>1. ASSUME NEW i \in Ingester, InsideCycle(i) \/ Writes(i)
        PROVE  dmmLease' = dmmLease \/ Renewed(i)
    <3>1. Writes(i) => dmmLease' = dmmLease
      BY DEF Writes, UnzipOpens, UnzipWrites
    <3> QED
      BY <2>1, <3>1, CycleSteps
  <2>2. ASSUME NEW i \in Ingester, Outside(i)
        PROVE  dmmLease' \in {dmmLease, i, Free, Dead}
    BY <2>2 DEF Outside, Acquire, Release, Shutdown, Crash, Restart, Renewed, MayIngest
  <2>3. CASE LapseDead \/ Lapse \/ UNCHANGED dmmVars
    BY <2>3 DEF LapseDead, Lapse, dmmVars, DmmTypeOK
  <2> QED
    BY <2>1, <2>2, <2>3, DmmCases DEF DmmTypeOK, Renewed
<1>2. mishaps' \in 0..MaxMishaps
  <2>1. mishaps' = mishaps \/ Mishap
    BY ZenonT(40)
       DEF DmmNext, Ingests, Acquire, OpenZip, LoadChunk, LoadEnds, BeginUnzip,
           UnzipOpens, UnzipWrites, EndUnzip, Filter, Batch, ReadFile, Insert,
           InsertFails, Mark, MarkFails, Clean, Release, CycleFails, Shutdown, Crash,
           Restart, LapseDead, Lapse, dmmVars
  <2> QED
    BY <2>1, DmmAssumption DEF DmmTypeOK, Mishap
<1>3. spoiled' \in BOOLEAN
  <2>1. \/ spoiled' = spoiled \/ spoiled' = TRUE
        \/ \E i \in Ingester : spoiled' = (spoiled \/ Unzipping(i))
    BY ZenonT(40)
       DEF DmmNext, Ingests, Acquire, OpenZip, LoadChunk, LoadEnds, BeginUnzip,
           UnzipOpens, UnzipWrites, EndUnzip, Filter, Batch, ReadFile, Insert,
           InsertFails, Mark, MarkFails, Clean, Release, CycleFails, Shutdown, Crash,
           Restart, LapseDead, Lapse, dmmVars
  <2> QED
    BY <2>1 DEF DmmTypeOK
<1>4. inserted' \cup marked' \cup unread' \cup lost' \subseteq HashList
  <2>1. ASSUME NEW i \in Ingester, InsideCycle(i)
        PROVE  /\ inserted' \subseteq inserted \cup entries[i]
               /\ marked' \subseteq marked \cup ingester[i].batch
               /\ unread' \subseteq unread \cup HashList
               /\ lost' \subseteq lost \cup ingester[i].batch
    BY <2>1 DEF InsideCycle, OpenZip, LoadChunk, LoadEnds, BeginUnzip, EndUnzip, Filter,
                Batch, Insert, InsertFails, Mark, MarkFails, Clean, CycleFails, ReadFile,
                tables
  <2>2. ASSUME NEW i \in Ingester, Writes(i) \/ Outside(i) PROVE UNCHANGED tables
    BY <2>2 DEF Writes, UnzipOpens, UnzipWrites, Outside, Acquire, Release, Shutdown,
                Crash, Restart
  <2>3. CASE LapseDead \/ Lapse \/ UNCHANGED dmmVars
    BY <2>3 DEF LapseDead, Lapse, dmmVars, tables, DmmTypeOK
  <2>4. UNCHANGED tables => UNCHANGED <<inserted, marked, unread, lost>>
    BY DEF tables
  <2>5. /\ inserted \subseteq HashList /\ marked \subseteq HashList
        /\ unread \subseteq HashList /\ lost \subseteq HashList
        /\ \A i \in Ingester : /\ entries[i] \subseteq HashList
                               /\ ingester[i].batch \subseteq HashList
    BY DEF DmmTypeOK
  <2> QED
    BY <2>1, <2>2, <2>3, <2>4, <2>5, DmmCases
<1>5. /\ zip'.by # Free => temp'
      /\ \A f \in HashList : disk'[f] # "none" => temp'
  <2> DEFINE Kept == /\ zip.by = Free => zip'.by = Free
                     /\ \A f \in HashList : disk[f] = "none" => disk'[f] = "none"
                     /\ temp' = temp
             Covered == /\ zip'.by # Free => temp'
                        /\ \A f \in HashList : disk'[f] # "none" => temp'
  <2>1. ASSUME Kept PROVE Covered
    BY <2>1 DEF DmmTypeOK
  <2>2. ASSUME temp' = TRUE PROVE Covered
    BY <2>2
  <2> USE DEF files, IngestTypes
  <2>3. ASSUME NEW i \in Ingester, Elsewhere(i), ~Acquire(i) PROVE Kept
    BY <2>3, FilesKept
       DEF Elsewhere, LoadChunk, Insert, InsertFails, Mark, MarkFails, Release,
           CycleFails, Shutdown, Crash
  <2>4. ASSUME NEW i \in Ingester, Acquire(i) PROVE temp' = TRUE
    BY <2>4 DEF Acquire
  <2>5. ASSUME NEW i \in Ingester, OpenZip(i) PROVE Covered
    <3>1. CASE temp
      BY <2>2, <2>5, <3>1 DEF OpenZip
    <3>2. CASE ~temp
      <4>1. UNCHANGED <<zip, disk, temp>>
        BY <2>5, <3>2 DEF OpenZip, Writable
      <4> QED
        BY <2>1, <4>1
    <3> QED
      BY <3>1, <3>2
  <2>6. ASSUME NEW i \in Ingester, LoadEnds(i) PROVE Kept
    <3>1. zip'.by = zip.by
      BY <2>6 DEF LoadEnds
    <3> QED
      BY <2>6, <3>1 DEF LoadEnds
  <2>7. ASSUME NEW i \in Ingester, BeginUnzip(i) PROVE Kept
    BY <2>7 DEF BeginUnzip, Nowhere
  <2>8. ASSUME NEW i \in Ingester, NEW f \in HashList, UnzipOpens(i, f) PROVE temp' = TRUE
    BY <2>8 DEF UnzipOpens
  <2>9. ASSUME NEW i \in Ingester, NEW f \in HashList, UnzipWrites(i, f) PROVE Kept
    <3>1. disk' = [disk EXCEPT ![f] = IF @ = "part" THEN "whole" ELSE @]
      BY <2>9 DEF UnzipWrites
    <3>2. UNCHANGED <<zip, temp>>
      BY <2>9 DEF UnzipWrites
    <3> QED
      BY <3>1, <3>2
  <2>10. ASSUME NEW i \in Ingester, EndUnzip(i) PROVE Kept
    <3>1. zip' = NoZip \/ zip' = zip
      BY <2>10 DEF EndUnzip
    <3> QED
      BY <2>10, <3>1 DEF EndUnzip, NoZip
  <2>11. ASSUME NEW i \in Ingester, Filter(i) \/ Batch(i) \/ Restart(i) PROVE Kept
    BY <2>11 DEF Filter, Batch, Restart
  <2>12. ASSUME NEW i \in Ingester, NEW f \in HashList, ReadFile(i, f) PROVE Kept
    BY <2>12 DEF ReadFile
  <2>13. ASSUME NEW i \in Ingester, Clean(i) PROVE Covered
    BY <2>13 DEF Clean, NoZip, Nowhere
  <2>14. ASSUME LapseDead \/ Lapse \/ UNCHANGED dmmVars PROVE Kept
    BY <2>14 DEF LapseDead, Lapse, dmmVars
  <2> HIDE DEF Kept, Covered
  <2>15. Covered
    BY <2>1, <2>2, <2>3, <2>4, <2>5, <2>6, <2>7, <2>8, <2>9, <2>10, <2>11, <2>12,
       <2>13, <2>14
       DEF DmmNext, Ingests, Elsewhere
  <2> QED
    BY <2>15 DEF Covered
<1>6. ASSUME NEW k \in Ingester PROVE toRead'[k] \subseteq ingester'[k].batch
  <2>1. toRead[k] \subseteq ingester[k].batch
    BY DEF DmmTypeOK
  <2> USE DEF IngestTypes, IngesterShape, Goes, work, files
  <2>2. ASSUME NEW i \in Ingester, InsideCycle(i) \/ Writes(i) \/ Outside(i), k # i
        PROVE  toRead'[k] \subseteq ingester'[k].batch
    BY <2>1, <2>2, OthersStay
  <2>3. CASE Writes(k)
    BY <2>1, <2>3 DEF Writes, UnzipOpens, UnzipWrites
  <2>4. CASE Clean(k) \/ Restart(k)
    BY <2>4 DEF Clean, Restart
  <2>5. CASE Outside(k) /\ ~Restart(k)
    <3>1. toRead'[k] = toRead[k]
      BY <2>5 DEF Outside, Acquire, Release, Shutdown, Crash
    <3>2. ingester'[k].batch = ingester[k].batch
      BY <2>5 DEF Outside, Acquire, Release, Shutdown, Crash
    <3> QED
      BY <2>1, <3>1, <3>2
  <2>6. CASE Batch(k)
    <3>1. CASE NoMore(k)
      <4>1. Goes(k, "clean")
        BY <2>6, <3>1 DEF Batch
      <4>2. toRead' = toRead
        BY <2>6, <3>1 DEF Batch
      <4>3. ingester'[k].batch = ingester[k].batch
        BY <4>1
      <4> QED
        BY <2>1, <4>2, <4>3
    <3>2. CASE ~NoMore(k)
      <4>1. PICK b \in SUBSET todo[k] :
              /\ ingester' = [ingester EXCEPT ![k] = [@ EXCEPT !.at = "read", !.batch = b]]
              /\ toRead' = [toRead EXCEPT ![k] = b]
        BY <2>6, <3>2 DEF Batch, kSubset
      <4> QED
        BY <4>1
    <3> QED
      BY <3>1, <3>2
  <2>7. CASE \E f \in HashList : ReadFile(k, f)
    <3>1. ingester'[k].batch = ingester[k].batch /\ toRead'[k] \subseteq toRead[k]
      BY <2>7 DEF ReadFile
    <3> QED
      BY <2>1, <3>1
  <2>8. CASE /\ InsideCycle(k) /\ ~Batch(k) /\ ~Clean(k)
             /\ ~\E f \in HashList : ReadFile(k, f)
    <3>1. toRead'[k] = toRead[k]
      BY <2>8 DEF InsideCycle, OpenZip, LoadChunk, LoadEnds, BeginUnzip, EndUnzip, Filter,
                  Insert, InsertFails, Mark, MarkFails, CycleFails
    <3>2. UNCHANGED ingester \/ \E place : Goes(k, place)
      BY <2>8 DEF InsideCycle, OpenZip, LoadChunk, LoadEnds, BeginUnzip, EndUnzip, Filter,
                  Insert, InsertFails, Mark, MarkFails, CycleFails
    <3>3. ingester'[k].batch = ingester[k].batch
      BY <3>2
    <3> QED
      BY <2>1, <3>1, <3>3
  <2>9. CASE LapseDead \/ Lapse \/ UNCHANGED dmmVars
    BY <2>1, <2>9 DEF LapseDead, Lapse, dmmVars
  <2> QED
    BY <2>2, <2>3, <2>4, <2>5, <2>6, <2>7, <2>8, <2>9, DmmCases DEF Outside
<1>7. \A k \in Ingester : /\ ingester'[k].batch \subseteq HashList
                         /\ entries'[k] \subseteq HashList
  BY DEF IngestTypes, IngesterShape
<1> QED
  BY <1>1, <1>2, <1>3, <1>4, <1>5, <1>6, <1>7 DEF DmmTypeOK

\* DmmInv holds in every reachable state, for any workers, archives, sizes of
\* batches and mishaps: unless a lease ran out during a cycle or an extraction
\* outlived its own, one worker at a time is in its cycle, with the lease, and
\* a file is marked only with its entries in the database, or as one whose
\* reading raised.
THEOREM OneIngestsAtATime == DmmSpec => []DmmInv
<1>1. DmmIndInv /\ [DmmNext]_dmmVars => DmmIndInv'
  <2> SUFFICES ASSUME DmmIndInv, [DmmNext]_dmmVars PROVE DmmIndInv'
    OBVIOUS
  <2>1. IngestTypes /\ IngestTypes' /\ OneIngester /\ DmmTypeOK /\ MarkedIsIngested
    BY IngestTypesNext DEF DmmIndInv, DmmInv
  <2>2. OneIngester' /\ DmmTypeOK'
    BY <2>1, OneIngesterNext, DmmTypeNext
  <2>3. spoiled => spoiled'
    BY ZenonT(40)
       DEF DmmNext, Ingests, Acquire, OpenZip, LoadChunk, LoadEnds, BeginUnzip,
           UnzipOpens, UnzipWrites, EndUnzip, Filter, Batch, ReadFile, Insert,
           InsertFails, Mark, MarkFails, Clean, Release, CycleFails, Shutdown, Crash,
           Restart, LapseDead, Lapse, dmmVars
  <2>4. CASE spoiled'
    BY <2>1, <2>2, <2>4 DEF DmmIndInv, DmmInv, MarkedIsIngested
  <2>5. CASE ~spoiled'
    <3>1. ~spoiled /\ UnzipIsAwaited /\ BatchIsWhole
      BY <2>3, <2>5 DEF DmmIndInv
    <3>2. UnzipIsAwaited' /\ BatchIsWhole' /\ MarkedIsIngested'
      BY <2>1, <2>5, <3>1, UnzipNext, BatchNext, MarkedNext
    <3> QED
      BY <2>1, <2>2, <3>2 DEF DmmIndInv, DmmInv
  <2> QED
    BY <2>4, <2>5
<1>2. DmmIndInv => DmmInv
  BY DEF DmmIndInv
<1> QED
  BY <1>1, <1>2, DmmInitInv, PTL DEF DmmSpec

----------------------------------------------------------------------------
(* Magnets: one job for an entry. *)

MagnetTypes ==
    /\ call \in [MagnetCall -> {"new", "returned", "waiting", "cancelled"}]
    /\ Pending \subseteq Key /\ magnets \in [Pending -> Nat]
    /\ jobs \in Seq(Key \cup {StopJob}) /\ Len(jobs) <= QueueSize
    /\ downloader \in
           [MagnetWorker -> [at : {"unborn", "get", "download", "wait", "hand", "ended"},
                             key : Key \cup {NoKey}]]
    /\ \A w \in MagnetWorker : /\ Busy(w) => downloader[w].key \in Key
                               /\ downloader[w].at = "unborn" => downloader[w] = NoWorker
    /\ brought \in [Key -> Nat] /\ handed \in [Key -> Nat]
    /\ stopping \in BOOLEAN
    /\ magnetStopper \in {"none", "draining", "stops", "stopped"}

BusyOnes == {w \in MagnetWorker : Busy(w)}
UnfinishedKept == magnetUnfinished = Len(jobs) + Cardinality(BusyOnes)

\* Where the job of a key may be.
Waiting(k) == {c \in Waiters : KeyOf[c] = k}
Queued(s, k) == {i \in DOMAIN s : s[i] = k}
Working(k) == {w \in MagnetWorker : Busy(w) /\ downloader[w].key = k}

Jobless(k) == Waiting(k) = {} /\ Queued(jobs, k) = {} /\ Working(k) = {}
JobWaits(k) == (\E c : Waiting(k) = {c}) /\ Queued(jobs, k) = {} /\ Working(k) = {}
JobQueued(k) == Waiting(k) = {} /\ (\E i : Queued(jobs, k) = {i}) /\ Working(k) = {}
JobWorked(k) == Waiting(k) = {} /\ Queued(jobs, k) = {} /\ \E w : Working(k) = {w}
HasJob(k) == JobWaits(k) \/ JobQueued(k) \/ JobWorked(k)

JobsKept ==
    magnetStopper # "stopped" =>
        \A k \in Key : IF k \in Pending THEN HasJob(k) ELSE Jobless(k)

\* Until it is handed over, an entry has the most seeders that were brought.
Handing(k) == \E w \in MagnetWorker : downloader[w].at = "hand" /\ downloader[w].key = k
MostKept ==
    magnetStopper # "stopped" =>
        \A k \in Key :
            IF Handing(k) THEN handed[k] = brought[k]
            ELSE k \in Pending => magnets[k] = brought[k]

\* From the STOPs on there is nothing else in the queue, and they are no more
\* than the workers they end.
StopKept ==
    /\ stopping <=> magnetStopper # "none"
    /\ magnetStopper \in {"stops", "stopped"} =>
           Waiters = {} /\ BusyOnes = {} /\ \A i \in DOMAIN jobs : jobs[i] = StopJob
    /\ magnetStopper = "stops" => Len(jobs) + Cardinality(Ended) <= Cardinality(MagnetWorker)
    /\ magnetStopper = "stopped" => jobs = <<>>
    /\ (\E w \in MagnetWorker : downloader[w] = NoWorker) =>
           /\ \A w \in MagnetWorker : downloader[w] = NoWorker
           /\ jobs = <<>> /\ Waiters = {} /\ magnetStopper \in {"none", "stopped"}

DownloadsKept ==
    /\ inflight = {MagnetOf[downloader[w].key] :
                      w \in {v \in MagnetWorker : downloader[v].at = "download"}}
    /\ \A v, w \in MagnetWorker :
           /\ downloader[v].at = "download" /\ downloader[w].at = "download"
           /\ MagnetOf[downloader[v].key] = MagnetOf[downloader[w].key]
           => v = w

FuturesTyped == futureOf \in [MagnetWorker -> {"open", "found", "missing"}]

MagnetIndInv ==
    MagnetTypes /\ UnfinishedKept /\ JobsKept /\ MostKept /\ StopKept /\ DownloadsKept

\* The places of a job in the queue, as the queue grows and shrinks
LEMMA QueuedAppend ==
    ASSUME NEW S, NEW s \in Seq(S), NEW e \in S, NEW k
    PROVE  Queued(Append(s, e), k) = IF e = k THEN Queued(s, k) \cup {Len(s) + 1} ELSE Queued(s, k)
<1>1. /\ DOMAIN s = 1..Len(s) /\ DOMAIN Append(s, e) = 1..(Len(s) + 1) /\ Len(s) \in Nat
      /\ Append(s, e)[Len(s) + 1] = e
      /\ \A i \in 1..Len(s) : Append(s, e)[i] = s[i]
  OBVIOUS
<1>2. 1..(Len(s) + 1) = 1..Len(s) \cup {Len(s) + 1} /\ Len(s) + 1 \notin 1..Len(s)
  BY <1>1
<1> QED
  BY <1>1, <1>2 DEF Queued

\* The job at the head is gone; another one moves up.
LEMMA QueuedTail ==
    ASSUME NEW S, NEW s \in Seq(S), s # <<>>, NEW k
    PROVE  /\ Queued(s, k) = {} => Queued(Tail(s), k) = {}
           /\ Head(s) = k => 1 \in Queued(s, k)
           /\ Head(s) = k /\ (\E i : Queued(s, k) = {i}) => Queued(Tail(s), k) = {}
           /\ Head(s) # k /\ (\E i : Queued(s, k) = {i}) => \E i : Queued(Tail(s), k) = {i}
<1>1. /\ DOMAIN s = 1..Len(s) /\ Len(s) \in Nat \ {0} /\ Head(s) = s[1]
      /\ DOMAIN Tail(s) = 1..(Len(s) - 1)
      /\ \A i \in 1..(Len(s) - 1) : Tail(s)[i] = s[i + 1]
  OBVIOUS
<1>2. \A i \in Queued(Tail(s), k) : i + 1 \in Queued(s, k) /\ i \in Nat \ {0}
  BY <1>1 DEF Queued
<1>3. \A i \in Queued(s, k) : i # 1 => i - 1 \in Queued(Tail(s), k) /\ i \in Nat
  <2> SUFFICES ASSUME NEW i \in Queued(s, k), i # 1
               PROVE  i - 1 \in Queued(Tail(s), k) /\ i \in Nat
    OBVIOUS
  <2>1. i \in 1..Len(s) /\ s[i] = k
    BY <1>1 DEF Queued
  <2>2. i - 1 \in 1..(Len(s) - 1) /\ (i - 1) + 1 = i
    BY <1>1, <2>1
  <2>3. Tail(s)[i - 1] = k
    BY <1>1, <2>1, <2>2
  <2> QED
    BY <1>1, <2>1, <2>2, <2>3 DEF Queued
<1>4. Head(s) = k <=> 1 \in Queued(s, k)
  BY <1>1 DEF Queued
<1>5. Queued(s, k) = {} => Queued(Tail(s), k) = {}
  BY <1>2
<1>6. ASSUME 1 \in Queued(s, k), NEW i, Queued(s, k) = {i} PROVE Queued(Tail(s), k) = {}
  <2>1. i = 1
    BY <1>6
  <2>2. ASSUME NEW j \in Queued(Tail(s), k) PROVE FALSE
    <3>1. j + 1 = 1 /\ j \in Nat \ {0}
      BY <1>2, <1>6, <2>1, <2>2
    <3> QED
      BY <3>1
  <2> QED
    BY <2>2
<1>7. ASSUME 1 \notin Queued(s, k), NEW i, Queued(s, k) = {i}
      PROVE  \E j : Queued(Tail(s), k) = {j}
  <2>1. i - 1 \in Queued(Tail(s), k) /\ i \in Nat
    BY <1>3, <1>7
  <2>2. ASSUME NEW j \in Queued(Tail(s), k) PROVE j = i - 1
    <3>1. j + 1 = i /\ j \in Nat
      BY <1>2, <1>7
    <3> QED
      BY <2>1, <3>1
  <2>3. Queued(Tail(s), k) = {i - 1}
    BY <2>1, <2>2
  <2> QED
    BY <2>3
<1> QED
  BY <1>4, <1>5, <1>6, <1>7

\* The jobs of a key, counted as PendingHasJob counts them.
LEMMA JobsCount ==
    ASSUME JobsKept
    PROVE  PendingHasJob
<1> SUFFICES ASSUME magnetStopper # "stopped", NEW k \in Key
             PROVE  Cardinality(Waiting(k)) + Cardinality(Queued(jobs, k))
                        + Cardinality(Working(k)) = IF k \in Pending THEN 1 ELSE 0
  BY DEF PendingHasJob, Waiting, Queued, Working
<1>1. Cardinality({}) = 0 /\ \A x : Cardinality({x}) = 1
  BY FS_EmptySet, FS_Singleton
<1>2. IF k \in Pending THEN HasJob(k) ELSE Jobless(k)
  BY DEF JobsKept
<1> DEFINE a == Cardinality(Waiting(k))
           b == Cardinality(Queued(jobs, k))
           d == Cardinality(Working(k))
<1>3. CASE k \notin Pending
  <2>1. a = 0 /\ b = 0 /\ d = 0
    BY <1>1, <1>2, <1>3 DEF Jobless
  <2> HIDE DEF a, b, d
  <2>2. a + b + d = 0
    BY <2>1
  <2> QED
    BY <1>3, <2>2 DEF a, b, d
<1>4. CASE k \in Pending
  <2>1. \/ a = 1 /\ b = 0 /\ d = 0
        \/ a = 0 /\ b = 1 /\ d = 0
        \/ a = 0 /\ b = 0 /\ d = 1
    BY <1>1, <1>2, <1>4 DEF HasJob, JobWaits, JobQueued, JobWorked
  <2> HIDE DEF a, b, d
  <2>2. a + b + d = 1
    BY <2>1
  <2> QED
    BY <1>4, <2>2 DEF a, b, d
<1> QED
  BY <1>3, <1>4

\* What the inductive invariant is for.
LEMMA MagnetGives == MagnetIndInv /\ FuturesTyped => MagnetInv
<1> SUFFICES ASSUME MagnetIndInv, FuturesTyped PROVE MagnetInv
  OBVIOUS
<1>1. MagnetTypeOK
  BY DEF MagnetIndInv, MagnetTypes, UnfinishedKept, BusyOnes, DownloadsKept, FuturesTyped,
         MagnetTypeOK
<1>2. PendingHasJob
  BY JobsCount DEF MagnetIndInv
<1>3. HandedIsMost
  <2> SUFFICES ASSUME NEW w \in MagnetWorker, downloader[w].at = "hand"
               PROVE  handed[downloader[w].key] = brought[downloader[w].key]
    BY DEF HandedIsMost
  <2>1. Busy(w) /\ downloader[w].key \in Key
    BY DEF Busy, MagnetIndInv, MagnetTypes
  <2>2. magnetStopper # "stopped"
    BY <2>1 DEF MagnetIndInv, StopKept, BusyOnes
  <2> QED
    BY <2>1, <2>2 DEF MagnetIndInv, MostKept, Handing
<1>4. MagnetsDrained
  BY DEF MagnetIndInv, StopKept, MagnetsDrained, BusyOnes
<1> QED
  BY <1>1, <1>2, <1>3, <1>4 DEF MagnetInv

LEMMA MagnetBegins == MagnetInit => MagnetIndInv
<1> SUFFICES ASSUME MagnetInit PROVE MagnetIndInv
  OBVIOUS
<1>1. Pending = {} /\ magnets \in [Pending -> Nat] /\ DOMAIN jobs = {}
  BY DEF MagnetInit, Pending
<1>2. MagnetTypes
  <2>1. downloader \in
           [MagnetWorker -> [at : {"unborn", "get", "download", "wait", "hand", "ended"},
                             key : Key \cup {NoKey}]]
    BY DEF MagnetInit, NoWorker
  <2>2. \A w \in MagnetWorker : downloader[w] = NoWorker /\ ~Busy(w)
    BY DEF MagnetInit, NoWorker, Busy
  <2>3. jobs \in Seq(Key \cup {StopJob}) /\ Len(jobs) = 0 /\ QueueSize \in Nat
    BY MagnetAssumption DEF MagnetInit
  <2>4. /\ call \in [MagnetCall -> {"new", "returned", "waiting", "cancelled"}]
        /\ brought \in [Key -> Nat] /\ handed \in [Key -> Nat]
        /\ stopping \in BOOLEAN
        /\ magnetStopper \in {"none", "draining", "stops", "stopped"}
    BY DEF MagnetInit
  <2>5. Len(jobs) <= QueueSize
    BY <2>3
  <2> QED
    BY <1>1, <2>1, <2>2, <2>3, <2>4, <2>5 DEF MagnetTypes
<1>3. BusyOnes = {} /\ Waiters = {}
  BY DEF MagnetInit, BusyOnes, Busy, NoWorker, Waiters
<1>4. UnfinishedKept
  BY <1>3, FS_EmptySet DEF UnfinishedKept, MagnetInit
<1>5. JobsKept
  BY <1>1, <1>3 DEF JobsKept, Jobless, Waiting, Queued, Working, BusyOnes
<1>6. MostKept
  BY <1>1 DEF MostKept, Handing, MagnetInit, NoWorker
<1>7. StopKept
  BY <1>1, <1>3 DEF StopKept, MagnetInit
<1>8. DownloadsKept
  BY DEF DownloadsKept, MagnetInit, NoWorker
<1> QED
  BY <1>2, <1>4, <1>5, <1>6, <1>7, <1>8 DEF MagnetIndInv

\* What JobsKept says of one key.
KeyKept(k) == IF k \in Pending THEN HasJob(k) ELSE Jobless(k)

\* A key whose job stays where it is.
LEMMA SameJobs ==
    ASSUME NEW k, KeyKept(k), Waiting(k)' = Waiting(k), Queued(jobs', k) = Queued(jobs, k),
           Working(k)' = Working(k), k \in Pending' <=> k \in Pending
    PROVE  KeyKept(k)'
BY DEF KeyKept, HasJob, Jobless, JobWaits, JobQueued, JobWorked

\* A step that leaves the workers alone.
LEMMA SameDownloaders ==
    ASSUME UNCHANGED downloader
    PROVE  /\ BusyOnes' = BusyOnes /\ Ended' = Ended
           /\ \A k : Working(k)' = Working(k)
           /\ \A k : Handing(k)' <=> Handing(k)
           /\ \A w : Busy(w)' <=> Busy(w)
           /\ DownloadsKept /\ inflight' = inflight => DownloadsKept'
BY DEF BusyOnes, Busy, Ended, Working, Handing, DownloadsKept

\* A second call for a pending magnet brings its seeders and no job.
LEMMA MergeKeeps ==
    ASSUME MagnetIndInv, NEW c \in MagnetCall, Merge(c)
    PROVE  MagnetIndInv'
<1> DEFINE k == KeyOf[c]
<1>1. /\ k \in Key /\ k \in Pending /\ call[c] = "new" /\ ~stopping
      /\ call' = [call EXCEPT ![c] = "returned"]
      /\ magnets' = [magnets EXCEPT ![k] = Most(@, SeedersOf[c])]
      /\ brought' = IF Handing(k) THEN brought
                    ELSE [brought EXCEPT ![k] = Most(@, SeedersOf[c])]
      /\ UNCHANGED <<jobs, magnetUnfinished, downloader, inflight, resolved, stopping,
                     magnetStopper, handed>>
  BY DEF Merge, Key, Handing, MergedSeeders
<1>2. SeedersOf[c] \in Nat /\ \A a, b \in Nat : Most(a, b) \in Nat
  BY MagnetAssumption DEF Most
<1> HIDE DEF k
<1>3. Pending' = Pending
  BY <1>1 DEF Pending
<1>4. Waiters' = Waiters
  BY <1>1 DEF Waiters, MagnetIndInv, MagnetTypes
<1>5. MagnetTypes'
  <2>1. magnets' \in [Pending' -> Nat]
    BY <1>1, <1>2, <1>3 DEF MagnetIndInv, MagnetTypes
  <2>2. brought' \in [Key -> Nat]
    BY <1>1, <1>2 DEF MagnetIndInv, MagnetTypes
  <2>3. \A w \in MagnetWorker : Busy(w)' <=> Busy(w)
    BY <1>1, SameDownloaders
  <2> QED
    BY <1>1, <1>3, <2>1, <2>2, <2>3 DEF MagnetIndInv, MagnetTypes
<1>6. JobsKept'
  <2> SUFFICES ASSUME magnetStopper' # "stopped", NEW q \in Key PROVE KeyKept(q)'
    BY DEF JobsKept, KeyKept
  <2>1. KeyKept(q)
    BY <1>1 DEF MagnetIndInv, JobsKept, KeyKept
  <2> QED
    BY <1>1, <1>3, <1>4, <2>1, SameJobs, SameDownloaders DEF Waiting
<1>7. MostKept'
  <2> SUFFICES ASSUME magnetStopper' # "stopped", NEW q \in Key
               PROVE  IF Handing(q)' THEN handed'[q] = brought'[q]
                      ELSE q \in Pending' => magnets'[q] = brought'[q]
    BY DEF MostKept
  <2>1. IF Handing(q) THEN handed[q] = brought[q] ELSE q \in Pending => magnets[q] = brought[q]
    BY <1>1 DEF MagnetIndInv, MostKept
  <2>2. Handing(q)' <=> Handing(q)
    BY <1>1, SameDownloaders
  <2> QED
    BY <1>1, <1>3, <2>1, <2>2 DEF MagnetIndInv, MagnetTypes
<1>8. StopKept' /\ UnfinishedKept' /\ DownloadsKept'
  BY <1>1, <1>4, SameDownloaders DEF MagnetIndInv, StopKept, UnfinishedKept
<1> QED
  BY <1>5, <1>6, <1>7, <1>8 DEF MagnetIndInv

\* A new entry and its job, in the queue or in the call that waits for room.
LEMMA EnterKeeps ==
    ASSUME MagnetIndInv, NEW c \in MagnetCall, Enter(c)
    PROVE  MagnetIndInv'
<1> DEFINE k == KeyOf[c]
           room == Len(jobs) < QueueSize
<1>1. /\ k \in Key /\ k \notin Pending /\ call[c] = "new" /\ ~stopping
      /\ magnets' = [q \in Pending \cup {k} |-> IF q = k THEN SeedersOf[c] ELSE magnets[q]]
      /\ brought' = [brought EXCEPT ![k] = SeedersOf[c]]
      /\ handed' = [handed EXCEPT ![k] = 0]
      /\ downloader' = [w \in MagnetWorker |->
                           IF downloader[w] = NoWorker THEN Getting ELSE downloader[w]]
      /\ call' = [call EXCEPT ![c] = IF room THEN "returned" ELSE "waiting"]
      /\ jobs' = IF room THEN Append(jobs, k) ELSE jobs
      /\ magnetUnfinished' = IF room THEN magnetUnfinished + 1 ELSE magnetUnfinished
      /\ UNCHANGED <<inflight, resolved, stopping, magnetStopper>>
  BY DEF Enter, Key
<1>2. SeedersOf[c] \in Nat
  BY MagnetAssumption
<1> HIDE DEF k, room
<1>3. Pending' = Pending \cup {k}
  BY <1>1 DEF Pending
<1>4. /\ \A w \in MagnetWorker : /\ Busy(w)' <=> Busy(w)
                                 /\ downloader[w] # NoWorker => downloader'[w] = downloader[w]
                                 /\ downloader[w] = NoWorker => downloader'[w] = Getting
      /\ BusyOnes' = BusyOnes /\ Ended' = Ended
      /\ \A q : Working(q)' = Working(q) /\ (Handing(q)' <=> Handing(q))
  <2>1. \A w \in MagnetWorker :
            /\ downloader[w] # NoWorker => downloader'[w] = downloader[w]
            /\ downloader[w] = NoWorker => downloader'[w] = Getting
    BY <1>1
  <2>2. \A w \in MagnetWorker :
            \/ downloader'[w] = downloader[w]
            \/ downloader[w].at = "unborn" /\ downloader'[w].at = "get"
    BY <2>1 DEF NoWorker, Getting
  <2>3. \A w \in MagnetWorker : Busy(w)' <=> Busy(w)
    BY <2>2 DEF Busy
  <2>4. \A w \in MagnetWorker : Busy(w) => downloader'[w] = downloader[w]
    BY <2>2 DEF Busy
  <2>5. BusyOnes' = BusyOnes
    BY <2>3 DEF BusyOnes
  <2>6. Ended' = Ended
    BY <2>2 DEF Ended
  <2>7. ASSUME NEW q PROVE Working(q)' = Working(q) /\ (Handing(q)' <=> Handing(q))
    <3>1. Working(q)' = Working(q)
      BY <2>3, <2>4 DEF Working
    <3>2. Handing(q)' <=> Handing(q)
      BY <2>2 DEF Handing
    <3> QED
      BY <3>1, <3>2
  <2> QED
    BY <2>1, <2>3, <2>5, <2>6, <2>7
<1>5. magnetStopper # "stopped" /\ magnetStopper = "none"
  BY <1>1 DEF MagnetIndInv, StopKept
<1>6. Jobless(k)
  BY <1>1, <1>5 DEF MagnetIndInv, JobsKept
<1>7. /\ room => Waiters' = Waiters
      /\ ~room => Waiters' = Waiters \cup {c} /\ c \notin Waiters
  BY <1>1 DEF Waiters, MagnetIndInv, MagnetTypes
<1>8. MagnetTypes'
  <2>1. magnets' \in [Pending' -> Nat]
    BY <1>1, <1>2, <1>3 DEF MagnetIndInv, MagnetTypes
  <2>2. brought' \in [Key -> Nat] /\ handed' \in [Key -> Nat]
    BY <1>1, <1>2 DEF MagnetIndInv, MagnetTypes
  <2>3. jobs' \in Seq(Key \cup {StopJob}) /\ Len(jobs') <= QueueSize
    BY <1>1, MagnetAssumption DEF MagnetIndInv, MagnetTypes, room
  <2>4. downloader' \in
           [MagnetWorker -> [at : {"unborn", "get", "download", "wait", "hand", "ended"},
                             key : Key \cup {NoKey}]]
    BY <1>1 DEF MagnetIndInv, MagnetTypes, Getting
  <2>5. \A w \in MagnetWorker : /\ Busy(w)' => downloader'[w].key \in Key
                                /\ downloader'[w].at = "unborn" => downloader'[w] = NoWorker
    <3> SUFFICES ASSUME NEW w \in MagnetWorker
                 PROVE  /\ Busy(w)' => downloader'[w].key \in Key
                        /\ downloader'[w].at = "unborn" => downloader'[w] = NoWorker
      OBVIOUS
    <3>1. CASE downloader[w] = NoWorker
      BY <1>4, <3>1 DEF Getting, Busy, NoWorker
    <3>2. CASE downloader[w] # NoWorker
      BY <1>4, <3>2 DEF MagnetIndInv, MagnetTypes
    <3> QED
      BY <3>1, <3>2
  <2>6. call' \in [MagnetCall -> {"new", "returned", "waiting", "cancelled"}]
    BY <1>1 DEF MagnetIndInv, MagnetTypes
  <2> QED
    BY <1>1, <1>3, <2>1, <2>2, <2>3, <2>4, <2>5, <2>6 DEF MagnetIndInv, MagnetTypes
<1>9. \A q \in Key : Queued(jobs', q) = IF room /\ q = k THEN Queued(jobs, q) \cup {Len(jobs) + 1}
                                        ELSE Queued(jobs, q)
  <2> SUFFICES ASSUME NEW q \in Key
               PROVE  Queued(jobs', q) = IF room /\ q = k THEN Queued(jobs, q) \cup {Len(jobs) + 1}
                                         ELSE Queued(jobs, q)
    OBVIOUS
  <2> DEFINE S == Key \cup {StopJob}
  <2>1. jobs \in Seq(S) /\ k \in S
    BY <1>1 DEF MagnetIndInv, MagnetTypes
  <2> HIDE DEF S
  <2>2. Queued(Append(jobs, k), q) = IF k = q THEN Queued(jobs, q) \cup {Len(jobs) + 1}
                                     ELSE Queued(jobs, q)
    BY <2>1, QueuedAppend
  <2> QED
    BY <1>1, <2>2
<1>10. JobsKept'
  <2> SUFFICES ASSUME NEW q \in Key PROVE KeyKept(q)'
    BY DEF JobsKept, KeyKept
  <2>1. CASE q # k
    <3>1. KeyKept(q)
      BY <1>5 DEF MagnetIndInv, JobsKept, KeyKept
    <3>2. Waiting(q)' = Waiting(q)
      BY <1>7, <2>1 DEF Waiting, k
    <3> QED
      BY <1>3, <1>4, <1>9, <2>1, <3>1, <3>2, SameJobs
  <2>2. CASE q = k /\ room
    <3>1. Waiting(k)' = {} /\ Working(k)' = {} /\ Queued(jobs', k) = {Len(jobs) + 1}
      BY <1>1, <1>4, <1>6, <1>7, <1>9, <2>2 DEF Jobless, Waiting
    <3> QED
      BY <1>3, <2>2, <3>1 DEF KeyKept, HasJob, JobQueued
  <2>3. CASE q = k /\ ~room
    <3>1. Waiting(k)' = {c} /\ Working(k)' = {} /\ Queued(jobs', k) = {}
      BY <1>1, <1>4, <1>6, <1>7, <1>9, <2>3 DEF Jobless, Waiting, k
    <3> QED
      BY <1>3, <2>3, <3>1 DEF KeyKept, HasJob, JobWaits
  <2> QED
    BY <2>1, <2>2, <2>3
<1>11. MostKept'
  <2> SUFFICES ASSUME NEW q \in Key
               PROVE  IF Handing(q)' THEN handed'[q] = brought'[q]
                      ELSE q \in Pending' => magnets'[q] = brought'[q]
    BY DEF MostKept
  <2>1. ~Handing(k)
    BY <1>6 DEF Jobless, Working, Handing, Busy
  <2>2. IF Handing(q) THEN handed[q] = brought[q] ELSE q \in Pending => magnets[q] = brought[q]
    BY <1>5 DEF MagnetIndInv, MostKept
  <2>3. Handing(q)' <=> Handing(q)
    BY <1>4
  <2> QED
    BY <1>1, <1>3, <2>1, <2>2, <2>3 DEF MagnetIndInv, MagnetTypes
<1>12. StopKept'
  <2>1. \A w \in MagnetWorker : downloader'[w] # NoWorker
    BY <1>4 DEF NoWorker, Getting
  <2> QED
    BY <1>1, <1>5, <2>1 DEF StopKept, MagnetIndInv
<1>13. UnfinishedKept'
  <2>1. room => Len(jobs') = Len(jobs) + 1
    BY <1>1 DEF MagnetIndInv, MagnetTypes
  <2>2. Len(jobs) \in Nat
    BY DEF MagnetIndInv, MagnetTypes
  <2>3. Cardinality(BusyOnes) \in Nat
    <3>1. IsFiniteSet(BusyOnes)
      BY MagnetAssumption, FS_Subset DEF BusyOnes
    <3> QED
      BY <3>1, FS_CardinalityType
  <2>4. magnetUnfinished = Len(jobs) + Cardinality(BusyOnes)
    BY DEF MagnetIndInv, UnfinishedKept
  <2> DEFINE n == Cardinality(BusyOnes)
  <2> HIDE DEF n
  <2>5. magnetUnfinished' = Len(jobs') + n
    BY <1>1, <2>1, <2>2, <2>3, <2>4 DEF n
  <2> QED
    BY <1>4, <2>5 DEF UnfinishedKept, n
<1>14. DownloadsKept'
  <2>1. \A w \in MagnetWorker : /\ downloader'[w].at = "download" <=> downloader[w].at = "download"
                                /\ downloader[w].at = "download" => downloader'[w] = downloader[w]
    BY <1>4 DEF NoWorker, Getting
  <2>2. inflight' = {MagnetOf[downloader'[w].key] :
                      w \in {v \in MagnetWorker : downloader'[v].at = "download"}}
    <3> DEFINE D == {v \in MagnetWorker : downloader[v].at = "download"}
    <3>1. {v \in MagnetWorker : downloader'[v].at = "download"} = D
      BY <2>1
    <3>2. \A w \in D : downloader'[w].key = downloader[w].key
      BY <2>1
    <3>3. inflight = {MagnetOf[downloader[w].key] : w \in D} /\ inflight' = inflight
      BY <1>1 DEF MagnetIndInv, DownloadsKept
    <3> HIDE DEF D
    <3>4. {MagnetOf[downloader'[w].key] : w \in D} = {MagnetOf[downloader[w].key] : w \in D}
      BY <3>2
    <3> QED
      BY <3>1, <3>3, <3>4
  <2> QED
    BY <2>1, <2>2 DEF MagnetIndInv, DownloadsKept
<1> QED
  BY <1>8, <1>10, <1>11, <1>12, <1>13, <1>14 DEF MagnetIndInv

\* A download ends, and its magnet with it.
LEMMA DownloadsStay ==
    ASSUME MagnetTypes, DownloadsKept, NEW w \in MagnetWorker, NEW d,
           downloader' = [downloader EXCEPT ![w] = d], d.at # "download",
           inflight' = IF downloader[w].at = "download"
                       THEN inflight \ {MagnetOf[downloader[w].key]} ELSE inflight
    PROVE  DownloadsKept'
<1> DEFINE D == {v \in MagnetWorker : downloader[v].at = "download"}
           E == {v \in MagnetWorker : downloader'[v].at = "download"}
<1>1. E = D \ {w} /\ \A v \in E : downloader'[v] = downloader[v]
  BY DEF MagnetTypes
<1>2. \A v \in D, u \in D : MagnetOf[downloader[u].key] = MagnetOf[downloader[v].key] => u = v
  BY DEF DownloadsKept
<1>3. inflight = {MagnetOf[downloader[v].key] : v \in D}
  BY DEF DownloadsKept
<1>4. w \in D <=> downloader[w].at = "download"
  OBVIOUS
<1> HIDE DEF D, E
<1>5. inflight' = {MagnetOf[downloader[v].key] : v \in E}
  <2>1. CASE w \in D
    <3>1. inflight' = inflight \ {MagnetOf[downloader[w].key]}
      BY <1>4, <2>1
    <3>2. ASSUME NEW m PROVE m \in inflight' <=> \E v \in E : m = MagnetOf[downloader[v].key]
      <4>1. m \in inflight <=> \E v \in D : m = MagnetOf[downloader[v].key]
        BY <1>3
      <4>2. CASE m = MagnetOf[downloader[w].key]
        BY <1>1, <1>2, <2>1, <3>1, <4>2
      <4>3. CASE m # MagnetOf[downloader[w].key]
        BY <1>1, <3>1, <4>1, <4>3
      <4> QED
        BY <4>2, <4>3
    <3> QED
      BY <3>2
  <2>2. CASE w \notin D
    <3>1. inflight' = inflight /\ E = D
      BY <1>1, <1>4, <2>2
    <3> QED
      BY <1>3, <3>1
  <2> QED
    BY <2>1, <2>2
<1>6. {MagnetOf[downloader'[v].key] : v \in E} = {MagnetOf[downloader[v].key] : v \in E}
  BY <1>1
<1>7. \A u \in E, v \in E : MagnetOf[downloader'[u].key] = MagnetOf[downloader'[v].key] => u = v
  BY <1>1, <1>2
<1> QED
  BY <1>5, <1>6, <1>7 DEF DownloadsKept, E

\* A worker begins a download that nobody has.
LEMMA DownloadsBegin ==
    ASSUME MagnetTypes, DownloadsKept, NEW w \in MagnetWorker, NEW d,
           downloader' = [downloader EXCEPT ![w] = d], d.at = "download",
           downloader[w].at # "download", MagnetOf[d.key] \notin inflight,
           inflight' = inflight \cup {MagnetOf[d.key]}
    PROVE  DownloadsKept'
<1> DEFINE D == {v \in MagnetWorker : downloader[v].at = "download"}
           E == {v \in MagnetWorker : downloader'[v].at = "download"}
<1>1. /\ E = D \cup {w} /\ w \notin D /\ downloader'[w] = d
      /\ \A v \in D : downloader'[v] = downloader[v]
  BY DEF MagnetTypes
<1>2. \A v \in D, u \in D : MagnetOf[downloader[u].key] = MagnetOf[downloader[v].key] => u = v
  BY DEF DownloadsKept
<1>3. inflight = {MagnetOf[downloader[v].key] : v \in D}
  BY DEF DownloadsKept
<1> HIDE DEF D, E
<1>5. inflight' = {MagnetOf[downloader'[v].key] : v \in E}
  <2>1. ASSUME NEW m PROVE m \in inflight' <=> \E v \in E : m = MagnetOf[downloader'[v].key]
    <3>1. m \in inflight <=> \E v \in D : m = MagnetOf[downloader[v].key]
      BY <1>3
    <3> QED
      BY <1>1, <3>1
  <2> QED
    BY <2>1
<1>7. \A u \in E, v \in E : MagnetOf[downloader'[u].key] = MagnetOf[downloader'[v].key] => u = v
  <2>1. \A v \in D : MagnetOf[downloader'[v].key] # MagnetOf[d.key]
    BY <1>1, <1>3
  <2> QED
    BY <1>1, <1>2, <2>1
<1> QED
  BY <1>5, <1>7 DEF DownloadsKept, E

\* Who has the job of a key is the only one.
LEMMA TheOnlyJob ==
    ASSUME MagnetIndInv, magnetStopper # "stopped", NEW k \in Key
    PROVE  /\ \A c \in Waiting(k) : /\ k \in Pending /\ Waiting(k) = {c}
                                   /\ Queued(jobs, k) = {} /\ Working(k) = {}
           /\ \A w \in Working(k) : /\ k \in Pending /\ Working(k) = {w}
                                   /\ Queued(jobs, k) = {} /\ Waiting(k) = {}
           /\ \A i \in Queued(jobs, k) : /\ k \in Pending /\ Queued(jobs, k) = {i}
                                        /\ Waiting(k) = {} /\ Working(k) = {}
<1>1. \/ k \notin Pending /\ Jobless(k)
      \/ k \in Pending /\ HasJob(k)
  BY DEF MagnetIndInv, JobsKept
<1>2. CASE k \notin Pending /\ Jobless(k)
  BY <1>2 DEF Jobless
<1>3. CASE k \in Pending /\ JobWaits(k)
  <2>1. PICK x : Waiting(k) = {x}
    BY <1>3 DEF JobWaits
  <2> QED
    BY <1>3, <2>1 DEF JobWaits
<1>4. CASE k \in Pending /\ JobQueued(k)
  <2>1. PICK x : Queued(jobs, k) = {x}
    BY <1>4 DEF JobQueued
  <2> QED
    BY <1>4, <2>1 DEF JobQueued
<1>5. CASE k \in Pending /\ JobWorked(k)
  <2>1. PICK x : Working(k) = {x}
    BY <1>5 DEF JobWorked
  <2> QED
    BY <1>5, <2>1 DEF JobWorked
<1> QED
  BY <1>1, <1>2, <1>3, <1>4, <1>5 DEF HasJob

\* The job goes from the call that waited into the queue.
LEMMA PutKeeps ==
    ASSUME MagnetIndInv, NEW c \in MagnetCall, PutMagnet(c)
    PROVE  MagnetIndInv'
<1> DEFINE k == KeyOf[c]
<1>1. /\ k \in Key /\ call[c] = "waiting" /\ Len(jobs) < QueueSize
      /\ call' = [call EXCEPT ![c] = "returned"] /\ jobs' = Append(jobs, k)
      /\ magnetUnfinished' = magnetUnfinished + 1
      /\ UNCHANGED <<magnets, downloader, inflight, resolved, stopping, magnetStopper,
                     brought, handed>>
  BY DEF PutMagnet, Key
<1>2. Pending' = Pending
  BY <1>1 DEF Pending
<1>3. c \in Waiters /\ c \in Waiting(k) /\ Waiters' = Waiters \ {c}
  BY <1>1 DEF Waiters, Waiting, MagnetIndInv, MagnetTypes
<1>4. magnetStopper \notin {"stops", "stopped"}
  BY <1>3 DEF MagnetIndInv, StopKept
<1>5. k \in Pending /\ Queued(jobs, k) = {} /\ Working(k) = {} /\ Waiting(k) = {c}
  BY <1>1, <1>3, <1>4, TheOnlyJob
<1>6. \A q : Waiting(q)' = Waiting(q) \ {c}
  BY <1>3 DEF Waiting
<1>7. \A q : q # k => Waiting(q)' = Waiting(q)
  BY <1>6 DEF Waiting
<1> HIDE DEF k
<1>8. MagnetTypes'
  <2>1. jobs' \in Seq(Key \cup {StopJob}) /\ Len(jobs') <= QueueSize
    BY <1>1, MagnetAssumption DEF MagnetIndInv, MagnetTypes
  <2>2. \A w \in MagnetWorker : Busy(w)' <=> Busy(w)
    BY <1>1, SameDownloaders
  <2> QED
    BY <1>1, <1>2, <2>1, <2>2 DEF MagnetIndInv, MagnetTypes
<1>9. \A q : Queued(jobs', q) = IF q = k THEN Queued(jobs, q) \cup {Len(jobs) + 1}
                                ELSE Queued(jobs, q)
  <2> SUFFICES ASSUME NEW q
               PROVE  Queued(jobs', q) = IF q = k THEN Queued(jobs, q) \cup {Len(jobs) + 1}
                                         ELSE Queued(jobs, q)
    OBVIOUS
  <2> DEFINE S == Key \cup {StopJob}
  <2>1. jobs \in Seq(S) /\ k \in S
    BY <1>1 DEF MagnetIndInv, MagnetTypes
  <2> HIDE DEF S
  <2>2. Queued(Append(jobs, k), q) = IF k = q THEN Queued(jobs, q) \cup {Len(jobs) + 1}
                                     ELSE Queued(jobs, q)
    BY <2>1, QueuedAppend
  <2> QED
    BY <1>1, <2>2
<1>10. JobsKept'
  <2> SUFFICES ASSUME NEW q \in Key PROVE KeyKept(q)'
    BY DEF JobsKept, KeyKept
  <2>1. CASE q # k
    <3>1. KeyKept(q)
      BY <1>4 DEF MagnetIndInv, JobsKept, KeyKept
    <3> QED
      BY <1>1, <1>2, <1>7, <1>9, <2>1, <3>1, SameJobs, SameDownloaders
  <2>2. CASE q = k
    <3>1. Waiting(k)' = {} /\ Queued(jobs', k) = {Len(jobs) + 1}
      BY <1>5, <1>6, <1>9
    <3>2. Working(k)' = {}
      BY <1>1, <1>5, SameDownloaders
    <3> QED
      BY <1>2, <1>5, <2>2, <3>1, <3>2 DEF KeyKept, HasJob, JobQueued
  <2> QED
    BY <2>1, <2>2
<1>11. MostKept'
  BY <1>1, <1>2, SameDownloaders DEF MagnetIndInv, MostKept
<1>12. StopKept'
  <2>1. \A w \in MagnetWorker : downloader[w] # NoWorker
    BY <1>3 DEF MagnetIndInv, StopKept
  <2> QED
    BY <1>1, <1>4, <2>1 DEF MagnetIndInv, StopKept
<1>13. UnfinishedKept'
  <2>1. Len(jobs') = Len(jobs) + 1 /\ Len(jobs) \in Nat
    BY <1>1 DEF MagnetIndInv, MagnetTypes
  <2>2. Cardinality(BusyOnes) \in Nat
    <3>1. IsFiniteSet(BusyOnes)
      BY MagnetAssumption, FS_Subset DEF BusyOnes
    <3> QED
      BY <3>1, FS_CardinalityType
  <2> DEFINE n == Cardinality(BusyOnes)
  <2>3. magnetUnfinished = Len(jobs) + n
    BY DEF MagnetIndInv, UnfinishedKept
  <2>4. BusyOnes' = BusyOnes
    BY <1>1, SameDownloaders
  <2> HIDE DEF n
  <2>5. magnetUnfinished' = Len(jobs') + n
    BY <1>1, <2>1, <2>2, <2>3 DEF n
  <2> QED
    BY <2>4, <2>5 DEF UnfinishedKept, n
<1>14. DownloadsKept'
  BY <1>1, SameDownloaders DEF MagnetIndInv
<1> QED
  BY <1>8, <1>10, <1>11, <1>12, <1>13, <1>14 DEF MagnetIndInv

\* The entry of a cancelled call and its job go together.
LEMMA CancelKeeps ==
    ASSUME MagnetIndInv, NEW c \in MagnetCall, CancelCall(c)
    PROVE  MagnetIndInv'
<1> DEFINE k == KeyOf[c]
<1>1. /\ k \in Key /\ call[c] = "waiting"
      /\ call' = [call EXCEPT ![c] = "cancelled"] /\ magnets' = Popped(magnets, k)
      /\ UNCHANGED <<jobs, magnetUnfinished, downloader, inflight, resolved, stopping,
                     magnetStopper, brought, handed>>
  BY DEF CancelCall, Withdrawn, Key
<1>2. Pending' = Pending \ {k} /\ \A q \in Pending' : magnets'[q] = magnets[q]
  BY <1>1 DEF Pending, Popped
<1>3. c \in Waiters /\ c \in Waiting(k) /\ Waiters' = Waiters \ {c}
  BY <1>1 DEF Waiters, Waiting, MagnetIndInv, MagnetTypes
<1>4. magnetStopper \notin {"stops", "stopped"}
  BY <1>3 DEF MagnetIndInv, StopKept
<1>5. k \in Pending /\ Queued(jobs, k) = {} /\ Working(k) = {} /\ Waiting(k) = {c}
  BY <1>1, <1>3, <1>4, TheOnlyJob
<1>6. \A q : Waiting(q)' = Waiting(q) \ {c}
  BY <1>3 DEF Waiting
<1>7. \A q : q # k => Waiting(q)' = Waiting(q)
  BY <1>6 DEF Waiting
<1> HIDE DEF k
<1>8. MagnetTypes'
  <2>1. magnets' \in [Pending' -> Nat]
    BY <1>1, <1>2 DEF MagnetIndInv, MagnetTypes, Popped, Pending
  <2>2. \A w \in MagnetWorker : Busy(w)' <=> Busy(w)
    BY <1>1, SameDownloaders
  <2> QED
    BY <1>1, <1>2, <2>1, <2>2 DEF MagnetIndInv, MagnetTypes
<1>10. JobsKept'
  <2> SUFFICES ASSUME NEW q \in Key PROVE KeyKept(q)'
    BY DEF JobsKept, KeyKept
  <2>1. CASE q # k
    <3>1. KeyKept(q)
      BY <1>4 DEF MagnetIndInv, JobsKept, KeyKept
    <3> QED
      BY <1>1, <1>2, <1>7, <2>1, <3>1, SameJobs, SameDownloaders
  <2>2. CASE q = k
    <3>1. Waiting(k)' = {} /\ Queued(jobs', k) = {}
      BY <1>1, <1>5, <1>6
    <3>2. Working(k)' = {}
      BY <1>1, <1>5, SameDownloaders
    <3> QED
      BY <1>2, <2>2, <3>1, <3>2 DEF KeyKept, Jobless
  <2> QED
    BY <2>1, <2>2
<1>11. MostKept'
  <2>1. \A q : Handing(q)' <=> Handing(q)
    BY <1>1, SameDownloaders
  <2> QED
    BY <1>1, <1>2, <2>1 DEF MagnetIndInv, MostKept
<1>12. StopKept'
  BY <1>1, <1>3, <1>4, SameDownloaders DEF MagnetIndInv, StopKept
<1>13. UnfinishedKept'
  BY <1>1, SameDownloaders DEF MagnetIndInv, UnfinishedKept
<1>14. DownloadsKept'
  BY <1>1, SameDownloaders DEF MagnetIndInv
<1> QED
  BY <1>8, <1>10, <1>11, <1>12, <1>13, <1>14 DEF MagnetIndInv

\* A step that changes none of it.
LEMMA MagnetsStay ==
    ASSUME MagnetIndInv, Waiters' = Waiters, stopping' = stopping,
           UNCHANGED <<magnets, jobs, magnetUnfinished, downloader, inflight, brought, handed>>,
           magnetStopper' = magnetStopper
               \/ (/\ magnetStopper = "draining" /\ magnetStopper' = "stops"
                   /\ magnetUnfinished = 0 /\ Waiters = {}),
           call' \in [MagnetCall -> {"new", "returned", "waiting", "cancelled"}]
    PROVE  MagnetIndInv'
<1>1. Pending' = Pending
  BY DEF Pending
<1>2. MagnetTypes'
  BY <1>1, SameDownloaders DEF MagnetIndInv, MagnetTypes
<1>3. \A q : Waiting(q)' = Waiting(q) /\ Working(q)' = Working(q) /\ (Handing(q)' <=> Handing(q))
  BY SameDownloaders DEF Waiting
<1>4. magnetStopper' # "stopped" => magnetStopper # "stopped"
  OBVIOUS
<1>5. JobsKept'
  <2> SUFFICES ASSUME magnetStopper' # "stopped", NEW q \in Key PROVE KeyKept(q)'
    BY DEF JobsKept, KeyKept
  <2>1. KeyKept(q)
    BY <1>4 DEF MagnetIndInv, JobsKept, KeyKept
  <2> QED
    BY <1>1, <1>3, <2>1, SameJobs
<1>6. MostKept'
  BY <1>1, <1>3, <1>4 DEF MagnetIndInv, MostKept
<1>7. UnfinishedKept' /\ DownloadsKept'
  BY SameDownloaders DEF MagnetIndInv, UnfinishedKept
<1>8. StopKept'
  <2>1. CASE magnetStopper' = magnetStopper
    BY <2>1, SameDownloaders DEF MagnetIndInv, StopKept
  <2>2. CASE /\ magnetStopper = "draining" /\ magnetStopper' = "stops"
             /\ magnetUnfinished = 0 /\ Waiters = {}
    <3>1. IsFiniteSet(BusyOnes) /\ IsFiniteSet(Ended)
          /\ Cardinality(Ended) <= Cardinality(MagnetWorker)
      BY MagnetAssumption, FS_Subset DEF BusyOnes, Ended
    <3>2. Cardinality(BusyOnes) \in Nat /\ Cardinality(Ended) \in Nat
          /\ Cardinality(MagnetWorker) \in Nat
      BY <3>1, MagnetAssumption, FS_CardinalityType
    <3>3. Len(jobs) \in Nat /\ magnetUnfinished = Len(jobs) + Cardinality(BusyOnes)
      BY DEF MagnetIndInv, MagnetTypes, UnfinishedKept
    <3>4. Len(jobs) = 0 /\ Cardinality(BusyOnes) = 0
      BY <2>2, <3>2, <3>3
    <3>5. BusyOnes = {} /\ jobs = <<>>
      BY <3>1, <3>4, FS_EmptySet DEF MagnetIndInv, MagnetTypes
    <3>6. Len(jobs) + Cardinality(Ended) <= Cardinality(MagnetWorker)
      BY <3>1, <3>2, <3>4
    <3>7. BusyOnes' = BusyOnes /\ Ended' = Ended
      BY SameDownloaders
    <3> QED
      BY <2>2, <3>5, <3>6, <3>7 DEF MagnetIndInv, StopKept
  <2> QED
    BY <2>1, <2>2
<1> QED
  BY <1>2, <1>5, <1>6, <1>7, <1>8 DEF MagnetIndInv

\* One of them turns to something else.
Turned(w, d) ==
    /\ downloader'[w] = d /\ \A v \in MagnetWorker \ {w} : downloader'[v] = downloader[v]
    /\ Busy(w)' <=> d.at \in {"download", "wait", "hand"}
    /\ \A v \in MagnetWorker \ {w} : Busy(v)' <=> Busy(v)
    /\ BusyOnes' \ {w} = BusyOnes \ {w}
    /\ w \in BusyOnes' <=> d.at \in {"download", "wait", "hand"}
    /\ \A q : Working(q)' \ {w} = Working(q) \ {w}
    /\ \A q : w \in Working(q)' <=> (d.at \in {"download", "wait", "hand"} /\ d.key = q)

LEMMA OneTurns ==
    ASSUME MagnetTypes, NEW w \in MagnetWorker, NEW d,
           downloader' = [downloader EXCEPT ![w] = d]
    PROVE  Turned(w, d)
<1>1. downloader'[w] = d /\ \A v \in MagnetWorker \ {w} : downloader'[v] = downloader[v]
  BY DEF MagnetTypes
<1>2. /\ Busy(w)' <=> d.at \in {"download", "wait", "hand"}
      /\ \A v \in MagnetWorker \ {w} : Busy(v)' <=> Busy(v)
  BY <1>1 DEF Busy
<1>3. /\ BusyOnes' \ {w} = BusyOnes \ {w}
      /\ w \in BusyOnes' <=> d.at \in {"download", "wait", "hand"}
  BY <1>2 DEF BusyOnes
<1>4. ASSUME NEW q
      PROVE  /\ Working(q)' \ {w} = Working(q) \ {w}
             /\ w \in Working(q)' <=> (d.at \in {"download", "wait", "hand"} /\ d.key = q)
  BY <1>1, <1>2 DEF Working
<1> QED
  BY <1>1, <1>2, <1>3, <1>4 DEF Turned

\* What the worker turns to is of the right type.
LEMMA TurnKeepsTypes ==
    ASSUME MagnetTypes, NEW w \in MagnetWorker,
           NEW d \in [at : {"get", "download", "wait", "hand", "ended"}, key : Key \cup {NoKey}],
           d.at \in {"download", "wait", "hand"} => d.key \in Key,
           downloader' = [downloader EXCEPT ![w] = d], UNCHANGED <<call, stopping, magnetStopper>>,
           jobs' = jobs \/ (jobs # <<>> /\ jobs' = Tail(jobs)),
           Pending' \subseteq Key, magnets' \in [Pending' -> Nat],
           brought' = brought, handed' \in [Key -> Nat]
    PROVE  MagnetTypes'
<1>1. jobs' \in Seq(Key \cup {StopJob}) /\ Len(jobs') <= QueueSize
  <2> DEFINE S == Key \cup {StopJob}
  <2>1. jobs \in Seq(S) /\ Len(jobs) <= QueueSize /\ QueueSize \in Nat
    BY MagnetAssumption DEF MagnetTypes
  <2> HIDE DEF S
  <2>2. jobs # <<>> => Tail(jobs) \in Seq(S) /\ Len(Tail(jobs)) = Len(jobs) - 1
    BY <2>1
  <2>3. Len(jobs) \in Nat
    BY <2>1
  <2>4. CASE jobs' = jobs
    BY <2>1, <2>4 DEF S
  <2>5. CASE jobs # <<>> /\ jobs' = Tail(jobs)
    <3>1. jobs' \in Seq(S) /\ Len(jobs') = Len(jobs) - 1
      BY <2>2, <2>5
    <3>2. Len(jobs') <= QueueSize
      BY <2>1, <2>3, <3>1
    <3> QED
      BY <3>1, <3>2 DEF S
  <2> QED
    BY <2>4, <2>5
<1>2. downloader' \in
           [MagnetWorker -> [at : {"unborn", "get", "download", "wait", "hand", "ended"},
                             key : Key \cup {NoKey}]]
  BY DEF MagnetTypes
<1>3. \A v \in MagnetWorker : /\ Busy(v)' => downloader'[v].key \in Key
                              /\ downloader'[v].at = "unborn" => downloader'[v] = NoWorker
  <2> SUFFICES ASSUME NEW v \in MagnetWorker
               PROVE  /\ Busy(v)' => downloader'[v].key \in Key
                      /\ downloader'[v].at = "unborn" => downloader'[v] = NoWorker
    OBVIOUS
  <2>0. Turned(w, d)
    BY OneTurns
  <2>1. CASE v = w
    BY <2>0, <2>1 DEF Turned
  <2>2. CASE v # w
    BY <2>0, <2>2 DEF Turned, MagnetTypes
  <2> QED
    BY <2>1, <2>2
<1> QED
  BY <1>1, <1>2, <1>3 DEF MagnetTypes

LEMMA BusyIsFinite == IsFiniteSet(BusyOnes) /\ Cardinality(BusyOnes) \in Nat
<1>1. IsFiniteSet(BusyOnes)
  BY MagnetAssumption, FS_Subset DEF BusyOnes
<1> QED
  BY <1>1, FS_CardinalityType

\* Nobody is unborn once one of them works.
LEMMA TurnKeepsStop ==
    ASSUME MagnetTypes, StopKept, NEW w \in MagnetWorker, NEW d, d.at # "unborn",
           downloader' = [downloader EXCEPT ![w] = d], downloader[w] # NoWorker,
           magnetStopper \notin {"stops", "stopped"}, UNCHANGED <<stopping, magnetStopper>>
    PROVE  StopKept'
<1>1. \A v \in MagnetWorker : downloader[v] # NoWorker
  BY DEF StopKept
<1>2. \A v \in MagnetWorker : downloader'[v] # NoWorker
  <2> SUFFICES ASSUME NEW v \in MagnetWorker PROVE downloader'[v] # NoWorker
    OBVIOUS
  <2>1. CASE v = w
    BY <2>1 DEF MagnetTypes, NoWorker
  <2>2. CASE v # w
    BY <1>1, <2>2 DEF MagnetTypes
  <2> QED
    BY <2>1, <2>2
<1> QED
  BY <1>2 DEF StopKept

\* The job of a key leaves the queue, for a worker.
LEMMA TakeMagnetKeeps ==
    ASSUME MagnetIndInv, NEW w \in MagnetWorker, TakeMagnet(w), NEW k, k = Head(jobs)
    PROVE  MagnetIndInv'
<1>1. /\ downloader[w].at = "get" /\ jobs # <<>> /\ k # StopJob /\ jobs' = Tail(jobs)
      /\ UNCHANGED <<call, resolved, stopping, magnetStopper, brought>>
  BY DEF TakeMagnet
<1>2. k \in Key /\ jobs[1] = k /\ 1 \in DOMAIN jobs
  BY <1>1 DEF MagnetIndInv, MagnetTypes
<1>3. magnetStopper \notin {"stops", "stopped"}
  BY <1>1, <1>2 DEF MagnetIndInv, StopKept
<1>4. 1 \in Queued(jobs, k)
  BY <1>2 DEF Queued
<1>5. k \in Pending /\ Queued(jobs, k) = {1} /\ Waiting(k) = {} /\ Working(k) = {}
  BY <1>2, <1>3, <1>4, TheOnlyJob
<1>6. \E d \in [at : {"download", "wait", "hand"}, key : {k}] :
          /\ downloader' = [downloader EXCEPT ![w] = d]
          /\ UNCHANGED <<magnets, magnetUnfinished>>
          /\ handed' = IF d.at = "hand" THEN [handed EXCEPT ![k] = magnets[k]] ELSE handed
          /\ \/ d.at # "download" /\ inflight' = inflight
             \/ /\ d.at = "download" /\ MagnetOf[k] \notin inflight
                /\ inflight' = inflight \cup {MagnetOf[k]}
  <2>1. CASE MagnetOf[k] \in resolved
    <3> DEFINE d == [at |-> "hand", key |-> k]
    <3>1. /\ downloader' = [downloader EXCEPT ![w] = d]
          /\ handed' = [handed EXCEPT ![k] = magnets[k]]
          /\ UNCHANGED <<magnets, magnetUnfinished, inflight>>
      BY <1>5, <2>1 DEF TakeMagnet, HandsOver
    <3>2. d \in [at : {"download", "wait", "hand"}, key : {k}] /\ d.at = "hand"
      OBVIOUS
    <3> HIDE DEF d
    <3> QED
      BY <3>1, <3>2
  <2>2. CASE MagnetOf[k] \notin resolved
    <3> DEFINE d == [at |-> IF MagnetOf[k] \in inflight THEN "wait" ELSE "download", key |-> k]
    <3>1. /\ downloader' = [downloader EXCEPT ![w] = d]
          /\ inflight' = inflight \cup {MagnetOf[k]}
          /\ UNCHANGED <<magnets, magnetUnfinished, handed>>
      BY <2>2 DEF TakeMagnet
    <3>2. /\ d \in [at : {"download", "wait", "hand"}, key : {k}]
          /\ MagnetOf[k] \in inflight => d.at = "wait"
          /\ MagnetOf[k] \notin inflight => d.at = "download"
      OBVIOUS
    <3>3. d.at # "hand"
      BY <3>2
    <3> HIDE DEF d
    <3>4. CASE MagnetOf[k] \in inflight
      <4>1. inflight' = inflight /\ d.at # "download"
        BY <3>1, <3>2, <3>4
      <4> QED
        BY <3>1, <3>2, <3>3, <4>1
    <3>5. CASE MagnetOf[k] \notin inflight
      BY <3>1, <3>2, <3>3, <3>5
    <3> QED
      BY <3>4, <3>5
  <2> QED
    BY <2>1, <2>2
<1> PICK d \in [at : {"download", "wait", "hand"}, key : {k}] :
          /\ downloader' = [downloader EXCEPT ![w] = d]
          /\ UNCHANGED <<magnets, magnetUnfinished>>
          /\ handed' = IF d.at = "hand" THEN [handed EXCEPT ![k] = magnets[k]] ELSE handed
          /\ \/ d.at # "download" /\ inflight' = inflight
             \/ /\ d.at = "download" /\ MagnetOf[k] \notin inflight
                /\ inflight' = inflight \cup {MagnetOf[k]}
  BY <1>6
<1>7. d.key = k /\ d.at \in {"download", "wait", "hand"} /\ MagnetTypes
  BY DEF MagnetIndInv
<1>8. Pending' = Pending
  BY DEF Pending
<1>9. MagnetTypes'
  <2>1. d \in [at : {"get", "download", "wait", "hand", "ended"}, key : Key \cup {NoKey}]
    BY <1>2
  <2>2. handed' \in [Key -> Nat] /\ Pending' \subseteq Key /\ magnets' \in [Pending' -> Nat]
    BY <1>5, <1>7, <1>8 DEF MagnetTypes
  <2> QED
    BY <1>1, <1>2, <1>7, <2>1, <2>2, TurnKeepsTypes
<1>10. ~Busy(w) /\ w \notin BusyOnes /\ \A q : w \notin Working(q)
  BY <1>1 DEF Busy, BusyOnes, Working
<1>0. Turned(w, d)
  BY <1>7, OneTurns
<1>11. BusyOnes' = BusyOnes \cup {w}
  BY <1>0, <1>7, <1>10 DEF Turned
<1>12. \A q : Working(q)' = IF q = k THEN {w} ELSE Working(q)
  <2> SUFFICES ASSUME NEW q PROVE Working(q)' = IF q = k THEN {w} ELSE Working(q)
    OBVIOUS
  <2>0. /\ Working(q)' \ {w} = Working(q) \ {w}
        /\ w \in Working(q)' <=> (d.at \in {"download", "wait", "hand"} /\ d.key = q)
    BY <1>0, Zenon DEF Turned
  <2>1. /\ Working(q)' \ {w} = Working(q) \ {w}
        /\ w \in Working(q)' <=> q = k
    BY <1>7, <2>0, Zenon
  <2>2. w \notin Working(q) /\ (q = k => Working(q) = {})
    BY <1>5, <1>10
  <2>3. CASE q = k
    BY <2>1, <2>2, <2>3
  <2>4. CASE q # k
    BY <2>1, <2>2, <2>4
  <2> QED
    BY <2>3, <2>4
<1>13. \A q : Waiting(q)' = Waiting(q)
  BY <1>1 DEF Waiting, Waiters
<1>14. JobsKept'
  <2> SUFFICES ASSUME NEW q \in Key PROVE KeyKept(q)'
    BY DEF JobsKept, KeyKept
  <2> DEFINE S == Key \cup {StopJob}
  <2>1. jobs \in Seq(S) /\ jobs # <<>>
    BY <1>1, <1>7 DEF MagnetTypes
  <2> HIDE DEF S
  <2>2. KeyKept(q)
    BY <1>3 DEF MagnetIndInv, JobsKept, KeyKept
  <2>3. CASE q = k
    <3>1. Queued(jobs', k) = {}
      <4>0. Queued(jobs, k) = {1}
        BY <1>5
      <4>1. Head(jobs) = k /\ \E i : Queued(jobs, k) = {i}
        BY <4>0, Zenon
      <4>2. Head(jobs) = q /\ (\E i : Queued(jobs, q) = {i}) => Queued(Tail(jobs), q) = {}
        BY <2>1, QueuedTail
      <4> QED
        BY <1>1, <2>3, <4>1, <4>2
    <3>2. Working(k)' = {w} /\ Waiting(k)' = {}
      BY <1>5, <1>12, <1>13
    <3> QED
      BY <1>5, <1>8, <2>3, <3>1, <3>2 DEF KeyKept, HasJob, JobWorked
  <2>4. CASE q # k
    <3>1. Working(q)' = Working(q) /\ Waiting(q)' = Waiting(q)
      BY <1>12, <1>13, <2>4
    <3>2. /\ Queued(jobs, q) = {} => Queued(jobs', q) = {}
          /\ (\E i : Queued(jobs, q) = {i}) => \E i : Queued(jobs', q) = {i}
      <4>1. Head(jobs) # q
        BY <2>4
      <4>2. /\ Queued(jobs, q) = {} => Queued(Tail(jobs), q) = {}
            /\ Head(jobs) # q /\ (\E i : Queued(jobs, q) = {i}) =>
                   \E i : Queued(Tail(jobs), q) = {i}
        BY <2>1, QueuedTail
      <4> QED
        BY <1>1, <4>1, <4>2
    <3> QED
      BY <1>8, <2>2, <3>1, <3>2 DEF KeyKept, HasJob, Jobless, JobWaits, JobQueued, JobWorked
  <2> QED
    BY <2>3, <2>4
<1>15. MostKept'
  <2> SUFFICES ASSUME NEW q \in Key
               PROVE  IF Handing(q)' THEN handed'[q] = brought'[q]
                      ELSE q \in Pending' => magnets'[q] = brought'[q]
    BY DEF MostKept
  <2>1. IF Handing(q) THEN handed[q] = brought[q] ELSE q \in Pending => magnets[q] = brought[q]
    BY <1>3 DEF MagnetIndInv, MostKept
  <2>2. ~Handing(k)
    BY <1>5 DEF Working, Handing, Busy
  <2>3. Handing(q)' <=> Handing(q) \/ (q = k /\ d.at = "hand")
    <3>1. downloader'[w] = d /\ \A v \in MagnetWorker \ {w} : downloader'[v] = downloader[v]
      BY <1>0 DEF Turned
    <3> QED
      BY <1>1, <1>7, <3>1 DEF Handing
  <2>4. CASE q = k
    BY <1>1, <1>5, <1>7, <1>8, <2>1, <2>2, <2>3, <2>4 DEF MagnetTypes
  <2>5. CASE q # k
    BY <1>1, <1>7, <1>8, <2>1, <2>3, <2>5 DEF MagnetTypes
  <2> QED
    BY <2>4, <2>5
<1>16. StopKept'
  <2>1. downloader[w] # NoWorker /\ d.at # "unborn"
    BY <1>1, <1>7 DEF NoWorker
  <2> QED
    BY <1>1, <1>3, <1>7, <2>1, TurnKeepsStop DEF MagnetIndInv
<1>17. UnfinishedKept'
  <2>1. Len(jobs') = Len(jobs) - 1 /\ Len(jobs) \in Nat
    BY <1>1, <1>7 DEF MagnetTypes
  <2>2. Cardinality(BusyOnes') = Cardinality(BusyOnes) + 1
    BY <1>10, <1>11, BusyIsFinite, FS_AddElement
  <2>3. magnetUnfinished = Len(jobs) + Cardinality(BusyOnes)
    BY DEF MagnetIndInv, UnfinishedKept
  <2> QED
    BY <2>1, <2>2, <2>3, BusyIsFinite DEF UnfinishedKept
<1>18. DownloadsKept'
  <2>1. CASE d.at # "download" /\ inflight' = inflight
    BY <1>1, <1>7, <2>1, DownloadsStay DEF MagnetIndInv
  <2>2. CASE /\ d.at = "download" /\ MagnetOf[k] \notin inflight
             /\ inflight' = inflight \cup {MagnetOf[k]}
    BY <1>1, <1>7, <2>2, DownloadsBegin DEF MagnetIndInv
  <2> QED
    BY <2>1, <2>2
<1> QED
  BY <1>9, <1>14, <1>15, <1>16, <1>17, <1>18 DEF MagnetIndInv

\* A worker with a job.
LEMMA WorkLeads ==
    ASSUME MagnetIndInv, NEW w \in MagnetWorker, NEW found \in BOOLEAN,
           Download(w, found) \/ Resume(w, found) \/ Handed(w)
    PROVE  LET k == downloader[w].key IN
           /\ Busy(w) /\ k \in Key /\ magnetStopper \notin {"stops", "stopped"}
           /\ k \in Pending /\ Working(k) = {w} /\ Queued(jobs, k) = {} /\ Waiting(k) = {}
           /\ UNCHANGED <<call, jobs, stopping, magnetStopper, brought>>
           /\ inflight' = IF downloader[w].at = "download"
                          THEN inflight \ {MagnetOf[downloader[w].key]} ELSE inflight
           /\ \/ GivesUpOn(w, k)
              \/ /\ downloader[w].at # "hand" /\ UNCHANGED <<magnets, magnetUnfinished>>
                 /\ downloader' = [downloader EXCEPT ![w] = [at |-> "hand", key |-> k]]
                 /\ handed' = [handed EXCEPT ![k] = magnets[k]]
<1> DEFINE k == downloader[w].key
<1>1. Busy(w)
  BY DEF Download, Resume, Handed, Busy
<1>2. k \in Key /\ magnetStopper \notin {"stops", "stopped"} /\ w \in Working(k)
  BY <1>1 DEF MagnetIndInv, MagnetTypes, StopKept, BusyOnes, Working
<1>3. k \in Pending /\ Working(k) = {w} /\ Queued(jobs, k) = {} /\ Waiting(k) = {}
  BY <1>2, TheOnlyJob
<1>4. UNCHANGED <<call, jobs, stopping, magnetStopper, brought>>
  BY DEF Download, Resume, Handed
<1>5. inflight' = IF downloader[w].at = "download"
                  THEN inflight \ {MagnetOf[downloader[w].key]} ELSE inflight
  BY DEF Download, Resume, Handed
<1>6. GivesUpOn(w, k) \/ (downloader[w].at # "hand" /\ HandsOver(w, k))
  BY DEF Download, Resume, Handed
<1> HIDE DEF k
<1>7. HandsOver(w, k) =>
          /\ UNCHANGED <<magnets, magnetUnfinished>>
          /\ downloader' = [downloader EXCEPT ![w] = [at |-> "hand", key |-> k]]
          /\ handed' = [handed EXCEPT ![k] = magnets[k]]
  BY <1>3 DEF HandsOver
<1> QED
  BY <1>1, <1>2, <1>3, <1>4, <1>5, <1>6, <1>7 DEF k

\* It hands the entry over, or the entry and its job go together.
LEMMA WorkKeeps ==
    ASSUME MagnetIndInv, NEW w \in MagnetWorker, NEW found \in BOOLEAN,
           Download(w, found) \/ Resume(w, found) \/ Handed(w),
           NEW k, k = downloader[w].key
    PROVE  MagnetIndInv'
<1>1. /\ Busy(w) /\ k \in Key /\ magnetStopper \notin {"stops", "stopped"}
      /\ k \in Pending /\ Working(k) = {w} /\ Queued(jobs, k) = {} /\ Waiting(k) = {}
      /\ UNCHANGED <<call, jobs, stopping, magnetStopper, brought>>
      /\ inflight' = IF downloader[w].at = "download"
                     THEN inflight \ {MagnetOf[downloader[w].key]} ELSE inflight
      /\ \/ GivesUpOn(w, k)
         \/ /\ downloader[w].at # "hand" /\ UNCHANGED <<magnets, magnetUnfinished>>
            /\ downloader' = [downloader EXCEPT ![w] = [at |-> "hand", key |-> k]]
            /\ handed' = [handed EXCEPT ![k] = magnets[k]]
  BY WorkLeads
<1>2. MagnetTypes /\ downloader[w] # NoWorker /\ w \in BusyOnes
  BY <1>1 DEF MagnetIndInv, Busy, NoWorker, BusyOnes
<1>3. \A q \in Key : q # k => w \notin Working(q)
  BY DEF Working
<1>4. \A q : Waiting(q)' = Waiting(q)
  BY <1>1 DEF Waiting, Waiters
<1>5. \A q \in Key : KeyKept(q)
  BY <1>1 DEF MagnetIndInv, JobsKept, KeyKept
<1>6. \A q \in Key : IF Handing(q) THEN handed[q] = brought[q]
                     ELSE q \in Pending => magnets[q] = brought[q]
  BY <1>1 DEF MagnetIndInv, MostKept
<1>7. \A v \in MagnetWorker \ {w} : Busy(v) => downloader[v].key # k
  BY <1>1 DEF Working
<1>8. CASE GivesUpOn(w, k)
  <2> DEFINE d == Getting
  <2>1. /\ downloader' = [downloader EXCEPT ![w] = d] /\ magnets' = Popped(magnets, k)
        /\ magnetUnfinished' = magnetUnfinished - 1 /\ handed' = handed
    BY <1>8 DEF GivesUpOn
  <2>2. d \in [at : {"get", "download", "wait", "hand", "ended"}, key : Key \cup {NoKey}]
        /\ d.at = "get"
    BY DEF Getting
  <2> HIDE DEF d
  <2>3. Pending' = Pending \ {k} /\ \A q \in Pending' : magnets'[q] = magnets[q]
    BY <2>1 DEF Pending, Popped
  <2>4. MagnetTypes'
    <3>1. magnets' \in [Pending' -> Nat] /\ Pending' \subseteq Key /\ handed' \in [Key -> Nat]
      BY <1>2, <2>1, <2>3 DEF MagnetTypes, Popped, Pending
    <3> QED
      BY <1>1, <1>2, <2>1, <2>2, <3>1, TurnKeepsTypes
  <2>0. Turned(w, d)
    BY <1>2, <2>1, OneTurns
  <2>5. BusyOnes' = BusyOnes \ {w} /\ \A q : Working(q)' = Working(q) \ {w}
    BY <2>0, <2>2 DEF Turned
  <2>6. JobsKept'
    <3> SUFFICES ASSUME NEW q \in Key PROVE KeyKept(q)'
      BY DEF JobsKept, KeyKept
    <3>1. CASE q = k
      <4>1. Waiting(k)' = {} /\ Working(k)' = {} /\ Queued(jobs', k) = {}
        BY <1>1, <1>4, <2>5
      <4> QED
        BY <2>3, <3>1, <4>1 DEF KeyKept, Jobless
    <3>2. CASE q # k
      <4>1. Working(q)' = Working(q) /\ jobs' = jobs
        BY <1>1, <1>3, <2>5, <3>2
      <4> QED
        BY <1>4, <1>5, <2>3, <3>2, <4>1, SameJobs
    <3> QED
      BY <3>1, <3>2
  <2>7. MostKept'
    <3> SUFFICES ASSUME NEW q \in Key
                 PROVE  IF Handing(q)' THEN handed'[q] = brought'[q]
                        ELSE q \in Pending' => magnets'[q] = brought'[q]
      BY DEF MostKept
    <3>1. downloader'[w] = d /\ \A v \in MagnetWorker \ {w} : downloader'[v] = downloader[v]
      BY <2>0 DEF Turned
    <3>2. Handing(q)' => Handing(q) /\ q # k
      BY <1>7, <2>2, <3>1 DEF Handing, Busy
    <3>3. q # k /\ Handing(q) => Handing(q)'
      BY <2>2, <3>1 DEF Handing
    <3> QED
      BY <1>1, <1>6, <2>1, <2>3, <3>2, <3>3
  <2>8. StopKept'
    BY <1>1, <1>2, <2>1, <2>2, TurnKeepsStop DEF MagnetIndInv
  <2>9. UnfinishedKept'
    <3>1. Cardinality(BusyOnes') = Cardinality(BusyOnes) - 1
      BY <1>2, <2>5, BusyIsFinite, FS_RemoveElement
    <3>2. magnetUnfinished = Len(jobs) + Cardinality(BusyOnes) /\ Len(jobs) \in Nat
      BY <1>2 DEF MagnetIndInv, UnfinishedKept, MagnetTypes
    <3> QED
      BY <1>1, <2>1, <3>1, <3>2, BusyIsFinite DEF UnfinishedKept
  <2>10. DownloadsKept'
    BY <1>1, <1>2, <2>1, <2>2, DownloadsStay DEF MagnetIndInv
  <2> QED
    BY <2>4, <2>6, <2>7, <2>8, <2>9, <2>10 DEF MagnetIndInv
<1>9. CASE /\ downloader[w].at # "hand" /\ UNCHANGED <<magnets, magnetUnfinished>>
           /\ downloader' = [downloader EXCEPT ![w] = [at |-> "hand", key |-> k]]
           /\ handed' = [handed EXCEPT ![k] = magnets[k]]
  <2> DEFINE d == [at |-> "hand", key |-> k]
  <2>1. downloader' = [downloader EXCEPT ![w] = d]
    BY <1>9
  <2>2. d \in [at : {"get", "download", "wait", "hand", "ended"}, key : Key \cup {NoKey}]
        /\ d.at = "hand" /\ d.key = k
    BY <1>1
  <2> HIDE DEF d
  <2>3. Pending' = Pending
    BY <1>9 DEF Pending
  <2>4. MagnetTypes'
    <3>1. magnets' \in [Pending' -> Nat] /\ Pending' \subseteq Key /\ handed' \in [Key -> Nat]
      BY <1>1, <1>2, <1>9, <2>3 DEF MagnetTypes
    <3> QED
      BY <1>1, <1>2, <2>1, <2>2, <3>1, TurnKeepsTypes
  <2>0. Turned(w, d)
    BY <1>2, <2>1, OneTurns
  <2>5. BusyOnes' = BusyOnes /\ \A q \in Key : Working(q)' = Working(q)
    <3>1. BusyOnes' = BusyOnes
      <4>1. w \in BusyOnes' /\ BusyOnes' \ {w} = BusyOnes \ {w}
        BY <2>0, <2>2 DEF Turned
      <4> QED
        BY <1>2, <4>1
    <3>2. ASSUME NEW q \in Key PROVE Working(q)' = Working(q)
      <4>1. /\ Working(q)' \ {w} = Working(q) \ {w}
            /\ w \in Working(q)' <=> q = k
        BY <2>0, <2>2 DEF Turned
      <4>2. w \in Working(q) <=> q = k
        BY <1>1, <1>3
      <4> QED
        BY <4>1, <4>2
    <3> QED
      BY <3>1, <3>2
  <2>6. JobsKept'
    <3> SUFFICES ASSUME NEW q \in Key PROVE KeyKept(q)'
      BY DEF JobsKept, KeyKept
    <3>1. Working(q)' = Working(q) /\ jobs' = jobs
      BY <1>1, <2>5
    <3> QED
      BY <1>4, <1>5, <2>3, <3>1, SameJobs
  <2>7. MostKept'
    <3> SUFFICES ASSUME NEW q \in Key
                 PROVE  IF Handing(q)' THEN handed'[q] = brought'[q]
                        ELSE q \in Pending' => magnets'[q] = brought'[q]
      BY DEF MostKept
    <3>1. downloader'[w] = d /\ \A v \in MagnetWorker \ {w} : downloader'[v] = downloader[v]
      BY <2>0 DEF Turned
    <3>2. ~Handing(k)
      BY <1>7, <1>9 DEF Handing, Busy
    <3>3. /\ Handing(k)'
          /\ q # k => (Handing(q)' <=> Handing(q))
      <4>1. Handing(k)'
        BY <2>2, <3>1 DEF Handing
      <4>2. ASSUME q # k PROVE Handing(q)' <=> Handing(q)
        <5>1. \A v \in MagnetWorker : downloader'[v].at = "hand" /\ downloader'[v].key = q
                                         => v # w
          BY <2>2, <3>1, <4>2
        <5>2. \A v \in MagnetWorker : downloader[v].at = "hand" => v # w
          BY <1>9
        <5> QED
          BY <3>1, <5>1, <5>2 DEF Handing
      <4> QED
        BY <4>1, <4>2
    <3>4. CASE q = k
      BY <1>1, <1>2, <1>6, <1>9, <3>2, <3>3, <3>4 DEF MagnetTypes
    <3>5. CASE q # k
      BY <1>1, <1>2, <1>6, <1>9, <2>3, <3>3, <3>5 DEF MagnetTypes
    <3> QED
      BY <3>4, <3>5
  <2>8. StopKept'
    BY <1>1, <1>2, <2>1, <2>2, TurnKeepsStop DEF MagnetIndInv
  <2>9. UnfinishedKept'
    BY <1>1, <1>9, <2>5 DEF MagnetIndInv, UnfinishedKept
  <2>10. DownloadsKept'
    BY <1>1, <1>2, <2>1, <2>2, DownloadsStay DEF MagnetIndInv
  <2> QED
    BY <2>4, <2>6, <2>7, <2>8, <2>9, <2>10 DEF MagnetIndInv
<1> QED
  BY <1>1, <1>8, <1>9

\* The workers that have ended can be counted.
LEMMA EndedAreCounted ==
    /\ IsFiniteSet(Ended) /\ Cardinality(Ended) \in Nat
    /\ Cardinality(MagnetWorker) \in Nat
<1>1. IsFiniteSet(Ended)
  BY MagnetAssumption, FS_Subset DEF Ended
<1> QED
  BY <1>1, MagnetAssumption, FS_CardinalityType

\* A STOP ends its worker.
LEMMA TakeStopKeeps ==
    ASSUME MagnetIndInv, NEW w \in MagnetWorker, TakeStopJob(w), NEW d,
           d = [at |-> "ended", key |-> NoKey]
    PROVE  MagnetIndInv'
<1>1. /\ downloader[w].at = "get" /\ jobs # <<>> /\ Head(jobs) = StopJob
      /\ jobs' = Tail(jobs) /\ magnetUnfinished' = magnetUnfinished - 1
      /\ downloader' = [downloader EXCEPT ![w] = d]
      /\ UNCHANGED <<call, magnets, inflight, resolved, stopping, magnetStopper,
                     brought, handed>>
  BY DEF TakeStopJob
<1>2. /\ MagnetTypes
      /\ d \in [at : {"get", "download", "wait", "hand", "ended"}, key : Key \cup {NoKey}]
      /\ d.at = "ended" /\ downloader[w] # NoWorker
  BY <1>1 DEF MagnetIndInv, NoWorker
<1>3. Turned(w, d)
  BY <1>1, <1>2, OneTurns
<1>4. Pending' = Pending /\ Waiters' = Waiters
  BY <1>1 DEF Pending, Waiters
<1>5. w \notin BusyOnes /\ \A q : w \notin Working(q)
  BY <1>1 DEF BusyOnes, Working, Busy
<1>6. BusyOnes' = BusyOnes
  <2>1. BusyOnes' \ {w} = BusyOnes \ {w} /\ w \notin BusyOnes'
    BY <1>2, <1>3 DEF Turned
  <2> QED
    BY <1>5, <2>1
<1>7. ASSUME NEW q PROVE Working(q)' = Working(q) /\ Waiting(q)' = Waiting(q)
  <2>1. Working(q)' \ {w} = Working(q) \ {w} /\ w \notin Working(q)'
    BY <1>2, <1>3 DEF Turned
  <2>2. Working(q)' = Working(q)
    BY <1>5, <2>1
  <2> QED
    BY <1>1, <1>4, <2>2 DEF Waiting
<1>8. \A v \in MagnetWorker \ {w} : downloader'[v] = downloader[v]
  BY <1>3 DEF Turned
<1>9. \A q : Handing(q)' <=> Handing(q)
  BY <1>1, <1>2, <1>8 DEF Handing
<1>10. MagnetTypes'
  <2>1. handed' \in [Key -> Nat] /\ Pending' \subseteq Key /\ magnets' \in [Pending' -> Nat]
    BY <1>1, <1>2, <1>4 DEF MagnetTypes
  <2> QED
    BY <1>1, <1>2, <2>1, TurnKeepsTypes
<1>11. Len(jobs') = Len(jobs) - 1 /\ Len(jobs) \in Nat
  BY <1>1, <1>2 DEF MagnetTypes
<1>12. JobsKept'
  <2> SUFFICES ASSUME magnetStopper' # "stopped", NEW q \in Key PROVE KeyKept(q)'
    BY DEF JobsKept, KeyKept
  <2> DEFINE S == Key \cup {StopJob}
  <2>1. jobs \in Seq(S) /\ jobs # <<>>
    BY <1>1, <1>2 DEF MagnetTypes
  <2>2. KeyKept(q)
    BY <1>1 DEF MagnetIndInv, JobsKept, KeyKept
  <2> HIDE DEF S
  <2>3. Head(jobs) # q
    BY <1>1, MagnetAssumption
  <2>4. /\ Queued(jobs, q) = {} => Queued(Tail(jobs), q) = {}
        /\ Head(jobs) # q /\ (\E i : Queued(jobs, q) = {i}) =>
               \E i : Queued(Tail(jobs), q) = {i}
    BY <2>1, QueuedTail
  <2>5. /\ Queued(jobs, q) = {} => Queued(jobs', q) = {}
        /\ (\E i : Queued(jobs, q) = {i}) => \E i : Queued(jobs', q) = {i}
    BY <1>1, <2>3, <2>4
  <2> QED
    BY <1>4, <1>7, <2>2, <2>5 DEF KeyKept, HasJob, Jobless, JobWaits, JobQueued, JobWorked
<1>13. MostKept'
  BY <1>1, <1>4, <1>9 DEF MagnetIndInv, MostKept
<1>14. StopKept'
  <2>1. \A v \in MagnetWorker : downloader[v] # NoWorker
    BY <1>2 DEF MagnetIndInv, StopKept
  <2>2. \A v \in MagnetWorker : downloader'[v] # NoWorker
    BY <1>2, <1>3, <1>8, <2>1 DEF NoWorker, Turned
  <2>3. Ended' = Ended \cup {w} /\ w \notin Ended
    BY <1>1, <1>2, <1>3, <1>8 DEF Ended, Turned
  <2>4. Cardinality(Ended') = Cardinality(Ended) + 1
    BY <2>3, EndedAreCounted, FS_AddElement
  <2>5. magnetStopper' = "stops" =>
            Len(jobs') + Cardinality(Ended') <= Cardinality(MagnetWorker)
    <3>1. magnetStopper = "stops" => Len(jobs) + Cardinality(Ended) <= Cardinality(MagnetWorker)
      BY DEF MagnetIndInv, StopKept
    <3> QED
      BY <1>1, <1>11, <2>4, <3>1, EndedAreCounted
  <2>6. magnetStopper # "stopped"
    BY <1>1 DEF MagnetIndInv, StopKept
  <2>7. magnetStopper = "stops" => \A i \in DOMAIN jobs' : jobs'[i] = StopJob
    <3> SUFFICES ASSUME magnetStopper = "stops", NEW i \in DOMAIN jobs' PROVE jobs'[i] = StopJob
      OBVIOUS
    <3>1. i \in 1..(Len(jobs) - 1) /\ jobs'[i] = jobs[i + 1] /\ i + 1 \in DOMAIN jobs
      BY <1>1, <1>2, <1>11 DEF MagnetTypes
    <3> QED
      BY <3>1 DEF MagnetIndInv, StopKept
  <2>8. stopping <=> magnetStopper # "none"
    BY DEF MagnetIndInv, StopKept
  <2>9. magnetStopper = "stops" => Waiters = {} /\ BusyOnes = {}
    BY DEF MagnetIndInv, StopKept
  <2> QED
    BY <1>1, <1>4, <1>6, <2>2, <2>5, <2>6, <2>7, <2>8, <2>9 DEF StopKept
<1>15. UnfinishedKept'
  <2>1. magnetUnfinished = Len(jobs) + Cardinality(BusyOnes)
    BY DEF MagnetIndInv, UnfinishedKept
  <2> DEFINE n == Cardinality(BusyOnes)
  <2>2. magnetUnfinished = Len(jobs) + n /\ n \in Nat
    BY <2>1, BusyIsFinite
  <2> HIDE DEF n
  <2>3. magnetUnfinished' = Len(jobs') + n
    BY <1>1, <1>11, <2>2
  <2> QED
    BY <1>6, <2>3 DEF UnfinishedKept, n
<1>16. DownloadsKept'
  BY <1>1, <1>2, DownloadsStay DEF MagnetIndInv
<1> QED
  BY <1>10, <1>12, <1>13, <1>14, <1>15, <1>16 DEF MagnetIndInv

\* There is no more than one STOP for each worker.
LEMMA PutStopKeeps ==
    ASSUME MagnetIndInv, PutMagnetStop
    PROVE  MagnetIndInv'
<1>1. /\ magnetStopper = "stops" /\ Len(jobs) < QueueSize
      /\ Cardinality(Stops) + Cardinality(Ended) < Cardinality(MagnetWorker)
      /\ jobs' = Append(jobs, StopJob) /\ magnetUnfinished' = magnetUnfinished + 1
      /\ UNCHANGED <<call, magnets, downloader, inflight, resolved, stopping, magnetStopper,
                     brought, handed>>
  BY DEF PutMagnetStop, StopsMissing
<1>2. Pending' = Pending /\ Waiters' = Waiters /\ \A q : Waiting(q)' = Waiting(q)
  BY <1>1 DEF Pending, Waiters, Waiting
<1>3. Len(jobs) \in Nat /\ Len(jobs') = Len(jobs) + 1 /\ jobs \in Seq(Key \cup {StopJob})
      /\ DOMAIN jobs = 1..Len(jobs) /\ DOMAIN jobs' = 1..(Len(jobs) + 1)
      /\ jobs'[Len(jobs) + 1] = StopJob /\ \A i \in 1..Len(jobs) : jobs'[i] = jobs[i]
  BY <1>1 DEF MagnetIndInv, MagnetTypes
<1>4. \A i \in DOMAIN jobs : jobs[i] = StopJob
  BY <1>1 DEF MagnetIndInv, StopKept
<1>5. Cardinality(Stops) = Len(jobs)
  <2>1. Stops = 1..Len(jobs)
    BY <1>3, <1>4 DEF Stops
  <2>2. Cardinality(1..Len(jobs)) = Len(jobs)
    <3> DEFINE n == Len(jobs)
    <3>1. n \in Nat
      BY <1>3
    <3> HIDE DEF n
    <3>2. Cardinality(1..n) = IF 1 > n THEN 0 ELSE n - 1 + 1
      BY <3>1, FS_Interval
    <3>3. Cardinality(1..n) = n
      BY <3>1, <3>2
    <3> QED
      BY <3>3 DEF n
  <2> QED
    BY <2>1, <2>2
<1>6. MagnetTypes'
  <2>1. jobs' \in Seq(Key \cup {StopJob})
    BY <1>1, <1>3
  <2>2. Len(jobs') <= QueueSize
    BY <1>1, <1>3, MagnetAssumption
  <2> QED
    BY <1>1, <1>2, <2>1, <2>2, SameDownloaders DEF MagnetIndInv, MagnetTypes
<1>7. JobsKept'
  <2> SUFFICES ASSUME NEW q \in Key PROVE KeyKept(q)'
    BY DEF JobsKept, KeyKept
  <2>1. KeyKept(q)
    BY <1>1 DEF MagnetIndInv, JobsKept, KeyKept
  <2>2. q # StopJob
    BY MagnetAssumption
  <2> DEFINE S == Key \cup {StopJob}
  <2>3. jobs \in Seq(S) /\ StopJob \in S
    BY <1>3
  <2> HIDE DEF S
  <2>4. Queued(Append(jobs, StopJob), q) = IF StopJob = q THEN Queued(jobs, q) \cup {Len(jobs) + 1}
                                           ELSE Queued(jobs, q)
    BY <2>3, QueuedAppend
  <2>5. Queued(jobs', q) = Queued(jobs, q)
    BY <1>1, <2>2, <2>4
  <2> QED
    BY <1>1, <1>2, <2>1, <2>5, SameJobs, SameDownloaders
<1>8. MostKept'
  BY <1>1, <1>2, SameDownloaders DEF MagnetIndInv, MostKept
<1>9. StopKept'
  <2>1. Len(jobs') + Cardinality(Ended) <= Cardinality(MagnetWorker)
    BY <1>1, <1>3, <1>5, EndedAreCounted
  <2>2. Ended' = Ended /\ BusyOnes' = BusyOnes
    BY <1>1, SameDownloaders
  <2>3. \A i \in DOMAIN jobs' : jobs'[i] = StopJob
    BY <1>3, <1>4
  <2>4. Waiters = {} /\ BusyOnes = {} /\ (stopping <=> magnetStopper # "none")
        /\ \A w \in MagnetWorker : downloader[w] # NoWorker
    BY <1>1 DEF MagnetIndInv, StopKept
  <2> QED
    BY <1>1, <1>2, <2>1, <2>2, <2>3, <2>4 DEF StopKept
<1>10. UnfinishedKept'
  <2>1. magnetUnfinished = Len(jobs) + Cardinality(BusyOnes)
    BY DEF MagnetIndInv, UnfinishedKept
  <2> DEFINE n == Cardinality(BusyOnes)
  <2>2. magnetUnfinished = Len(jobs) + n /\ n \in Nat
    BY <2>1, BusyIsFinite
  <2>3. BusyOnes' = BusyOnes
    BY <1>1, SameDownloaders
  <2> HIDE DEF n
  <2>4. magnetUnfinished' = Len(jobs') + n
    BY <1>1, <1>3, <2>2
  <2> QED
    BY <2>3, <2>4 DEF UnfinishedKept, n
<1>11. DownloadsKept'
  BY <1>1, SameDownloaders DEF MagnetIndInv
<1> QED
  BY <1>6, <1>7, <1>8, <1>9, <1>10, <1>11 DEF MagnetIndInv

\* stop() returns, with nothing left behind.
LEMMA StoppedKeeps ==
    ASSUME MagnetIndInv, magnetStopper' = "stopped", stopping' = TRUE, magnets' = <<>>,
           jobs = <<>>, Waiters = {}, BusyOnes = {},
           UNCHANGED <<call, jobs, magnetUnfinished, downloader, inflight, brought, handed>>
    PROVE  MagnetIndInv'
<1>1. Pending' = {} /\ magnets' \in [Pending' -> Nat]
  BY DEF Pending
<1>2. Waiters' = Waiters
  BY DEF Waiters
<1>3. MagnetTypes'
  BY <1>1, SameDownloaders DEF MagnetIndInv, MagnetTypes
<1>4. JobsKept' /\ MostKept'
  BY DEF JobsKept, MostKept
<1>5. UnfinishedKept' /\ DownloadsKept'
  BY SameDownloaders DEF MagnetIndInv, UnfinishedKept
<1>6. StopKept'
  <2>1. BusyOnes' = {} /\ Ended' = Ended /\ Waiters' = {} /\ jobs' = <<>>
    BY <1>2, SameDownloaders
  <2>2. (\E w \in MagnetWorker : downloader[w] = NoWorker) =>
            \A w \in MagnetWorker : downloader[w] = NoWorker
    BY DEF MagnetIndInv, StopKept
  <2> QED
    BY <2>1, <2>2 DEF StopKept
<1> QED
  BY <1>3, <1>4, <1>5, <1>6 DEF MagnetIndInv

\* When every worker has ended, no STOP is left.
LEMMA ReturnStopKeeps ==
    ASSUME MagnetIndInv, ReturnFromStop
    PROVE  MagnetIndInv'
<1>1. /\ magnetStopper = "stops" /\ Ended = MagnetWorker
      /\ magnetStopper' = "stopped" /\ magnets' = <<>>
      /\ UNCHANGED <<call, jobs, magnetUnfinished, downloader, inflight, resolved, stopping,
                     brought, handed>>
  BY DEF ReturnFromStop
<1>2. /\ stopping /\ stopping \in BOOLEAN /\ Waiters = {} /\ BusyOnes = {}
      /\ Len(jobs) + Cardinality(MagnetWorker) <= Cardinality(MagnetWorker)
  BY <1>1 DEF MagnetIndInv, StopKept, MagnetTypes
<1>3. Len(jobs) = 0
  <2>1. Len(jobs) \in Nat
    BY DEF MagnetIndInv, MagnetTypes
  <2> QED
    BY <1>2, <2>1, EndedAreCounted
<1>4. jobs = <<>>
  BY <1>3 DEF MagnetIndInv, MagnetTypes
<1> QED
  BY <1>1, <1>2, <1>4, StoppedKeeps

\* stop() is called.
LEMMA StopKeeps ==
    ASSUME MagnetIndInv, StopMagnets
    PROVE  MagnetIndInv'
<1>1. /\ magnetStopper = "none" /\ stopping' = TRUE
      /\ UNCHANGED <<call, jobs, magnetUnfinished, downloader, inflight, resolved, brought,
                     handed>>
  BY DEF StopMagnets
<1>2. CASE /\ \A w \in MagnetWorker : downloader[w] = NoWorker
           /\ magnetStopper' = "stopped" /\ magnets' = <<>>
  <2>1. BusyOnes = {}
    BY <1>2 DEF BusyOnes, Busy, NoWorker
  <2>2. jobs = <<>> /\ Waiters = {}
    BY <1>2, MagnetAssumption DEF MagnetIndInv, StopKept
  <2> QED
    BY <1>1, <1>2, <2>1, <2>2, StoppedKeeps
<1>3. CASE /\ \E w \in MagnetWorker : downloader[w] # NoWorker
           /\ magnetStopper' = "draining" /\ UNCHANGED magnets
  <2>1. Pending' = Pending /\ Waiters' = Waiters /\ \A q : Waiting(q)' = Waiting(q)
    BY <1>1, <1>3 DEF Pending, Waiters, Waiting
  <2>2. MagnetTypes'
    BY <1>1, <1>3, <2>1, SameDownloaders DEF MagnetIndInv, MagnetTypes
  <2>3. JobsKept'
    <3> SUFFICES ASSUME NEW q \in Key PROVE KeyKept(q)'
      BY DEF JobsKept, KeyKept
    <3>1. KeyKept(q)
      BY <1>1 DEF MagnetIndInv, JobsKept, KeyKept
    <3> QED
      BY <1>1, <2>1, <3>1, SameJobs, SameDownloaders
  <2>4. MostKept'
    BY <1>1, <1>3, <2>1, SameDownloaders DEF MagnetIndInv, MostKept
  <2>5. UnfinishedKept' /\ DownloadsKept'
    BY <1>1, SameDownloaders DEF MagnetIndInv, UnfinishedKept
  <2>6. StopKept'
    <3>1. \A w \in MagnetWorker : downloader[w] # NoWorker
      BY <1>3 DEF MagnetIndInv, StopKept
    <3> QED
      BY <1>1, <1>3, <3>1 DEF StopKept
  <2> QED
    BY <2>2, <2>3, <2>4, <2>5, <2>6 DEF MagnetIndInv
<1> QED
  BY <1>2, <1>3 DEF StopMagnets

\* Every step keeps it.
LEMMA MagnetStep == MagnetIndInv /\ [MagnetNext]_magnetVars => MagnetIndInv'
<1> SUFFICES ASSUME MagnetIndInv, [MagnetNext]_magnetVars PROVE MagnetIndInv'
  OBVIOUS
<1>0. call \in [MagnetCall -> {"new", "returned", "waiting", "cancelled"}]
  BY DEF MagnetIndInv, MagnetTypes
<1>1. CASE UNCHANGED magnetVars
  <2>1. UNCHANGED <<call, magnets, jobs, magnetUnfinished, downloader, inflight, stopping,
                    magnetStopper, brought, handed>>
    BY <1>1 DEF magnetVars
  <2>2. Waiters' = Waiters
    BY <2>1 DEF Waiters
  <2> QED
    BY <1>0, <2>1, <2>2, MagnetsStay
<1>2. ASSUME NEW c \in MagnetCall, Merge(c) PROVE MagnetIndInv'
  BY <1>2, MergeKeeps
<1>3. ASSUME NEW c \in MagnetCall, Enter(c) PROVE MagnetIndInv'
  BY <1>3, EnterKeeps
<1>4. ASSUME NEW c \in MagnetCall, PutMagnet(c) PROVE MagnetIndInv'
  BY <1>4, PutKeeps
<1>5. ASSUME NEW c \in MagnetCall, CancelCall(c) PROVE MagnetIndInv'
  BY <1>5, CancelKeeps
<1>6. ASSUME NEW c \in MagnetCall, TooLate(c) PROVE MagnetIndInv'
  <2>1. /\ call[c] = "new" /\ call' = [call EXCEPT ![c] = "returned"]
        /\ UNCHANGED <<magnets, jobs, magnetUnfinished, downloader, inflight, stopping,
                       magnetStopper, brought, handed>>
    BY <1>6 DEF TooLate
  <2>2. Waiters' = Waiters
    BY <1>0, <2>1 DEF Waiters
  <2>3. call' \in [MagnetCall -> {"new", "returned", "waiting", "cancelled"}]
    BY <1>0, <2>1
  <2> QED
    BY <2>1, <2>2, <2>3, MagnetsStay
<1>7. ASSUME NEW w \in MagnetWorker, TakeMagnet(w) PROVE MagnetIndInv'
  BY <1>7, TakeMagnetKeeps
<1>8. ASSUME NEW w \in MagnetWorker, NEW found \in BOOLEAN,
             Download(w, found) \/ Resume(w, found) \/ Handed(w)
      PROVE  MagnetIndInv'
  BY <1>8, WorkKeeps
<1>9. ASSUME NEW w \in MagnetWorker, TakeStopJob(w) PROVE MagnetIndInv'
  BY <1>9, TakeStopKeeps
<1>10. ASSUME NEW k \in Key, Prune(MagnetOf[k]) PROVE MagnetIndInv'
  <2>1. UNCHANGED <<call, magnets, jobs, magnetUnfinished, downloader, inflight, stopping,
                    magnetStopper, brought, handed>>
    BY <1>10 DEF Prune
  <2>2. Waiters' = Waiters
    BY <2>1 DEF Waiters
  <2> QED
    BY <1>0, <2>1, <2>2, MagnetsStay
<1>11. CASE StopMagnets
  BY <1>11, StopKeeps
<1>12. CASE PutStops
  <2>1. /\ magnetStopper = "draining" /\ magnetStopper' = "stops"
        /\ magnetUnfinished = 0 /\ Waiters = {}
        /\ UNCHANGED <<call, magnets, jobs, magnetUnfinished, downloader, inflight, stopping,
                       brought, handed>>
    BY <1>12 DEF PutStops, Drained
  <2>2. Waiters' = Waiters
    BY <2>1 DEF Waiters
  <2> QED
    BY <1>0, <2>1, <2>2, MagnetsStay
<1>13. CASE PutMagnetStop
  BY <1>13, PutStopKeeps
<1>14. CASE ReturnFromStop
  BY <1>14, ReturnStopKeeps
<1>15. TRUE \in BOOLEAN
  OBVIOUS
<1> QED
  BY <1>1, <1>2, <1>3, <1>4, <1>5, <1>6, <1>7, <1>8, <1>9, <1>10, <1>11, <1>12, <1>13, <1>14,
     <1>15 DEF MagnetNext, MagnetWorks, MagnetStops

LEMMA FuturesNext == FuturesTyped /\ [MagnetNext]_magnetVars => FuturesTyped'
<1> SUFFICES ASSUME FuturesTyped, [MagnetNext]_magnetVars PROVE FuturesTyped'
  OBVIOUS
<1>1. ASSUME NEW w \in MagnetWorker, NEW found \in BOOLEAN, Download(w, found)
      PROVE  FuturesTyped'
  BY <1>1 DEF Download, Woken, FuturesTyped
<1>2. ASSUME NEW w \in MagnetWorker, NEW found \in BOOLEAN, Resume(w, found)
      PROVE  FuturesTyped'
  BY <1>2 DEF Resume, FuturesTyped
<1>3. CASE UNCHANGED futureOf
  BY <1>3 DEF FuturesTyped
<1>4. ASSUME NEW w \in MagnetWorker, TakeMagnet(w) \/ Handed(w) \/ TakeStopJob(w)
      PROVE  UNCHANGED futureOf
  BY <1>4 DEF TakeMagnet, Handed, TakeStopJob
<1>5. ASSUME NEW c \in MagnetCall,
             Merge(c) \/ Enter(c) \/ PutMagnet(c) \/ CancelCall(c) \/ TooLate(c)
      PROVE  UNCHANGED futureOf
  BY <1>5 DEF Merge, Enter, PutMagnet, CancelCall, TooLate
<1>6. CASE \/ \E k \in Key : Prune(MagnetOf[k])
           \/ StopMagnets \/ MagnetStops \/ UNCHANGED magnetVars
  BY <1>3, <1>6 DEF Prune, StopMagnets, MagnetStops, PutStops, PutMagnetStop, ReturnFromStop,
                    magnetVars
<1> QED
  BY <1>1, <1>2, <1>3, <1>4, <1>5, <1>6 DEF MagnetNext, MagnetWorks

\* Every entry of _pending_torrents has exactly one job, in a call that waits, in
\* the queue or at a worker; what is handed over has the most seeders that were
\* brought; and nothing that was accepted is left when stop() returns: however
\* many calls, workers and magnets there are, whichever downloads fail, and
\* whichever calls are cancelled while they wait for room.
THEOREM MagnetsHaveOneJob == MagnetSpec => []MagnetInv
<1>1. MagnetInit => FuturesTyped
  BY DEF MagnetInit, FuturesTyped
<1> QED
  BY <1>1, MagnetBegins, MagnetStep, FuturesNext, MagnetGives, PTL DEF MagnetSpec
=============================================================================
