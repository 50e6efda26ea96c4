----------------------- MODULE ExtractionQueueProofs -----------------------
(***************************************************************************)
(* What holds of the extraction queue for any items, queue, retries, batch *)
(* size, tasks and callers: what is in a batch is marked, and counted once *)
(* more than it has failed; what waits or is in a batch is in the queue or *)
(* was discarded; and whoever runs is known, awaited or forgotten.  From   *)
(* that, the queue with all its loops is one list of work.                 *)
(***************************************************************************)
EXTENDS ExtractionQueue, FiniteSetTheorems, NaturalsInduction, WellFoundedInduction, TLAPS

Statuses == {"new", "pending", "processing", "completed", "failed"}

TypeOK ==
    /\ queue \subseteq Items
    /\ status \in [Items -> Statuses]
    /\ retries \in [Items -> Nat] /\ attempts \in [Items -> Nat]
    /\ processing \in BOOLEAN
    /\ task \in Loops \cup {NoLoop}
    /\ loops \in [Loops -> Loop]
    /\ awaited \in [Stoppers -> Loops \cup {NoLoop}]

\* An item in a batch is marked, and this attempt is one more than its failures.
BatchesAreMarked ==
    \A l \in Loops : \A i \in loops[l].batch :
        status[i] = "processing" /\ attempts[i] = retries[i] + 1

\* What waits has been tried as often as it has failed, and may be tried again.
WaitingMayBeTried ==
    \A i \in Items : status[i] \in {"new", "pending"} =>
        attempts[i] = retries[i] /\ retries[i] < MaxRetries

\* A loop that runs is the queue's task, or a stop waits for it, or it was forgotten.
RunningIsKnown ==
    \A l \in Loops : Live(l) =>
        l = task \/ l \in forgotten \/ \E s \in Stoppers : awaited[s] = l

\* A stop that began waits for the queue's task.
TaskIsAwaited ==
    ~processing => task = NoLoop \/ \E s \in Stoppers : awaited[s] = task

BatchInv == BatchesAreMarked /\ WaitingMayBeTried /\ ProcessedInTurn
StopInv == RunningIsKnown /\ TaskIsAwaited

-----------------------------------------------------------------------------
\* A record of a loop has the type of one.
LEMMA LoopFacts ==
    ASSUME NEW w \in {"fresh", "ready", "processing", "done"}, NEW b \in SUBSET Items,
           NEW c \in BOOLEAN
    PROVE  /\ At(w, b, c) \in Loop
           /\ At(w, b, c).at = w /\ At(w, b, c).batch = b /\ At(w, b, c).cancelled = c
  BY DEF At, Loop

\* A loop without a batch has the type of one.
LEMMA IdleFacts ==
    ASSUME NEW w \in {"fresh", "ready", "done"}
    PROVE  At(w, {}, FALSE) \in Loop
  BY DEF At, Loop

\* The first state is typed, nothing is in a batch and nothing runs.
LEMMA InitHolds == Init => TypeOK /\ BatchInv /\ StopInv
  <1> SUFFICES ASSUME Init PROVE TypeOK /\ BatchInv /\ StopInv
    OBVIOUS
  <1>1. \A l \in Loops : loops[l].at = "fresh" /\ loops[l].batch = {} /\ loops[l] \in Loop
    BY IdleFacts DEF Init, At
  <1>2. TypeOK
    BY <1>1 DEF Init, TypeOK, Statuses
  <1>3. BatchInv
    <2>1. \A i \in Items : attempts[i] = 0 /\ retries[i] = 0 /\ 0 < MaxRetries
      BY QueueAssumption DEF Init
    <2>2. WaitingMayBeTried /\ AttemptsBounded
      BY <2>1, QueueAssumption DEF WaitingMayBeTried, AttemptsBounded
    <2>3. BatchesAreMarked /\ OneOwner
      BY <1>1 DEF BatchesAreMarked, OneOwner
    <2> QED
      BY <2>2, <2>3 DEF BatchInv, ProcessedInTurn
  <1>4. StopInv
    BY <1>1 DEF Init, StopInv, RunningIsKnown, TaskIsAwaited, Live
  <1> QED
    BY <1>2, <1>3, <1>4

\* A stop changes the loop it cancels in nothing but that.
LEMMA StopBeginsFacts ==
    ASSUME TypeOK, NEW s \in Stoppers, StopBegins(s)
    PROVE  /\ loops' \in [Loops -> Loop]
           /\ \A l \in Loops : loops'[l].at = loops[l].at /\ loops'[l].batch = loops[l].batch
  BY DEF TypeOK, StopBegins, At, Loop

\* The next batch is of items that are pending.
LEMMA NextBatchFacts ==
    ASSUME TypeOK PROVE NextBatch \subseteq {i \in Items : status[i] = "pending"}
  BY DEF NextBatch, Pending, IsPending, TypeOK

\* Every step keeps the types.
LEMMA TypesHold == ASSUME TypeOK, [Next]_vars PROVE TypeOK'
  <1>1. ASSUME NEW i \in Items, Enqueue(i) PROVE TypeOK'
    BY <1>1 DEF Enqueue, TypeOK, Statuses, switch
  <1>2. CASE Clear
    BY <1>2 DEF Clear, TypeOK, switch
  <1>3. ASSUME NEW l \in Loops, StartProcessing(l) PROVE TypeOK'
    BY <1>3, IdleFacts DEF StartProcessing, TypeOK, items
  <1>4. ASSUME NEW l \in Loops, LoopEnds(l) \/ LoopIsCancelled(l) PROVE TypeOK'
    BY <1>4, IdleFacts DEF LoopEnds, LoopIsCancelled, TypeOK, items, switch
  <1>5. ASSUME NEW l \in Loops, LoopTakes(l) PROVE TypeOK'
    <2>1. At("processing", NextBatch, FALSE) \in Loop
      BY NextBatchFacts, LoopFacts
    <2>2. loops' \in [Loops -> Loop]
      BY <1>5, <2>1 DEF LoopTakes, TypeOK
    <2>3. status' \in [Items -> Statuses] /\ attempts' \in [Items -> Nat]
      BY <1>5 DEF LoopTakes, TypeOK, Statuses
    <2> QED
      BY <1>5, <2>2, <2>3 DEF LoopTakes, TypeOK, switch
  <1>6. ASSUME NEW l \in Loops, LoopCleansUp(l) PROVE TypeOK'
    BY <1>6, IdleFacts DEF LoopCleansUp, Kept, TypeOK, switch
  <1>7. ASSUME NEW l \in Loops, ProcessorStep(l) PROVE TypeOK'
    <2>1. loops' \in [Loops -> Loop]
      BY <1>7, IdleFacts DEF ProcessorStep, ProcessorReturns, ProcessorRaises, Sleeps, TypeOK
    <2>2. status' \in [Items -> Statuses] /\ retries' \in [Items -> Nat]
      BY <1>7 DEF ProcessorStep, ProcessorReturns, ProcessorRaises, TypeOK, Statuses
    <2> QED
      BY <1>7, <2>1, <2>2 DEF ProcessorStep, ProcessorReturns, ProcessorRaises, TypeOK, switch
  <1>8. ASSUME NEW s \in Stoppers, StopBegins(s) PROVE TypeOK'
    BY <1>8, StopBeginsFacts DEF StopBegins, TypeOK, items
  <1>9. ASSUME NEW s \in Stoppers, StopEnds(s) PROVE TypeOK'
    BY <1>9 DEF StopEnds, StopForgets, TypeOK, items
  <1>10. CASE UNCHANGED vars
    BY <1>10 DEF vars, items, switch, TypeOK
  <1> QED
    BY <1>1, <1>2, <1>3, <1>4, <1>5, <1>6, <1>7, <1>8, <1>9, <1>10 DEF Next, LoopStep

-----------------------------------------------------------------------------
\* Steps that mark, count and take nothing keep what is known of batches.
LEMMA BatchesOnlyShrink ==
    ASSUME TypeOK, BatchInv, UNCHANGED <<status, retries, attempts>>,
           \A l \in Loops : loops'[l].batch \subseteq loops[l].batch
    PROVE  BatchInv'
  BY DEF TypeOK, Loop, BatchInv, BatchesAreMarked, WaitingMayBeTried, ProcessedInTurn,
         OneOwner, AttemptsBounded

\* What is taken was pending, so it is in no other batch and is tried once more.
LEMMA TakingKeeps ==
    ASSUME TypeOK, BatchInv, NEW l \in Loops, LoopTakes(l) PROVE BatchInv'
  <1>1. /\ loops'[l].batch = NextBatch
        /\ \A m \in Loops \ {l} : loops'[m] = loops[m]
    BY DEF LoopTakes, TypeOK, At
  <1>2. \A i \in NextBatch :
            i \in Items /\ status[i] = "pending" /\ attempts[i] = retries[i] /\ retries[i] < MaxRetries
    BY NextBatchFacts DEF BatchInv, WaitingMayBeTried
  <1>3. \A i \in Items :
            /\ i \in NextBatch => status'[i] = "processing" /\ attempts'[i] = attempts[i] + 1
            /\ i \notin NextBatch => status'[i] = status[i] /\ attempts'[i] = attempts[i]
            /\ retries'[i] = retries[i]
    BY DEF LoopTakes, TypeOK
  <1>4. \A m \in Loops \ {l} : loops[m].batch \cap NextBatch = {} /\ loops[m].batch \subseteq Items
    BY <1>2 DEF BatchInv, BatchesAreMarked, TypeOK, Loop
  <1>5. BatchesAreMarked'
    <2> SUFFICES ASSUME NEW m \in Loops, NEW i \in loops'[m].batch
                 PROVE  status'[i] = "processing" /\ attempts'[i] = retries'[i] + 1
      BY DEF BatchesAreMarked
    <2>1. CASE m = l
      BY <2>1, <1>1, <1>2, <1>3
    <2>2. CASE m # l
      BY <2>2, <1>1, <1>3, <1>4 DEF BatchInv, BatchesAreMarked
    <2> QED
      BY <2>1, <2>2
  <1>6. WaitingMayBeTried'
    BY <1>3 DEF BatchInv, WaitingMayBeTried, LoopTakes
  <1>7. OneOwner'
    BY <1>1, <1>4 DEF BatchInv, ProcessedInTurn, OneOwner
  <1>8. AttemptsBounded'
    BY <1>2, <1>3, QueueAssumption DEF BatchInv, ProcessedInTurn, AttemptsBounded, TypeOK
  <1> QED
    BY <1>5, <1>6, <1>7, <1>8 DEF BatchInv, ProcessedInTurn

\* What a processor has done with its batch leaves the other batches alone.
LEMMA ProcessorKeeps ==
    ASSUME TypeOK, BatchInv, NEW l \in Loops, ProcessorStep(l) PROVE BatchInv'
  <1>1. /\ loops'[l].batch = {} /\ attempts' = attempts
        /\ \A m \in Loops \ {l} : loops'[m] = loops[m]
    BY DEF ProcessorStep, ProcessorReturns, ProcessorRaises, Sleeps, TypeOK, At
  <1>2. \A i \in Items \ loops[l].batch : status'[i] = status[i] /\ retries'[i] = retries[i]
    BY DEF ProcessorStep, ProcessorReturns, ProcessorRaises, TypeOK
  <1>3. \A i \in loops[l].batch :
            /\ i \in Items
            /\ status'[i] \in {"new", "pending"} =>
                   retries'[i] = retries[i] + 1 /\ retries'[i] < MaxRetries
    BY QueueAssumption DEF ProcessorStep, ProcessorReturns, ProcessorRaises, TypeOK, Loop
  <1>4. \A m \in Loops \ {l} :
            loops[m].batch \cap loops[l].batch = {} /\ loops[m].batch \subseteq Items
    BY DEF BatchInv, ProcessedInTurn, OneOwner, TypeOK, Loop
  <1>5. BatchesAreMarked'
    BY <1>1, <1>2, <1>4 DEF BatchInv, BatchesAreMarked
  <1>6. WaitingMayBeTried'
    BY <1>1, <1>2, <1>3 DEF BatchInv, WaitingMayBeTried, BatchesAreMarked
  <1>7. ProcessedInTurn'
    BY <1>1 DEF BatchInv, ProcessedInTurn, OneOwner, AttemptsBounded
  <1> QED
    BY <1>5, <1>6, <1>7 DEF BatchInv

\* Every step keeps what is known of the batches.
LEMMA BatchesHold == TypeOK /\ BatchInv /\ [Next]_vars => TypeOK' /\ BatchInv'
  <1> SUFFICES ASSUME TypeOK, BatchInv, [Next]_vars PROVE BatchInv'
    BY TypesHold
  <1>1. ASSUME NEW i \in Items, Enqueue(i) PROVE BatchInv'
    <2>1. status' = [status EXCEPT ![i] = "pending"] /\ status[i] = "new"
      BY <1>1 DEF Enqueue
    <2>2. UNCHANGED <<retries, attempts, loops>>
      BY <1>1 DEF Enqueue
    <2>3. \A l \in Loops : i \notin loops[l].batch
      BY <2>1 DEF BatchInv, BatchesAreMarked
    <2> QED
      BY <2>1, <2>2, <2>3 DEF TypeOK, Loop, BatchInv, BatchesAreMarked, WaitingMayBeTried,
                              ProcessedInTurn, OneOwner, AttemptsBounded
  <1>2. CASE Clear \/ UNCHANGED vars
    BY <1>2, BatchesOnlyShrink DEF Clear, vars, items
  <1>3. ASSUME NEW l \in Loops, LoopTakes(l) PROVE BatchInv'
    BY <1>3, TakingKeeps
  <1>4. ASSUME NEW l \in Loops,
               StartProcessing(l) \/ LoopEnds(l) \/ LoopIsCancelled(l) \/ LoopCleansUp(l)
        PROVE  BatchInv'
    <2>1. UNCHANGED <<status, retries, attempts>>
      BY <1>4 DEF StartProcessing, LoopEnds, LoopIsCancelled, LoopCleansUp, items
    <2>2. \A m \in Loops : loops'[m].batch \subseteq loops[m].batch
      BY <1>4 DEF StartProcessing, LoopEnds, LoopIsCancelled, LoopCleansUp, TypeOK, At
    <2> QED
      BY <2>1, <2>2, BatchesOnlyShrink
  <1>5. ASSUME NEW l \in Loops, ProcessorStep(l) PROVE BatchInv'
    BY <1>5, ProcessorKeeps
  <1>6. ASSUME NEW s \in Stoppers, StopBegins(s) \/ StopEnds(s) PROVE BatchInv'
    <2>1. \A l \in Loops : loops'[l].batch = loops[l].batch
      BY <1>6, StopBeginsFacts DEF StopEnds, StopForgets
    <2> QED
      BY <1>6, <2>1, BatchesOnlyShrink DEF StopBegins, StopEnds, StopForgets, items
  <1> QED
    BY <1>1, <1>2, <1>3, <1>4, <1>5, <1>6 DEF Next, LoopStep

\* process_batch and _process_loop: for any loops, batches, retries and stops, an item is
\* in the hands of one processor at a time, and at most MAX_RETRIES times.
THEOREM EachInTurn == Spec => []ProcessedInTurn
  <1>1. Init => TypeOK /\ BatchInv
    BY InitHolds
  <1>2. TypeOK /\ BatchInv /\ [Next]_vars => TypeOK' /\ BatchInv'
    BY BatchesHold
  <1>3. BatchInv => ProcessedInTurn
    BY DEF BatchInv
  <1> QED
    BY <1>1, <1>2, <1>3, PTL DEF Spec

-----------------------------------------------------------------------------
\* What waits, and what a batch may give back, is in the queue or was discarded.
NothingIsLost ==
    \A i \in Items : status[i] \in {"pending", "processing"} => i \in queue \cup discarded

PlaceInv == Cardinality(queue) <= MaxQueue /\ NothingIsLost

\* A set of items has a first one.
LEMMA MinOfItems ==
    ASSUME NEW S \in SUBSET Items, S # {}
    PROVE  Min(S) \in S /\ \A x \in S : Min(S) <= x
  <1>1. S \subseteq Nat /\ QueueAssumption
    BY QueueAssumption DEF Items
  <1>2. PICK x \in S : \A y \in S : ~(<<y, x>> \in OpToRel(<, Nat))
    BY <1>1, NatLessThanWellFounded, WFMin
  <1>3. \A y \in S : x <= y
    <2>1. \A y \in S : ~(y < x)
      BY <1>1, <1>2 DEF OpToRel
    <2> QED
      BY <1>1, <2>1
  <1> QED
    BY <1>3 DEF Min

\* The queue is finite, and never grows but by one item.
LEMMA QueueCounts ==
    ASSUME TypeOK
    PROVE  /\ IsFiniteSet(queue) /\ Cardinality(queue) \in Nat
           /\ \A Q \in SUBSET queue : Cardinality(Q) <= Cardinality(queue)
  <1>1. IsFiniteSet(Items)
    BY QueueAssumption, FS_Interval DEF Items
  <1>2. IsFiniteSet(queue)
    BY <1>1, FS_Subset DEF TypeOK
  <1> QED
    BY <1>2, FS_CardinalityType, FS_Subset

\* enqueue makes room before it appends, unless there is some.
LEMMA EnqueueFits ==
    ASSUME TypeOK, Cardinality(queue) <= MaxQueue, NEW i \in Items, Enqueue(i)
    PROVE  Cardinality(queue') <= MaxQueue
  <1>1. queue' = (queue \ Dropped) \cup {i}
    BY DEF Enqueue
  <1>2. /\ IsFiniteSet(queue) /\ Cardinality(queue) \in Nat /\ MaxQueue \in Nat \ {0}
        /\ queue \subseteq Items
    BY QueueCounts, QueueAssumption DEF TypeOK
  <1>3. IsFiniteSet(queue \ Dropped) /\ Cardinality(queue \ Dropped) < MaxQueue
    <2>1. CASE Cardinality(queue) < MaxQueue
      <3>1. queue \ Dropped = queue
        BY <2>1 DEF Dropped
      <3> QED
        BY <1>2, <2>1, <3>1
    <2>2. CASE ~(Cardinality(queue) < MaxQueue)
      <3>1. Cardinality(queue) = MaxQueue
        BY <1>2, <2>2
      <3>2. queue # {}
        BY <1>2, <3>1, FS_EmptySet
      <3>3. PICK x \in queue : Dropped = {x}
        <4>1. CASE Pending # {}
          <5>1. Min(Pending) \in Pending
            BY <1>2, <4>1, MinOfItems DEF Pending
          <5> QED
            BY <2>2, <4>1, <5>1 DEF Dropped, Pending
        <4>2. CASE Pending = {}
          <5>1. Min(queue) \in queue
            BY <1>2, <3>2, MinOfItems
          <5> QED
            BY <2>2, <4>2, <5>1 DEF Dropped
        <4> QED
          BY <4>1, <4>2
      <3>4. IsFiniteSet(queue \ {x}) /\ Cardinality(queue \ {x}) = Cardinality(queue) - 1
        BY <1>2, FS_RemoveElement
      <3> QED
        BY <1>2, <3>1, <3>3, <3>4
    <2> QED
      BY <2>1, <2>2
  <1>4. Cardinality((queue \ Dropped) \cup {i}) \in
            {Cardinality(queue \ Dropped), Cardinality(queue \ Dropped) + 1}
    BY <1>3, FS_AddElement
  <1>5. Cardinality(queue \ Dropped) \in Nat
    BY <1>3, FS_CardinalityType
  <1> QED
    BY <1>1, <1>2, <1>3, <1>4, <1>5

\* Every step keeps what waits in the queue, and the queue within its limit.
LEMMA PlacesHold == TypeOK /\ BatchInv /\ PlaceInv /\ [Next]_vars => PlaceInv'
  <1> SUFFICES ASSUME TypeOK, BatchInv, PlaceInv, [Next]_vars PROVE PlaceInv'
    OBVIOUS
  <1>1. ASSUME NEW i \in Items, Enqueue(i) PROVE PlaceInv'
    <2>1. Cardinality(queue') <= MaxQueue
      BY <1>1, EnqueueFits DEF PlaceInv
    <2>2. NothingIsLost'
      BY <1>1 DEF Enqueue, TypeOK, PlaceInv, NothingIsLost
    <2> QED
      BY <2>1, <2>2 DEF PlaceInv
  <1>2. ASSUME queue' \subseteq queue PROVE Cardinality(queue') <= MaxQueue
    <2>1. Cardinality(queue') \in Nat /\ Cardinality(queue') <= Cardinality(queue)
      BY <1>2, QueueCounts, FS_Subset, FS_CardinalityType
    <2>2. Cardinality(queue) \in Nat /\ Cardinality(queue) <= MaxQueue /\ MaxQueue \in Nat
      BY QueueCounts, QueueAssumption DEF PlaceInv
    <2> QED
      BY ONLY <2>1, <2>2
  <1>3. CASE Clear
    <2>1. queue' \subseteq queue /\ NothingIsLost'
      BY <1>3 DEF Clear, PlaceInv, NothingIsLost
    <2> QED
      BY <1>2, <2>1 DEF PlaceInv
  <1>4. ASSUME NEW l \in Loops, LoopCleansUp(l) PROVE PlaceInv'
    <2>1. queue' \subseteq queue /\ NothingIsLost'
      BY <1>4 DEF LoopCleansUp, Kept, PlaceInv, NothingIsLost
    <2> QED
      BY <1>2, <2>1 DEF PlaceInv
  <1>5. ASSUME NEW l \in Loops, LoopTakes(l) PROVE PlaceInv'
    BY <1>5, NextBatchFacts DEF LoopTakes, PlaceInv, NothingIsLost
  <1>6. ASSUME NEW l \in Loops, ProcessorStep(l) PROVE PlaceInv'
    <2>1. \A i \in loops[l].batch : i \in queue \cup discarded
      BY DEF BatchInv, BatchesAreMarked, PlaceInv, NothingIsLost, TypeOK, Loop
    <2>2. UNCHANGED <<queue, discarded>>
      BY <1>6 DEF ProcessorStep, ProcessorReturns, ProcessorRaises
    <2>3. \A i \in Items \ loops[l].batch : status'[i] = status[i]
      BY <1>6 DEF ProcessorStep, ProcessorReturns, ProcessorRaises
    <2> QED
      BY <2>1, <2>2, <2>3 DEF PlaceInv, NothingIsLost
  <1>7. ASSUME NEW l \in Loops, StartProcessing(l) \/ LoopEnds(l) \/ LoopIsCancelled(l)
        PROVE  PlaceInv'
    BY <1>7 DEF StartProcessing, LoopEnds, LoopIsCancelled, items, PlaceInv, NothingIsLost
  <1>8. ASSUME NEW s \in Stoppers, StopBegins(s) \/ StopEnds(s) PROVE PlaceInv'
    BY <1>8 DEF StopBegins, StopEnds, StopForgets, items, PlaceInv, NothingIsLost
  <1>9. CASE UNCHANGED vars
    BY <1>9 DEF vars, items, PlaceInv, NothingIsLost
  <1> QED
    BY <1>1, <1>3, <1>4, <1>5, <1>6, <1>7, <1>8, <1>9 DEF Next, LoopStep

\* enqueue, clear, _cleanup_completed and process_batch: what waits to be processed is in
\* the queue, which never outgrows its limit, unless it was dropped or discarded; a
\* clean-up keeps what another loop has in its hands and may give back.
THEOREM WaitingIsFound == Spec => []PendingIsQueued
  <1>1. Init => PlaceInv
    <2>1. Init => queue = {} /\ \A i \in Items : status[i] = "new"
      BY DEF Init
    <2>2. Cardinality({}) = 0 /\ 0 <= MaxQueue
      BY FS_EmptySet, QueueAssumption
    <2> QED
      BY <2>1, <2>2 DEF PlaceInv, NothingIsLost
  <1>2. TypeOK /\ BatchInv /\ PlaceInv /\ [Next]_vars => PlaceInv'
    BY PlacesHold
  <1>3. TypeOK /\ BatchInv /\ [Next]_vars => TypeOK' /\ BatchInv'
    BY BatchesHold
  <1>4. PlaceInv => PendingIsQueued
    BY DEF PlaceInv, NothingIsLost, PendingIsQueued
  <1> QED
    BY <1>1, <1>2, <1>3, <1>4, InitHolds, PTL DEF Spec

-----------------------------------------------------------------------------
\* Steps that start no loop and no stop keep what is known of who runs.
LEMMA LoopsOnlyEnd ==
    ASSUME StopInv, UNCHANGED switch, \A l \in Loops : Live(l)' => Live(l)
    PROVE  StopInv'
  BY DEF StopInv, RunningIsKnown, TaskIsAwaited, switch

\* start_processing and stop_processing: however starts and stops overlap, while
\* processing is stopped no loop runs but those that a stop still waits for and those
\* that an earlier stop has forgotten.
THEOREM StoppedOrForgotten == Spec => []StopMeansStopped
  <1>1. Init => TypeOK /\ StopInv
    BY InitHolds
  <1>2. TypeOK /\ StopInv /\ [Next]_vars => TypeOK' /\ StopInv'
    <2> SUFFICES ASSUME TypeOK, StopInv, [Next]_vars PROVE StopInv'
      BY TypesHold
    <2>1. CASE (\E i \in Items : Enqueue(i)) \/ Clear \/ UNCHANGED vars
      BY <2>1, LoopsOnlyEnd DEF Enqueue, Clear, vars, Live
    <2>2. ASSUME NEW l \in Loops, StartProcessing(l) PROVE StopInv'
      <3>1. \A m \in Loops \ {l} : loops'[m] = loops[m]
        BY <2>2 DEF StartProcessing, TypeOK
      <3>2. \A m \in Loops \ {l} : Live(m) => m \in forgotten \/ \E s \in Stoppers : awaited[s] = m
        BY <2>2, QueueAssumption
           DEF StartProcessing, StopInv, RunningIsKnown, TaskIsAwaited, Loops, NoLoop
      <3> QED
        BY <2>2, <3>1, <3>2 DEF StartProcessing, StopInv, RunningIsKnown, TaskIsAwaited, Live
    <2>3. ASSUME NEW l \in Loops, LoopStep(l) \/ ProcessorStep(l) PROVE StopInv'
      <3>1. Live(l) /\ \A m \in Loops \ {l} : loops'[m] = loops[m]
        BY <2>3 DEF LoopStep, LoopEnds, LoopTakes, LoopCleansUp, LoopIsCancelled, Runs, Live,
                    ProcessorStep, ProcessorReturns, ProcessorRaises, Sleeps, InProcessor, TypeOK
      <3>2. UNCHANGED switch
        BY <2>3 DEF LoopStep, LoopEnds, LoopTakes, LoopCleansUp, LoopIsCancelled,
                    ProcessorStep, ProcessorReturns, ProcessorRaises
      <3> QED
        BY <3>1, <3>2, LoopsOnlyEnd DEF Live
    <2>4. ASSUME NEW s \in Stoppers, StopBegins(s) PROVE StopInv'
      <3>1. \A l \in Loops : Live(l)' <=> Live(l)
        BY <2>4, StopBeginsFacts DEF Live
      <3>2. awaited[s] = NoLoop /\ awaited' = [awaited EXCEPT ![s] = task] /\ UNCHANGED <<task, forgotten>>
        BY <2>4 DEF StopBegins
      <3>3. \A l \in Loops : l # NoLoop
        BY QueueAssumption DEF Loops, NoLoop
      <3> QED
        BY <3>1, <3>2, <3>3 DEF TypeOK, StopInv, RunningIsKnown, TaskIsAwaited
    <2>5. ASSUME NEW s \in Stoppers, StopEnds(s) PROVE StopInv'
      <3>1. /\ loops' = loops /\ task' = NoLoop /\ ~Live(awaited[s])
            /\ awaited' = [awaited EXCEPT ![s] = NoLoop]
            /\ forgotten' = forgotten \cup ({task} \ {awaited[s], NoLoop})
        BY <2>5 DEF StopEnds, StopForgets, Live
      <3>2. \A l \in Loops : l # NoLoop
        BY QueueAssumption DEF Loops, NoLoop
      <3>3. \A l \in Loops : Live(l)' => Live(l) /\ l # awaited[s]
        BY <3>1 DEF Live
      <3> QED
        BY <3>1, <3>2, <3>3 DEF TypeOK, StopInv, RunningIsKnown, TaskIsAwaited
    <2> QED
      BY <2>1, <2>2, <2>3, <2>4, <2>5 DEF Next
  <1>3. StopInv => StopMeansStopped
    BY QueueAssumption DEF StopInv, RunningIsKnown, TaskIsAwaited, StopMeansStopped, Loops, NoLoop
  <1> QED
    BY <1>1, <1>2, <1>3, PTL DEF Spec

-----------------------------------------------------------------------------
\* A loop has a batch in its processor only.
HeldInProcessor == \A l \in Loops : loops[l].at # "processing" => loops[l].batch = {}

\* What was discarded is not in the queue, and neither is what has not come.
DroppedIsOut ==
    /\ discarded \subseteq Items /\ discarded \cap queue = {}
    /\ \A i \in queue \cup discarded : status[i] # "new"

WorkInv == TypeOK /\ BatchInv /\ PlaceInv /\ HeldInProcessor /\ DroppedIsOut

Held(i) == \E l \in Loops : i \in loops[l].batch

\* Counting is the same in both modules.
LEMMA SameCount == ASSUME NEW S PROVE Work!Cardinality(S) = Cardinality(S)
BY DEF Work!Cardinality, Cardinality

\* The stage of an item is its status, but for those that were abandoned.
LEMMA StageFacts ==
    ASSUME WorkInv
    PROVE  /\ DOMAIN StageNow = Items
           /\ \A i \in Items :
                /\ status[i] # "processing" => StageNow[i] = status[i]
                /\ Held(i) => StageNow[i] = "processing"
                /\ StageNow[i] = status[i] \/ StageNow[i] = "abandoned"
                /\ StageNow[i] = "pending" <=> status[i] = "pending"
                /\ StageNow[i] = "new" <=> status[i] = "new"
  <1>1. \A i \in Items : Held(i) => status[i] = "processing"
    BY DEF WorkInv, BatchInv, BatchesAreMarked, Held
  <1> QED
    BY <1>1 DEF StageNow, Held

\* What waits is what get_pending looks through.
LEMMA WaitingIsPending ==
    ASSUME WorkInv
    PROVE  Work!Waiting = Pending /\ Work!Oldest = NextBatch
  <1>1. Work!Waiting = Pending
    BY StageFacts DEF Work!Waiting, Pending, IsPending, WorkInv, TypeOK, PlaceInv, NothingIsLost,
                      DroppedIsOut
  <1> QED
    BY <1>1, SameCount DEF Work!Oldest, NextBatch

\* A step that changes no status and no batch changes no stage.
LEMMA SameStages ==
    ASSUME WorkInv, UNCHANGED <<status, attempts, discarded>>,
           \A l \in Loops : loops'[l].batch = loops[l].batch
    PROVE  UNCHANGED <<StageNow, attempts, discarded>>
  BY DEF StageNow

-----------------------------------------------------------------------------
LEMMA WorkBegins == Init => WorkInv /\ Work!Init
  <1> SUFFICES ASSUME Init PROVE WorkInv /\ Work!Init
    OBVIOUS
  <1>1. TypeOK /\ BatchInv
    BY InitHolds
  <1>2. queue = {} /\ discarded = {} /\ status = [i \in Items |-> "new"]
        /\ attempts = [i \in Items |-> 0]
    BY DEF Init
  <1>3. PlaceInv
    BY <1>2, FS_EmptySet, QueueAssumption DEF PlaceInv, NothingIsLost
  <1>4. HeldInProcessor
    BY DEF Init, HeldInProcessor, At
  <1>5. DroppedIsOut
    BY <1>2 DEF DroppedIsOut
  <1> QED
    BY <1>1, <1>2, <1>3, <1>4, <1>5 DEF WorkInv, Work!Init, StageNow

\* An item makes room only when there is none: the oldest that is pending, or the oldest.
LEMMA QueueDrops ==
    ASSUME WorkInv
    PROVE  \/ Dropped = {}
           \/ \E k \in queue :
                /\ Dropped = {k} /\ Cardinality(queue) >= MaxQueue
                /\ \A w \in Pending : k \in Pending /\ k <= w
  <1>1. queue \in SUBSET Items /\ Pending \in SUBSET Items /\ Pending \subseteq queue
        /\ Cardinality(queue) \in Nat /\ MaxQueue \in Nat \ {0} /\ IsFiniteSet(queue)
    BY QueueCounts, QueueAssumption DEF WorkInv, TypeOK, Pending
  <1>2. CASE Cardinality(queue) < MaxQueue
    BY <1>2 DEF Dropped
  <1>3. CASE ~(Cardinality(queue) < MaxQueue) /\ Pending # {}
    <2>1. Min(Pending) \in Pending /\ \A w \in Pending : Min(Pending) <= w
      BY <1>1, <1>3, MinOfItems
    <2>2. Dropped = {Min(Pending)}
      BY <1>3 DEF Dropped
    <2> QED
      BY <1>1, <1>3, <2>1, <2>2
  <1>4. CASE ~(Cardinality(queue) < MaxQueue) /\ Pending = {}
    <2>1. queue # {}
      BY <1>1, <1>4, FS_EmptySet
    <2>2. Min(queue) \in queue
      BY <1>1, <2>1, MinOfItems
    <2>3. Dropped = {Min(queue)}
      BY <1>4 DEF Dropped
    <2> QED
      BY <1>1, <1>4, <2>2, <2>3
  <1> QED
    BY <1>2, <1>3, <1>4

LEMMA WorkStays == WorkInv /\ PlaceInv' /\ [Next]_vars => WorkInv'
  <1> SUFFICES ASSUME WorkInv, PlaceInv', [Next]_vars PROVE HeldInProcessor' /\ DroppedIsOut'
    BY BatchesHold DEF WorkInv
  <1> USE DEF WorkInv
  <1>1. HeldInProcessor'
    <2>1. CASE UNCHANGED loops
      BY <2>1 DEF HeldInProcessor
    <2>2. ASSUME NEW l \in Loops, NEW w \in {"ready", "done"},
                 loops' = [loops EXCEPT ![l] = At(w, {}, FALSE)]
          PROVE  HeldInProcessor'
      BY <2>2 DEF HeldInProcessor, At, TypeOK
    <2>3. ASSUME NEW l \in Loops, LoopTakes(l) PROVE HeldInProcessor'
      BY <2>3 DEF LoopTakes, HeldInProcessor, At, TypeOK
    <2>4. ASSUME NEW s \in Stoppers, StopBegins(s) PROVE HeldInProcessor'
      BY <2>4, StopBeginsFacts DEF HeldInProcessor
    <2> QED
      BY <2>1, <2>2, <2>3, <2>4
         DEF Next, LoopStep, ProcessorStep, Enqueue, Clear, StartProcessing, LoopEnds,
             LoopCleansUp, LoopIsCancelled, ProcessorReturns, ProcessorRaises, Sleeps, StopEnds,
             StopForgets, vars
  <1>2. DroppedIsOut'
    <2>1. ASSUME NEW i \in Items, Enqueue(i) PROVE DroppedIsOut'
      <3>1. Dropped \subseteq queue
        BY <2>1, QueueDrops
      <3> QED
        BY <2>1, <3>1 DEF Enqueue, DroppedIsOut, TypeOK
    <2>2. CASE Clear
      BY <2>2 DEF Clear, DroppedIsOut, Pending, TypeOK
    <2>3. ASSUME NEW l \in Loops, LoopTakes(l) PROVE DroppedIsOut'
      BY <2>3, NextBatchFacts DEF LoopTakes, DroppedIsOut, TypeOK
    <2>4. ASSUME NEW l \in Loops, LoopCleansUp(l) PROVE DroppedIsOut'
      BY <2>4 DEF LoopCleansUp, Kept, DroppedIsOut
    <2>5. ASSUME NEW l \in Loops, ProcessorStep(l) PROVE DroppedIsOut'
      BY <2>5 DEF ProcessorStep, ProcessorReturns, ProcessorRaises, DroppedIsOut, TypeOK
    <2>6. CASE UNCHANGED <<queue, discarded, status>>
      BY <2>6 DEF DroppedIsOut
    <2> QED
      BY <2>1, <2>2, <2>3, <2>4, <2>5, <2>6
         DEF Next, LoopStep, StartProcessing, LoopEnds, LoopIsCancelled, StopBegins, StopEnds,
             StopForgets, items, vars
  <1> QED
    BY <1>1, <1>2

-----------------------------------------------------------------------------
\* A batch that leaves its loop leaves its stage, and nothing else does.
LEMMA BatchLeaves ==
    ASSUME WorkInv, NEW l \in Loops, loops'[l].batch = {},
           \A m \in Loops \ {l} : loops'[m] = loops[m],
           \A i \in Items \ loops[l].batch : status'[i] = status[i]
    PROVE  /\ loops[l].batch \in SUBSET Items /\ Work!Taken(loops[l].batch)
           /\ \A i \in Items \ loops[l].batch : StageNow'[i] = StageNow[i]
           /\ \A i \in loops[l].batch :
                  StageNow'[i] = IF status'[i] = "processing" THEN "abandoned" ELSE status'[i]
  <1>1. loops[l].batch \in SUBSET Items
    BY DEF WorkInv, TypeOK, Loop
  <1>2. \A m \in Loops \ {l} : loops[m].batch \cap loops[l].batch = {}
    BY DEF WorkInv, BatchInv, ProcessedInTurn, OneOwner
  <1>3. Work!Taken(loops[l].batch)
    BY <1>1, StageFacts DEF Held, Work!Taken
  <1>4. \A i \in Items : (\A m \in Loops : i \notin loops'[m].batch)
                         <=> (\A m \in Loops \ {l} : i \notin loops[m].batch)
    OBVIOUS
  <1>5. \A i \in Items \ loops[l].batch : StageNow'[i] = StageNow[i]
    BY <1>4 DEF StageNow
  <1>6. \A i \in loops[l].batch :
           StageNow'[i] = IF status'[i] = "processing" THEN "abandoned" ELSE status'[i]
    BY <1>1, <1>2, <1>4 DEF StageNow
  <1> QED
    BY <1>1, <1>3, <1>5, <1>6

\* enqueue is a submission, and what it drops makes room.
LEMMA EnqueueSubmits ==
    ASSUME WorkInv, NEW i \in Items, Enqueue(i) PROVE Work!Submit(i)
  <1>1. /\ status[i] = "new" /\ \A j \in Items : j < i => status[j] # "new"
        /\ status' = [status EXCEPT ![i] = "pending"] /\ discarded' = discarded \cup Dropped
        /\ UNCHANGED <<attempts, loops>>
    BY DEF Enqueue
  <1>2. StageNow' = [StageNow EXCEPT ![i] = "pending"]
    BY <1>1, StageFacts DEF StageNow, WorkInv, TypeOK
  <1>3. StageNow[i] = "new" /\ \A j \in Items : j < i => StageNow[j] # "new"
    BY <1>1, StageFacts
  <1>4. CASE Dropped = {}
    BY <1>1, <1>2, <1>3, <1>4 DEF Work!Submit
  <1>5. CASE \E k \in queue : /\ Dropped = {k} /\ Cardinality(queue) >= MaxQueue
                              /\ \A w \in Pending : k \in Pending /\ k <= w
    <2>1. PICK k \in queue : /\ Dropped = {k} /\ Cardinality(queue) >= MaxQueue
                             /\ \A w \in Pending : k \in Pending /\ k <= w
      BY <1>5
    <2>2. queue \subseteq Work!Known
      BY StageFacts DEF Work!Known, WorkInv, TypeOK, DroppedIsOut
    <2>3. IsFiniteSet(Work!Known)
      <3>1. IsFiniteSet(Items) /\ Work!Known \subseteq Items
        BY QueueAssumption, FS_Interval DEF Items, Work!Known
      <3> QED
        BY <3>1, FS_Subset
    <2>4. Cardinality(queue) \in Nat /\ Cardinality(Work!Known) \in Nat
          /\ Cardinality(queue) <= Cardinality(Work!Known) /\ MaxQueue \in Nat
      BY <2>2, <2>3, FS_Subset, FS_CardinalityType, QueueCounts, QueueAssumption DEF WorkInv
    <2>5. Work!Cardinality(Work!Known) >= MaxQueue
      BY <2>1, <2>4, SameCount
    <2>6. k \in Work!Known /\ \A w \in Work!Waiting : k \in Work!Waiting /\ k <= w
      BY <2>1, <2>2, WaitingIsPending
    <2>7. discarded' = discarded \cup {k}
      BY <1>1, <2>1
    <2> QED
      BY <1>1, <1>2, <1>3, <2>5, <2>6, <2>7 DEF Work!Submit
  <1> QED
    BY <1>4, <1>5, QueueDrops

\* A loop that begins a batch takes the oldest of what waits.
LEMMA LoopTakesOldest ==
    ASSUME WorkInv, NEW l \in Loops, LoopTakes(l) PROVE Work!Take
  <1>1. /\ status' = [i \in Items |-> IF i \in NextBatch THEN "processing" ELSE status[i]]
        /\ attempts' = [i \in Items |-> attempts[i] + (IF i \in NextBatch THEN 1 ELSE 0)]
        /\ UNCHANGED discarded
    BY DEF LoopTakes
  <1>2. loops[l].batch = {} /\ loops'[l].batch = NextBatch
        /\ \A m \in Loops \ {l} : loops'[m] = loops[m]
    BY DEF LoopTakes, Runs, WorkInv, HeldInProcessor, TypeOK, At
  <1>3. \A i \in Items : StageNow'[i] = IF i \in NextBatch THEN "processing" ELSE StageNow[i]
    <2> SUFFICES ASSUME NEW i \in Items
                 PROVE  StageNow'[i] = IF i \in NextBatch THEN "processing" ELSE StageNow[i]
      OBVIOUS
    <2>1. CASE i \in NextBatch
      BY <1>1, <1>2, <2>1 DEF StageNow
    <2>2. CASE i \notin NextBatch
      <3>1. status'[i] = status[i]
        BY <1>1, <2>2
      <3>2. (\A m \in Loops : i \notin loops'[m].batch) <=> (\A m \in Loops : i \notin loops[m].batch)
        BY <1>2, <2>2
      <3> QED
        BY <2>2, <3>1, <3>2 DEF StageNow
    <2> QED
      BY <2>1, <2>2
  <1>4. StageNow' = [i \in Items |-> IF i \in Work!Oldest THEN "processing" ELSE StageNow[i]]
    BY <1>3, WaitingIsPending DEF StageNow
  <1> QED
    BY <1>1, <1>4, WaitingIsPending DEF Work!Take

\* What a processor has done with its batch, the list knows.
LEMMA ProcessorDone ==
    ASSUME WorkInv, NEW l \in Loops, ProcessorStep(l) PROVE Work!Next
  <1>1. /\ loops'[l].batch = {} /\ attempts' = attempts /\ discarded' = discarded
        /\ \A m \in Loops \ {l} : loops'[m] = loops[m]
        /\ \A i \in Items \ loops[l].batch : status'[i] = status[i]
    BY DEF ProcessorStep, ProcessorReturns, ProcessorRaises, Sleeps, WorkInv, TypeOK, At
  <1>2. /\ loops[l].batch \in SUBSET Items /\ Work!Taken(loops[l].batch)
        /\ \A i \in Items \ loops[l].batch : StageNow'[i] = StageNow[i]
        /\ \A i \in loops[l].batch :
               StageNow'[i] = IF status'[i] = "processing" THEN "abandoned" ELSE status'[i]
    BY <1>1, BatchLeaves
  <1>3. StageNow' = [i \in Items |-> StageNow'[i]]
    BY DEF StageNow
  <1>4. CASE ProcessorReturns(l)
    <2>1. \A i \in loops[l].batch : status'[i] = "completed"
      BY <1>2, <1>4 DEF ProcessorReturns
    <2>2. Work!Leaves(loops[l].batch, Work!Completed)
      BY <1>1, <1>2, <1>3, <2>1 DEF Work!Leaves, Work!Completed
    <2> QED
      BY <1>2, <2>2 DEF Work!Next
  <1>5. CASE ProcessorRaises(l)
    <2>1. \A i \in loops[l].batch : retries'[i] = attempts[i]
      BY <1>2, <1>5 DEF ProcessorRaises, WorkInv, BatchInv, BatchesAreMarked
    <2>2. \A i \in loops[l].batch : status'[i] = IF attempts[i] >= MaxRetries THEN "failed" ELSE "pending"
      BY <1>2, <1>5, <2>1 DEF ProcessorRaises
    <2>3. \A i \in loops[l].batch : StageNow'[i] = Work!Failed[i]
      BY <1>2, <2>2 DEF Work!Failed
    <2>4. Work!Leaves(loops[l].batch, Work!Failed)
      BY <1>1, <1>2, <1>3, <2>3 DEF Work!Leaves
    <2> QED
      BY <1>2, <2>4 DEF Work!Next
  <1> QED
    BY <1>4, <1>5 DEF ProcessorStep

\* A loop that is cancelled abandons what its processor had.
LEMMA CancelledAbandons ==
    ASSUME WorkInv, NEW l \in Loops, LoopIsCancelled(l) PROVE Work!Next
  <1>1. /\ loops'[l].batch = {} /\ UNCHANGED <<status, attempts, discarded>>
        /\ \A m \in Loops \ {l} : loops'[m] = loops[m]
    BY DEF LoopIsCancelled, WorkInv, TypeOK, At
  <1>2. /\ loops[l].batch \in SUBSET Items /\ Work!Taken(loops[l].batch)
        /\ \A i \in Items \ loops[l].batch : StageNow'[i] = StageNow[i]
        /\ \A i \in loops[l].batch :
               StageNow'[i] = IF status'[i] = "processing" THEN "abandoned" ELSE status'[i]
    BY <1>1, BatchLeaves
  <1>3. StageNow' = [i \in Items |-> StageNow'[i]]
    BY DEF StageNow
  <1>4. \A i \in loops[l].batch : status'[i] = "processing"
    BY <1>1 DEF WorkInv, BatchInv, BatchesAreMarked
  <1>5. Work!Leaves(loops[l].batch, Work!Abandoned)
    BY <1>1, <1>2, <1>3, <1>4 DEF Work!Leaves, Work!Abandoned
  <1> QED
    BY <1>2, <1>5 DEF Work!Next

\* Every step of the queue is one of the list, or none.
LEMMA WorkStepRefines ==
    WorkInv /\ [Next]_vars => [Work!Next]_<<StageNow, attempts, discarded>>
  <1> SUFFICES ASSUME WorkInv, [Next]_vars
               PROVE  Work!Next \/ UNCHANGED <<StageNow, attempts, discarded>>
    OBVIOUS
  <1>1. ASSUME NEW i \in Items, Enqueue(i) PROVE Work!Next
    BY <1>1, EnqueueSubmits DEF Work!Next
  <1>2. CASE Clear
    <2>1. Work!Clear
      BY <1>2, WaitingIsPending DEF Clear, Work!Clear, StageNow
    <2> QED
      BY <2>1 DEF Work!Next
  <1>3. ASSUME NEW l \in Loops, LoopTakes(l) PROVE Work!Next
    BY <1>3, LoopTakesOldest DEF Work!Next
  <1>4. ASSUME NEW l \in Loops, ProcessorStep(l) PROVE Work!Next
    BY <1>4, ProcessorDone
  <1>5. ASSUME NEW l \in Loops, LoopIsCancelled(l) PROVE Work!Next
    BY <1>5, CancelledAbandons
  <1>6. ASSUME NEW l \in Loops, StartProcessing(l) \/ LoopEnds(l) \/ LoopCleansUp(l)
        PROVE  UNCHANGED <<StageNow, attempts, discarded>>
    <2>1. loops[l].batch = {} /\ loops'[l].batch = {}
          /\ \A m \in Loops \ {l} : loops'[m] = loops[m]
      BY <1>6 DEF StartProcessing, LoopEnds, LoopCleansUp, Runs, WorkInv, HeldInProcessor,
                  TypeOK, At
    <2>2. UNCHANGED <<status, attempts, discarded>>
      BY <1>6 DEF StartProcessing, LoopEnds, LoopCleansUp, items
    <2>3. \A m \in Loops : loops'[m].batch = loops[m].batch
      BY <2>1
    <2> QED
      BY <2>2, <2>3, SameStages
  <1>7. ASSUME NEW s \in Stoppers, StopBegins(s) \/ StopEnds(s)
        PROVE  UNCHANGED <<StageNow, attempts, discarded>>
    <2>1. UNCHANGED <<status, attempts, discarded>>
      BY <1>7 DEF StopBegins, StopEnds, StopForgets, items
    <2>2. \A m \in Loops : loops'[m].batch = loops[m].batch
      BY <1>7, StopBeginsFacts DEF StopEnds, StopForgets, WorkInv
    <2> QED
      BY <2>1, <2>2, SameStages
  <1>8. CASE UNCHANGED vars
    BY <1>8, SameStages DEF vars, items
  <1> QED
    BY <1>1, <1>2, <1>3, <1>4, <1>5, <1>6, <1>7, <1>8 DEF Next, LoopStep

\* enqueue, get_pending, process_batch and the loops: whichever loops run, are stopped,
\* overlap or are forgotten, the queue is one list from which one worker takes the oldest.
THEOREM WorkRefinement == Spec => ImplementsWorkList
  <1>1. Init => WorkInv /\ Work!Init
    BY WorkBegins
  <1>2. WorkInv /\ [Next]_vars => WorkInv'
    BY WorkStays, PlacesHold DEF WorkInv
  <1>3. WorkInv /\ [Next]_vars => [Work!Next]_<<StageNow, attempts, discarded>>
    BY WorkStepRefines
  <1> QED
    BY <1>1, <1>2, <1>3, PTL DEF Spec, ImplementsWorkList, Work!Spec
=============================================================================
