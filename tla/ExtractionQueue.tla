-------------------------- MODULE ExtractionQueue --------------------------
(***************************************************************************)
(* proactive/queue_manager.ExtractionQueue: a bounded queue of texts, and  *)
(* the background task that gives batches of them to an async processor.   *)
(*                                                                         *)
(* Everything runs on one event loop, so a step ends where the code        *)
(* awaits: in the processor, in the sleep of the loop, and in the wait of  *)
(* stop_processing for the task it has cancelled.  What a processor does   *)
(* is outside the program: it returns, raises, or is interrupted by the    *)
(* cancellation of the task that awaits it.                                *)
(***************************************************************************)
EXTENDS Naturals, FiniteSets, FiniteSetsExt

CONSTANTS MaxItems,   \* bound: calls of enqueue
          MaxQueue,   \* max_queue_size, the maxlen of the deque
          MaxRetries, \* MAX_RETRIES
          BatchSize,  \* BATCH_SIZE
          MaxLoops,   \* bound: the background tasks ever created
          Stoppers    \* callers of stop_processing

ASSUME QueueAssumption ==
    /\ MaxItems \in Nat
    /\ MaxQueue \in Nat \ {0}
    /\ MaxRetries \in Nat \ {0}
    /\ BatchSize \in Nat \ {0}
    /\ MaxLoops \in Nat

Items == 1 .. MaxItems

\* Tasks are numbered in the order of their creation; NoLoop is None.
Loops == 1 .. MaxLoops
NoLoop == 0

VARIABLES queue,       \* ExtractionQueue._queue, the items in the order of their numbers
          status,      \* QueueItem.status, "new" before enqueue
          retries,     \* QueueItem.retry_count
          processing,  \* ExtractionQueue._processing
          task,        \* ExtractionQueue._task
          loops,       \* the background tasks: where each is, and its batch
          awaited,     \* the task that each call of stop_processing waits for
          forgotten,   \* history: tasks that were started while a stop waited
          attempts,    \* history: times an item was given to the processor
          discarded    \* history: items evicted, cleared, or dropped by the deque

items   == <<queue, status, retries, attempts, discarded>>
switch  == <<processing, task, awaited, forgotten>>
vars    == <<items, switch, loops>>

\* "fresh": not created yet; "ready": its first step, or the end of its sleep, is to come.
Loop == [at : {"fresh", "ready", "processing", "done"},
         batch : SUBSET Items, cancelled : BOOLEAN]
At(where, batch, cancelled) ==
    [at |-> where, batch |-> batch, cancelled |-> cancelled]
Live(l) == loops[l].at \in {"ready", "processing"}

Init ==
    /\ queue = {}
    /\ status = [i \in Items |-> "new"]
    /\ retries = [i \in Items |-> 0]
    /\ processing = FALSE
    /\ task = NoLoop
    /\ loops = [l \in Loops |-> At("fresh", {}, FALSE)]
    /\ awaited = [s \in Stoppers |-> NoLoop]
    /\ forgotten = {}
    /\ attempts = [i \in Items |-> 0]
    /\ discarded = {}

----------------------------------------------------------------------------
(* The queue                                                               *)

IsPending(i) == status[i] = "pending"
Pending == {i \in queue : IsPending(i)}

\* get_pending: the oldest BatchSize pending items.
NextBatch == {i \in Pending : Cardinality({j \in Pending : j < i}) < BatchSize}

\* Mutant: the newest pending item makes room.
DroppedNewest == IF Cardinality(queue) < MaxQueue THEN {}
                 ELSE IF Pending # {} THEN {Max(Pending)} ELSE {Min(queue)}

\* What enqueue drops: nothing, the oldest pending item, or, when the deque
\* is full of items that are not pending, whatever is at its left end.
Dropped == IF Cardinality(queue) < MaxQueue THEN {}
           ELSE IF Pending # {} THEN {Min(Pending)} ELSE {Min(queue)}

\* Items are numbered in the order of enqueue, as _item_counter does, and nothing
\* else appends to the deque: its order is that of the numbers.
Enqueue(i) ==
    /\ status[i] = "new"
    /\ \A j \in Items : j < i => status[j] # "new"
    /\ queue' = (queue \ Dropped) \cup {i}
    /\ status' = [status EXCEPT ![i] = "pending"]
    /\ discarded' = discarded \cup Dropped
    /\ UNCHANGED <<retries, attempts, switch, loops>>

Clear ==
    /\ queue' = queue \ Pending
    /\ discarded' = discarded \cup Pending
    /\ UNCHANGED <<status, retries, attempts, switch, loops>>

\* Mutant: the clean-up keeps what is pending and what is completed lately.
KeptPending(recent) == {i \in queue : IsPending(i) \/ i \in recent}

\* _cleanup_completed: a failed item has no processed_at and always goes;
\* recent are the completed ones of the last hour.
Kept(recent) == {i \in queue : status[i] \in {"pending", "processing"} \/ i \in recent}

----------------------------------------------------------------------------
(* The background task                                                     *)

StartProcessing(l) ==
    /\ ~processing
    /\ loops[l].at = "fresh"
    /\ \A m \in Loops : m < l => loops[m].at # "fresh"
    /\ processing' = TRUE
    /\ task' = l
    /\ loops' = [loops EXCEPT ![l] = At("ready", {}, FALSE)]
    /\ UNCHANGED <<items, awaited, forgotten>>

\* stop_processing up to its await.
StopBegins(s) ==
    /\ awaited[s] = NoLoop
    /\ processing' = FALSE
    /\ awaited' = [awaited EXCEPT ![s] = task]
    /\ loops' = [l \in Loops |-> IF l = task /\ Live(l)
                                 THEN At(loops[l].at, loops[l].batch, TRUE) ELSE loops[l]]
    /\ UNCHANGED <<items, task, forgotten>>

StopForgets(s) ==
    /\ awaited' = [awaited EXCEPT ![s] = NoLoop]
    /\ forgotten' = forgotten \cup ({task} \ {awaited[s], NoLoop})
    /\ task' = NoLoop
    /\ UNCHANGED <<items, processing, loops>>

\* Mutant: the task is cancelled and not awaited.
StopEndsAtOnce(s) == awaited[s] # NoLoop /\ StopForgets(s)

\* The rest of it, once the awaited task has ended.  A task that was started
\* in the meantime is forgotten too.
StopEnds(s) ==
    /\ awaited[s] # NoLoop
    /\ loops[awaited[s]].at = "done"
    /\ StopForgets(s)

\* The loop runs from its while to the next await.
Runs(l) == loops[l].at = "ready" /\ ~loops[l].cancelled

\* Mutant: only a cancellation ends the loop.
LoopEndsCancelled(l) ==
    /\ Runs(l)
    /\ ~processing
    /\ loops[l].cancelled
    /\ loops' = [loops EXCEPT ![l] = At("done", {}, FALSE)]
    /\ UNCHANGED <<items, switch>>

LoopEnds(l) ==
    /\ Runs(l)
    /\ ~processing
    /\ loops' = [loops EXCEPT ![l] = At("done", {}, FALSE)]
    /\ UNCHANGED <<items, switch>>

\* Mutant: the items are marked only when the processor has returned.
LoopTakesUnmarked(l) ==
    /\ Runs(l)
    /\ processing
    /\ Pending # {}
    /\ attempts' = [i \in Items |-> attempts[i] + (IF i \in NextBatch THEN 1 ELSE 0)]
    /\ loops' = [loops EXCEPT ![l] = At("processing", NextBatch, FALSE)]
    /\ UNCHANGED <<queue, status, retries, discarded, switch>>

LoopTakes(l) ==
    /\ Runs(l)
    /\ processing
    /\ Pending # {}
    /\ status' = [i \in Items |-> IF i \in NextBatch THEN "processing" ELSE status[i]]
    /\ attempts' = [i \in Items |-> attempts[i] + (IF i \in NextBatch THEN 1 ELSE 0)]
    /\ loops' = [loops EXCEPT ![l] = At("processing", NextBatch, FALSE)]
    /\ UNCHANGED <<queue, retries, discarded, switch>>

LoopCleansUp(l) ==
    /\ Runs(l)
    /\ processing
    /\ Pending = {}
    /\ \E recent \in SUBSET {i \in Items : status[i] = "completed"} :
          queue' = Kept(recent)
    /\ loops' = [loops EXCEPT ![l] = At("ready", {}, FALSE)]
    /\ UNCHANGED <<status, retries, attempts, discarded, switch>>

InProcessor(l) == loops[l].at = "processing" /\ ~loops[l].cancelled
Sleeps(l) == loops' = [loops EXCEPT ![l] = At("ready", {}, FALSE)]

ProcessorReturns(l) ==
    /\ InProcessor(l)
    /\ status' = [i \in Items |-> IF i \in loops[l].batch THEN "completed" ELSE status[i]]
    /\ Sleeps(l)
    /\ UNCHANGED <<queue, retries, attempts, discarded, switch>>

\* Mutant: one retry too many.
ProcessorRaisesPastLimit(l) ==
    /\ InProcessor(l)
    /\ retries' = [i \in Items |-> retries[i] + (IF i \in loops[l].batch THEN 1 ELSE 0)]
    /\ status' = [i \in Items |->
                    IF i \notin loops[l].batch THEN status[i]
                    ELSE IF retries'[i] > MaxRetries THEN "failed" ELSE "pending"]
    /\ Sleeps(l)
    /\ UNCHANGED <<queue, attempts, discarded, switch>>

\* Mutant: an error of the processor ends the loop as well.
ProcessorRaisesAndEnds(l) ==
    /\ InProcessor(l)
    /\ retries' = [i \in Items |-> retries[i] + (IF i \in loops[l].batch THEN 1 ELSE 0)]
    /\ status' = [i \in Items |->
                    IF i \notin loops[l].batch THEN status[i]
                    ELSE IF retries'[i] >= MaxRetries THEN "failed" ELSE "pending"]
    /\ loops' = [loops EXCEPT ![l] = At("done", {}, FALSE)]
    /\ UNCHANGED <<queue, attempts, discarded, switch>>

\* The whole batch is retried, or given up by the items at their limit.
ProcessorRaises(l) ==
    /\ InProcessor(l)
    /\ retries' = [i \in Items |-> retries[i] + (IF i \in loops[l].batch THEN 1 ELSE 0)]
    /\ status' = [i \in Items |->
                    IF i \notin loops[l].batch THEN status[i]
                    ELSE IF retries'[i] >= MaxRetries THEN "failed" ELSE "pending"]
    /\ Sleeps(l)
    /\ UNCHANGED <<queue, attempts, discarded, switch>>

\* CancelledError is no Exception: process_batch does not handle it, and the
\* loop breaks.  A task cancelled before its first step never runs.
LoopIsCancelled(l) ==
    /\ Live(l)
    /\ loops[l].cancelled
    /\ loops' = [loops EXCEPT ![l] = At("done", {}, FALSE)]
    /\ UNCHANGED <<queue, status, retries, attempts, discarded, switch>>

ProcessorStep(l) == ProcessorReturns(l) \/ ProcessorRaises(l)
LoopStep(l) == LoopEnds(l) \/ LoopTakes(l) \/ LoopCleansUp(l) \/ LoopIsCancelled(l)

Next ==
    \/ \E i \in Items : Enqueue(i)
    \/ Clear
    \/ \E l \in Loops : StartProcessing(l) \/ LoopStep(l) \/ ProcessorStep(l)
    \/ \E s \in Stoppers : StopBegins(s) \/ StopEnds(s)

Spec == Init /\ [][Next]_vars

\* The event loop runs every task that is ready and the processor ends.
FairSpec ==
    /\ Spec
    /\ \A l \in Loops : WF_vars(LoopStep(l)) /\ WF_vars(ProcessorStep(l))
    /\ \A s \in Stoppers : WF_vars(StopEnds(s))

----------------------------------------------------------------------------
(* Properties                                                              *)

\* No item is in the hands of two processors, although stop_processing can
\* leave a loop behind that runs beside the next one.
OneOwner ==
    \A l, m \in Loops : l # m => loops[l].batch \cap loops[m].batch = {}

\* An item is given to the processor at most MAX_RETRIES times, whatever
\* batches it was in and whichever loop took it.
AttemptsBounded == \A i \in Items : attempts[i] <= MaxRetries

\* An item is in the hands of one processor at a time, and at most MAX_RETRIES times.
ProcessedInTurn == OneOwner /\ AttemptsBounded

\* What waits to be processed is where get_pending finds it, unless it was
\* discarded on purpose or dropped by the full deque, which never has more than
\* MAX_QUEUE_SIZE items: a clean-up by one loop does not lose the batch that
\* another is about to fail.
PendingIsQueued ==
    /\ Cardinality(queue) <= MaxQueue
    /\ \A i \in Items : status[i] = "pending" => i \in queue \cup discarded

\* Unless processing is stopped, every queued item is completed, fails for
\* good or is discarded, also after starts and stops that overlapped.
EveryItemSettles ==
    \A i \in Items :
        (status[i] = "pending" /\ processing)
            ~> \/ ~processing
               \/ status[i] \in {"completed", "failed"}
               \/ i \in discarded

\* Once it was told to stop, and is not started again, every loop ends, the
\* forgotten ones too.
LoopsEnd == ~processing ~> (processing \/ \A l \in Loops : ~Live(l))

\* stop_processing "Stop background processing loop": while processing is stopped no
\* loop runs but those that a call of it still waits for, and those that were started
\* while an earlier call waited, which has forgotten them.
StopMeansStopped ==
    ~processing =>
        \A l \in Loops : Live(l) =>
            \/ l \in forgotten
            \/ \E s \in Stoppers : awaited[s] = l

\* The queue as those who enqueue see it: an item that no processor has any more, and
\* that was not given back, is abandoned.
StageNow ==
    [i \in Items |-> IF status[i] = "processing" /\ \A l \in Loops : i \notin loops[l].batch
                     THEN "abandoned" ELSE status[i]]

Work == INSTANCE WorkList WITH
            Jobs <- Items, MaxTries <- MaxRetries, MaxSize <- MaxQueue,
            stage <- StageNow, tries <- attempts, dropped <- discarded

\* "Items queued immediately, processed async", "Multiple items processed together",
\* "Retry failed items": whichever loops run, are stopped, overlap or are forgotten, the
\* items go through the queue as through one list that one worker takes them from.
ImplementsWorkList == Work!Spec
=============================================================================
