------------------------------ MODULE WorkList ------------------------------
(***************************************************************************)
(* What proactive/queue_manager.ExtractionQueue promises to those who      *)
(* enqueue: jobs are taken in the order in which they came, so many at a   *)
(* time, by one processor each, and tried so often; when there are too     *)
(* many, the oldest that waits is dropped.  Tasks, starts and stops do not *)
(* appear: a job is only abandoned when its processor is cancelled.        *)
(***************************************************************************)
EXTENDS Naturals, FiniteSets

CONSTANTS Jobs, MaxTries, BatchSize, MaxSize

VARIABLES stage,   \* "new", "pending", "processing", "completed", "failed" or "abandoned"
          tries,   \* times a job was taken
          dropped  \* the jobs that the list has dropped

Init ==
    /\ stage = [j \in Jobs |-> "new"]
    /\ tries = [j \in Jobs |-> 0]
    /\ dropped = {}

Waiting == {j \in Jobs : stage[j] = "pending" /\ j \notin dropped}
Known == {j \in Jobs : stage[j] # "new" /\ j \notin dropped}

\* A job may push another one out: the oldest that waits or, if none waits, any other.
Submit(j) ==
    /\ stage[j] = "new" /\ \A k \in Jobs : k < j => stage[k] # "new"
    /\ stage' = [stage EXCEPT ![j] = "pending"]
    /\ \/ UNCHANGED dropped
       \/ \E k \in Known :
            /\ Cardinality(Known) >= MaxSize
            /\ \A w \in Waiting : k \in Waiting /\ k <= w
            /\ dropped' = dropped \cup {k}
    /\ UNCHANGED tries

Clear ==
    /\ dropped' = dropped \cup Waiting
    /\ UNCHANGED <<stage, tries>>

Oldest == {j \in Waiting : Cardinality({k \in Waiting : k < j}) < BatchSize}

Take ==
    /\ stage' = [j \in Jobs |-> IF j \in Oldest THEN "processing" ELSE stage[j]]
    /\ tries' = [j \in Jobs |-> tries[j] + (IF j \in Oldest THEN 1 ELSE 0)]
    /\ UNCHANGED dropped

\* A processor has its batch, and is done with it.
Taken(batch) == \A j \in batch : stage[j] = "processing"
Leaves(batch, to) ==
    /\ Taken(batch)
    /\ stage' = [j \in Jobs |-> IF j \in batch THEN to[j] ELSE stage[j]]
    /\ UNCHANGED <<tries, dropped>>

Completed == [j \in Jobs |-> "completed"]
Failed == [j \in Jobs |-> IF tries[j] >= MaxTries THEN "failed" ELSE "pending"]
Abandoned == [j \in Jobs |-> "abandoned"]

Next ==
    \/ \E j \in Jobs : Submit(j)
    \/ Clear \/ Take
    \/ \E batch \in SUBSET Jobs :
          Leaves(batch, Completed) \/ Leaves(batch, Failed) \/ Leaves(batch, Abandoned)

Spec == Init /\ [][Next]_<<stage, tries, dropped>>
=============================================================================
