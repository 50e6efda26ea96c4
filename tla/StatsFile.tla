----------------------------- MODULE StatsFile -----------------------------
(***************************************************************************)
(* stats_collector.py: the operations that a process counts in memory, and *)
(* the file it saves the counts to, which other processes save to, too.    *)
(* Neither the counts nor the file are locked.  A save opens the file,     *)
(* which empties it, and then writes it.                                   *)
(***************************************************************************)
EXTENDS Naturals

CONSTANTS Processes, Tiers, Batch, MaxOperations

\* A batch is ten operations.
ASSUME BatchAssumption == Batch \in Nat \ {0}

VARIABLES
    count,      \* operation_count by process and tier, 0 if it has none
    dirty,      \* _dirty
    alive,      \* the processes that run
    saving,     \* those that have the file open
    file, torn, \* the counts in the file; it is empty
    done,       \* history: operations so far
    met,        \* history: a second process has been there since a sound load or save
    failed      \* history: a save has failed since the last that did not

statsVars == <<count, dirty, alive, saving, file, torn, done, met, failed>>

Zero == [t \in Tiers |-> 0]

StatsInit ==
    /\ count = [p \in Processes |-> Zero] /\ dirty = {} /\ alive = {} /\ saving = {}
    /\ file = Zero /\ torn = FALSE /\ done = Zero /\ met = FALSE /\ failed = FALSE

\* _load: what cannot be parsed is no statistics.
Start(p) ==
    /\ p \notin alive /\ alive' = alive \cup {p}
    /\ count' = [count EXCEPT ![p] = IF torn THEN Zero ELSE file]
    /\ dirty' = dirty \ {p}
    /\ done' = IF alive = {} THEN count'[p] ELSE done
    /\ met' = (alive # {}) /\ failed' = (alive # {} /\ failed)
    /\ UNCHANGED <<saving, file, torn>>

\* Mutant: every second batch is left out.
DueLate(p, t) == (count[p][t] + 1) % (2 * Batch) = 0

\* Every tenth operation of a tier saves all of them.
Due(p, t) == (count[p][t] + 1) % Batch = 0

Record(p, t) ==
    /\ p \in alive \ saving /\ count[p][t] < MaxOperations
    /\ count' = [count EXCEPT ![p][t] = @ + 1]
    /\ done' = [done EXCEPT ![t] = IF @ < MaxOperations THEN @ + 1 ELSE @]
    /\ IF Due(p, t)
       THEN \/ saving' = saving \cup {p} /\ torn' = TRUE /\ UNCHANGED <<dirty, failed>>
            \/ failed' = TRUE /\ dirty' = dirty \cup {p} /\ UNCHANGED <<saving, torn>>
       ELSE dirty' = dirty \cup {p} /\ UNCHANGED <<saving, torn, failed>>
    /\ UNCHANGED <<alive, file, met>>

\* flush, and reset, which saves nothing but zeros.  Opening the file may fail.
Flush(p) ==
    /\ p \in dirty \ saving /\ p \in alive
    /\ \/ saving' = saving \cup {p} /\ torn' = TRUE /\ UNCHANGED failed
       \/ failed' = TRUE /\ UNCHANGED <<saving, torn>>
    /\ UNCHANGED <<count, dirty, alive, file, done, met>>

Reset(p) ==
    /\ p \in alive \ saving
    /\ count' = [count EXCEPT ![p] = Zero] /\ done' = IF met THEN done ELSE Zero
    /\ \/ saving' = saving \cup {p} /\ torn' = TRUE /\ UNCHANGED failed
       \/ failed' = TRUE /\ UNCHANGED <<saving, torn>>
    /\ UNCHANGED <<dirty, alive, file, met>>

\* The text is written, or the disk is full.
SaveFile(p) ==
    /\ p \in saving /\ saving' = saving \ {p}
    /\ \/ file' = count[p] /\ torn' = FALSE /\ dirty' = dirty \ {p} /\ failed' = FALSE
       \/ failed' = TRUE /\ UNCHANGED <<file, torn, dirty>>
    /\ UNCHANGED <<count, alive, done, met>>

\* A process ends.  Nothing flushes.
ProcessDies(p) ==
    /\ p \in alive /\ alive' = alive \ {p} /\ saving' = saving \ {p}
    /\ count' = [count EXCEPT ![p] = Zero] /\ dirty' = dirty \ {p}
    /\ UNCHANGED <<file, torn, done, met, failed>>

StatsNext ==
    \E p \in Processes :
        \/ Start(p) \/ \E t \in Tiers : Record(p, t)
        \/ Flush(p) \/ Reset(p) \/ SaveFile(p) \/ ProcessDies(p)

StatsSpec == StatsInit /\ [][StatsNext]_statsVars
-----------------------------------------------------------------------------
\* As long as one process has the file to itself and saves succeed, what a restart would
\* lose of any tier is less than a batch, except between the opening of the file and the
\* writing of it.
LossIsBounded ==
    ~met /\ ~failed /\ ~torn => \A t \in Tiers : done[t] < file[t] + Batch
=============================================================================
