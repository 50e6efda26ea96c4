------------------------------ MODULE OnceCell ------------------------------
(***************************************************************************)
(* What server.LazyService promises its callers: a cell that is filled at  *)
(* most once between two resets, with an instance or with a failure, and   *)
(* get returns what the cell holds at some moment of the call.             *)
(***************************************************************************)
CONSTANTS Threads, Instances, Unset, Failed, Idle, Asking

VARIABLES cell, \* Unset, Failed or an instance
          call  \* each thread: Idle, Asking, or the answer it was given

Answers == Instances \cup {Failed}

Init ==
    /\ cell = Unset
    /\ call = [t \in Threads |-> Idle]

Ask(t) ==
    /\ call[t] = Idle
    /\ call' = [call EXCEPT ![t] = Asking]
    /\ UNCHANGED cell

\* The first caller that finds the cell unset fills it.
Fill(t) ==
    /\ call[t] = Asking
    /\ cell = Unset
    /\ cell' \in Answers
    /\ UNCHANGED call

Answer(t) ==
    /\ call[t] = Asking
    /\ cell # Unset
    /\ call' = [call EXCEPT ![t] = cell]
    /\ UNCHANGED cell

Return(t) ==
    /\ call[t] \in Answers
    /\ call' = [call EXCEPT ![t] = Idle]
    /\ UNCHANGED cell

Reset ==
    /\ cell' = Unset
    /\ UNCHANGED call

Next == Reset \/ \E t \in Threads : Ask(t) \/ Fill(t) \/ Answer(t) \/ Return(t)

Spec == Init /\ [][Next]_<<cell, call>>
=============================================================================
