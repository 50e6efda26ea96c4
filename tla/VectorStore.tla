---------------------------- MODULE VectorStore ----------------------------
(***************************************************************************)
(* What embedding_cache.py promises of one text, for those who ask for its *)
(* embedding: a get gives one of the vectors that are kept, or none.  The  *)
(* vectors are numbered in the order in which they were given to set.      *)
(***************************************************************************)
EXTENDS Naturals

VARIABLES kept,   \* the vectors that a get may give
          made,   \* vectors so far
          oldest  \* the first that has not been replaced or deleted

Init == kept = {} /\ made = 0 /\ oldest = 1

Set ==
    /\ made' = made + 1 /\ kept' = kept \cup {made'}
    /\ UNCHANGED oldest

\* By expiry, by clear and prune, by a set or a delete, and when a write is lost.
Lose ==
    /\ kept' \subseteq kept
    /\ UNCHANGED <<made, oldest>>

\* A set or a delete that nothing disturbed: what was there before is gone.
Settle ==
    /\ oldest' \in {made, made + 1}
    /\ kept' \subseteq {v \in kept : v >= oldest'}
    /\ UNCHANGED made

Next == Set \/ Lose \/ Settle

Spec == Init /\ [][Next]_<<kept, made, oldest>>
=============================================================================
