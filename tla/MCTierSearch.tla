---------------------------- MODULE MCTierSearch ----------------------------
(* Two documents of one type and two groups, and an entity: the limit has   *)
(* room for all that a search can find.                                     *)
EXTENDS TierSearch

CONSTANT Entity

TwoDocuments == {[id |-> 1, type |-> "note", group |-> "x"],
                 [id |-> 2, type |-> "note", group |-> "y"]}
=============================================================================
