-------------------------- MODULE MCTierPromotion --------------------------
(* Three documents, one too short and one too long to be promoted as they  *)
(* are, for a queue of two: promotions of different documents meet in the  *)
(* queue, in the promoter and among the abandoned coroutines.  A threshold *)
(* of two lets one document's accesses be split over Redis and the local   *)
(* table, which has room for one.                                          *)
EXTENDS TierPromotion
=============================================================================
