---------------------------- MODULE MCSqlitePool ----------------------------
(* A pool of two and two reading threads beside the writer: the pool runs  *)
(* empty, temporary connections push pooled ones out, and one connection   *)
(* can keep the write lock while another fails on it and a third reads.    *)
EXTENDS SqlitePool, TLC

Symmetry == Permutations(Conns) \cup Permutations(Readers) \cup Permutations(Docs)
=============================================================================
