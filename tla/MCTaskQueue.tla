---------------------------- MODULE MCTaskQueue ----------------------------
(* TaskQueue on small instances.  Tasks are told apart by their stamps only, *)
(* and handler threads not at all.                                           *)
EXTENDS TaskQueue, TLC

Symmetry == Permutations(Tasks) \cup Permutations(Clients)
=============================================================================
