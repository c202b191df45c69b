------------------------ MODULE MCCheckpointBinding ------------------------
(* CheckpointBinding on small instances. *)
EXTENDS CheckpointBinding, TLC

Symmetry == Permutations(Tasks) \cup Permutations(Creds)
=============================================================================
