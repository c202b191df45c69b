--------------------------- MODULE MCCloseCheck ---------------------------
(* CloseCheck on small instances. *)
EXTENDS CloseCheck, TLC

Symmetry == Permutations(Plans)
=============================================================================
