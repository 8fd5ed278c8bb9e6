------------------------- MODULE MCTaskLifecycle -------------------------
(* TaskLifecycle over two interchangeable tasks. *)
EXTENDS TaskLifecycle, TLC

Symmetric == Permutations(Tasks)
=============================================================================
