------------------------------ MODULE MCLaunch ------------------------------
(* Launch, for TLC. *)
EXTENDS Launch, TLC

CommandSymmetry == Permutations(Commands)
=============================================================================
