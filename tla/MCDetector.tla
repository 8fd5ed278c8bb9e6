----------------------------- MODULE MCDetector -----------------------------
EXTENDS Detector, TLC
CONSTANTS m, c

(* A manager without a manager, and its child. *)
MCParent == (m :> None) @@ (c :> m)
MCCeiling == (m :> 0) @@ (c :> 1)
MCRank == (c :> 1) @@ (m :> 2)
=============================================================================
