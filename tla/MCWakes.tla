------------------------------ MODULE MCWakes ------------------------------
(* Wakes, for TLC. *)
EXTENDS Wakes, TLC, FiniteSets

(* Bound: a behaviour has a fault, a successor of the manager or a child    *)
(* reserved anew; two of them, or the last, only while there is one child.  *)
Successor == parent.state \in {"retired", "handover"} \/ parent.holder > 1
Anew      == \E c \in Children : child[c].epoch > 1
OneChild  == \E c \in Children : child[c].state = "none"

FewComplications ==
    /\ ~(Anew /\ (Successor \/ faults > 0))
    /\ (Anew \/ (Successor /\ faults > 0)) => OneChild
=============================================================================
