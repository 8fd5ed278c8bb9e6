------------------------------- MODULE MCMail -------------------------------
(* Mail, for TLC. *)
EXTENDS Mail, TLC

(* Bounds: a behaviour is about mail or about checkpoints; the calls of the  *)
(* two share the row, which both see a replacement and an end change.  In    *)
(* one about mail something fails, or the task is replaced, or a second mail *)
(* is sent.                                                                  *)
Unsent(k)  == out[k].state = "none" /\ \A p \in Procs : On(p) # k
Unsaved(s) == op[s].state = "none" /\ \A p \in Procs : On(p) # s
First      == CHOOSE k \in Mails : TRUE

Bounded ==
    \/ \A k \in Mails : Unsent(k)
    \/ /\ \A s \in Saves : Unsaved(s)
       /\ ~Unsent(First)
       /\ LET extra == <<faults > 0, row.epoch > 1, \A k \in Mails : ~Unsent(k)>> IN
          Cardinality({i \in DOMAIN extra : extra[i]}) <= 1
=============================================================================
