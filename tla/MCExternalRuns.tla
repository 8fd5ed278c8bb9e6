--------------------------- MODULE MCExternalRuns ---------------------------
(* Inbox and ExternalRuns, for TLC: one child and two possible parents, and  *)
(* two runs that want one directory, with two processes.                     *)
EXTENDS ExternalRuns, TLC

CONSTANT m1

Parents == [k \in Keys |-> m1]

(* Bound: the messages of one behaviour are of one kind.  Messages of two   *)
(* kinds share no state but the process that works on them, and a process   *)
(* works on one message at a time.                                          *)
Mail    == (\E o \in Orders : order[o] # "none")
           \/ (\E p \in Procs : proc[p].key \in Reports) \/ (\E k \in Reports : Recorded(k))
Signals == policy # [on |-> {}, holds |-> {}] \/ \E k \in Policies : Recorded(k)
Notices == command.state # "pending"
Outside == \E r \in Runs : run[r].state # "none"
OneKind ==
    LET kinds == <<Mail, Signals, Notices, Outside>> IN
    Cardinality({i \in DOMAIN kinds : kinds[i]}) <= 1

(* Bound: two sessions are retired or archived in one behaviour. *)
TwoChanges == Cardinality({s \in Sessions : Quarantined(s)}) + Cardinality(archived) <= 2

(* Bound: in a behaviour about runs, which look at nothing of a session but  *)
(* its workspace, sessions stay live, and something fails, or the parent     *)
(* goes away, or there is a second run.                                      *)
FewComplications ==
    LET extra == <<faults > 0, archived # {}, \A r \in Runs : run[r].state # "none">> IN
    Outside => /\ \A s \in Sessions : ~Quarantined(s)
               /\ Cardinality({i \in DOMAIN extra : extra[i]}) <= 1

Bounded == OneKind /\ TwoChanges /\ FewComplications
=============================================================================
