------------------------------- MODULE MCHost -------------------------------
(* Leases and Updates, for TLC: what commands and the bridge keep in files   *)
(* of the host.  The two share no state.                                     *)
EXTENDS Leases, Updates, FiniteSets, TLC

(* A direct workspace and one in a worktree of one repository, and a third   *)
(* place that only the lease command takes.                                  *)
MCPlaces   == {"repo", "tree1", "tree2"}
MCTree     == [x \in MCPlaces |-> IF x = "repo" THEN None ELSE x]
MCRepo     == [x \in MCPlaces |-> "r"]
MCPlaceOf  == [w \in Workspaces |-> IF w = "w1" THEN "repo" ELSE "tree1"]

HostInit == Init /\ ReleasesInit

HostSpec ==
    /\ HostInit
    /\ [][ \/ Next /\ UNCHANGED releaseVars
           \/ ReleasesNext /\ UNCHANGED vars ]_<<vars, releaseVars>>
    /\ Fairness

(* Bound: a behaviour is about leases or about releases; in one about        *)
(* releases one of these happens: something fails, a service command runs, a *)
(* second release is staged.                                                 *)
Untouched ==
    /\ Held = {} /\ stopped = {} /\ \A p \in Procs : proc[p] = Idle
    /\ \A w \in Workspaces : workspace[w] = "none" /\ mapping[w] = None
    /\ \A x \in Places : capability[x] = None

Bounded ==
    /\ Untouched \/ ReleasesInit
    /\ LET extra == <<spent.faults > 0, spent.services > 0, spent.stages > 1>> IN
       Cardinality({i \in DOMAIN extra : extra[i]}) <= 1
=============================================================================
