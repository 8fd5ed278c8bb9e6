---------------------------- MODULE ExternalRuns ----------------------------
(***************************************************************************)
(* Subscriptions to processes that somebody else runs (external_runs.py):  *)
(* a leased output directory, a process that may be bound to it, the       *)
(* terminal receipt the runner leaves there, and the reconciler that turns *)
(* a receipt or a vanished process into one message to the return session, *)
(* through escalate().                                                     *)
(*                                                                         *)
(* The reconciler runs in every tick of the bridge and in a command of the *)
(* CLI.  reconcile() visits the pending runs; a stale transition raises    *)
(* out of it.  The receipt is a file written by a stranger: it may be half *)
(* written, be replaced, and be of another run.                            *)
(***************************************************************************)
EXTENDS Inbox

CONSTANT Roots          \* output directories

Outcomes  == {"completed", "failed"}
OpenStates == {"subscribed", "running"}
NoFile    == [by |-> None, says |-> "none"]

VARIABLES
    run,        \* run[r]: the subscription row
    lease,      \* lease[r]: the output lease, "none", "active" or "released"
    process,    \* process[r]: the runner's process, "none", "alive" or "gone"
    receipt,    \* receipt[d]: the terminal receipt found in a directory
    case        \* case[p]: what p has read of the run it reconciles

runVars == <<run, lease, process, receipt, case>>
allVars == <<vars, runVars>>
RunType ==
    [ state   : {"none", "subscribed", "running", "terminal", "lost", "delivering", "notified"},
      version : 0..4,
      root    : Roots \union {None},
      digest  : Outcomes \union {None},               \* the receipt it preserved
      outcome : Outcomes \union {"lost/unknown", None} ]
NoRun == [state |-> "none", version |-> 0, root |-> None, digest |-> None, outcome |-> None]

FileType == [by : Runs \union {None}, says : Outcomes \union {"torn", "none"}]

NoCase == [row |-> NoRun, found |-> "none"]
CaseType == [row : RunType, found : Outcomes \union {"error", "none"}]

RunsInit ==
    /\ Init
    /\ run = [r \in Runs |-> NoRun]
    /\ lease = [r \in Runs |-> "none"]
    /\ process = [r \in Runs |-> "none"]
    /\ receipt = [d \in Roots |-> NoFile]
    /\ case = [p \in Procs |-> NoCase]

KeepInbox == UNCHANGED <<sessionVars, queue, storeVars, command, memory>>

(* reconcile_one's run, and the row and the receipt it read. *)
R(p)     == proc[p].key
Row(p)   == case[p].row
Found(p) == case[p].found

(* The row is still the one p has read: _transition compares the versions. *)
Fresh(p) == run[R(p)].version = Row(p).version

(* p goes on with the row it has just written, or got back. *)
Onto(p, r, row, pc) ==
    /\ run' = [run EXCEPT ![r] = row]
    /\ case' = [case EXCEPT ![p].row = row]
    /\ Goto(p, pc)

Abandon(p) == Return(p) /\ case' = [case EXCEPT ![p] = NoCase]

-----------------------------------------------------------------------------
(* Runners *)

(* subscribe: one transaction; the directory is empty and nobody leases it. *)
Subscribe(r, d) ==
    /\ run[r].state = "none"
    /\ receipt[d] = NoFile
    /\ \A s \in Runs : run[s].root = d => lease[s] # "active"
    /\ run' = [run EXCEPT ![r] = [NoRun EXCEPT !.state = "subscribed", !.root = d]]
    /\ lease' = [lease EXCEPT ![r] = "active"]
    /\ KeepInbox /\ UNCHANGED <<proc, faults, process, receipt, case>>

StartProcess(r) ==
    /\ run[r].state = "subscribed" /\ process[r] = "none"
    /\ process' = [process EXCEPT ![r] = "alive"]
    /\ KeepInbox /\ UNCHANGED <<proc, faults, run, lease, receipt, case>>

(* bind: the fingerprint is live, the row is at the version the runner knows. *)
Bind(r) ==
    /\ run[r].state = "subscribed" /\ process[r] = "alive"
    /\ run' = [run EXCEPT ![r].state = "running", ![r].version = @ + 1]
    /\ KeepInbox /\ UNCHANGED <<proc, faults, lease, process, receipt, case>>

(* The runner writes its receipt while its process lives: in two steps, and *)
(* perhaps, against the contract, a second time (bound: uses up a fault).   *)
WriteReceipt(r) ==
    /\ process[r] = "alive" /\ run[r].root # None
    /\ LET d == run[r].root IN
       \/ /\ receipt[d] = NoFile
          /\ receipt' = [receipt EXCEPT ![d] = [by |-> r, says |-> "torn"]]
          /\ UNCHANGED faults
       \/ /\ receipt[d] = [by |-> r, says |-> "torn"]
          /\ \E o \in Outcomes : receipt' = [receipt EXCEPT ![d].says = o]
          /\ UNCHANGED faults
       \/ /\ receipt[d] = [by |-> r, says |-> "failed"]
          /\ receipt' = [receipt EXCEPT ![d].says = "completed"]
          /\ Fault
    /\ KeepInbox /\ UNCHANGED <<proc, run, lease, process, case>>

ProcessEnds(r) ==
    /\ process[r] = "alive"
    /\ process' = [process EXCEPT ![r] = "gone"]
    /\ KeepInbox /\ UNCHANGED <<proc, faults, run, lease, receipt, case>>

(* A directory whose lease was released is emptied for another run. *)
EmptyRoot(d) ==
    /\ receipt[d] # NoFile
    /\ \A r \in Runs : run[r].root = d => lease[r] # "active"
    /\ receipt' = [receipt EXCEPT ![d] = NoFile]
    /\ KeepInbox /\ UNCHANGED <<proc, faults, run, lease, process, case>>

-----------------------------------------------------------------------------
(* reconcile_one *)

Reconcile(p, r) ==
    /\ run[r].state \notin {"none", "notified"}
    /\ Begin(p, "read", r)
    /\ case' = [case EXCEPT ![p] = [NoCase EXCEPT !.row = run[r]]]
    /\ KeepInbox /\ UNCHANGED <<faults, run, lease, process, receipt>>

(* _receipt: absent, readable and of this run, or an error. *)
Reading(r, d) ==
    IF receipt[d] = NoFile THEN "none"
    ELSE IF receipt[d].by = r /\ receipt[d].says # "torn" THEN receipt[d].says
    ELSE "error"

ReadReceipt(p) ==
    /\ At(p, "read")
    /\ LET found == Reading(R(p), Row(p).root) IN
       \/ /\ found \in Outcomes
          /\ Goto(p, "preserve") /\ case' = [case EXCEPT ![p].found = found]
       \/ /\ found \notin Outcomes /\ Row(p).state = "running"
          /\ Goto(p, "probe") /\ case' = [case EXCEPT ![p].found = found]
       \/ /\ found = "none" /\ Row(p).state \in {"terminal", "lost", "delivering"}
          /\ Goto(p, "begin") /\ case' = [case EXCEPT ![p].found = found]
       \/ /\ found \notin Outcomes /\ Row(p).state # "running"
          /\ found = "error" \/ Row(p).state = "subscribed"
          /\ Abandon(p)
    /\ KeepInbox /\ UNCHANGED <<faults, run, lease, process, receipt>>

(* _live: ps shows the bound fingerprint.  A ps that times out shows none. *)
Probe(p) ==
    /\ At(p, "probe")
    /\ \/ process[R(p)] = "alive" /\ Abandon(p) /\ UNCHANGED faults
       \/ process[R(p)] = "gone"  /\ Goto(p, "lose") /\ UNCHANGED <<case, faults>>
       \/ process[R(p)] = "alive" /\ Fault /\ Goto(p, "lose") /\ UNCHANGED case
    /\ KeepInbox /\ UNCHANGED <<run, lease, process, receipt>>

(* Mutant: preserve_lost without the version and the states it expects. *)
LoseStale(p) ==
    /\ At(p, "lose")
    /\ Onto(p, R(p), [run[R(p)] EXCEPT !.state = "lost", !.version = @ + 1,
                                       !.outcome = "lost/unknown"], "begin")
    /\ KeepInbox /\ UNCHANGED <<faults, lease, process, receipt>>

(* preserve_lost; a stale version raises. *)
Lose(p) ==
    /\ At(p, "lose")
    /\ IF Fresh(p) /\ run[R(p)].state \in OpenStates
       THEN Onto(p, R(p), [run[R(p)] EXCEPT !.state = "lost", !.version = @ + 1,
                                            !.outcome = "lost/unknown"], "begin")
       ELSE Abandon(p) /\ UNCHANGED run
    /\ KeepInbox /\ UNCHANGED <<faults, lease, process, receipt>>

(* preserve_terminal: the first receipt stays; another one is diagnosed and *)
(* the row read again; a row that is no longer open raises.                 *)
Preserve(p) ==
    /\ At(p, "preserve")
    /\ LET r == R(p) IN
       \/ /\ Row(p).digest # None
          /\ LET row == IF Row(p).digest = Found(p) THEN Row(p) ELSE run[r] IN
             /\ case' = [case EXCEPT ![p].row = row]
             /\ IF row.state \in {"terminal", "lost", "delivering"}
                THEN Goto(p, "begin") ELSE Return(p)
          /\ UNCHANGED run
       \/ /\ Row(p).digest = None /\ Fresh(p) /\ run[r].state \in OpenStates
          /\ Onto(p, r, [run[r] EXCEPT !.state = "terminal", !.version = @ + 1,
                                       !.digest = Found(p), !.outcome = Found(p)], "begin")
       \/ /\ Row(p).digest = None /\ ~(Fresh(p) /\ run[r].state \in OpenStates)
          /\ Abandon(p) /\ UNCHANGED run
    /\ KeepInbox /\ UNCHANGED <<faults, lease, process, receipt>>

(* begin_delivery, and on to escalate(). *)
BeginDelivery(p) ==
    /\ At(p, "begin")
    /\ \/ Row(p).state = "delivering" /\ Goto(p, "look") /\ UNCHANGED <<run, case>>
       \/ /\ Row(p).state # "delivering" /\ Fresh(p)
          /\ Onto(p, R(p), [run[R(p)] EXCEPT !.state = "delivering", !.version = @ + 1], "look")
       \/ Row(p).state # "delivering" /\ ~Fresh(p) /\ Abandon(p) /\ UNCHANGED run
    /\ KeepInbox /\ UNCHANGED <<faults, lease, process, receipt>>

(* mark_notified: the row and its lease, in one transaction. *)
MarkNotified(p) ==
    /\ At(p, "mark")
    /\ IF run[R(p)].state = "delivering" /\ Fresh(p)
       THEN /\ run' = [run EXCEPT ![R(p)].state = "notified", ![R(p)].version = @ + 1]
            /\ lease' = [lease EXCEPT ![R(p)] = "released"]
       ELSE UNCHANGED <<run, lease>>
    /\ Abandon(p)
    /\ KeepInbox /\ UNCHANGED <<faults, process, receipt>>

ReconcileStep(p) ==
    ReadReceipt(p) \/ Probe(p) \/ Lose(p) \/ Preserve(p) \/ BeginDelivery(p) \/ MarkNotified(p)

(* Whatever else Inbox says of a process.  A run that was parked, or whose   *)
(* message failed, is over for this pass.                                    *)
InboxStep ==
    /\ InboxNext
    /\ case' = [p \in Procs |-> IF proc'[p].pc = "idle" THEN NoCase ELSE case[p]]
    /\ UNCHANGED <<run, lease, process, receipt>>

RunsNext ==
    \/ InboxStep
    \/ \E r \in Runs : StartProcess(r) \/ Bind(r) \/ WriteReceipt(r) \/ ProcessEnds(r)
                       \/ \E d \in Roots : Subscribe(r, d)
    \/ \E d \in Roots : EmptyRoot(d)
    \/ \E p \in Procs : ReconcileStep(p) \/ \E r \in Runs : Reconcile(p, r)

RunsSpec == RunsInit /\ [][RunsNext]_allVars

FairRunsSpec == RunsSpec /\ Fairness

-----------------------------------------------------------------------------
(* Properties *)

(* Subscriptions, output leases and receipts are what external_runs.py stores. *)
RunsTypeOK ==
    /\ TypeOK
    /\ run \in [Runs -> RunType]
    /\ lease \in [Runs -> {"none", "active", "released"}]
    /\ process \in [Runs -> {"none", "alive", "gone"}]
    /\ receipt \in [Roots -> FileType]
    /\ case \in [Procs -> CaseType]

(* external_runs.py, mark_notified: a run counts as notified only when its   *)
(* return session has its message, and its directory stays leased until      *)
(* then - whichever of two reconcilers delivered, retried or died.           *)
NotifiedWasTold ==
    \A r \in Runs :
        /\ run[r].state = "notified" => ack[r] # None /\ <<ack[r], r>> \in queue
        /\ lease[r] = "active" <=> run[r].state \notin {"none", "notified"}

(* liveness-spec.md: a terminal receipt is evidence, and the first one        *)
(* stays: what was recorded of a run is not changed by another reconciler,    *)
(* a later receipt or a late look at the process.                             *)
OutcomeIsFinal ==
    [][ \A r \in Runs : run[r].outcome # None =>
            run'[r].outcome = run[r].outcome /\ run'[r].digest = run[r].digest ]_allVars
=============================================================================
