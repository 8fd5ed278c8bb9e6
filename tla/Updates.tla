------------------------------ MODULE Updates ------------------------------
(***************************************************************************)
(* Releases of cdesktop: staging, cancelling, pruning and activating them  *)
(* (updates.py), and the launchd services they replace (service.py).       *)
(*                                                                         *)
(* Activations exclude each other with a file lock; staging, cancelling,   *)
(* pruning and the service commands take none.  Each of them reads         *)
(* update.json at its start and writes the whole of it later: an           *)
(* activation after a wait of up to a quarter of an hour.                  *)
(***************************************************************************)
EXTENDS Naturals, Sequences

CONSTANTS
    Releases,       \* packages that are staged
    Bad,            \* those whose backend does not come up healthy
    Base,           \* the cdesktop on the PATH, which "service install" names
    Undrained,      \* versions that are known to lack the drain endpoint
    Callers,       \* processes that run update and service commands
    NoRelease,
    MaxStages,      \* bound: releases staged
    MaxServices,    \* bound: service commands
    MaxFaults       \* bound: failed requests, launchctl errors and crashes

Databases == {"relationships", "delivery"}

VARIABLES
    file,       \* update.json
    dirs,       \* the installed releases, newest first
    plist,      \* the executable the service definition names
    backend,    \* the service: loaded, what it runs, and whether it is healthy
    bridge,     \* the bridge service is loaded
    wanted,     \* the last service command that ended left it loaded
    drain,      \* the backend refuses new launches
    work,       \* what runs in it: "none", a "turn", or one that awaits an "approval"
    legacy,     \* legacy databases that are not archived yet
    imported,   \* legacy databases whose rows the backend has
    caller,
    spent       \* the bounds that are used up

serviceVars == <<plist, backend, bridge, wanted>>
executorVars == <<drain, work>>
legacyVars == <<legacy, imported>>
releaseVars ==
    <<file, dirs, serviceVars, executorVars, legacyVars, caller, spent>>

FileType == [ status  : {"idle", "staged", "drain-timed-out", "activating", "failed",
                         "active", "cancelled"},
              pending : Releases \union {NoRelease}, active : Releases \union {NoRelease} ]
NoFile == [status |-> "idle", pending |-> NoRelease, active |-> NoRelease]

NoCall == [pc |-> "idle", release |-> NoRelease, state |-> NoFile, enforced |-> FALSE, old |-> Base]

ReleasesInit ==
    /\ file = NoFile /\ dirs = <<>>
    /\ plist = Base /\ backend = [loaded |-> TRUE, runs |-> Base, healthy |-> TRUE]
    /\ bridge = TRUE /\ wanted = TRUE
    /\ drain = FALSE /\ work = "none"
    /\ legacy = Databases /\ imported = {}
    /\ caller = [p \in Callers |-> NoCall]
    /\ spent = [stages |-> 0, services |-> 0, faults |-> 0, crashed |-> FALSE, slow |-> FALSE]

In(p, pc)   == caller[p].pc = pc
Go(p, pc)   == caller' = [caller EXCEPT ![p].pc = pc]
End(p)      == caller' = [caller EXCEPT ![p] = NoCall]
State(p)    == caller[p].state
Pending(p)  == State(p).pending
Call(p, pc, release) ==
    /\ In(p, "idle")
    /\ caller' = [caller EXCEPT ![p] = [NoCall EXCEPT !.pc = pc, !.release = release, !.state = file,
                                                      !.old = plist]]
Fault == spent.faults < MaxFaults /\ spent' = [spent EXCEPT !.faults = @ + 1]

Installed(r) == r = Base \/ \E i \in DOMAIN dirs : dirs[i] = r

Waiting    == {"drain", "wait", "bootout"}
Swapping   == {"define", "mark", "bootstrap", "health", "import", "archive", "restore",
               "record", "fail", "recordFailed", "recordFailedDown", "again"}
Starting   == {"start", "startBackend", "startHealth", "startBridge", "startFailed",
               "rollback", "rollbackHealth"}
Activating == Waiting \union Swapping

-----------------------------------------------------------------------------
(* stage, cancel, prune: no lock *)

Stage(p, r) ==
    /\ spent.stages < MaxStages /\ spent' = [spent EXCEPT !.stages = @ + 1]
    /\ Call(p, "stage", r)
    /\ UNCHANGED <<file, dirs, serviceVars, executorVars, legacyVars>>

(* Downloaded, verified and renamed into place, unless it is there already. *)
InstallRelease(p) ==
    /\ In(p, "stage")
    /\ LET r == caller[p].release IN
       \/ dirs' = (IF Installed(r) THEN dirs ELSE <<r>> \o dirs) /\ Go(p, "stageState")
          /\ UNCHANGED spent
       \/ dirs' = dirs /\ End(p) /\ Fault
    /\ UNCHANGED <<file, serviceVars, executorVars, legacyVars>>

(* The active release is the one that was read before the download.  One     *)
(* that somebody prunes meanwhile may not pass the check of its version.      *)
WriteStaged(p) ==
    /\ In(p, "stageState")
    /\ \/ /\ file' = [status |-> "staged", pending |-> caller[p].release, active |-> State(p).active]
          /\ Go(p, "prune")
       \/ ~Installed(caller[p].release) /\ End(p) /\ UNCHANGED file
    /\ UNCHANGED <<dirs, serviceVars, executorVars, legacyVars, spent>>

Cancel ==
    /\ file.pending # NoRelease
    /\ file' = [file EXCEPT !.status = "cancelled", !.pending = NoRelease]
    /\ UNCHANGED <<dirs, serviceVars, executorVars, legacyVars, caller, spent>>

(* The newest release that is neither active nor pending is spared. *)
Pruned(state) ==
    LET protected == {state.active, state.pending}
        spare == {i \in DOMAIN dirs : /\ dirs[i] \notin protected
                                      /\ \A j \in 1..(i - 1) : dirs[j] \in protected}
    IN  SelectSeq(dirs, LAMBDA r : r \in protected \/ \E i \in spare : dirs[i] = r)

PruneReads(p) ==
    /\ In(p, "prune") \/ (In(p, "idle") /\ dirs # <<>>)
    /\ caller' = [caller EXCEPT ![p].pc = "remove", ![p].state = file]
    /\ UNCHANGED <<file, dirs, serviceVars, executorVars, legacyVars, spent>>

PruneRemoves(p) ==
    /\ In(p, "remove")
    /\ dirs' = Pruned(State(p)) /\ End(p)
    /\ UNCHANGED <<file, serviceVars, executorVars, legacyVars, spent>>

-----------------------------------------------------------------------------
(* activate_after_drain *)

(* The service definition names the executable to run. *)
Define(executable) == plist' = executable

(* Mutant: an activation does not look who holds the lock. *)
ActivateUnlocked(p) ==
    /\ file.pending # NoRelease /\ Call(p, "drain", NoRelease)
    /\ UNCHANGED <<file, dirs, serviceVars, executorVars, legacyVars, spent>>

(* _activation_lock; without a staged release there is nothing to do. *)
Activate(p) ==
    /\ \A q \in Callers : caller[q].pc \notin Activating
    /\ file.pending # NoRelease /\ Call(p, "drain", NoRelease)
    /\ UNCHANGED <<file, dirs, serviceVars, executorVars, legacyVars, spent>>

(* A backend that is down, or is not known to lack the endpoint, refuses. *)
RequestDrain(p) ==
    /\ In(p, "drain")
    /\ \/ /\ backend.healthy /\ backend.runs \notin Undrained
          /\ drain' = TRUE /\ UNCHANGED spent
          /\ caller' = [caller EXCEPT ![p].pc = "wait", ![p].enforced = TRUE]
       \/ /\ backend.healthy /\ backend.runs \in Undrained
          /\ Go(p, "wait") /\ UNCHANGED <<drain, spent>>
       \/ ~backend.healthy /\ End(p) /\ UNCHANGED <<drain, spent>>
       \/ drain' \in {drain, backend.healthy} /\ End(p) /\ Fault
    /\ UNCHANGED <<file, dirs, serviceVars, work, legacyVars>>

(* Renewed on a cadence inside its time to live. *)
Rearm(p) ==
    /\ In(p, "wait") /\ caller[p].enforced /\ ~drain /\ backend.healthy
    /\ drain' = TRUE
    /\ UNCHANGED <<file, dirs, serviceVars, work, legacyVars, caller, spent>>

(* Mutant: only running turns count. *)
ApprovalsIgnored == work # "turn"

(* activity: neither a running process nor an approval. *)
NothingRuns == work = "none"

SeeIdle(p) ==
    /\ In(p, "wait") /\ backend.healthy /\ NothingRuns
    /\ Go(p, "bootout")
    /\ UNCHANGED <<file, dirs, serviceVars, executorVars, legacyVars, spent>>

(* The window is over, or the refusal cannot be renewed: the state that was  *)
(* read at the start is written back.  A release that fails raises instead.  *)
GiveUp(p) ==
    /\ In(p, "wait")
    /\ \/ /\ ~backend.healthy \/ ~NothingRuns
          /\ ~caller[p].enforced \/ backend.healthy
          /\ file' = [State(p) EXCEPT !.status = "drain-timed-out"]
          /\ drain' = (drain /\ ~caller[p].enforced) /\ UNCHANGED spent
       \/ ~backend.healthy /\ caller[p].enforced /\ UNCHANGED <<file, drain, spent>>
       \/ UNCHANGED <<file, drain>> /\ Fault
    /\ End(p)
    /\ UNCHANGED <<dirs, serviceVars, work, legacyVars>>

(* An error before the bridge counts as down: the drain is released. *)
Raise(p) == End(p) /\ drain' = (drain /\ ~(caller[p].enforced /\ backend.healthy))

(* The bridge makes room for the swap.  One that takes longer to unload than *)
(* _wait_until_unloaded is patient goes down without counting as down.       *)
BootoutBridge(p) ==
    /\ In(p, "bootout")
    /\ \/ bridge' = FALSE /\ Go(p, "define") /\ UNCHANGED <<drain, spent>>
       \/ bridge' = bridge /\ Raise(p) /\ Fault
       \/ /\ bridge' = FALSE /\ Raise(p)
          /\ spent.faults < MaxFaults
          /\ spent' = [spent EXCEPT !.faults = @ + 1, !.slow = TRUE]
    /\ UNCHANGED <<file, dirs, plist, backend, wanted, work, legacyVars>>

WriteDefinition(p) ==
    /\ In(p, "define")
    /\ \/ Define(Pending(p)) /\ Go(p, "mark") /\ UNCHANGED <<drain, spent>>
       \/ /\ plist' = plist /\ Go(p, "again") /\ Fault
          /\ drain' = (drain /\ ~(caller[p].enforced /\ backend.healthy))
    /\ UNCHANGED <<file, dirs, backend, bridge, wanted, work, legacyVars>>

MarkActivating(p) ==
    /\ In(p, "mark")
    /\ file' = [State(p) EXCEPT !.status = "activating"] /\ Go(p, "bootstrap")
    /\ UNCHANGED <<dirs, serviceVars, executorVars, legacyVars, spent>>

(* _bootstrap of the service: what runs in it is cut off. *)
Restart ==
    /\ backend' = [loaded |-> TRUE, runs |-> plist, healthy |-> Installed(plist) /\ plist \notin Bad]
    /\ drain' = FALSE /\ work' = "none"
Unload ==
    /\ backend' = [backend EXCEPT !.loaded = FALSE, !.healthy = FALSE]
    /\ drain' = FALSE /\ work' = "none"

BootstrapBackend(p) ==
    /\ In(p, "bootstrap")
    /\ \/ Restart /\ Go(p, "health") /\ UNCHANGED spent
       \/ Unload  /\ Go(p, "fail") /\ Fault
    /\ UNCHANGED <<file, dirs, plist, bridge, wanted, legacyVars>>

(* Healthy in time, and of the version that was staged. *)
CheckHealth(p) ==
    /\ In(p, "health")
    /\ \/ backend.healthy /\ backend.runs = Pending(p) /\ Go(p, "import") /\ UNCHANGED spent
       \/ ~(backend.healthy /\ backend.runs = Pending(p)) /\ Go(p, "fail") /\ UNCHANGED spent
       \/ Go(p, "fail") /\ Fault
    /\ UNCHANGED <<file, dirs, serviceVars, executorVars, legacyVars>>

Next1(dbs) == IF "relationships" \in dbs THEN "relationships" ELSE "delivery"

(* migrate_native_state: the rows of a database are sent under their dedupe *)
(* keys, and it is archived.                                                *)
Import(p) ==
    /\ In(p, "import")
    /\ \/ legacy = {} /\ Go(p, "restore") /\ UNCHANGED <<imported, spent>>
       \/ /\ legacy # {} /\ backend.healthy /\ imported' = imported \union {Next1(legacy)}
          /\ Go(p, "archive") /\ UNCHANGED spent
       \/ legacy # {} /\ ~backend.healthy /\ Go(p, "fail") /\ UNCHANGED <<imported, spent>>
       \/ legacy # {} /\ Go(p, "fail") /\ Fault /\ UNCHANGED imported
    /\ UNCHANGED <<file, dirs, serviceVars, executorVars, legacy>>

ArchiveLegacy(p) ==
    /\ In(p, "archive")
    /\ legacy' = legacy \ {Next1(legacy)} /\ Go(p, "import")
    /\ UNCHANGED <<file, dirs, serviceVars, executorVars, imported, spent>>

RestoreBridge(p) ==
    /\ In(p, "restore")
    /\ \/ bridge' = TRUE  /\ Go(p, "record") /\ UNCHANGED spent
       \/ bridge' = FALSE /\ Go(p, "fail") /\ Fault
    /\ UNCHANGED <<file, dirs, plist, backend, wanted, executorVars, legacyVars>>

RecordActive(p) ==
    /\ In(p, "record")
    /\ file' = [status |-> "active", pending |-> NoRelease, active |-> Pending(p)]
    /\ Go(p, "prune")
    /\ UNCHANGED <<dirs, serviceVars, executorVars, legacyVars, spent>>

(* Mutant: the bridge stays down until the next activation. *)
FailSwap(p) ==
    /\ In(p, "fail") /\ Go(p, "recordFailed")
    /\ drain' = (drain /\ ~backend.healthy)
    /\ UNCHANGED <<file, dirs, serviceVars, work, legacyVars, spent>>

(* The bridge goes back up whether or not the backend did; if it does not    *)
(* the first time, it is tried again once the failure is recorded.           *)
Fail(p) ==
    /\ In(p, "fail")
    /\ \/ bridge' = TRUE  /\ Go(p, "recordFailed") /\ UNCHANGED spent
       \/ bridge' = FALSE /\ Go(p, "recordFailedDown") /\ Fault
    /\ drain' = (drain /\ ~backend.healthy)
    /\ UNCHANGED <<file, dirs, plist, backend, wanted, work, legacyVars>>

RecordFailed(p) ==
    /\ \/ In(p, "recordFailed") /\ End(p)
       \/ In(p, "recordFailedDown") /\ Go(p, "again")
    /\ file' = [State(p) EXCEPT !.status = "failed", !.pending = NoRelease]
    /\ UNCHANGED <<dirs, serviceVars, executorVars, legacyVars, spent>>

(* Bound: what is tried again succeeds. *)
RestoreAgain(p) ==
    /\ In(p, "again")
    /\ bridge' = TRUE /\ End(p)
    /\ UNCHANGED <<file, dirs, plist, backend, wanted, executorVars, legacyVars, spent>>

ActivateStep(p) ==
    \/ RequestDrain(p) \/ Rearm(p) \/ SeeIdle(p) \/ GiveUp(p) \/ BootoutBridge(p)
    \/ WriteDefinition(p) \/ MarkActivating(p) \/ BootstrapBackend(p) \/ CheckHealth(p)
    \/ Import(p) \/ ArchiveLegacy(p) \/ RestoreBridge(p) \/ RecordActive(p)
    \/ Fail(p) \/ RecordFailed(p) \/ RestoreAgain(p)
-----------------------------------------------------------------------------
(* service start, stop and install *)

Service == spent.services < MaxServices /\ spent' = [spent EXCEPT !.services = @ + 1]

(* start; install writes its own definition first. *)
ServiceStart(p, install) ==
    /\ Call(p, "start", IF install THEN Base ELSE NoRelease)
    /\ Define(IF install THEN Base ELSE plist)
    /\ Service
    /\ UNCHANGED <<file, dirs, backend, bridge, wanted, executorVars, legacyVars>>

StartStep(p) ==
    /\ \/ In(p, "start") /\ bridge' = FALSE /\ wanted' = FALSE /\ Go(p, "startBackend")
          /\ UNCHANGED <<plist, backend, executorVars, spent>>
       \/ In(p, "startBackend") /\ Restart /\ Go(p, "startHealth")
          /\ UNCHANGED <<plist, bridge, wanted, spent>>
       \/ In(p, "startBackend") /\ Unload /\ Go(p, "startFailed") /\ Fault
          /\ UNCHANGED <<plist, bridge, wanted>>
       \/ In(p, "startHealth") /\ Go(p, IF backend.healthy THEN "startBridge" ELSE "startFailed")
          /\ UNCHANGED <<serviceVars, executorVars, spent>>
       \/ In(p, "startBridge") /\ bridge' = TRUE /\ wanted' = TRUE /\ End(p)
          /\ UNCHANGED <<plist, backend, executorVars, spent>>
       \/ In(p, "startBridge") /\ bridge' = FALSE /\ wanted' = FALSE /\ Go(p, "startFailed") /\ Fault
          /\ UNCHANGED <<plist, backend, executorVars>>
    /\ UNCHANGED <<file, dirs, legacyVars>>

(* An install that fails puts the definition back that it found, and starts  *)
(* what that names; a start that fails leaves it at that.                    *)
StartFailed(p) ==
    /\ \/ In(p, "startFailed") /\ caller[p].release = NoRelease /\ End(p)
          /\ UNCHANGED <<serviceVars, executorVars>>
       \/ In(p, "startFailed") /\ caller[p].release = Base
          /\ plist' = caller[p].old /\ Go(p, "rollback")
          /\ UNCHANGED <<backend, bridge, wanted, executorVars>>
       \/ In(p, "rollback") /\ Restart /\ Go(p, "rollbackHealth")
          /\ UNCHANGED <<plist, bridge, wanted>>
       \/ In(p, "rollbackHealth") /\ End(p)
          /\ bridge' = (bridge \/ backend.healthy) /\ wanted' = (wanted \/ backend.healthy)
          /\ UNCHANGED <<plist, backend, executorVars>>
    /\ UNCHANGED <<file, dirs, legacyVars, spent>>

ServiceStop ==
    /\ backend.loaded \/ bridge
    /\ bridge' = FALSE /\ wanted' = FALSE /\ Unload /\ Service
    /\ UNCHANGED <<file, dirs, plist, legacyVars, caller>>

-----------------------------------------------------------------------------
(* The executor, and processes that die *)

Turn ==
    /\ \/ work = "none" /\ backend.healthy /\ ~drain /\ work' = "turn"
       \/ work = "turn" /\ work' \in {"approval", "none"}
       \/ work = "approval" /\ work' = "turn"
    /\ UNCHANGED <<file, dirs, serviceVars, drain, legacyVars, caller, spent>>

(* The refusal runs out: while somebody renews it, for want of time. *)
DrainLapses ==
    /\ drain /\ drain' = FALSE
    /\ \/ (\A p \in Callers : ~caller[p].enforced) /\ UNCHANGED spent
       \/ Fault
    /\ UNCHANGED <<file, dirs, serviceVars, work, legacyVars, caller>>

Crash(p) ==
    /\ ~In(p, "idle") /\ End(p)
    /\ spent.faults < MaxFaults
    /\ spent' = [spent EXCEPT !.faults = @ + 1, !.crashed = TRUE]
    /\ UNCHANGED <<file, dirs, serviceVars, executorVars, legacyVars>>

ReleasesNext ==
    \/ \E p \in Callers :
        \/ \E r \in Releases : Stage(p, r)
        \/ InstallRelease(p) \/ WriteStaged(p) \/ PruneReads(p) \/ PruneRemoves(p)
        \/ Activate(p) \/ ActivateStep(p)
        \/ (\E install \in BOOLEAN : ServiceStart(p, install)) \/ StartStep(p) \/ StartFailed(p)
        \/ Crash(p)
    \/ Cancel \/ ServiceStop \/ Turn \/ DrainLapses

ReleasesSpec == ReleasesInit /\ [][ReleasesNext]_releaseVars

-----------------------------------------------------------------------------
(* Properties *)

CallerType ==
    [ pc : {"idle", "stage", "stageState", "prune", "remove"} \union Activating \union Starting,
      release : Releases \union {Base, NoRelease}, state : FileType, enforced : BOOLEAN,
      old : Releases \union {Base} ]

(* update.json, releases, services and callers are well formed. *)
ReleasesTypeOK ==
    /\ file \in FileType
    /\ \A i \in DOMAIN dirs : dirs[i] \in Releases /\ \A j \in 1..(i - 1) : dirs[i] # dirs[j]
    /\ plist \in Releases \union {Base}
    /\ backend \in [loaded : BOOLEAN, runs : Releases \union {Base}, healthy : BOOLEAN]
    /\ bridge \in BOOLEAN /\ wanted \in BOOLEAN
    /\ drain \in BOOLEAN /\ work \in {"none", "turn", "approval"}
    /\ legacy \subseteq Databases /\ imported \subseteq Databases
    /\ caller \in [Callers -> CallerType]
    /\ spent \in [ stages : 0..MaxStages, services : 0..MaxServices,
                faults : 0..MaxFaults, crashed : BOOLEAN, slow : BOOLEAN ]

(* operations.md: an activation "asks cdesktop to refuse new launches, then   *)
(* waits a bounded window for in-flight turns to reach terminal".  As long as *)
(* the refusal it renews is in force, what it takes down runs nothing: no     *)
(* turn, and none that awaits an answer.                                      *)
NoTurnCut ==
    \A p \in Callers :
        caller[p].pc \in {"bootout", "define", "mark", "bootstrap"} /\ drain => work = "none"

(* updates.py, _activate_locked: "The bridge was taken down for this swap     *)
(* alone, so it goes back up whether or not the replacement backend came up   *)
(* healthy" - whichever step of the swap failed, and whatever service         *)
(* commands ran meanwhile.                                                    *)
BridgeServed ==
    ( /\ \A p \in Callers : caller[p].pc \notin {"bootout"} \union Swapping \union Starting
      /\ wanted /\ ~spent.crashed /\ ~spent.slow )
    => bridge

(* operations.md: "Failure is recorded, clears pending activation, and is     *)
(* never retried automatically": no process that read update.json before      *)
(* brings the failed release back; staging it again does.                     *)
FailedIsNotRetried ==
    [][ file.status = "failed" /\ file'.pending # NoRelease => file'.status = "staged" ]_releaseVars
=============================================================================
