------------------------------- MODULE Launch -------------------------------
(***************************************************************************)
(* One managed task between its row, its effect journal and the native     *)
(* executor: every path that launches, adopts, replaces, finishes, expires *)
(* or cleans up a worker session (sdk.py, effects.py, succession.py).      *)
(*                                                                         *)
(* Several SightMesh processes - commands a user or a manager runs, and    *)
(* the bridge's reconcile tick - work on the task at the same time.  They  *)
(* share the SQLite store and a per-task file lock, the fence.  A step is  *)
(* one committed transaction, or one executor request.  A process holds    *)
(* the fence from its first transaction to its last, except around an      *)
(* executor request (TaskFence.external_io), where any other process may   *)
(* step in.  It may die between any two steps, and the lock dies with it.  *)
(*                                                                         *)
(* The row's version is not counted: transition() bumps it on every write, *)
(* so a reader's version still matches exactly when nobody wrote since.    *)
(* fresh is the set of processes whose snapshot is still that current.     *)
(*                                                                         *)
(* Sessions are named by the epoch they were launched for; a workspace by  *)
(* the epoch whose launch created it.  What a session works on is a        *)
(* command of its queue, so a session whose commands are interrupted stops. *)
(***************************************************************************)
EXTENDS Naturals

CONSTANTS Commands,       \* processes that run the commands of users and managers
          Bridge,         \* the one process that runs the reconcile tick
          MaxAttempts,    \* the task's failure budget
          MaxEpoch,       \* bound: epochs explored
          MaxCommands,    \* bound: commands given by users and managers
          MaxCrashes,     \* bound: processes that die in the middle of an operation
          MaxTimeouts,    \* bound: executor requests whose answer never arrives
          LeaseOutlivesLaunch  \* no launcher is paused past its 120 s lease

ASSUME LaunchAssumption ==
    /\ Bridge \notin Commands
    /\ MaxAttempts \in Nat \ {0}
    /\ MaxEpoch \in Nat \ {0}
    /\ MaxCommands \in Nat /\ MaxCrashes \in Nat /\ MaxTimeouts \in Nat
    /\ LeaseOutlivesLaunch \in BOOLEAN

VARIABLES
    row,        \* the task's row, with its workspace
    effect,     \* effect[e]: the journal's row for epoch e
    retired,    \* sessions with a terminal ownership record
    successor,  \* successor[e]: the session recorded as e's successor, or None
    intents,    \* sessions whose commands are durably marked for cancellation
    native,     \* native[e]: the executor's session for epoch e
    proc,       \* proc[p]: where p is, and its snapshot of the row
    fresh,      \* running processes whose snapshot's version still is the row's
    spent       \* what is used up of the bounds

vars == <<row, effect, retired, successor, intents, native, proc, fresh, spent>>

Procs  == Commands \union {Bridge}
None   == 0
Epochs == 1..MaxEpoch

L == INSTANCE TaskLifecycle
       WITH Tasks <- {"task"},
            row   <- [t \in {"task"} |->
                        [ state    |-> row.state,
                          epoch    |-> row.epoch,
                          attempts |-> row.attempts,
                          holder   |-> row.holder,
                          recovery |-> row.recovery,
                          expired  |-> row.expired ]]

(* Program points; at those of Fenced the process holds the task's fence. *)
Fenced   == {"reserve", "rejected", "nativelost", "expired", "activate",
             "link", "retire", "closeEffect", "retireFinal"}
Unfenced == {"idle", "start", "startIO", "busy", "call", "reply", "replace",
             "transfer", "forward", "handover", "route", "autoIO", "observe",
             "observing", "lookup", "looked", "finish", "stop", "stopped", "cleanup"}

Replies  == {"none", "ok", "lost", "rejected", "refused", "unknown"}

FenceFree == \A q \in Procs : proc[q].pc \notin Fenced

(* admission_lock: held by a start from its first executor request on. *)
AdmissionFree == \A q \in Procs : proc[q].op = "start" => proc[q].pc = "start"

-----------------------------------------------------------------------------
(* Records *)

RowType == [ state    : L!RowStates,
             epoch    : Epochs,
             attempts : 0..MaxAttempts,
             holder   : 0..MaxEpoch,
             recovery : BOOLEAN,
             expired  : BOOLEAN,
             ws       : 0..MaxEpoch ]

EffectType == [ state   : {"none", "reserved", "launched", "terminal"},
                live    : BOOLEAN,    \* the reservation's lease has not run out
                bridge  : BOOLEAN,    \* its owner is the bridge that runs now
                ws      : 0..MaxEpoch,
                outcome : {"none", "provider", "other"} ]

NativeType == [ state : {"none", "running", "refused", "failed", "lost", "stopped"},
                ws    : 0..MaxEpoch ]

ProcType == [ pc    : Fenced \union Unfenced,
              op    : {"none", "start", "replace", "auto", "observe", "complete", "cancel",
                       "sweep"},
              epoch : 0..MaxEpoch,      \* snapshot: the epoch
              src   : 0..MaxEpoch,      \* snapshot: the holder
              ws    : 0..MaxEpoch,      \* snapshot: the workspace
              sid   : 0..MaxEpoch,      \* the session to activate
              reply : Replies ]

Idle == [ pc |-> "idle", op |-> "none", epoch |-> 0, src |-> 0, ws |-> 0,
          sid |-> 0, reply |-> "none" ]

Unused == [ state |-> "none", live |-> FALSE, bridge |-> FALSE, ws |-> None,
            outcome |-> "none" ]

Init ==
    /\ row = [ state |-> "absent", epoch |-> 1, attempts |-> 0, holder |-> None,
               recovery |-> FALSE, expired |-> FALSE, ws |-> None ]
    /\ effect = [e \in Epochs |-> Unused]
    /\ retired = {}
    /\ successor = [e \in Epochs |-> None]
    /\ intents = {}
    /\ native = [e \in Epochs |-> [state |-> "none", ws |-> None]]
    /\ proc = [p \in Procs |-> Idle]
    /\ fresh = {}
    /\ spent = [commands |-> 0, crashes |-> 0, timeouts |-> 0]

-----------------------------------------------------------------------------
(* Steps of a process *)

At(p, pc) == proc[p].pc = pc

Goto(p, pc) == proc' = [proc EXCEPT ![p].pc = pc]

(* The operation returns, or raises; either way nothing of it remains. *)
Return(p) == proc' = [proc EXCEPT ![p] = Idle]

(* p, in operation op, reads the row as r and goes on at pc. *)
Snapshot(p, op, r, pc) ==
    proc' = [proc EXCEPT ![p] = [Idle EXCEPT !.pc = pc, !.op = op,
                                    !.epoch = r.epoch, !.src = r.holder,
                                    !.ws = r.ws]]

(* A write of the row makes every snapshot stale but those of keep, whose   *)
(* processes hold the record the write returned.                            *)
Write(r, keep) ==
    /\ row' = r
    /\ fresh' = keep

(* A process that returned has no snapshot left; proc' is given before. *)
Running(procs) == {q \in procs : proc'[q].pc # "idle"}

RowKept     == UNCHANGED row /\ fresh' = Running(fresh)
RowRead(p)  == UNCHANGED row /\ fresh' = Running(fresh \union {p})
JournalKept == UNCHANGED effect
OwnersKept  == UNCHANGED <<retired, successor, intents>>
NativeKept  == UNCHANGED native
OnlyProc    == RowKept /\ JournalKept /\ OwnersKept /\ NativeKept

Command(p) ==
    /\ p \in Commands
    /\ At(p, "idle")
    /\ spent.commands < MaxCommands
    /\ spent' = [spent EXCEPT !.commands = @ + 1]

NotCommand == UNCHANGED spent

Moved(p) == p \notin fresh

Open(e) == effect[e].state \in {"reserved", "launched"}

Terminal(x, ws, outcome) ==
    [x EXCEPT !.state = "terminal", !.ws = ws, !.outcome = outcome]

(* The charged finishes of _record_failure; where the breaker or the state  *)
(* refuses, the call raises and the row stays.                              *)
Fail(state, expired) ==
    IF row.state \in L!BlockPredecessors /\ L!BudgetLeft(row)
      THEN Write(L!ChargedFailure(row, state, expired), {})
      ELSE RowKept

-----------------------------------------------------------------------------
(* start() *)

(* reserve_all inserts the row without the fence. *)
StartReserve(p) ==
    /\ Command(p)
    /\ row.state = "absent"
    /\ Write([row EXCEPT !.state = "reserved"], {})
    /\ Snapshot(p, "start", row, "start")
    /\ JournalKept /\ OwnersKept /\ NativeKept

(* A start of a task that is reserved already adopts the reservation. *)
StartAgain(p) ==
    /\ Command(p)
    /\ row.state = "reserved"
    /\ Snapshot(p, "start", row, "start")
    /\ OnlyProc

(* _reissue_expired *)
StartReissue(p) ==
    /\ Command(p)
    /\ FenceFree
    /\ row.state = "lost" /\ row.expired
    /\ L!BudgetLeft(row) /\ L!CanOpenEpoch(row)
    /\ Write([ state    |-> "reserved", epoch |-> row.epoch + 1,
               attempts |-> row.attempts, holder |-> None,
               recovery |-> FALSE, expired |-> FALSE, ws |-> None ], {})
    /\ Snapshot(p, "start", row', "start")
    /\ JournalKept /\ OwnersKept /\ NativeKept

(* _start_reserved, up to its executor requests: the launch request and the *)
(* wait for capacity.                                                       *)
StartRead(p) ==
    /\ At(p, "start")
    /\ AdmissionFree /\ FenceFree
    /\ IF row.state = "reserved"
         THEN Snapshot(p, "start", row, "startIO") /\ RowRead(p)
         ELSE Return(p) /\ RowKept
    /\ JournalKept /\ OwnersKept /\ NativeKept /\ NotCommand

(* The reservation is dispatched only if nothing moved meanwhile. *)
StartDispatch(p) ==
    /\ At(p, "startIO")
    /\ FenceFree
    /\ IF Moved(p) THEN Return(p) ELSE Goto(p, "reserve")
    /\ OnlyProc /\ NotCommand

(* The cap is not met before the deadline, or the request fails. *)
StartRefused(p) ==
    /\ At(p, "startIO")
    /\ Return(p)
    /\ OnlyProc /\ NotCommand

-----------------------------------------------------------------------------
(* _journaled_launch: reserve, call the executor once, record the answer. *)

Workspace(p) == IF proc[p].op = "start" \/ proc[p].src = None
                  THEN proc[p].epoch    \* a workspace launch creates one
                  ELSE proc[p].ws       \* a session launch reuses the row's

(* What follows once the session sid is known to be launched. *)
Launched(p, sid) ==
    proc' = [proc EXCEPT ![p].sid = sid,
                         ![p].ws  = effect'[sid].ws,
                         ![p].pc  = IF proc[p].src = None \/ proc[p].op = "start"
                                      THEN "activate" ELSE "link"]

(* Faulty: whatever is not launched is reserved (again). *)
ReserveAnyway(p) ==
    LET e == proc[p].epoch IN
    /\ At(p, "reserve")
    /\ IF effect[e].state = "launched"
         THEN JournalKept /\ Launched(p, e)
         ELSE /\ effect' = [effect EXCEPT ![e].state = "reserved", ![e].live = TRUE]
              /\ Goto(p, "call")
    /\ RowKept /\ OwnersKept /\ NativeKept /\ NotCommand

Reserve(p) ==
    /\ At(p, "reserve")
    /\ LET e == proc[p].epoch  x == effect[e] IN
       \/ /\ x.state = "terminal"                       \* EffectTerminal
          /\ Return(p)
          /\ JournalKept
       \/ /\ x.state = "launched"                       \* adopt
          /\ JournalKept
          /\ Launched(p, e)
       \/ /\ x.state = "reserved" /\ x.live             \* EffectBusy
          /\ ~(x.bridge /\ p = Bridge)
          /\ Goto(p, "busy")
          /\ JournalKept
       \/ /\ \/ x.state = "none"
             \/ x.state = "reserved" /\ (x.live => x.bridge /\ p = Bridge)
          /\ effect' = [effect EXCEPT ![e].state = "reserved", ![e].live = TRUE,
                                      ![e].bridge = (p = Bridge)]
          /\ Goto(p, "call")
    /\ RowKept /\ OwnersKept /\ NativeKept /\ NotCommand

(* The wait for the winner of the reservation ends in another try, or in an *)
(* error after ADOPT_TIMEOUT_SECONDS.                                       *)
BusyRetry(p) ==
    /\ At(p, "busy")
    /\ FenceFree
    /\ Goto(p, "reserve")
    /\ OnlyProc /\ NotCommand

BusyGiveUp(p) ==
    /\ At(p, "busy")
    /\ Return(p)
    /\ OnlyProc /\ NotCommand

Created(p) ==
    LET e == proc[p].epoch IN
    IF native[e].state = "none"
      THEN [native EXCEPT ![e] = [state |-> "running", ws |-> Workspace(p)]]
      ELSE native

(* The executor creates the one session of the epoch, or returns it. *)
CallAccepted(p) ==
    /\ At(p, "call")
    /\ native' = Created(p)
    /\ \E reply \in {"ok", "lost"} :
         /\ reply = "lost" => native[proc[p].epoch].state \in {"lost", "stopped"}
         /\ reply = "ok"   => native[proc[p].epoch].state # "lost"
         /\ proc' = [proc EXCEPT ![p].pc = "reply", ![p].reply = reply]
    /\ RowKept /\ JournalKept /\ OwnersKept /\ NotCommand

(* It refuses for good, for now, or without saying what became of the launch. *)
CallRefused(p) ==
    /\ At(p, "call")
    /\ native[proc[p].epoch].state = "none"
    /\ \E reply \in {"rejected", "refused", "unknown"} :
         proc' = [proc EXCEPT ![p].pc = "reply", ![p].reply = reply]
    /\ OnlyProc /\ NotCommand

(* No answer arrives, whether or not the session was created: nothing is    *)
(* recorded and the reservation stays.                                      *)
CallTimesOut(p) ==
    /\ At(p, "call")
    /\ spent.timeouts < MaxTimeouts
    /\ spent' = [spent EXCEPT !.timeouts = @ + 1]
    /\ native' \in {native, Created(p)}
    /\ Return(p)
    /\ RowKept /\ JournalKept /\ OwnersKept

Answer(p, reply) == At(p, "reply") /\ FenceFree /\ proc[p].reply = reply

(* Faulty: a late launch is reported, and forgotten. *)
ReplyDropped(p) ==
    /\ Answer(p, "ok")
    /\ Moved(p)
    /\ Return(p)
    /\ OnlyProc /\ NotCommand

(* mark_superseded of an open effect, mark_cleanup_workspace of another. *)
Superseded(x, ws) == Terminal(x, ws, "other")

(* The launch succeeded for a task that moved on: what it created is marked *)
(* for cleanup, on an open and on a terminal effect alike, and stopped.     *)
ReplySuperseded(p) ==
    LET e == proc[p].epoch  ws == native[e].ws IN
    /\ Answer(p, "ok")
    /\ Moved(p)
    /\ effect' = [effect EXCEPT ![e] = Superseded(@, ws)]
    /\ proc' = [proc EXCEPT ![p].pc = "stop", ![p].ws = ws]
    /\ RowKept /\ OwnersKept /\ NativeKept /\ NotCommand

(* Faulty: the launch is not recorded. *)
ReplyUnrecorded(p) ==
    /\ Answer(p, "ok")
    /\ ~Moved(p)
    /\ UNCHANGED effect
    /\ Launched(p, proc[p].epoch)
    /\ RowKept /\ OwnersKept /\ NativeKept /\ NotCommand

(* mark_launched; on a terminal effect it raises. *)
ReplyLaunched(p) ==
    LET e == proc[p].epoch IN
    /\ Answer(p, "ok")
    /\ ~Moved(p)
    /\ IF Open(e)
         THEN /\ effect' = [effect EXCEPT ![e].state = "launched",
                                          ![e].ws = native[e].ws]
              /\ Launched(p, e)
         ELSE Return(p) /\ JournalKept
    /\ RowKept /\ OwnersKept /\ NativeKept /\ NotCommand

(* A definitive rejection ends the epoch, then blocks the task. *)
ReplyRejected(p) ==
    LET e == proc[p].epoch IN
    /\ Answer(p, "rejected")
    /\ \/ /\ Open(e) /\ Moved(p)
          /\ effect' = [effect EXCEPT ![e] = Terminal(@, @.ws, "other")]
          /\ Return(p)
       \/ /\ Open(e) /\ ~Moved(p)
          /\ \E outcome \in {"provider", "other"} :
               effect' = [effect EXCEPT ![e] = Terminal(@, @.ws, outcome)]
          /\ Goto(p, "rejected")
       \/ ~Open(e) /\ Return(p) /\ JournalKept
    /\ RowKept /\ OwnersKept /\ NativeKept /\ NotCommand

BlockRejected(p) ==
    /\ At(p, "rejected")
    /\ Return(p)
    /\ Fail("blocked", FALSE)
    /\ JournalKept /\ OwnersKept /\ NativeKept /\ NotCommand

(* 424/425: the reservation stays, unless the task moved on. *)
ReplyUnknown(p) ==
    LET e == proc[p].epoch IN
    /\ Answer(p, "unknown")
    /\ IF Moved(p) /\ Open(e)
         THEN effect' = [effect EXCEPT ![e] = Terminal(@, @.ws, "other")]
         ELSE JournalKept
    /\ Return(p)
    /\ RowKept /\ OwnersKept /\ NativeKept /\ NotCommand

(* A temporary refusal leaves the reservation to the next start. *)
ReplyRefused(p) ==
    /\ Answer(p, "refused")
    /\ Return(p)
    /\ OnlyProc /\ NotCommand

(* The executor lost the session: the epoch ends, then the task is lost.    *)
(* Neither write looks at whether the task moved on.                        *)
ReplyLost(p) ==
    LET e == proc[p].epoch IN
    /\ Answer(p, "lost")
    /\ IF Open(e)
         THEN /\ effect' = [effect EXCEPT ![e] = Terminal(@, @.ws, "other")]
              /\ Goto(p, "nativelost")
         ELSE Return(p) /\ JournalKept
    /\ RowKept /\ OwnersKept /\ NativeKept /\ NotCommand

LoseNative(p) ==
    /\ At(p, "nativelost")
    /\ Return(p)
    /\ Fail("lost", FALSE)
    /\ JournalKept /\ OwnersKept /\ NativeKept /\ NotCommand

(* Faulty: whatever became of the task, it is active now. *)
ActivateAnyway(p) ==
    /\ \/ At(p, "activate")
       \/ At(p, "handover") /\ FenceFree
    /\ Return(p)
    /\ Write([L!Activated(row, proc[p].sid) EXCEPT !.ws = proc[p].ws], {})
    /\ JournalKept /\ OwnersKept /\ NativeKept /\ NotCommand

(* activate(): no epoch and no version is compared. *)
Activate(p) ==
    /\ \/ At(p, "activate")
       \/ At(p, "handover") /\ FenceFree
    /\ Return(p)
    /\ IF row.state \in L!ActivatePredecessors
         THEN Write([L!Activated(row, proc[p].sid) EXCEPT !.ws = proc[p].ws], {})
         ELSE RowKept
    /\ JournalKept /\ OwnersKept /\ NativeKept /\ NotCommand

-----------------------------------------------------------------------------
(* transfer_ownership, around the launch of a successor session *)

(* The source is quarantined before anything else. *)
Retire(p) ==
    /\ At(p, "retire")
    /\ retired' = retired \union {proc[p].src}
    /\ Goto(p, "transfer")
    /\ RowKept /\ JournalKept /\ NativeKept /\ NotCommand
    /\ UNCHANGED <<successor, intents>>

(* A recorded successor is taken as it is; else one is spawned, if the task *)
(* did not move while the source's commands were listed.                    *)
Transfer(p) ==
    LET s == successor[proc[p].src] IN
    /\ At(p, "transfer")
    /\ FenceFree
    /\ \/ /\ s # None /\ s \notin retired
          /\ proc' = [proc EXCEPT ![p].sid = s, ![p].pc = "forward"]
       \/ s = None /\ ~Moved(p) /\ Goto(p, "reserve")
       \/ (s \in retired \/ (s = None /\ Moved(p))) /\ Return(p)
    /\ OnlyProc /\ NotCommand

(* link_successor, then assert_deliverable of the successor. *)
Link(p) ==
    LET src == proc[p].src  sid == proc[p].sid IN
    /\ At(p, "link")
    /\ IF successor[src] \in {None, sid}
         THEN /\ successor' = [successor EXCEPT ![src] = sid]
              /\ IF sid \in retired THEN Return(p) ELSE Goto(p, "forward")
         ELSE Return(p) /\ UNCHANGED successor
    /\ RowKept /\ JournalKept /\ NativeKept /\ NotCommand
    /\ UNCHANGED <<retired, intents>>

(* Faulty: the source's commands are forwarded, but not interrupted. *)
ForwardOnly(p) ==
    /\ At(p, "forward")
    /\ Goto(p, "handover")
    /\ OnlyProc /\ NotCommand

(* Commands are forwarded, and the source's own are interrupted last. *)
Forward(p) ==
    LET src == proc[p].src IN
    /\ At(p, "forward")
    /\ native' = [native EXCEPT ![src].state =
                     IF @ = "running" THEN "stopped" ELSE @]
    /\ Goto(p, "handover")
    /\ RowKept /\ JournalKept /\ OwnersKept /\ NotCommand

-----------------------------------------------------------------------------
(* replace() *)

(* The checkpoint is read with the fence open. *)
ReplaceRead(p) ==
    /\ Command(p)
    /\ FenceFree
    /\ row.holder # None
    /\ Snapshot(p, "replace", row, "replace")
    /\ RowRead(p)
    /\ JournalKept /\ OwnersKept /\ NativeKept

Reopened == IF row.state = "replacing" /\ ~row.recovery
              THEN row ELSE L!NextEpoch(row, row.state = "replacing", FALSE)

Replaceable == \/ row.state \in L!ReplacePredecessors
                  /\ L!BudgetLeft(row) /\ L!CanOpenEpoch(row)
               \/ row.state = "replacing"
                  /\ (row.recovery => L!CanOpenEpoch(row))

(* The prepared row is written under the version that was read. *)
ReplaceCommit(p) ==
    /\ At(p, "replace")
    /\ FenceFree
    /\ IF Replaceable /\ ~Moved(p)
         THEN /\ Write(Reopened, {p})
              /\ Snapshot(p, "replace", Reopened, "retire")
         ELSE Return(p) /\ RowKept
    /\ JournalKept /\ OwnersKept /\ NativeKept /\ NotCommand

-----------------------------------------------------------------------------
(* complete(), cancel() and blocked() *)

(* The commands of the holder are listed first, with the fence open. *)
FinishRead(p, op) ==
    /\ Command(p)
    /\ FenceFree
    /\ row.state # "absent"
    /\ proc' = [proc EXCEPT ![p] = [Idle EXCEPT !.pc = "finish", !.op = op,
                                               !.sid = row.holder]]
    /\ OnlyProc

(* They are marked for cancellation if the holder is still the same, before *)
(* and whatever the decision.  A repeated call finds the state already      *)
(* reached and goes on to the cleanup.                                      *)
FinishDecide(p) ==
    LET state == IF proc[p].op = "cancel" THEN "cancelled" ELSE "completed"
        legal == row.state \in IF proc[p].op = "cancel" THEN L!CancelPredecessors
                                                        ELSE L!CompletePredecessors
    IN
    /\ At(p, "finish")
    /\ FenceFree
    /\ intents' = IF row.holder # None /\ row.holder = proc[p].sid
                    THEN intents \union {row.holder} ELSE intents
    /\ IF legal \/ row.state = state
         THEN Snapshot(p, proc[p].op, row, "closeEffect")
         ELSE Return(p)
    /\ IF legal THEN Write(L!Settled(row, state), {}) ELSE RowKept
    /\ UNCHANGED <<retired, successor>>
    /\ JournalKept /\ NativeKept /\ NotCommand

(* The epoch's effect ends with it.  The workspace to stop is the one the   *)
(* journal knows, and the row's where there is no journal row at all.       *)
CloseEffect(p) ==
    LET e  == proc[p].epoch
        x  == effect[e]
        ws == IF proc[p].ws # None /\ x.state # "none" THEN x.ws ELSE proc[p].ws
    IN
    /\ At(p, "closeEffect")
    /\ IF Open(e) THEN effect' = [effect EXCEPT ![e] = Terminal(x, x.ws, "other")]
                  ELSE JournalKept
    /\ proc' = [proc EXCEPT ![p].ws = ws,
                            ![p].pc = IF proc[p].src # None THEN "retireFinal"
                                      ELSE IF ws # None THEN "stop" ELSE "stopped"]
    /\ RowKept /\ OwnersKept /\ NativeKept /\ NotCommand

(* The holder of a finished task receives nothing any more. *)
RetireFinal(p) ==
    /\ At(p, "retireFinal")
    /\ retired' = retired \union {proc[p].src}
    /\ Goto(p, IF proc[p].ws # None THEN "stop" ELSE "stopped")
    /\ RowKept /\ JournalKept /\ NativeKept /\ NotCommand
    /\ UNCHANGED <<successor, intents>>

Block(p) ==
    /\ Command(p)
    /\ FenceFree
    /\ row.state \in L!BlockPredecessors
    /\ Write(L!Settled(row, "blocked"), {})
    /\ UNCHANGED proc
    /\ JournalKept /\ OwnersKept /\ NativeKept

-----------------------------------------------------------------------------
(* stop_terminal: the executor stops a workspace, with all that runs in it, *)
(* and then the journal's mark is taken back.                               *)

Stop(p) ==
    /\ At(p, "stop")
    /\ native' = [e \in Epochs |->
                    IF native[e].ws = proc[p].ws /\ native[e].state = "running"
                      THEN [native[e] EXCEPT !.state = "stopped"] ELSE native[e]]
    /\ Goto(p, "stopped")
    /\ RowKept /\ JournalKept /\ OwnersKept /\ NotCommand

StopFails(p) ==
    /\ At(p, "stop")
    /\ spent.timeouts < MaxTimeouts
    /\ spent' = [spent EXCEPT !.timeouts = @ + 1]
    /\ Return(p)
    /\ OnlyProc

AckStop(p) ==
    LET e == proc[p].epoch IN
    /\ At(p, "stopped")
    /\ effect' = IF effect[e].state = "terminal" /\ effect[e].ws = proc[p].ws
                   THEN [effect EXCEPT ![e].ws = None] ELSE effect
    /\ IF proc[p].op \in {"complete", "cancel"} THEN Goto(p, "cleanup") ELSE Return(p)
    /\ RowKept /\ OwnersKept /\ NativeKept /\ NotCommand

(* reconcile_cleanup_intents, at the end of a finish and on every tick. *)
Cleanup(p, e) ==
    /\ At(p, "cleanup") \/ (p = Bridge /\ At(p, "idle"))
    /\ FenceFree
    /\ e \in intents
    /\ intents' = intents \ {e}
    /\ native' = [native EXCEPT ![e].state = IF @ = "running" THEN "stopped" ELSE @]
    /\ UNCHANGED <<row, fresh, proc, retired, successor>>
    /\ JournalKept /\ NotCommand

(* What fails of it is left to the bridge. *)
CleanupEnds(p) ==
    /\ At(p, "cleanup")
    /\ Return(p)
    /\ OnlyProc /\ NotCommand

(* reconcile_terminal: every process that starts tasks does it, and the     *)
(* bridge on every tick.                                                    *)
SweepTerminal(p, e) ==
    /\ At(p, "idle") /\ FenceFree
    /\ effect[e].state = "terminal" /\ effect[e].ws # None
    /\ proc' = [proc EXCEPT ![p] = [Idle EXCEPT !.pc = "stop", !.op = "sweep",
                                               !.epoch = e, !.ws = effect[e].ws]]
    /\ OnlyProc /\ NotCommand

-----------------------------------------------------------------------------
(* expire_reservations *)

(* Faulty: only tasks that still are reserved are looked at. *)
SweepReserved(p) ==
    LET e == row.epoch IN
    /\ At(p, "idle") /\ FenceFree
    /\ row.state = "reserved"
    /\ effect[e].state = "reserved" /\ ~effect[e].live
    /\ Snapshot(p, "sweep", row, "lookup")
    /\ RowRead(p)
    /\ JournalKept /\ OwnersKept /\ NativeKept /\ NotCommand

SweepExpired(p) ==
    LET e == row.epoch IN
    /\ At(p, "idle") /\ FenceFree
    /\ effect[e].state = "reserved" /\ ~effect[e].live
    /\ Snapshot(p, "sweep", row, "lookup")
    /\ RowRead(p)
    /\ JournalKept /\ OwnersKept /\ NativeKept /\ NotCommand

(* The executor is asked for the epoch's session; sid tells whether it has  *)
(* one.                                                                     *)
Lookup(p) ==
    LET e == proc[p].epoch IN
    /\ At(p, "lookup")
    /\ proc' = [proc EXCEPT ![p].pc  = "looked",
                            ![p].sid = IF native[e].state \in {"none", "lost"}
                                         THEN None ELSE e,
                            ![p].ws  = native[e].ws]
    /\ OnlyProc /\ NotCommand

(* No proof of absence: the reservation stays. *)
LookupFails(p) ==
    /\ At(p, "lookup")
    /\ spent.timeouts < MaxTimeouts
    /\ spent' = [spent EXCEPT !.timeouts = @ + 1]
    /\ Return(p)
    /\ OnlyProc

Looked(p) == At(p, "looked") /\ FenceFree

(* The task moved on: the session found is marked for cleanup and stopped. *)
ExpiredSuperseded(p) ==
    LET e == proc[p].epoch IN
    /\ Looked(p) /\ Moved(p)
    /\ proc[p].sid # None
    /\ IF Open(e)
         THEN /\ effect' = [effect EXCEPT ![e] = Superseded(@, proc[p].ws)]
              /\ Goto(p, "stop")
         ELSE Return(p) /\ JournalKept
    /\ RowKept /\ OwnersKept /\ NativeKept /\ NotCommand

(* The session lives behind the lease: it is adopted. *)
ExpiredAdopted(p) ==
    LET e == proc[p].epoch IN
    /\ Looked(p) /\ ~Moved(p)
    /\ proc[p].sid # None
    /\ IF Open(e)
         THEN /\ effect' = [effect EXCEPT ![e].state = "launched",
                                          ![e].ws = proc[p].ws]
              /\ Goto(p, "activate")
         ELSE Return(p) /\ JournalKept
    /\ RowKept /\ OwnersKept /\ NativeKept /\ NotCommand

(* There is none: the reservation ends, if it still is an expired one ...   *)
ExpiredAbsent(p) ==
    LET e == proc[p].epoch IN
    /\ Looked(p)
    /\ proc[p].sid = None
    /\ IF effect[e].state = "reserved" /\ ~effect[e].live
         THEN /\ effect' = [effect EXCEPT ![e] = Terminal(@, @.ws, "other")]
              /\ Goto(p, "expired")
         ELSE Return(p) /\ JournalKept
    /\ RowKept /\ OwnersKept /\ NativeKept /\ NotCommand

(* Faulty: the reservation ends, the task does not. *)
LoseNothing(p) ==
    /\ At(p, "expired")
    /\ Return(p)
    /\ OnlyProc /\ NotCommand

(* ... and the task is lost, at whatever epoch it is by now. *)
LoseExpired(p) ==
    /\ At(p, "expired")
    /\ Return(p)
    /\ Fail("lost", TRUE)
    /\ JournalKept /\ OwnersKept /\ NativeKept /\ NotCommand

-----------------------------------------------------------------------------
(* The bridge: reconcile_provider_outcome(s) *)

Tick == At(Bridge, "idle") /\ FenceFree

ProviderOutcome == /\ effect[row.epoch].state = "terminal"
                   /\ effect[row.epoch].outcome = "provider"

(* A replacement a reroute opened, and that ended unfilled, blocks ... *)
ResumeEnded ==
    /\ Tick
    /\ row.state = "replacing" /\ row.recovery
    /\ effect[row.epoch].state = "terminal"
    /\ L!BudgetLeft(row)
    /\ Write(L!ChargedFailure(row, "blocked", FALSE), {})
    /\ UNCHANGED proc
    /\ JournalKept /\ OwnersKept /\ NativeKept /\ NotCommand

(* How _launch_prepared goes on: a holder hands over, else a workspace is   *)
(* launched.                                                                *)
Prepared(r) == IF r.holder # None THEN "retire" ELSE "autoIO"

(* Faulty: a replacement is taken up only if there is a session to replace. *)
ResumeHeld ==
    /\ Tick
    /\ row.state = "replacing" /\ row.recovery /\ row.holder # None
    /\ effect[row.epoch].state # "terminal"
    /\ Snapshot(Bridge, "auto", row, Prepared(row))
    /\ RowRead(Bridge)
    /\ JournalKept /\ OwnersKept /\ NativeKept /\ NotCommand

(* ... and one that did not end is filled. *)
ResumeUnfilled ==
    /\ Tick
    /\ row.state = "replacing" /\ row.recovery
    /\ effect[row.epoch].state # "terminal"
    /\ Snapshot(Bridge, "auto", row, Prepared(row))
    /\ RowRead(Bridge)
    /\ JournalKept /\ OwnersKept /\ NativeKept /\ NotCommand

(* _require_unchanged after the launch request was built. *)
AutoDispatch ==
    /\ At(Bridge, "autoIO")
    /\ FenceFree
    /\ IF Moved(Bridge) THEN Return(Bridge) ELSE Goto(Bridge, "reserve")
    /\ OnlyProc /\ NotCommand

(* The breaker: the last affordable failure ends the task. *)
AdvanceExhausts ==
    /\ Tick
    /\ row.state = "active" /\ ProviderOutcome
    /\ L!BudgetLeft(row) /\ L!LastFailure(row)
    /\ Write(L!ChargedFailure(row, "exhausted", FALSE), {})
    /\ proc' = [proc EXCEPT ![Bridge] = [Idle EXCEPT !.pc = "retireFinal",
                                           !.op = "auto", !.epoch = row.epoch,
                                           !.src = row.holder]]
    /\ JournalKept /\ OwnersKept /\ NativeKept /\ NotCommand

(* No route is left, or the task is pinned to one. *)
AdvanceBlocks ==
    /\ Tick
    /\ row.state = "active" /\ ProviderOutcome
    /\ L!BudgetLeft(row) /\ ~L!LastFailure(row)
    /\ Write(L!ChargedFailure(row, "blocked", FALSE), {})
    /\ UNCHANGED proc
    /\ JournalKept /\ OwnersKept /\ NativeKept /\ NotCommand

(* A route is chosen; its provider is asked for with the fence open. *)
AdvanceRoutes ==
    /\ Tick
    /\ row.state \in {"active", "blocked"} /\ ProviderOutcome
    /\ L!BudgetLeft(row) /\ L!CanOpenEpoch(row)
    /\ row.state = "active" => ~L!LastFailure(row)
    /\ Snapshot(Bridge, "auto", row, "route")
    /\ RowRead(Bridge)
    /\ JournalKept /\ OwnersKept /\ NativeKept /\ NotCommand

Reroute ==
    /\ At(Bridge, "route")
    /\ FenceFree
    /\ IF Moved(Bridge)
         THEN Return(Bridge) /\ RowKept
         ELSE LET r == L!NextEpoch(row, row.state = "active", TRUE) IN
              /\ Snapshot(Bridge, "auto", r, Prepared(r))
              /\ Write(r, {Bridge})
    /\ JournalKept /\ OwnersKept /\ NativeKept /\ NotCommand

(* A session's processes are looked at for the task that held it when the   *)
(* task was found; the row is read anew under the fence.                    *)
Observe ==
    /\ At(Bridge, "idle")
    /\ row.holder # None
    /\ native[row.holder].state \in {"failed", "refused"}
    /\ proc' = [proc EXCEPT ![Bridge] = [Idle EXCEPT !.pc = "observe",
                                           !.op = "observe", !.sid = row.holder]]
    /\ OnlyProc /\ NotCommand

ObserveRead ==
    /\ At(Bridge, "observe")
    /\ FenceFree
    /\ IF row.state = "active" /\ effect[row.epoch].state = "launched"
         THEN proc' = [proc EXCEPT ![Bridge].pc = "observing",
                                   ![Bridge].epoch = row.epoch]
         ELSE Return(Bridge)
    /\ OnlyProc /\ NotCommand

(* A provider's refusal is recorded on the epoch that was read ... *)
ObserveRefusal ==
    LET e == proc[Bridge].epoch IN
    /\ At(Bridge, "observing")
    /\ FenceFree
    /\ native[proc[Bridge].sid].state = "refused"
    /\ IF Open(e) THEN effect' = [effect EXCEPT ![e] = Terminal(@, @.ws, "provider")]
                  ELSE JournalKept
    /\ Return(Bridge)
    /\ RowKept /\ OwnersKept /\ NativeKept /\ NotCommand

(* ... any other failure blocks the task, at whatever epoch it is by now,   *)
(* unless the session's queue is about to retry.                            *)
ObserveFailure ==
    /\ At(Bridge, "observing")
    /\ FenceFree
    /\ native[proc[Bridge].sid].state = "failed"
    /\ Return(Bridge)
    /\ Fail("blocked", FALSE)
    /\ JournalKept /\ OwnersKept /\ NativeKept /\ NotCommand

ObserveNothing ==
    /\ At(Bridge, "observing")
    /\ Return(Bridge)
    /\ OnlyProc /\ NotCommand

-----------------------------------------------------------------------------
(* The world *)

(* A launcher's request, and its answer, take less than the lease, where    *)
(* LeaseOutlivesLaunch; a sweep's always do.                                *)
LeaseExpires(e) ==
    /\ effect[e].state = "reserved" /\ effect[e].live
    /\ \A q \in Procs : proc[q].epoch = e =>
         /\ LeaseOutlivesLaunch => proc[q].pc \notin {"call", "reply"}
         /\ proc[q].pc \notin {"lookup", "looked", "expired"}
    /\ effect' = [effect EXCEPT ![e].live = FALSE]
    /\ UNCHANGED <<row, fresh, proc, native, spent>>
    /\ OwnersKept

(* A session's worker fails, its provider refuses it, or the executor       *)
(* forgets it.                                                              *)
NativeEnds(e) ==
    /\ native[e].state = "running"
    /\ \E s \in {"failed", "refused", "lost"} :
         native' = [native EXCEPT ![e].state = s]
    /\ UNCHANGED <<row, fresh, proc, effect, spent>>
    /\ OwnersKept

(* A process dies between two steps.  A new bridge is another owner. *)
Crash(p) ==
    /\ ~At(p, "idle")
    /\ spent.crashes < MaxCrashes
    /\ spent' = [spent EXCEPT !.crashes = @ + 1]
    /\ Return(p)
    /\ effect' = IF p = Bridge THEN [e \in Epochs |-> [effect[e] EXCEPT !.bridge = FALSE]]
                               ELSE effect
    /\ RowKept /\ OwnersKept /\ NativeKept

-----------------------------------------------------------------------------

(* What an operation that has begun does next. *)
Launching(p) ==
    \/ Reserve(p) \/ BusyRetry(p) \/ BusyGiveUp(p)
    \/ CallAccepted(p) \/ CallRefused(p)
    \/ ReplySuperseded(p) \/ ReplyLaunched(p) \/ ReplyRejected(p)
    \/ ReplyUnknown(p) \/ ReplyRefused(p) \/ ReplyLost(p)
    \/ BlockRejected(p) \/ LoseNative(p) \/ Activate(p)
    \/ Retire(p) \/ Transfer(p) \/ Link(p) \/ Forward(p)

Settling(p) ==
    \/ FinishDecide(p) \/ CloseEffect(p) \/ RetireFinal(p)
    \/ Stop(p) \/ AckStop(p) \/ CleanupEnds(p)
    \/ Lookup(p) \/ ExpiredSuperseded(p) \/ ExpiredAdopted(p) \/ ExpiredAbsent(p)
    \/ LoseExpired(p)

Starting(p) == StartRead(p) \/ StartDispatch(p) \/ StartRefused(p) \/ ReplaceCommit(p)

Reconciling ==
    \/ AutoDispatch \/ Reroute
    \/ ObserveRead \/ ObserveRefusal \/ ObserveFailure \/ ObserveNothing

Continue(p) == \/ Launching(p) \/ Settling(p) \/ Starting(p)
               \/ p = Bridge /\ Reconciling

(* The stages of a tick that change something. *)
Resume  == ResumeEnded \/ ResumeUnfilled
Advance == AdvanceExhausts \/ AdvanceBlocks \/ AdvanceRoutes

TickNext ==
    \/ Resume
    \/ Advance
    \/ Observe

Given(p) ==
    \/ StartReserve(p) \/ StartAgain(p) \/ StartReissue(p)
    \/ ReplaceRead(p) \/ Block(p)
    \/ \E op \in {"complete", "cancel"} : FinishRead(p, op)

Faults(p) == Crash(p) \/ CallTimesOut(p) \/ StopFails(p) \/ LookupFails(p)

Sweep(p) == SweepExpired(p) \/ \E e \in Epochs : SweepTerminal(p, e) \/ Cleanup(p, e)

Next ==
    \/ \E p \in Procs : Continue(p) \/ Sweep(p) \/ Faults(p)
    \/ \E p \in Commands : Given(p)
    \/ TickNext
    \/ \E e \in Epochs : LeaseExpires(e) \/ NativeEnds(e)

Spec == Init /\ [][Next]_vars

(* A process that runs goes on: every wait in it has a deadline, and so has *)
(* every request; the fence is not taken from it for ever.  Leases run out. *)
Progress ==
    /\ \A p \in Procs : SF_vars(Continue(p))
    /\ \A e \in Epochs : WF_vars(LeaseExpires(e))

(* The bridge ticks for ever, and every tick visits each of its stages, so  *)
(* a stage that time and again has work gets to do it.  Each of these       *)
(* specifications asks for the stages its properties are about.             *)

(* An executor asked to launch again and again does so at last. *)
RecoverySpec == /\ Spec /\ Progress
                /\ SF_vars(Resume) /\ SF_vars(SweepExpired(Bridge))
                /\ SF_vars(CallAccepted(Bridge))

CleanupSpec == /\ Spec /\ Progress
               /\ \A e \in Epochs : /\ SF_vars(SweepTerminal(Bridge, e))
                                    /\ SF_vars(Cleanup(Bridge, e))

-----------------------------------------------------------------------------

(* The row, the journal, the executor and every process are well formed. *)
TypeOK ==
    /\ row \in RowType
    /\ effect \in [Epochs -> EffectType]
    /\ retired \subseteq Epochs
    /\ successor \in [Epochs -> 0..MaxEpoch]
    /\ intents \subseteq Epochs
    /\ native \in [Epochs -> NativeType]
    /\ proc \in [Procs -> ProcType]
    /\ fresh \subseteq {p \in Procs : ~At(p, "idle")}
    /\ spent \in [ commands : 0..MaxCommands, crashes : 0..MaxCrashes,
                   timeouts : 0..MaxTimeouts ]

(* However the operations of several processes interleave, the row only     *)
(* makes the transitions of TaskLifecycle.                                  *)
ImplementsLifecycle == L!Spec

(* sdk.py _journaled_launch: the journal is written before the native call  *)
(* and advanced after it.  So whoever holds the task was launched, and the  *)
(* journal has it, whatever was adopted, replayed or taken over.            *)
HolderWasLaunched ==
    row.holder # None =>
        /\ native[row.holder].state # "none"
        /\ effect[row.holder].state \in {"launched", "terminal"}

(* effects.py: a terminal row is a launch barrier.  A request is sent only  *)
(* for an epoch reserved at that moment, and an epoch once over never opens *)
(* again.                                                                   *)
LaunchBarrier ==
    [][ /\ \A e \in Epochs :
             effect[e].state = "terminal" => effect'[e].state = "terminal"
        /\ \A p \in Procs :
             proc'[p].pc = "call" /\ proc[p].pc # "call"
               => /\ effect'[proc[p].epoch].state = "reserved"
                  /\ effect[proc[p].epoch].state \in {"none", "reserved"} ]_vars

Quiet == \A p \in Procs : At(p, "idle")

(* The session is durably marked: a reconcile pass will stop it. *)
ToBeStopped(e) ==
    \/ e \in intents
    \/ \E d \in Epochs : effect[d].state = "terminal" /\ effect[d].ws = native[e].ws

Finished == row.state \in {"completed", "cancelled"}

(* Nobody died, no answer was lost, and no lease ran out under a launch. *)
Undisturbed == LeaseOutlivesLaunch /\ spent.crashes = 0 /\ spent.timeouts = 0

(* sdk.py _journaled_launch and succession.py stop the session of a launch  *)
(* for a task that moved on, through the journal.  So when nothing is under *)
(* way, and nothing was lost, the journal has every session that runs: as   *)
(* launched, or under the mark by which its workspace will be stopped; and  *)
(* under that mark where its task was finished at its epoch.                *)
NoOrphan ==
    Quiet /\ Undisturbed => \A e \in Epochs : native[e].state = "running" =>
        \/ effect[e].state = "launched" /\ ~(Finished /\ e = row.epoch)
        \/ effect[e].state = "terminal" /\ effect[e].ws = native[e].ws /\ effect[e].ws # None

(* kernel-contract.md: an expired reservation can never "fork a duplicate". *)
(* When nothing is under way, one session at most works on the task for     *)
(* good.  Not so where StartReissue forgets a holder that runs: that of a   *)
(* replacement whose launch was refused until its reservation ran out.      *)
OneWorker ==
    Quiet => \A d, e \in Epochs :
        native[d].state = "running" /\ native[e].state = "running" /\ d # e
            => ToBeStopped(d) \/ ToBeStopped(e)

(* succession.py transfer_ownership: the source is quarantined, then its    *)
(* successor recorded, and the source interrupted last.  So the chain that  *)
(* resolve_live_successor follows never comes back to a session it left,    *)
(* and, while nobody dies on the way, a session whose successor receives    *)
(* its mail does not work on beside it.                                     *)
SucceededStops ==
    /\ \A d \in Epochs : successor[d] # None => d \in retired /\ d < successor[d]
    /\ Quiet => \A d \in Epochs :
          successor[d] \notin retired \union {None} => native[d].state # "running"

(* kernel-spec.md: "A crash at any step leaves a row that step 1 or 2       *)
(* resolves on retry".                                                      *)
ReservedCanStart ==
    Quiet /\ row.state = "reserved" => effect[row.epoch].state # "terminal"

(* sdk.py _resume_replacement: a replacement a reroute opened is never left *)
(* unfilled for ever.                                                       *)
ReplacementSettles ==
    \A e \in Epochs :
        row.state = "replacing" /\ row.recovery /\ row.epoch = e
          ~> row.state # "replacing" \/ row.epoch # e \/ ~row.recovery

(* effects.py: every reservation whose lease has run out is adopted or lost. *)
ExpiredResolved ==
    \A e \in Epochs :
        effect[e].state = "reserved" /\ ~effect[e].live /\ row.epoch = e
          ~> effect[e].state # "reserved" \/ effect[e].live \/ row.epoch # e

(* A finished task's session does not run on: neither its holder nor the    *)
(* one of its epoch.  Nothing looks for the others its journal has.         *)
FinishedStops ==
    \A e \in Epochs :
        Finished /\ e \in {row.holder, row.epoch} /\ native[e].state = "running"
          ~> native[e].state # "running"
=============================================================================
