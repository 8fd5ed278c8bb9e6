-------------------------------- MODULE Mail --------------------------------
(***************************************************************************)
(* The SDK calls that open a task's fence in their middle, for a request   *)
(* to the executor, and go on from what they read before it: send_all,     *)
(* checkpoint and the lifecycle calls that end a task (sdk.py), with the   *)
(* rows that make them durable (task_store.py) and the pass of the         *)
(* reconciler that cleans up the mail of ended tasks (durable.py).         *)
(*                                                                         *)
(* One managed task and its sessions, named by the epoch that launched     *)
(* them.  A replacement, which Launch models step by step, is here the two *)
(* writes that other calls see of it.  Working copies of checkpoints, the  *)
(* local-only checkpoints of old executors and the wakes are left out.     *)
(***************************************************************************)
EXTENDS Naturals, FiniteSets

CONSTANTS Mails,      \* commands that managers send to the task
          Saves,      \* operation ids of its checkpoints
          Commands,   \* processes that run the calls of managers and workers
          Bridge,     \* the process of the reconcile tick
          None,
          MaxEpoch,   \* bound: epochs of the task
          MaxFaults   \* bound: failed requests and crashes

ASSUME MailAssumption ==
    /\ Bridge \notin Commands /\ Mails \intersect Saves = {} /\ None \notin Mails \union Saves
    /\ MaxEpoch \in Nat \ {0} /\ MaxFaults \in Nat

VARIABLES
    row,        \* the managed_tasks row
    retired,    \* sessions with a terminal ownership record
    out,        \* out[k]: the outgoing_commands row of a mail
    intent,     \* intent[kind, e, k]: the cleanup intent for k's command or process
    command,    \* command[k]: the executor's command
    op,         \* op[s]: the checkpoint operation
    evidence,   \* operations whose bytes the executor retains
    proc,       \* where a process is, and what it has read
    faults

taskVars == <<row, retired>>
mailVars == <<out, intent>>
saveVars == <<op, evidence>>
vars == <<taskVars, mailVars, command, saveVars, proc, faults>>

Procs   == Commands \union {Bridge}
Epochs  == 1..MaxEpoch
Intents == {"cancel", "stop"} \X Epochs \X Mails

RowType == [ state : {"active", "replacing", "ended"}, epoch : Epochs, holder : Epochs,
             version : 0..(Cardinality(Saves) + 2 * MaxEpoch), checkpoint : Saves \union {None} ]
NoOut   == [state |-> "none", epoch |-> 1, to |-> 1, named |-> FALSE]
OutType == [ state : {"none", "sending", "settled", "cleanup", "acknowledged"},
             epoch : Epochs, to : Epochs, named : BOOLEAN ]
NoOp    == [state |-> "none", epoch |-> 1, holder |-> 1, version |-> 0]
OpType  == [ state : {"none", "pending", "committed"}, epoch : Epochs, holder : Epochs,
             version : 0..(Cardinality(Saves) + 2 * MaxEpoch) ]
CommandType == [state : {"none", "queued", "running", "over"}, at : Epochs]

Start == [state |-> "active", epoch |-> 1, holder |-> 1, version |-> 0, checkpoint |-> None]
Idle  == [pc |-> "idle", on |-> None, task |-> Start, listed |-> {}, running |-> {}]

Init ==
    /\ row = Start /\ retired = {}
    /\ out = [k \in Mails |-> NoOut]
    /\ intent = [i \in Intents |-> "none"]
    /\ command = [k \in Mails |-> [state |-> "none", at |-> 1]]
    /\ op = [s \in Saves |-> NoOp] /\ evidence = {}
    /\ proc = [p \in Procs |-> Idle]
    /\ faults = 0

(* The fence: those who hold it between two of their transactions. *)
FenceFree == \A p \in Procs : proc[p].pc \notin {"finish", "retire"}

Live(k)   == command[k].state \in {"queued", "running"}
At(p, pc) == proc[p].pc = pc
On(p)     == proc[p].on
Task(p)   == proc[p].task
Goto(p, pc) == proc' = [proc EXCEPT ![p].pc = pc]
Return(p)   == proc' = [proc EXCEPT ![p] = Idle]
Call(p, pc, on) ==
    /\ At(p, "idle") /\ proc' = [proc EXCEPT ![p] = [Idle EXCEPT !.pc = pc, !.on = on, !.task = row]]
Fault == faults < MaxFaults /\ faults' = faults + 1

(* transition: every write of the row counts its version. *)
Write(new) == row' = [new EXCEPT !.version = row.version + 1]

(* record_cleanup_intents: rows that exist already stay as they are. *)
Recorded(keys) == [i \in Intents |-> IF i \in keys /\ intent[i] = "none" THEN "pending" ELSE intent[i]]
CancelsOf(e, ks) == {"cancel"} \X {e} \X ks
StopsOf(e, ks)   == {"stop"} \X {e} \X ks

-----------------------------------------------------------------------------
(* send_all *)

(* Every target is looked up before any mail is sent, outside its fence. *)
Send(p, k) ==
    /\ p \in Commands /\ out[k].state = "none"
    /\ row.state = "active" /\ row.holder \notin retired
    /\ Call(p, "begin", k)
    /\ UNCHANGED <<taskVars, mailVars, command, saveVars, faults>>

(* begin_outgoing_command, under the fence, if the task has not moved. *)
Begin(p) ==
    /\ At(p, "begin") /\ FenceFree
    /\ IF row = Task(p) /\ row.holder \notin retired /\ out[On(p)].state = "none"
       THEN /\ out' = [out EXCEPT ![On(p)] = [state |-> "sending", epoch |-> row.epoch,
                                              to |-> row.holder, named |-> FALSE]]
            /\ Goto(p, "post")
       ELSE Return(p) /\ UNCHANGED out
    /\ UNCHANGED <<taskVars, intent, command, saveVars, faults>>

(* The fence is open.  The answer may be lost, before or after the command   *)
(* was queued, or name no command: then the row stays without a native id.   *)
Post(p) ==
    /\ At(p, "post")
    /\ \/ command' = [command EXCEPT ![On(p)] = [state |-> "queued", at |-> Task(p).holder]]
       \/ command' = command /\ Fault
    /\ \/ command' # command /\ Goto(p, "settle") /\ UNCHANGED faults
       \/ command' # command /\ Goto(p, "settleUnnamed") /\ Fault
       \/ Return(p) /\ Fault
    /\ UNCHANGED <<taskVars, mailVars, saveVars>>

(* Mutant: a mail that is sent is settled, whatever became of its task. *)
NeverEnded(task) == FALSE

EndedSince(task) ==
    row.state = "ended" /\ row.epoch = task.epoch /\ row.holder = task.holder

(* settle_outgoing_command *)
Settled(k, terminal, named) ==
    /\ out' = [out EXCEPT ![k].state = IF terminal THEN "cleanup" ELSE "settled",
                          ![k].named = @ \/ named]
    /\ intent' = IF terminal /\ named THEN Recorded(CancelsOf(out[k].epoch, {k})) ELSE intent

Settle(p) ==
    /\ At(p, "settle") \/ At(p, "settleUnnamed")
    /\ FenceFree
    /\ Settled(On(p), EndedSince(Task(p)), At(p, "settle"))
    /\ Return(p)
    /\ UNCHANGED <<taskVars, command, saveVars, faults>>

-----------------------------------------------------------------------------
(* complete, cancel: _finish_locked *)

Finish(p) ==
    /\ p \in Commands /\ row.state # "ended"
    /\ Call(p, "list", None)
    /\ UNCHANGED <<taskVars, mailVars, command, saveVars, faults>>

(* The holder's queue is read with the fence open ... *)
List(p) ==
    /\ At(p, "list")
    /\ LET here == {k \in Mails : Live(k) /\ command[k].at = Task(p).holder} IN
       proc' = [proc EXCEPT ![p].pc = "fix", ![p].listed = here,
                            ![p].running = {k \in here : command[k].state = "running"}]
    /\ UNCHANGED <<taskVars, mailVars, command, saveVars, faults>>

(* ... and what it held is recorded for cancellation, before the row ends. *)
Fix(p) ==
    /\ At(p, "fix") /\ FenceFree
    /\ LET sent == {k \in Mails : out[k].named /\ out[k].epoch = row.epoch
                                  /\ out[k].state \in {"sending", "cleanup"}} IN
       intent' = IF row.holder = Task(p).holder
                 THEN Recorded(CancelsOf(row.epoch, proc[p].listed \union sent)
                               \union StopsOf(row.epoch, proc[p].running))
                 ELSE intent
    /\ Goto(p, "finish")
    /\ UNCHANGED <<taskVars, out, command, saveVars, faults>>

(* finish_with_wake.  A call for the state already reached goes on; one for  *)
(* another final state raises.                                               *)
FinishRow(p) ==
    /\ At(p, "finish")
    /\ \/ row.state # "ended" /\ Write([row EXCEPT !.state = "ended"]) /\ Goto(p, "retire")
       \/ row.state = "ended" /\ UNCHANGED row /\ (Goto(p, "retire") \/ Return(p))
    /\ UNCHANGED <<retired, mailVars, command, saveVars, faults>>

Retire(p) ==
    /\ At(p, "retire")
    /\ retired' = retired \union {row.holder}
    /\ Goto(p, "stop")
    /\ UNCHANGED <<row, mailVars, command, saveVars, faults>>

(* The executions of the task's own workspace are stopped, what it queues is *)
(* not touched.  The request may fail, or the workspace be the parent's.     *)
StopWorkspace(p) ==
    /\ At(p, "stop")
    /\ \/ command' = [k \in Mails |-> IF command[k] = [state |-> "running", at |-> row.holder]
                                      THEN [command[k] EXCEPT !.state = "over"] ELSE command[k]]
       \/ UNCHANGED command
    /\ Return(p)
    /\ UNCHANGED <<taskVars, mailVars, saveVars, faults>>

-----------------------------------------------------------------------------
(* replace, as the other calls see it *)

PrepareReplacement ==
    /\ FenceFree /\ row.state = "active" /\ row.epoch < MaxEpoch
    /\ Write([row EXCEPT !.state = "replacing", !.epoch = @ + 1])
    /\ UNCHANGED <<retired, mailVars, command, saveVars, proc, faults>>

(* The successor takes the queue of the session it replaces along. *)
ActivateReplacement ==
    /\ FenceFree /\ row.state = "replacing"
    /\ Write([row EXCEPT !.state = "active", !.holder = row.epoch])
    /\ retired' = retired \union {row.holder}
    /\ command' = [k \in Mails |-> IF command[k] = [state |-> "queued", at |-> row.holder]
                                   THEN [command[k] EXCEPT !.at = row.epoch] ELSE command[k]]
    /\ UNCHANGED <<mailVars, saveVars, proc, faults>>

-----------------------------------------------------------------------------
(* checkpoint *)

(* A new operation, or the explicit retry of one of this epoch. *)
Checkpoint(p, s) ==
    /\ p \in Commands /\ row.state # "ended"
    /\ op[s].state # "none" => op[s].epoch = row.epoch
    /\ Call(p, "prepare", s)
    /\ UNCHANGED <<taskVars, mailVars, command, saveVars, faults>>

(* Mutant: the version is not compared. *)
OwnerAtAnyVersion(epoch, holder, version) ==
    row.state # "ended" /\ row.epoch = epoch /\ row.holder = holder

(* _check_checkpoint_owner *)
Owner(epoch, holder, version) ==
    /\ row.state # "ended"
    /\ row.epoch = epoch /\ row.holder = holder /\ row.version = version

OwnerOf(s) == Owner(op[s].epoch, op[s].holder, op[s].version)

(* prepare_checkpoint_operation: the operation keeps the version it expects. *)
Prepare(p) ==
    /\ At(p, "prepare") /\ FenceFree
    /\ LET s == On(p)  task == Task(p) IN
       \/ /\ op[s].state = "none" /\ Owner(task.epoch, task.holder, task.version)
          /\ op' = [op EXCEPT ![s] = [state |-> "pending", epoch |-> task.epoch,
                                      holder |-> task.holder, version |-> task.version]]
          /\ Goto(p, "publish")
       \/ /\ op[s].state = "committed" \/ (op[s].state = "pending" /\ OwnerOf(s))
          /\ op[s].epoch = task.epoch /\ op[s].holder = task.holder
          /\ UNCHANGED op /\ Goto(p, "publish")
       \/ /\ IF op[s].state = "none" THEN ~Owner(task.epoch, task.holder, task.version)
             ELSE \/ op[s].state = "pending" /\ ~OwnerOf(s)
                  \/ op[s].epoch # task.epoch \/ op[s].holder # task.holder
          /\ UNCHANGED op /\ Return(p)
    /\ UNCHANGED <<taskVars, mailVars, command, evidence, faults>>

(* CheckpointRetention.publish, with the fence open: the publication key is  *)
(* the operation's, so bytes that are retained already are found again.      *)
Publish(p) ==
    /\ At(p, "publish")
    /\ \/ evidence' = evidence \union {On(p)} /\ Goto(p, "commit") /\ UNCHANGED faults
       \/ evidence' \in {evidence, evidence \union {On(p)}} /\ Return(p) /\ Fault
    /\ UNCHANGED <<taskVars, mailVars, command, op>>

(* checkpoint_with_occurrence: the row and the receipt in one transaction. *)
Commit(p) ==
    /\ At(p, "commit") /\ FenceFree
    /\ LET s == On(p) IN
       IF op[s].state = "pending" /\ OwnerOf(s)
       THEN Write([row EXCEPT !.checkpoint = s]) /\ op' = [op EXCEPT ![s].state = "committed"]
       ELSE UNCHANGED <<row, op>>
    /\ Return(p)
    /\ UNCHANGED <<retired, mailVars, command, evidence, faults>>

-----------------------------------------------------------------------------
(* reconcile_cleanup_intents: after every call, and in every tick *)

Unresolved(k) ==
    /\ row.state = "ended" /\ out[k].epoch = row.epoch
    /\ ~out[k].named /\ out[k].state \in {"sending", "cleanup"}

(* The queue is searched for the row's dedupe key, with the fence open. *)
LookUp(p, k) ==
    /\ Unresolved(k) /\ command[k].state # "none"
    /\ Call(p, "resolve", k)
    /\ UNCHANGED <<taskVars, mailVars, command, saveVars, faults>>

Resolve(p) ==
    /\ At(p, "resolve") /\ FenceFree
    /\ Settled(On(p), TRUE, TRUE)
    /\ Return(p)
    /\ UNCHANGED <<taskVars, command, saveVars, faults>>

(* 409: the command has an execution.  Its stop is recorded, with those of   *)
(* the whole queue, and the cancellation stays pending.                      *)
CancelRunning(p, e, k) ==
    /\ At(p, "idle") /\ command[k].state = "running"
    /\ LET here == {j \in Mails : Live(j) /\ command[j].at = command[k].at} IN
       intent' = Recorded(CancelsOf(e, here)
                          \union StopsOf(e, {j \in here : command[j].state = "running"}))
    /\ UNCHANGED <<taskVars, out, command, saveVars, proc, faults>>

Over(k) == command' = [command EXCEPT ![k].state = "over"]

CancelQueued(p, e, k) ==
    /\ command[k].state \in {"queued", "over"} /\ Over(k)
    /\ Call(p, "acknowledge", <<"cancel", e, k>>)
    /\ UNCHANGED <<taskVars, mailVars, saveVars, faults>>

Cancel(p, e, k) ==
    /\ intent["cancel", e, k] = "pending"
    /\ CancelQueued(p, e, k) \/ CancelRunning(p, e, k)

Stop(p, e, k) ==
    /\ intent["stop", e, k] = "pending" /\ Over(k)
    /\ Call(p, "acknowledge", <<"stop", e, k>>)
    /\ UNCHANGED <<taskVars, mailVars, saveVars, faults>>

(* acknowledge_cleanup_intent *)
Acknowledge(p) ==
    /\ At(p, "acknowledge") /\ FenceFree
    /\ LET kind == On(p)[1]  e == On(p)[2]  k == On(p)[3] IN
       /\ intent' = [intent EXCEPT ![On(p)] = "acknowledged"]
       /\ out' = IF kind = "cancel" /\ out[k].state = "cleanup" /\ out[k].named /\ out[k].epoch = e
                 THEN [out EXCEPT ![k].state = "acknowledged"] ELSE out
    /\ Return(p)
    /\ UNCHANGED <<taskVars, command, saveVars, faults>>

-----------------------------------------------------------------------------
(* The executor, and processes that die *)

Dispatch(k) ==
    /\ command[k].state = "queued"
    /\ \A j \in Mails : command[j].at = command[k].at => command[j].state # "running"
    /\ command' = [command EXCEPT ![k].state = "running"]
    /\ UNCHANGED <<taskVars, mailVars, saveVars, proc, faults>>

TurnEnds(k) ==
    /\ command[k].state = "running" /\ Over(k)
    /\ UNCHANGED <<taskVars, mailVars, saveVars, proc, faults>>

Crash(p) ==
    /\ ~At(p, "idle") /\ Fault /\ Return(p)
    /\ UNCHANGED <<taskVars, mailVars, command, saveVars>>

Step(p) ==
    \/ Begin(p) \/ Post(p) \/ Settle(p)
    \/ List(p) \/ Fix(p) \/ FinishRow(p) \/ Retire(p) \/ StopWorkspace(p)
    \/ Prepare(p) \/ Publish(p) \/ Commit(p)
    \/ Resolve(p) \/ Acknowledge(p)

CleanUp(p, k) == LookUp(p, k) \/ \E e \in Epochs : Cancel(p, e, k) \/ Stop(p, e, k)

Next ==
    \/ \E p \in Procs :
        \/ Step(p) \/ Finish(p) \/ Crash(p)
        \/ \E k \in Mails : Send(p, k) \/ CleanUp(p, k)
        \/ \E s \in Saves : Checkpoint(p, s)
    \/ PrepareReplacement \/ ActivateReplacement
    \/ \E k \in Mails : Dispatch(k) \/ TurnEnds(k)

Spec == Init /\ [][Next]_vars

(* A process that lives goes on, and the tick goes on as long as a row is    *)
(* left to clean up.  Nothing says that a turn ends, or a queue is served.   *)
Fairness ==
    /\ \A p \in Procs : WF_vars(Step(p))
    /\ WF_vars(\E k \in Mails : CleanUp(Bridge, k))

FairSpec == Spec /\ Fairness

-----------------------------------------------------------------------------
(* Properties *)

ProcType ==
    [ pc : {"idle", "begin", "post", "settle", "settleUnnamed", "list", "fix", "finish",
            "retire", "stop", "prepare", "publish", "commit", "resolve", "acknowledge"},
      on : Mails \union Saves \union Intents \union {None},
      task : RowType, listed : SUBSET Mails, running : SUBSET Mails ]

(* The row, outgoing commands, checkpoints and processes are well formed. *)
TypeOK ==
    /\ row \in RowType /\ retired \subseteq Epochs
    /\ out \in [Mails -> OutType]
    /\ intent \in [Intents -> {"none", "pending", "acknowledged"}]
    /\ command \in [Mails -> CommandType]
    /\ op \in [Saves -> OpType] /\ evidence \subseteq Saves
    /\ proc \in [Procs -> ProcType]
    /\ faults \in 0..MaxFaults

(* test_sdk.py, "an enqueue crossing terminalization cannot resurrect its     *)
(* task": mail that was on its way when its task ended, or that its end       *)
(* listed, does not stay with the executor, whether its sender lives to       *)
(* settle it or not, and whether or not it was dispatched meanwhile.          *)
EndedMailStops ==
    \A k \in Mails :
        ( /\ row.state = "ended" /\ Live(k)
          /\ \/ out[k].epoch = row.epoch /\ out[k].state \in {"sending", "cleanup"}
             \/ \E e \in Epochs : intent["cancel", e, k] = "pending" )
        ~> command[k].state = "over"

(* sdk.py, _finish_locked: "a terminal task cannot release admission while    *)
(* cdesktop can still dispatch one of its commands": what the session of an   *)
(* ended task still queues is pinned by an intent or an unresolved row.       *)
EndedMailIsPinned ==
    row.state = "ended" =>
        \A k \in Mails : Live(k) /\ command[k].at = row.holder =>
            \/ \E e \in Epochs : intent["cancel", e, k] = "pending"
            \/ out[k].state \in {"sending", "cleanup"}

(* checkpoint-retention.md: concurrent checkpoints and late retries never     *)
(* put a reference back that a later operation, prepared when it was already  *)
(* there, has replaced, and an ended task keeps the one it has.               *)
CheckpointsAdvance ==
    [][ row'.checkpoint # row.checkpoint =>
            /\ row.state # "ended"
            /\ row.checkpoint # None => op[row'.checkpoint].version > op[row.checkpoint].version ]_vars
=============================================================================
