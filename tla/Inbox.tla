------------------------------- MODULE Inbox -------------------------------
(***************************************************************************)
(* How a child's word reaches its parent: escalate() and the decision      *)
(* inbox it falls back to (escalation.py), the commands that use them      *)
(* (cli/messaging.py), and the session pass of the bridge, which tells a   *)
(* parent of a child's finished and interrupted commands and of the        *)
(* signals the child opted into (durable.py).                              *)
(*                                                                         *)
(* One child, with one native command.  A logical message is its dedupe    *)
(* key.  A step is one transaction or one executor request; between two    *)
(* steps of a process every other one may move, sessions may be retired    *)
(* and workspaces archived.                                                *)
(***************************************************************************)
EXTENDS Naturals, FiniteSets

CONSTANTS
    Child,
    Managers,       \* sessions that may be the child's parent, or succeed it
    Reports,        \* messages the child sends with "sightmesh parent"
    Policies,       \* conditions the child's signal policy may name
    Runs,           \* subscriptions to external runs; each has one key
    Orders,         \* follow-ups a manager wants acknowledged
    ParentOf,       \* the return address each message was given
    Commands,       \* processes that run a command of the CLI
    Bridge,         \* the process that runs the reconcile tick
    None,
    MaxFaults       \* bound: failed requests and crashes

Lifecycle == {"child-command", "child-terminal"}
Keys      == Reports \union Policies \union Runs \union Lifecycle
Sessions  == Managers \union {Child}
Procs     == Commands \union {Bridge}

ASSUME InboxAssumption ==
    /\ Child \notin Managers /\ Bridge \notin Commands
    /\ ParentOf \in [Keys -> Sessions \union {None}] /\ None \notin Sessions \union Keys
    /\ IsFiniteSet(Managers) /\ MaxFaults \in Nat

(* Each kind of key has a prefix of its own; an order's id is no key, and    *)
(* the id of a session is no state of an owner.                              *)
ASSUME KindsAssumption ==
    /\ Policies \intersect (Reports \union Runs \union Lifecycle) = {}
    /\ Runs \intersect (Reports \union Lifecycle) = {}
    /\ Reports \intersect Lifecycle = {}
    /\ Orders \intersect (Keys \union {None}) = {}
    /\ Sessions \intersect {"live", "retired"} = {}

VARIABLES
    owner,      \* owner[s]: "live", "retired", or the successor linked to it
    archived,   \* sessions whose workspace is archived
    queue,      \* follow-ups in the sessions' command queues
    ack,        \* acknowledgments: the session a key was delivered to
    parked,     \* escalations: "none", "parked" or "resolved", per key
    order,      \* order_expectations
    policy,     \* the child's signal policy, and the conditions that hold now
    command,    \* the child's native command and its execution
    memory,     \* the reconciler's own memory: keys told, command requeued
    proc,       \* proc[p]: the program point of p, its message and destination
    faults

sessionVars == <<owner, archived>>
storeVars   == <<ack, parked, order, policy>>
vars == <<sessionVars, queue, storeVars, command, memory, proc, faults>>

Idle == [pc |-> "idle", key |-> None, to |-> None]

ProcType ==
    [ pc  : {"idle", "look", "park", "send", "ack", "satisfy", "ask", "resolve", "wait",
             "notify", "close", "reject", "drop", "requeue", "told", "read", "probe",
             "lose", "preserve", "begin", "mark"},
      key : Keys \union Orders \union {None},
      to  : Sessions \union {None} ]

Init ==
    /\ owner = [s \in Sessions |-> "live"]
    /\ archived = {} /\ queue = {}
    /\ ack = [k \in Keys |-> None]
    /\ parked = [k \in Keys |-> "none"]
    /\ order = [o \in Orders |-> "none"]
    /\ policy = [on |-> {}, holds |-> {}]
    /\ command = [state |-> "pending", execution |-> "none"]
    /\ memory = [told |-> {}, requeued |-> FALSE]
    /\ proc = [p \in Procs |-> Idle]
    /\ faults = 0

At(p, pc)       == proc[p].pc = pc
Goto(p, pc)     == proc' = [proc EXCEPT ![p].pc = pc]
Begin(p, pc, k) == At(p, "idle") /\ proc' = [proc EXCEPT ![p] = [Idle EXCEPT !.pc = pc, !.key = k]]
Return(p)       == proc' = [proc EXCEPT ![p] = Idle]

(* A request that fails, or a process that dies, uses up a fault. *)
Fault == faults < MaxFaults /\ faults' = faults + 1

Quarantined(s) == owner[s] # "live"

(* resolve_live_successor: follow the links; a retired session without one  *)
(* ends the search.  link_successor admits no cycle.                         *)
LiveSuccessor(s) ==
    LET follow[n \in 0..Cardinality(Sessions)] ==
            IF n = 0 THEN s
            ELSE LET at == follow[n - 1] IN IF owner[at] \in Sessions THEN owner[at] ELSE at
        last == follow[Cardinality(Sessions)]
    IN  IF owner[last] = "live" THEN last ELSE None

(* The sessions its links lead through. *)
Chain(s) ==
    LET reach[n \in 0..Cardinality(Sessions)] ==
            IF n = 0 THEN {s}
            ELSE reach[n - 1] \union ({owner[t] : t \in reach[n - 1]} \intersect Sessions)
    IN  reach[Cardinality(Sessions)]

Recorded(k) == ack[k] # None \/ parked[k] # "none"

-----------------------------------------------------------------------------
(* escalate(), the same for all that call it *)

(* The parent's session and workspace are read. *)
Look(p) ==
    /\ At(p, "look")
    /\ LET parent == ParentOf[proc[p].key] IN
       \/ /\ parent \in Managers \ archived
          /\ proc' = [proc EXCEPT ![p].pc = "send", ![p].to = parent]
          /\ UNCHANGED faults
       \/ /\ parent \notin Managers \ archived
          /\ Goto(p, "park") /\ UNCHANGED faults
       \/ /\ Fault                             \* CdesktopError: parent_unreachable
          /\ Goto(p, "park")
    /\ UNCHANGED <<sessionVars, queue, storeVars, command, memory>>

(* Mutant: a run counts as delivered once escalate() returns. *)
ContinueRegardless(p, delivered) ==
    \/ proc[p].key \in Reports  /\ Goto(p, "satisfy")
    \/ proc[p].key \in Policies /\ Return(p)
    \/ proc[p].key \in Runs     /\ Goto(p, "mark")

(* What the caller does with an escalation that was delivered, or parked. *)
Continue(p, delivered) ==
    \/ proc[p].key \in Reports  /\ Goto(p, "satisfy")
    \/ proc[p].key \in Policies /\ Return(p)
    \/ proc[p].key \in Runs     /\ IF delivered THEN Goto(p, "mark") ELSE Return(p)

(* A keyed send is repeated and then verified, so an answer means queued; an *)
(* error says nothing.  escalate() lets the error out: nothing is recorded.  *)
Send(p) ==
    /\ At(p, "send")
    /\ \/ /\ queue' = queue \union {<<proc[p].to, proc[p].key>>}
          /\ Goto(p, "ack") /\ UNCHANGED faults
       \/ /\ Fault
          /\ queue' \in {queue, queue \union {<<proc[p].to, proc[p].key>>}}
          /\ Return(p)
    /\ UNCHANGED <<sessionVars, storeVars, command, memory>>

(* acknowledge: INSERT OR IGNORE under the dedupe key. *)
Acknowledge(p) ==
    /\ At(p, "ack")
    /\ ack' = [ack EXCEPT ![proc[p].key] = IF @ = None THEN proc[p].to ELSE @]
    /\ Continue(p, TRUE)
    /\ UNCHANGED <<sessionVars, queue, parked, order, policy, command, memory, faults>>

Parked(k) == [parked EXCEPT ![k] = IF @ = "none" THEN "parked" ELSE @]

Park(p) ==
    /\ At(p, "park")
    /\ parked' = Parked(proc[p].key)
    /\ Continue(p, FALSE)
    /\ UNCHANGED <<sessionVars, queue, ack, order, policy, command, memory, faults>>

Escalate(p) == Look(p) \/ Send(p) \/ Acknowledge(p) \/ Park(p)

-----------------------------------------------------------------------------
(* Commands *)

(* cmd_parent: the child reports, and its outstanding orders are satisfied. *)
Report(p, k) ==
    /\ p \in Commands /\ k \in Reports /\ Begin(p, "look", k)
    /\ UNCHANGED <<sessionVars, queue, storeVars, command, memory, faults>>

SatisfyOrders(p) ==
    /\ At(p, "satisfy")
    /\ order' = [o \in Orders |-> IF order[o] = "open" THEN "reported" ELSE order[o]]
    /\ Return(p)
    /\ UNCHANGED <<sessionVars, queue, ack, parked, policy, command, memory, faults>>

(* cmd_message --expect-ack: the expectation first, then the message. *)
ExpectOrder(p, o) ==
    /\ p \in Commands /\ order[o] = "none" /\ ~Quarantined(Child)
    /\ Begin(p, "ask", o)
    /\ order' = [order EXCEPT ![o] = "open"]
    /\ UNCHANGED <<sessionVars, queue, ack, parked, policy, command, memory, faults>>

Ask(p) ==
    /\ At(p, "ask")
    /\ \/ queue' = queue \union {<<Child, proc[p].key>>} /\ UNCHANGED faults
       \/ queue' = queue /\ Fault
    /\ Return(p)
    /\ UNCHANGED <<sessionVars, storeVars, command, memory>>

(* cmd_ack: the child acknowledges one order it was sent. *)
AcknowledgeOrder(o) ==
    /\ order[o] = "open" /\ <<Child, o>> \in queue
    /\ order' = [order EXCEPT ![o] = "acked"]
    /\ UNCHANGED <<sessionVars, queue, ack, parked, policy, command, memory, proc, faults>>

(* cmd_policy set and clear. *)
SetPolicy(on) ==
    /\ policy.on # on /\ policy' = [policy EXCEPT !.on = on]
    /\ UNCHANGED <<sessionVars, queue, ack, parked, order, command, memory, proc, faults>>

-----------------------------------------------------------------------------
(* The session pass of the bridge *)

(* delivery_state of the child's command is terminal or rejected. *)
CommandOver == command.state \in {"done", "cancelled"}

(* A claim whose execution ended without settling it. *)
Interrupted == command = [state |-> "claimed", execution |-> "ended"]

(* _notify_live_parent's first test, and the key's terminal dedupe record. *)
Told(k) == k \in memory.told \/ ack[k] # None \/ parked[k] = "resolved"

(* reconcile_session leaves a quarantined child alone. *)
Due(k) == (k = "child-command" /\ CommandOver) \/ (k = "child-terminal" /\ Interrupted)

NotifyParent(k) ==
    /\ k \in Lifecycle /\ ~Quarantined(Child) /\ Due(k)
    /\ ParentOf[k] # None /\ ~Told(k)
    /\ Begin(Bridge, IF ParentOf[k] = Child THEN "reject" ELSE "resolve", k)
    /\ UNCHANGED <<sessionVars, queue, storeVars, command, memory, faults>>

ResolveSuccessor ==
    /\ At(Bridge, "resolve")
    /\ LET to == LiveSuccessor(ParentOf[proc[Bridge].key]) IN
       proc' = [proc EXCEPT ![Bridge].to = to,
                            ![Bridge].pc = IF to = None THEN "wait"
                                           ELSE IF to = Child THEN "reject" ELSE "notify"]
    /\ UNCHANGED <<sessionVars, queue, storeVars, command, memory, faults>>

(* After a notification of an interrupted command the pass goes on to        *)
(* requeue it; after one of a command that is over it is done with it.       *)
Onward == IF proc[Bridge].key = "child-terminal" THEN Goto(Bridge, "requeue") ELSE Return(Bridge)

Resolved(k) == [parked EXCEPT ![k] = IF @ = "parked" THEN "resolved" ELSE @]

(* Mutant: the notice is closed as it is parked. *)
ParkAndClose ==
    /\ At(Bridge, "wait")
    /\ parked' = [parked EXCEPT ![proc[Bridge].key] = "resolved"]
    /\ Onward
    /\ UNCHANGED <<sessionVars, queue, ack, order, policy, command, memory, faults>>

(* No live successor: parked, and tried again by the next pass. *)
ParkNotice ==
    /\ At(Bridge, "wait")
    /\ parked' = Parked(proc[Bridge].key)
    /\ Onward
    /\ UNCHANGED <<sessionVars, queue, ack, order, policy, command, memory, faults>>

(* Mutant: a notification that failed is not tried again. *)
NotifyOnce ==
    /\ At(Bridge, "notify")
    /\ LET sent == queue \union {<<proc[Bridge].to, proc[Bridge].key>>} IN
       \/ queue' = sent /\ Goto(Bridge, "close") /\ UNCHANGED <<memory, faults>>
       \/ /\ queue' \in {queue, sent} /\ Return(Bridge) /\ Fault
          /\ memory' = [memory EXCEPT !.told = @ \union {proc[Bridge].key}]
    /\ UNCHANGED <<sessionVars, storeVars, command>>

Notify ==
    /\ At(Bridge, "notify")
    /\ LET sent == queue \union {<<proc[Bridge].to, proc[Bridge].key>>} IN
       \/ queue' = sent /\ Goto(Bridge, "close") /\ UNCHANGED faults
       \/ queue' \in {queue, sent} /\ Return(Bridge) /\ Fault
    /\ UNCHANGED <<sessionVars, storeVars, command, memory>>

CloseNotice ==
    /\ At(Bridge, "close")
    /\ memory' = [memory EXCEPT !.told = @ \union {proc[Bridge].key}]
    /\ parked' = Resolved(proc[Bridge].key)
    /\ Onward
    /\ UNCHANGED <<sessionVars, queue, ack, order, policy, command, faults>>

(* _reject_invalid_route: a child is never its own parent; parked, resolved. *)
RejectRoute ==
    /\ At(Bridge, "reject")
    /\ parked' = Parked(proc[Bridge].key)
    /\ Goto(Bridge, "drop")
    /\ UNCHANGED <<sessionVars, queue, ack, order, policy, command, memory, faults>>

DropNotice ==
    /\ At(Bridge, "drop")
    /\ memory' = [memory EXCEPT !.told = @ \union {proc[Bridge].key}]
    /\ parked' = Resolved(proc[Bridge].key)
    /\ Onward
    /\ UNCHANGED <<sessionVars, queue, ack, order, policy, command, faults>>

(* _interrupt_and_requeue, once per command and life of the reconciler.  The *)
(* pass comes here straight away when there is nobody to tell any more.      *)
Requeue ==
    /\ \/ At(Bridge, "requeue")
       \/ At(Bridge, "idle") /\ ~Quarantined(Child) /\ Interrupted
          /\ (ParentOf["child-terminal"] = None \/ Told("child-terminal"))
    /\ IF memory.requeued \/ ~Interrupted
       THEN UNCHANGED <<command, memory>>
       ELSE /\ command' = [state |-> "pending", execution |-> "none"]
            /\ memory' = [memory EXCEPT !.requeued = TRUE]
    /\ Return(Bridge)
    /\ UNCHANGED <<sessionVars, queue, storeVars, faults>>

(* dispatch_queued: the native dispatcher claims what is pending. *)
Dispatch ==
    /\ At(Bridge, "idle") /\ ~Quarantined(Child) /\ command.state = "pending"
    /\ command' = [state |-> "claimed", execution |-> "running"]
    /\ UNCHANGED <<sessionVars, queue, storeVars, memory, proc, faults>>

(* _cancel_quarantined *)
CancelQuarantined ==
    /\ At(Bridge, "idle") /\ Quarantined(Child) /\ ~CommandOver
    /\ command' = [state     |-> "cancelled",
                   execution |-> IF command.execution = "none" THEN "none" ELSE "ended"]
    /\ UNCHANGED <<sessionVars, queue, storeVars, memory, proc, faults>>

(* Mutant: only a delivered signal is remembered. *)
SignalUntilDelivered(k) ==
    /\ k \in policy.on \intersect policy.holds
    /\ ~Quarantined(Child) /\ ack[k] = None
    /\ Begin(Bridge, "look", k)
    /\ UNCHANGED <<sessionVars, queue, storeVars, command, memory, faults>>

(* _reconcile_signal_policy: one escalation per condition, for ever. *)
Signal(k) ==
    /\ k \in policy.on \intersect policy.holds
    /\ ~Quarantined(Child) /\ ~Recorded(k)
    /\ Begin(Bridge, "look", k)
    /\ UNCHANGED <<sessionVars, queue, storeVars, command, memory, faults>>

SessionPass ==
    \/ \E k \in Lifecycle : NotifyParent(k)
    \/ ResolveSuccessor \/ ParkNotice \/ Notify \/ CloseNotice \/ RejectRoute \/ DropNotice
    \/ Requeue \/ Dispatch \/ CancelQuarantined
    \/ \E k \in Policies : Signal(k)

-----------------------------------------------------------------------------
(* The world *)

(* retire: the first terminal record stays. *)
Retire(s) ==
    /\ owner[s] = "live"
    /\ owner' = [owner EXCEPT ![s] = "retired"]
    /\ UNCHANGED <<archived, queue, storeVars, command, memory, proc, faults>>

(* link_successor: once, not to itself, and never into a cycle. *)
LinkSuccessor(s, t) ==
    /\ owner[s] = "retired" /\ s \notin Chain(t)
    /\ owner' = [owner EXCEPT ![s] = t]
    /\ UNCHANGED <<archived, queue, storeVars, command, memory, proc, faults>>

(* Nobody looks at the workspace of a session that is no return address. *)
Archive(s) ==
    /\ s \in Managers \ archived /\ \E k \in Keys : ParentOf[k] = s
    /\ archived' = archived \union {s}
    /\ UNCHANGED <<owner, queue, storeVars, command, memory, proc, faults>>

(* Bound: of a command that ended without being settled there is one fault. *)
ExecutionEnds ==
    /\ command.execution = "running" /\ command.state = "claimed"
    /\ \/ command' = [state |-> "done", execution |-> "ended"] /\ UNCHANGED faults
       \/ command' = [command EXCEPT !.execution = "ended"] /\ Fault
    /\ UNCHANGED <<sessionVars, queue, storeVars, memory, proc>>

Observe(holds) ==
    /\ policy.holds # holds /\ policy' = [policy EXCEPT !.holds = holds]
    /\ UNCHANGED <<sessionVars, queue, ack, parked, order, command, memory, proc, faults>>

(* A process dies; the bridge comes back with an empty memory. *)
Crash(p) ==
    /\ ~At(p, "idle") /\ Fault
    /\ Return(p)
    /\ memory' = IF p = Bridge THEN [told |-> {}, requeued |-> FALSE] ELSE memory
    /\ UNCHANGED <<sessionVars, queue, storeVars, command>>

InboxNext ==
    \/ \E p \in Procs : Escalate(p) \/ SatisfyOrders(p) \/ Ask(p) \/ Crash(p)
    \/ \E p \in Commands : (\E k \in Reports : Report(p, k)) \/ \E o \in Orders : ExpectOrder(p, o)
    \/ \E o \in Orders : AcknowledgeOrder(o)
    \/ \E c \in SUBSET Policies : SetPolicy(c) \/ Observe(c)
    \/ SessionPass
    \/ \E s \in Sessions : Retire(s) \/ Archive(s) \/ \E t \in Sessions : LinkSuccessor(s, t)
    \/ ExecutionEnds

Spec == Init /\ [][InboxNext]_vars

(* A process that does not die goes on; the bridge ticks for ever, and each *)
(* pass visits the child.  Nobody has to report, to end or to succeed.      *)
Fairness ==
    /\ \A p \in Procs : WF_vars(Escalate(p) \/ SatisfyOrders(p) \/ Ask(p))
    /\ WF_vars(ResolveSuccessor \/ ParkNotice \/ Notify \/ CloseNotice \/ RejectRoute
               \/ DropNotice \/ (Requeue /\ At(Bridge, "requeue")))
    /\ \A k \in Lifecycle : SF_vars(NotifyParent(k))

FairSpec == Spec /\ Fairness

-----------------------------------------------------------------------------
(* Properties *)

(* Records of escalation.py, owners, queues and what each process remembers. *)
TypeOK ==
    /\ owner \in [Sessions -> {"live", "retired"} \union Sessions]
    /\ archived \subseteq Managers
    /\ queue \subseteq Sessions \X (Keys \union Orders)
    /\ ack \in [Keys -> Managers \union {None}]
    /\ parked \in [Keys -> {"none", "parked", "resolved"}]
    /\ order \in [Orders -> {"none", "open", "reported", "acked"}]
    /\ policy \in [on : SUBSET Policies, holds : SUBSET Policies]
    /\ command \in [ state : {"pending", "claimed", "done", "cancelled"},
                     execution : {"none", "running", "ended"} ]
    /\ memory \in [told : SUBSET Lifecycle, requeued : BOOLEAN]
    /\ proc \in [Procs -> ProcType]
    /\ faults \in 0..MaxFaults

(* durable.py, _notify_live_parent: a parked notice is closed only because   *)
(* it was delivered after all, or because it leads back to the child itself. *)
ClosedIsDelivered ==
    \A k \in Lifecycle : parked[k] = "resolved" =>
        \/ \E s \in Managers : <<s, k>> \in queue
        \/ Child \in Chain(ParentOf[k])

(* durable.py, _reconcile_signal_policy: a signal fires once.  It is never   *)
(* both delivered and left in the inbox for somebody to act on again.        *)
SignalOnce ==
    \A k \in Policies : ~(ack[k] # None /\ parked[k] # "none")

(* durable.py, _wake_parent_for_terminal_commands: what became of a command  *)
(* is never swallowed: its parent's live successor is told, or it is in the  *)
(* inbox - across lost requests, restarts and handovers of the parent.       *)
Heard(k) == parked[k] # "none" \/ \E s \in Managers : <<s, k>> \in queue
NoticeHeard ==
    \A k \in Lifecycle : Due(k) ~> (Heard(k) \/ Quarantined(Child) \/ ParentOf[k] = None)
=============================================================================
