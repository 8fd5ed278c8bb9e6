------------------------------- MODULE Wakes -------------------------------
(***************************************************************************)
(* The wake outbox of one manager (wakes.py, the reconcile stages of       *)
(* durable.py, and the manager's own handover, succession.py): what its    *)
(* children report, the rows of task_wakes it satisfies, and the pumps     *)
(* that deliver them to whatever session holds the manager's task.         *)
(*                                                                         *)
(* A step is one transaction, one executor request, or one group of reads. *)
(* Several pumps run at once: the bridge's, and one at the end of every    *)
(* lifecycle command.  They share rows only through a claim with a lease   *)
(* and a token; a pump handles one claim at a time, so its name is the     *)
(* token.                                                                  *)
(*                                                                         *)
(* A message body is the view of the cohort it renders: the number of      *)
(* child events that had happened when the children were read.  The stall  *)
(* and budget predicates are left to another module.                       *)
(***************************************************************************)
EXTENDS Naturals, FiniteSets

CONSTANTS Children,
          Pumps,
          Bridge,        \* the pump of the reconcile tick
          WakeIds,       \* bound: rows of task_wakes in use at once
          MaxEvents,     \* bound: child_event_seq
          MaxEpoch,      \* bound: epochs of a child
          MaxHolder,     \* bound: sessions that hold the manager's task in turn
          MaxFaults      \* bound: lost requests, dead pumps and claims outrun by their lease

ASSUME WakesAssumption ==
    /\ Bridge \in Pumps
    /\ WakeIds \subseteq Nat \ {0}
    /\ MaxEvents \in Nat /\ MaxEpoch \in Nat \ {0} /\ MaxHolder \in Nat \ {0}
    /\ MaxFaults \in Nat

VARIABLES
    child,     \* child[c]: the child's row
    seq,       \* the manager's child_event_seq
    woken,     \* the manager's last_woken_seq
    parent,    \* the manager's row, as far as delivery looks at it
    retired,   \* sessions with a terminal ownership record
    listed,    \* during a handover: the source's commands, as they were listed
    wake,      \* wake[i]: a row of task_wakes
    pump,      \* pump[p]: the claims p holds and where it is with one
    inbox,     \* commands in the sessions' queues
    faults

vars == <<child, seq, woken, parent, retired, listed, wake, pump, inbox, faults>>

None == 0

Cohort == {"any_child_blocked", "all_children_terminal"}

(* dedupe_key: one per predicate, and one per lost epoch of a child. *)
Key(predicate)    == <<predicate, None, None>>
LostKey(c, epoch) == <<"any_child_lost", c, epoch>>

Keys == {Key(q) : q \in Cohort} \union {LostKey(c, e) : c \in Children, e \in 1..MaxEpoch}

ChildType == [ state : {"none", "live", "blocked", "finished", "lost", "expired"},
               epoch : 1..MaxEpoch ]

(* "retired" while the source's commands are being listed, "handover" until *)
(* the successor holds the task.                                           *)
ParentType == [ state : {"live", "retired", "handover", "ended"}, holder : 1..MaxHolder ]

WakeType == [ state   : {"none", "pending", "claimed", "delivered", "resolved"},
              key     : Keys \union {<<>>},
              seq     : 0..MaxEvents,       \* event_seq; 0 for a liveness wake
              token   : Pumps \union {None},
              live    : BOOLEAN,            \* the claim's lease has not run out
              payload : 0..(MaxEvents + 1) ]  \* None, or 1 + the view it renders; while open

PumpType == [ pc      : {"idle", "next", "resolve", "persist", "send", "settle"},
              todo    : SUBSET WakeIds,     \* claimed and not yet looked at
              at      : WakeIds \union {None},
              session : 0..MaxHolder,
              body    : 0..(MaxEvents + 1) ]

Message == [ to : 1..MaxHolder, wake : WakeIds, body : 1..(MaxEvents + 1) ]

NoWake == [ state |-> "none", key |-> <<>>, seq |-> 0, token |-> None,
            live |-> FALSE, payload |-> None ]
Idle   == [ pc |-> "idle", todo |-> {}, at |-> None, session |-> 0, body |-> None ]

Init ==
    /\ child = [c \in Children |-> [state |-> "none", epoch |-> 1]]
    /\ seq = 0 /\ woken = 0
    /\ parent = [state |-> "live", holder |-> 1]
    /\ retired = {} /\ listed = {}
    /\ wake = [i \in WakeIds |-> NoWake]
    /\ pump = [p \in Pumps |-> Idle]
    /\ inbox = {}
    /\ faults = 0

ParentKept == UNCHANGED <<parent, retired, listed>>
PumpsKept  == UNCHANGED <<pump, inbox, faults>>

-----------------------------------------------------------------------------
(* Arming *)

Unconsumed(w, key) == \E i \in WakeIds : w[i].key = key /\ w[i].state \in {"pending", "claimed"}

(* TOLD_WAKE_STATES: the incident was told, or is about to be. *)
Told(w, key) ==
    \E i \in WakeIds : w[i].key = key /\ w[i].state \in {"pending", "claimed", "delivered"}

(* A row id that nothing refers to any more stands for a new row. *)
Free(w) == { i \in WakeIds :
               /\ w[i].state \in {"none", "resolved"}
               /\ \A p \in Pumps : i # pump[p].at /\ i \notin pump[p].todo
               /\ \A m \in inbox \union listed : m.wake # i }

Inserted(w, key, n) ==
    LET i == CHOOSE i \in Free(w) : \A j \in Free(w) : i <= j
    IN  [w EXCEPT ![i] = [NoWake EXCEPT !.state = "pending", !.key = key, !.seq = n]]

Live(c) == c.state \in {"live", "blocked"}

satisfied_predicates(rows) ==
    LET cs == {c \in Children : rows[c].state # "none"} IN
    {q \in Cohort :
        \/ q = "any_child_blocked" /\ \E c \in cs : rows[c].state = "blocked"
        \/ q = "all_children_terminal" /\ cs # {} /\ \A c \in cs : ~Live(rows[c])}

(* Faulty: arms without a look at the watermark. *)
ArmUngated(w, rows, n) ==
    LET due == {q \in satisfied_predicates(rows) : ~Unconsumed(w, Key(q))}
    IN  IF due = {} \/ n = 0 THEN w ELSE Inserted(w, Key(CHOOSE q \in due : TRUE), n)

(* record_wakes: the predicates exclude each other, so one row at most is   *)
(* inserted, and none while the manager has been woken for all it has seen. *)
record_wakes(w, rows, n) ==
    LET due == {q \in satisfied_predicates(rows) : n > woken /\ ~Unconsumed(w, Key(q))}
    IN  IF due = {} THEN w ELSE Inserted(w, Key(CHOOSE q \in due : TRUE), n)

(* _arm_liveness, one_shot *)
arm_lost(w, key) == IF Told(w, key) THEN w ELSE Inserted(w, key, 0)

(* Bound: as many row ids at hand as a transaction may insert. *)
Room(n) == Cardinality(Free(wake)) >= n

-----------------------------------------------------------------------------
(* Children *)

(* start(), by the manager *)
Spawn(c) ==
    /\ parent.state = "live"
    /\ child[c].state = "none"
    /\ child' = [child EXCEPT ![c].state = "live"]
    /\ UNCHANGED <<seq, woken, wake>>
    /\ ParentKept /\ PumpsKept

(* finish_with_wake: the child's transition, the manager's event counter    *)
(* and the wakes they satisfy are one transaction.                          *)
FinishWithWake(c, state) ==
    /\ \/ child[c].state = "live"
       \/ child[c].state = "blocked" /\ state = "finished"
    /\ seq < MaxEvents /\ Room(2)
    /\ child' = [child EXCEPT ![c].state = state]
    /\ seq' = seq + 1
    /\ wake' = LET w == record_wakes(wake, child', seq + 1) IN
               IF state = "lost" THEN arm_lost(w, LostKey(c, child[c].epoch)) ELSE w
    /\ UNCHANGED woken
    /\ ParentKept /\ PumpsKept

(* expire_reservations: the reservation of a launch is lost by finish(). *)
Expire(c) ==
    /\ child[c].state = "live"
    /\ child' = [child EXCEPT ![c].state = "expired"]
    /\ UNCHANGED <<seq, woken, wake>>
    /\ ParentKept /\ PumpsKept

(* replace(), a reroute, or a start of an expired reservation: the child is *)
(* back in its next epoch, and nobody is told.                              *)
Reopen(c) ==
    /\ child[c].state \in {"blocked", "lost", "expired"}
    /\ child[c].epoch < MaxEpoch
    /\ child' = [child EXCEPT ![c] = [state |-> "live", epoch |-> @.epoch + 1]]
    /\ UNCHANGED <<seq, woken, wake>>
    /\ ParentKept /\ PumpsKept

(* The cohort stage of reconcile_kernel. *)
Rearm ==
    /\ Room(1)
    /\ wake' = record_wakes(wake, child, seq)
    /\ wake' # wake
    /\ UNCHANGED <<child, seq, woken>>
    /\ ParentKept /\ PumpsKept

-----------------------------------------------------------------------------
(* The manager's own task *)

(* transfer_ownership: the source is retired first. *)
Retire ==
    /\ parent.state = "live" /\ parent.holder < MaxHolder
    /\ parent' = [parent EXCEPT !.state = "retired"]
    /\ retired' = retired \union {parent.holder}
    /\ UNCHANGED <<child, seq, woken, wake, listed>>
    /\ PumpsKept

(* Its open commands are then listed, once.  A command the manager has      *)
(* already worked off has told it; such commands are not modelled.          *)
List ==
    /\ parent.state = "retired"
    /\ parent' = [parent EXCEPT !.state = "handover"]
    /\ listed' = {m \in inbox : m.to = parent.holder}
    /\ UNCHANGED <<child, seq, woken, wake, retired>>
    /\ PumpsKept

(* A successor is launched, gets the commands that were listed, under their *)
(* keys, and becomes the holder.                                            *)
HandOver ==
    /\ parent.state = "handover"
    /\ parent' = [state |-> "live", holder |-> parent.holder + 1]
    /\ inbox' = inbox \union {[m EXCEPT !.to = parent.holder + 1] : m \in listed}
    /\ listed' = {}
    /\ UNCHANGED <<child, seq, woken, wake, retired, pump, faults>>

End ==
    /\ parent.state # "ended"
    /\ parent' = [parent EXCEPT !.state = "ended"]
    /\ retired' = retired \union {parent.holder}
    /\ listed' = {}
    /\ UNCHANGED <<child, seq, woken, wake>>
    /\ PumpsKept

-----------------------------------------------------------------------------
(* Delivery *)

RowsKept == UNCHANGED <<child, seq>> /\ ParentKept

Claimable ==
    {i \in WakeIds : wake[i].state = "pending" \/ (wake[i].state = "claimed" /\ ~wake[i].live)}

Claimed(p, rows) ==
    /\ pump[p].pc = "idle"
    /\ rows # {}
    /\ wake' = [i \in WakeIds |->
                  IF i \in rows
                  THEN [wake[i] EXCEPT !.state = "claimed", !.token = p, !.live = TRUE]
                  ELSE wake[i]]
    /\ pump' = [pump EXCEPT ![p] = [Idle EXCEPT !.pc = "next", !.todo = rows]]
    /\ UNCHANGED <<woken, inbox, faults>>
    /\ RowsKept

(* Faulty: a claim whose lease ran out is never claimed again. *)
ClaimPendingOnly(p) == Claimed(p, {i \in WakeIds : wake[i].state = "pending"})

(* claim(): everything pending, and every claim whose lease has run out. *)
Claim(p) == Claimed(p, Claimable)

(* The claim p is at still is p's. *)
Owns(p) == wake[pump[p].at].state = "claimed" /\ wake[pump[p].at].token = p

(* p is done with one claim, and goes on to the next or ends. *)
Done(p) == [Idle EXCEPT !.pc = IF pump[p].todo = {} THEN "idle" ELSE "next",
                        !.todo = pump[p].todo]

(* _deliver reads the manager's row, the ownership of its holder, and then  *)
(* the children it renders.                                                 *)
Check(p) == \E i \in pump[p].todo :
    /\ pump[p].pc = "next"
    /\ LET at == [pump[p] EXCEPT !.todo = @ \ {i}, !.at = i] IN
       pump' = [pump EXCEPT ![p] =
           IF parent.state = "ended" \/ parent.holder \in retired
           THEN [at EXCEPT !.pc = "resolve"]
           ELSE [at EXCEPT !.pc = "persist", !.session = parent.holder, !.body = 1 + seq]]
    /\ UNCHANGED <<woken, wake, inbox, faults>>
    /\ RowsKept

(* Faulty: a suppressed wake advances the watermark too. *)
ResolveAdvances(p) ==
    /\ pump[p].pc = "resolve"
    /\ pump' = [pump EXCEPT ![p] = Done(p)]
    /\ wake' = [wake EXCEPT ![pump[p].at] = [@ EXCEPT !.state = "resolved", !.token = None,
                                                       !.live = FALSE, !.payload = None]]
    /\ woken' = IF wake[pump[p].at].seq > woken THEN wake[pump[p].at].seq ELSE woken
    /\ UNCHANGED <<inbox, faults>>
    /\ RowsKept

(* _resolve; what a resolved row keeps is its reason. *)
Resolve(p) ==
    /\ pump[p].pc = "resolve"
    /\ pump' = [pump EXCEPT ![p] = Done(p)]
    /\ wake' = IF Owns(p) THEN [wake EXCEPT ![pump[p].at] = [NoWake EXCEPT !.state = "resolved"]]
                          ELSE wake
    /\ UNCHANGED <<woken, inbox, faults>>
    /\ RowsKept

Persisted(p, body) ==
    /\ pump[p].pc = "persist"
    /\ IF Owns(p)
       THEN /\ wake' = [wake EXCEPT ![pump[p].at].payload = body]
            /\ pump' = [pump EXCEPT ![p].pc = "send", ![p].body = body]
       ELSE /\ pump' = [pump EXCEPT ![p] = Done(p)]
            /\ UNCHANGED wake
    /\ UNCHANGED <<woken, inbox, faults>>
    /\ RowsKept

(* Faulty: the body last selected replaces the one that may have been sent. *)
PersistOverwrites(p) == Persisted(p, pump[p].body)

(* _persist_payload: the body selected first is the one every retry sends. *)
Persist(p) ==
    Persisted(p, IF pump[p].at # None /\ wake[pump[p].at].payload # None
                 THEN wake[pump[p].at].payload ELSE pump[p].body)

(* cdesktop enqueues one command per session and dedupe key. *)
Enqueued(p) ==
    IF \E m \in inbox : m.to = pump[p].session /\ m.wake = pump[p].at
    THEN inbox
    ELSE inbox \union {[to |-> pump[p].session, wake |-> pump[p].at, body |-> pump[p].body]}

Send(p) ==
    /\ pump[p].pc = "send"
    /\ inbox' = Enqueued(p)
    /\ pump' = [pump EXCEPT ![p].pc = "settle", ![p].session = 0, ![p].body = None]
    /\ UNCHANGED <<woken, wake, faults>>
    /\ RowsKept

(* The request fails, or its answer is lost; the claim is left to its lease. *)
SendFails(p) ==
    /\ pump[p].pc = "send" /\ faults < MaxFaults
    /\ faults' = faults + 1
    /\ inbox' \in {inbox, Enqueued(p)}
    /\ pump' = [pump EXCEPT ![p] = Done(p)]
    /\ UNCHANGED <<woken, wake>>
    /\ RowsKept

(* _settle: the row is delivered and the watermark reaches its event. *)
Settle(p) ==
    /\ pump[p].pc = "settle"
    /\ pump' = [pump EXCEPT ![p] = Done(p)]
    /\ IF Owns(p)
       THEN /\ wake' = [wake EXCEPT ![pump[p].at] =
                           [@ EXCEPT !.state = "delivered", !.token = None, !.live = FALSE,
                                     !.payload = None]]
            /\ woken' = IF wake[pump[p].at].seq > woken THEN wake[pump[p].at].seq ELSE woken
       ELSE UNCHANGED <<wake, woken>>
    /\ UNCHANGED <<inbox, faults>>
    /\ RowsKept

CrashPump(p) ==
    /\ pump[p].pc # "idle" /\ faults < MaxFaults
    /\ faults' = faults + 1
    /\ pump' = [pump EXCEPT ![p] = Idle]
    /\ UNCHANGED <<woken, wake, inbox>>
    /\ RowsKept

(* A pump still works on the claim, or will. *)
Worked(i) == \E p \in Pumps : wake[i].token = p /\ (pump[p].at = i \/ i \in pump[p].todo)

(* CLAIM_SECONDS pass.  Bound: outrunning a pump at work uses up a fault. *)
ClaimExpires(i) ==
    /\ wake[i].state = "claimed" /\ wake[i].live
    /\ Worked(i) => faults < MaxFaults
    /\ faults' = IF Worked(i) THEN faults + 1 ELSE faults
    /\ wake' = [wake EXCEPT ![i].live = FALSE]
    /\ UNCHANGED <<woken, pump, inbox>>
    /\ RowsKept

Step(p) == Check(p) \/ Resolve(p) \/ Persist(p) \/ Send(p) \/ Settle(p)

Next ==
    \/ \E c \in Children :
          \/ Spawn(c) \/ Expire(c) \/ Reopen(c)
          \/ \E state \in {"blocked", "finished", "lost"} : FinishWithWake(c, state)
    \/ Rearm
    \/ Retire \/ List \/ HandOver \/ End
    \/ \E p \in Pumps : Claim(p) \/ Step(p) \/ SendFails(p) \/ CrashPump(p)
    \/ \E i \in WakeIds : ClaimExpires(i)

Spec == Init /\ [][Next]_vars

(* The bridge ticks for ever and its pump runs every tick; a process that   *)
(* does not die goes on; time passes.  A handover is a command that runs to *)
(* its end.  Nothing obliges a child to finish or a manager to hand over.   *)
Fairness ==
    /\ WF_vars(Rearm)
    /\ SF_vars(Claim(Bridge))
    /\ \A p \in Pumps : WF_vars(Step(p))
    /\ \A i \in WakeIds : WF_vars(ClaimExpires(i) /\ ~Worked(i))
    /\ WF_vars(List \/ HandOver)

FairSpec == Spec /\ Fairness

-----------------------------------------------------------------------------
(* Properties *)

(* Wake rows, watermarks, inboxes and pumps are well formed. *)
TypeOK ==
    /\ child \in [Children -> ChildType]
    /\ seq \in 0..MaxEvents /\ woken \in 0..MaxEvents
    /\ parent \in ParentType
    /\ retired \subseteq 1..MaxHolder
    /\ inbox \subseteq Message /\ listed \subseteq inbox
    /\ wake \in [WakeIds -> WakeType]
    /\ pump \in [Pumps -> PumpType]
    /\ faults \in 0..MaxFaults

(* kernel-spec.md: only a successful delivery advances last_woken_seq.  When *)
(* the watermark says the manager has been woken for its first n events, a   *)
(* message whose view includes those n events has been queued for it.        *)
WatermarkTold ==
    woken > 0 => \E m \in inbox : m.body >= 1 + woken

(* wakes.py, _deliver: a retry, by whichever pump and to whichever session,  *)
(* never renders a later cohort into a different message of the same wake.   *)
FrozenPayload ==
    \A m, n \in inbox : m.wake = n.wake => m.body = n.body

(* kernel-spec.md: re-scanning an unchanged, already delivered cohort        *)
(* creates nothing: one event is not delivered twice for one predicate,      *)
(* however many pumps and finishes raced to arm and to settle it.            *)
NoDoubleTell ==
    \A i, j \in WakeIds :
        /\ i # j
        /\ wake[i].state = "delivered" /\ wake[j].state = "delivered"
        /\ wake[i].key = wake[j].key
        => wake[i].seq # wake[j].seq

(* A cohort event whose predicate goes on holding wakes the manager, across  *)
(* dead pumps, lost answers and handovers, as long as its task lives.        *)
CohortTold ==
    \A n \in 1..MaxEvents :
        (seq >= n /\ woken < n /\ parent.state # "ended")
        ~> (woken >= n \/ satisfied_predicates(child) = {} \/ parent.state = "ended")
=============================================================================
