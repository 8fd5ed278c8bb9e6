--------------------------- MODULE TaskLifecycle ---------------------------
(***************************************************************************)
(* The life of a managed task as the durable row records it                *)
(* (task_store.py, and the guards sdk.py puts in front of it).             *)
(*                                                                         *)
(* Every action is one committed transaction on one row of managed_tasks.  *)
(* Who runs it, and what may happen between two transactions of the same   *)
(* caller, is the subject of Launch, which implements this module.         *)
(*                                                                         *)
(* A session is named by the epoch it was launched for, so the holder of a *)
(* row is an epoch, and NoHolder stands for holder_session_id NULL.        *)
(* workspace_id is written and cleared together with the holder and is not *)
(* kept apart.                                                             *)
(***************************************************************************)
EXTENDS Naturals

CONSTANTS Tasks,        \* the task identities (scope, key)
          MaxAttempts,  \* the row's max_attempts: the failure budget
          MaxEpoch      \* bound on the epochs explored, not part of the code

ASSUME TaskLifecycleAssumption ==
    /\ MaxAttempts \in Nat \ {0}    \* CHECK (max_attempts > 0)
    /\ MaxEpoch \in Nat \ {0}

VARIABLE row    \* row[t]: the projection of t's row in managed_tasks

vars == <<row>>

LiveStates     == {"reserved", "active", "replacing", "blocked"}
FinalStates    == {"completed", "cancelled", "exhausted"}
TerminalStates == FinalStates \union {"lost"}
RowStates      == LiveStates \union TerminalStates \union {"absent"}

NoHolder == 0

Row == [ state    : RowStates,
         epoch    : 1..MaxEpoch,
         attempts : Nat,
         holder   : 0..MaxEpoch,
         recovery : BOOLEAN,    \* spec.target.recovery is set: opened by a reroute
         expired  : BOOLEAN ]   \* result = "reservation expired"

(* A row at its first epoch; "absent" before it is inserted. *)
FirstEpoch(state) == [ state    |-> state,
                       epoch    |-> 1,
                       attempts |-> 0,
                       holder   |-> NoHolder,
                       recovery |-> FALSE,
                       expired  |-> FALSE ]

-----------------------------------------------------------------------------
(* The predecessor sets of the guarded UPDATEs. *)

(* Faulty: a late completion of a task that was declared lost wins. *)
CompletesLost == {"active", "replacing", "blocked", "lost"}

CompletePredecessors == {"active", "replacing", "blocked"}
BlockPredecessors    == {"reserved", "active", "replacing"}
CancelPredecessors   == LiveStates
LosePredecessors     == {"reserved", "active", "replacing"}
ActivatePredecessors == {"reserved", "active", "replacing"}
ReplacePredecessors  == {"active", "blocked", "lost"}

(* Faulty: off by one. *)
BudgetLeftInclusive(r) == r.attempts <= MaxAttempts

(* attempts < max_attempts: the circuit breaker has not tripped. *)
BudgetLeft(r) == r.attempts < MaxAttempts

(* The failure being charged is the last one the budget pays for. *)
LastFailure(r) == r.attempts + 1 >= MaxAttempts

(* activate(): the given session becomes the holder. *)
Activated(r, h) == [r EXCEPT !.state = "active", !.holder = h]

(* An uncharged finish writes the state and a result. *)
Settled(r, state) == [r EXCEPT !.state = state, !.expired = FALSE]

(* A transition that charges one failed epoch: the last affordable failure *)
(* is exposed as "exhausted" whatever the caller asked for.                *)
ChargedFailure(r, state, expired) ==
    [r EXCEPT !.state    = IF LastFailure(r) THEN "exhausted" ELSE state,
              !.attempts = r.attempts + 1,
              !.expired  = expired /\ ~LastFailure(r)]

(* Faulty: every replacement counts the epoch it leaves as failed. *)
NextEpochCharged(r, charge, recovery) ==
    [r EXCEPT !.state    = "replacing",
              !.epoch    = r.epoch + 1,
              !.attempts = r.attempts + 1,
              !.recovery = recovery]

(* Faulty: the row's epoch is bumped twice for one replacement. *)
NextEpochTwice(r, charge, recovery) ==
    [r EXCEPT !.state = "replacing", !.epoch = r.epoch + 2, !.recovery = recovery]

(* A replacement opens the next epoch; charge tells whether the epoch it   *)
(* leaves counts as failed, recovery whether a reroute opened it.          *)
NextEpoch(r, charge, recovery) ==
    [r EXCEPT !.state    = "replacing",
              !.epoch    = r.epoch + 1,
              !.attempts = IF charge THEN r.attempts + 1 ELSE r.attempts,
              !.recovery = recovery]

(* A retried reservation keeps nothing of the lost epoch but its charges. *)
ReservedAnew(r) ==
    [ state    |-> "reserved",
      epoch    |-> r.epoch + 1,
      attempts |-> r.attempts,
      holder   |-> NoHolder,
      recovery |-> FALSE,
      expired  |-> FALSE ]

CanOpenEpoch(r) == r.epoch < MaxEpoch

-----------------------------------------------------------------------------

Init == row = [t \in Tasks |-> FirstEpoch("absent")]

(* reserve_all inserts the row at its first epoch. *)
Reserve(t) ==
    /\ row[t].state = "absent"
    /\ row' = [row EXCEPT ![t] = FirstEpoch("reserved")]

(* A launched session becomes the holder.  activate() carries neither an   *)
(* epoch nor a version, so h is whatever epoch's session the caller has.   *)
Activate(t, h) ==
    /\ row[t].state \in ActivatePredecessors
    /\ h \in 1..row[t].epoch
    /\ row' = [row EXCEPT ![t] = Activated(row[t], h)]

Complete(t) ==
    /\ row[t].state \in CompletePredecessors
    /\ row' = [row EXCEPT ![t] = Settled(row[t], "completed")]

Cancel(t) ==
    /\ row[t].state \in CancelPredecessors
    /\ row' = [row EXCEPT ![t] = Settled(row[t], "cancelled")]

(* The worker (or its manager) declares itself blocked; nothing is charged. *)
Block(t) ==
    /\ row[t].state \in BlockPredecessors
    /\ row' = [row EXCEPT ![t] = Settled(row[t], "blocked")]

(* A rejected launch, a failed process or an unroutable outcome blocks the *)
(* task and charges the epoch in the same UPDATE.                          *)
BlockOnFailure(t) ==
    /\ row[t].state \in BlockPredecessors
    /\ BudgetLeft(row[t])
    /\ row' = [row EXCEPT ![t] = ChargedFailure(row[t], "blocked", FALSE)]

(* The session, or the reservation of one, is gone. *)
Lose(t, expired) ==
    /\ row[t].state \in LosePredecessors
    /\ BudgetLeft(row[t])
    /\ row' = [row EXCEPT ![t] = ChargedFailure(row[t], "lost", expired)]

(* A typed provider outcome ends an active epoch the budget cannot replace. *)
Exhaust(t) ==
    /\ row[t].state = "active"
    /\ BudgetLeft(row[t]) /\ LastFailure(row[t])
    /\ row' = [row EXCEPT ![t] = ChargedFailure(row[t], "exhausted", FALSE)]

(* The same outcome, with budget left: reroute the task to its next epoch.  *)
(* A blocked epoch was charged when it was blocked and is not charged again. *)
AdvancePastOutcome(t) ==
    /\ row[t].state \in {"active", "blocked"}
    /\ BudgetLeft(row[t])
    /\ row[t].state = "active" => ~LastFailure(row[t])
    /\ CanOpenEpoch(row[t])
    /\ row' = [row EXCEPT ![t] =
                  NextEpoch(row[t], row[t].state = "active", TRUE)]

(* A human replaces the worker that holds (or held) the task. *)
Replace(t) ==
    /\ row[t].state \in ReplacePredecessors
    /\ row[t].holder # NoHolder
    /\ BudgetLeft(row[t])
    /\ CanOpenEpoch(row[t])
    /\ row' = [row EXCEPT ![t] = NextEpoch(row[t], FALSE, FALSE)]

(* A human replaces a worker whose replacement is open and unfilled: the    *)
(* epoch a reroute opened is abandoned and charged, without a look at the   *)
(* breaker; one a human opened is simply taken up again.                    *)
ResumeReplacement(t) ==
    /\ row[t].state = "replacing"
    /\ row[t].holder # NoHolder
    /\ IF row[t].recovery
         THEN /\ CanOpenEpoch(row[t])
              /\ row' = [row EXCEPT ![t] = NextEpoch(row[t], TRUE, FALSE)]
         ELSE row' = row

(* start() of a task whose reservation expired opens a fresh epoch. *)
ReissueExpired(t) ==
    /\ row[t].state = "lost" /\ row[t].expired
    /\ BudgetLeft(row[t])
    /\ CanOpenEpoch(row[t])
    /\ row' = [row EXCEPT ![t] = ReservedAnew(row[t])]

TaskNext(t) ==
    \/ Reserve(t)
    \/ \E h \in 1..MaxEpoch : Activate(t, h)
    \/ Complete(t)
    \/ Cancel(t)
    \/ Block(t)
    \/ BlockOnFailure(t)
    \/ \E expired \in BOOLEAN : Lose(t, expired)
    \/ Exhaust(t)
    \/ AdvancePastOutcome(t)
    \/ Replace(t)
    \/ ResumeReplacement(t)
    \/ ReissueExpired(t)

Next == \E t \in Tasks : TaskNext(t)

Spec == Init /\ [][Next]_vars

-----------------------------------------------------------------------------

(* Every row is well formed, and only an existing task holds anything. *)
TypeOK == row \in [Tasks -> Row]

(* failure-accounting.md: attempts counts failed epochs.  An epoch is       *)
(* charged at most once, whichever of the launcher, the loss sweep, the     *)
(* reroute and the human abandons it, so a task that is still working at    *)
(* epoch e has charged only earlier epochs.                                 *)
OneChargePerEpoch ==
    \A t \in Tasks :
        /\ row[t].attempts <= row[t].epoch
        /\ row[t].state \in {"reserved", "active", "replacing"}
             => row[t].attempts < row[t].epoch

(* The breaker bounds the charges: no path charges past the budget, though  *)
(* ResumeReplacement and Exhaust do not go through the check that           *)
(* prepare_replacement and _record_failure make.                            *)
BudgetNeverOverdrawn ==
    \A t \in Tasks : row[t].attempts <= MaxAttempts

(* A replacement only a human can fill always has a predecessor session to  *)
(* transfer from: the sweep ignores replacements without the recovery       *)
(* marker, so one without a holder could be filled by nobody.               *)
UnmarkedReplacementHasHolder ==
    \A t \in Tasks :
        row[t].state = "replacing" /\ ~row[t].recovery
            => row[t].holder # NoHolder

(* kernel-contract.md: terminal transitions are monotone, the first legal   *)
(* one wins.  A lost task alone may come back, and only in a later epoch.   *)
TerminalIsFinal ==
    [][ \A t \in Tasks :
          /\ row[t].state \in FinalStates => row'[t] = row[t]
          /\ row[t].state = "lost" /\ row'[t].state # "lost"
               => row'[t].epoch > row[t].epoch ]_vars

(* A failure charge never disappears, and an epoch never reopens. *)
AccountingMonotone ==
    [][ \A t \in Tasks :
          /\ row'[t].attempts \in {row[t].attempts, row[t].attempts + 1}
          /\ row'[t].epoch \in {row[t].epoch, row[t].epoch + 1}
          /\ row[t].epoch < row'[t].epoch
               => row'[t].state \in {"replacing", "reserved"} ]_vars
=============================================================================
