------------------------ MODULE TaskLifecycleProofs ------------------------
(***************************************************************************)
(* Safety of the task row for any set of tasks, any budget and any number  *)
(* of epochs.                                                              *)
(*                                                                         *)
(* OneChargePerEpoch and UnmarkedReplacementHasHolder are inductive once   *)
(* the absent row is covered.  BudgetNeverOverdrawn is not: a human may    *)
(* charge an open replacement without the breaker being read, which stays  *)
(* within the budget only because the reroute that opened it left at least *)
(* one charge unspent.  RerouteLeavesBudget says that, and IInv is the     *)
(* conjunction.                                                            *)
(***************************************************************************)
EXTENDS TaskLifecycle, TLAPS

(* A replacement opened by a reroute still has a charge to spend. *)
RerouteLeavesBudget ==
    \A t \in Tasks :
        row[t].state = "replacing" /\ row[t].recovery => BudgetLeft(row[t])

(* A task that was never reserved is at its first epoch, uncharged. *)
AbsentUncharged ==
    \A t \in Tasks :
        row[t].state = "absent" => row[t].epoch = 1 /\ row[t].attempts = 0

IInv == /\ TypeOK
        /\ OneChargePerEpoch
        /\ AbsentUncharged
        /\ BudgetNeverOverdrawn
        /\ RerouteLeavesBudget
        /\ UnmarkedReplacementHasHolder

-----------------------------------------------------------------------------
(* The same facts of a single row. *)

RowInv(r) ==
    /\ r \in Row
    /\ r.attempts <= r.epoch
    /\ r.state \in {"reserved", "active", "replacing"}
         => r.attempts < r.epoch
    /\ r.state = "absent" => r.epoch = 1 /\ r.attempts = 0
    /\ r.attempts <= MaxAttempts
    /\ r.state = "replacing" /\ r.recovery => BudgetLeft(r)
    /\ r.state = "replacing" /\ ~r.recovery => r.holder # NoHolder

(* IInv is a fact of each row by itself. *)
LEMMA IInvByRow ==
    IInv <=> row = [t \in Tasks |-> row[t]] /\ \A t \in Tasks : RowInv(row[t])
<1>1. ASSUME IInv
      PROVE  row = [t \in Tasks |-> row[t]] /\ \A t \in Tasks : RowInv(row[t])
  BY <1>1 DEF IInv, TypeOK, OneChargePerEpoch, AbsentUncharged,
       BudgetNeverOverdrawn, RerouteLeavesBudget,
       UnmarkedReplacementHasHolder, RowInv
<1>2. ASSUME row = [t \in Tasks |-> row[t]], \A t \in Tasks : RowInv(row[t])
      PROVE  IInv
  BY <1>2 DEF IInv, TypeOK, OneChargePerEpoch, AbsentUncharged,
       BudgetNeverOverdrawn, RerouteLeavesBudget,
       UnmarkedReplacementHasHolder, RowInv
<1>3. QED  BY <1>1, <1>2

(* A charged failure of a working row within its budget keeps RowInv. *)
LEMMA ChargedFailureInv ==
    ASSUME NEW r \in Row, RowInv(r), BudgetLeft(r),
           r.state \in {"reserved", "active", "replacing"},
           NEW s \in {"blocked", "lost", "exhausted"}, NEW e \in BOOLEAN
    PROVE  RowInv(ChargedFailure(r, s, e))
<1> DEFINE n == ChargedFailure(r, s, e)
<1>1. /\ n.state \in {"blocked", "lost", "exhausted"}
      /\ n.epoch = r.epoch
      /\ n.attempts = r.attempts + 1
  BY DEF Row, ChargedFailure
<1>2. n \in Row
  <2>1. (IF LastFailure(r) THEN "exhausted" ELSE s) \in RowStates
    BY DEF RowStates, LiveStates, TerminalStates, FinalStates
  <2>2. (e /\ ~LastFailure(r)) \in BOOLEAN
    OBVIOUS
  <2>3. r.attempts + 1 \in Nat
    BY DEF Row
  <2>4. QED  BY <2>1, <2>2, <2>3 DEF Row, ChargedFailure
<1>3. r.attempts < r.epoch /\ r.attempts < MaxAttempts
  BY DEF RowInv, BudgetLeft
<1> HIDE DEF n
<1>4. RowInv(n)
  BY <1>1, <1>2, <1>3, TaskLifecycleAssumption DEF RowInv, Row
<1>5. QED  BY <1>4 DEF n

(* So does an activation by a session of any epoch, *)
LEMMA ActivatedInv ==
    ASSUME NEW r \in Row, RowInv(r), r.attempts < r.epoch,
           NEW h \in 1..MaxEpoch
    PROVE  RowInv(Activated(r, h))
<1> DEFINE n == Activated(r, h)
<1>1. n \in Row
  <2>1. "active" \in RowStates
    BY DEF RowStates, LiveStates
  <2>2. h \in 0..MaxEpoch
    BY TaskLifecycleAssumption
  <2>3. QED  BY <2>1, <2>2 DEF Row, Activated
<1>2. n.state = "active" /\ n.epoch = r.epoch /\ n.attempts = r.attempts
  BY DEF Row, Activated
<1>3. QED  BY <1>1, <1>2 DEF RowInv

(* an uncharged finish, *)
LEMMA SettledInv ==
    ASSUME NEW r \in Row, RowInv(r),
           NEW s \in {"completed", "cancelled", "blocked"}
    PROVE  RowInv(Settled(r, s))
  BY DEF RowInv, Row, RowStates, LiveStates, TerminalStates, FinalStates, Settled

(* and a new epoch, if what it charges is still to be had. *)
LEMMA NextEpochInv ==
    ASSUME NEW r \in Row, RowInv(r), CanOpenEpoch(r),
           NEW charge \in BOOLEAN, NEW recovery \in BOOLEAN,
           charge => r.attempts < r.epoch /\ r.attempts + 1 <= MaxAttempts,
           recovery => IF charge THEN ~LastFailure(r) ELSE BudgetLeft(r),
           ~recovery => r.holder # NoHolder
    PROVE  RowInv(NextEpoch(r, charge, recovery))
<1> DEFINE n == NextEpoch(r, charge, recovery)
<1>1. /\ n.state = "replacing" /\ n.epoch = r.epoch + 1
      /\ n.attempts = IF charge THEN r.attempts + 1 ELSE r.attempts
      /\ n.recovery = recovery /\ n.holder = r.holder /\ n.expired = r.expired
  BY DEF Row, NextEpoch
<1>2. n \in Row
  <2>1. (IF charge THEN r.attempts + 1 ELSE r.attempts) \in Nat
    BY DEF Row
  <2>2. r.epoch + 1 \in 1..MaxEpoch
    BY TaskLifecycleAssumption DEF Row, CanOpenEpoch
  <2>3. "replacing" \in RowStates
    BY DEF RowStates, LiveStates
  <2>4. QED  BY <2>1, <2>2, <2>3 DEF Row, NextEpoch
<1> HIDE DEF n
<1>3. n.attempts < n.epoch /\ n.attempts <= MaxAttempts
  <2>1. CASE charge
    BY <2>1, <1>1, TaskLifecycleAssumption DEF Row
  <2>2. CASE ~charge
    BY <2>2, <1>1, TaskLifecycleAssumption DEF Row, RowInv
  <2>3. QED  BY <2>1, <2>2
<1>4. recovery => BudgetLeft(n)
  <2>1. CASE charge
    BY <2>1, <1>1, TaskLifecycleAssumption DEF Row, LastFailure, BudgetLeft
  <2>2. CASE ~charge
    BY <2>2, <1>1 DEF BudgetLeft
  <2>3. QED  BY <2>1, <2>2
<1>5. RowInv(n)
  BY <1>1, <1>2, <1>3, <1>4 DEF RowInv, Row
<1>6. QED  BY <1>5 DEF n

(* Every action of a task replaces its row, and only its row, by a good one. *)
LEMMA RowStep ==
    ASSUME NEW t \in Tasks, RowInv(row[t]), row = [u \in Tasks |-> row[u]],
           TaskNext(t)
    PROVE  \E r : row' = [row EXCEPT ![t] = r] /\ RowInv(r)
<1> DEFINE Good(r) == row' = [row EXCEPT ![t] = r] /\ RowInv(r)
<1> USE TaskLifecycleAssumption
<1>0. row[t] \in Row  BY DEF RowInv
<1>1. CASE Reserve(t)
  <2>1. RowInv(FirstEpoch("reserved"))
    BY DEF FirstEpoch, NoHolder, RowInv, Row, RowStates, LiveStates
  <2>2. QED  BY <2>1, <1>1 DEF Reserve
<1>2. ASSUME NEW h \in 1..MaxEpoch, Activate(t, h)  PROVE \E r : Good(r)
  <2>1. RowInv(Activated(row[t], h))
    <3>1. row[t].attempts < row[t].epoch
      BY <1>2 DEF Activate, ActivatePredecessors, RowInv
    <3>2. QED  BY <3>1, <1>0, ActivatedInv
  <2>2. QED  BY <2>1, <1>2 DEF Activate
<1>3. CASE Complete(t)
  <2>1. RowInv(Settled(row[t], "completed"))  BY <1>0, SettledInv
  <2>2. QED  BY <2>1, <1>3 DEF Complete
<1>4. CASE Cancel(t)
  <2>1. RowInv(Settled(row[t], "cancelled"))  BY <1>0, SettledInv
  <2>2. QED  BY <2>1, <1>4 DEF Cancel
<1>5. CASE Block(t)
  <2>1. RowInv(Settled(row[t], "blocked"))  BY <1>0, SettledInv
  <2>2. QED  BY <2>1, <1>5 DEF Block
<1>6. CASE BlockOnFailure(t)
  <2>1. RowInv(ChargedFailure(row[t], "blocked", FALSE))
    BY <1>6, <1>0, ChargedFailureInv DEF BlockOnFailure, BlockPredecessors
  <2>2. QED  BY <2>1, <1>6 DEF BlockOnFailure
<1>7. ASSUME NEW e \in BOOLEAN, Lose(t, e)  PROVE \E r : Good(r)
  <2>1. RowInv(ChargedFailure(row[t], "lost", e))
    BY <1>7, <1>0, ChargedFailureInv DEF Lose, LosePredecessors
  <2>2. QED  BY <2>1, <1>7 DEF Lose
<1>8. CASE Exhaust(t)
  <2>1. RowInv(ChargedFailure(row[t], "exhausted", FALSE))
    BY <1>8, <1>0, ChargedFailureInv DEF Exhaust
  <2>2. QED  BY <2>1, <1>8 DEF Exhaust
<1>9. CASE AdvancePastOutcome(t)
  <2> DEFINE charge == row[t].state = "active"
  <2>1. charge \in BOOLEAN
    OBVIOUS
  <2>2. /\ charge => row[t].attempts < row[t].epoch
                      /\ row[t].attempts + 1 <= MaxAttempts
        /\ IF charge THEN ~LastFailure(row[t]) ELSE BudgetLeft(row[t])
    BY <1>9, <1>0 DEF AdvancePastOutcome, LastFailure, BudgetLeft, RowInv, Row
  <2>3. RowInv(NextEpoch(row[t], charge, TRUE))
    BY <2>1, <2>2, <1>9, <1>0, NextEpochInv DEF AdvancePastOutcome
  <2>4. QED  BY <2>3, <1>9 DEF AdvancePastOutcome
<1>10. CASE Replace(t)
  <2>1. RowInv(NextEpoch(row[t], FALSE, FALSE))
    BY <1>10, <1>0, NextEpochInv DEF Replace
  <2>2. QED  BY <2>1, <1>10 DEF Replace
<1>11. CASE ResumeReplacement(t)
  <2>1. CASE row[t].recovery
    <3>1. row[t].attempts < row[t].epoch /\ row[t].attempts + 1 <= MaxAttempts
      BY <2>1, <1>11, <1>0 DEF ResumeReplacement, RowInv, Row, BudgetLeft
    <3>2. RowInv(NextEpoch(row[t], TRUE, FALSE))
      BY <3>1, <2>1, <1>11, <1>0, NextEpochInv DEF ResumeReplacement
    <3>3. QED  BY <3>2, <2>1, <1>11 DEF ResumeReplacement
  <2>2. CASE ~row[t].recovery
    BY <2>2, <1>11 DEF ResumeReplacement
  <2>3. QED  BY <2>1, <2>2
<1>12. CASE ReissueExpired(t)
  <2>1. RowInv(ReservedAnew(row[t]))
    BY <1>12, <1>0
    DEF ReissueExpired, CanOpenEpoch, ReservedAnew, NoHolder, BudgetLeft,
        RowInv, Row, RowStates, LiveStates
  <2>2. QED  BY <2>1, <1>12 DEF ReissueExpired
<1>13. QED
  BY <1>1, <1>2, <1>3, <1>4, <1>5, <1>6, <1>7, <1>8, <1>9, <1>10, <1>11, <1>12
  DEF TaskNext

-----------------------------------------------------------------------------
(* What a step may do to a row. *)

RowMove(r, n) ==
    /\ r.state \in FinalStates => n = r
    /\ r.state = "lost" /\ n.state # "lost" => n.epoch > r.epoch
    /\ n.attempts \in {r.attempts, r.attempts + 1}
    /\ n.epoch \in {r.epoch, r.epoch + 1}
    /\ r.epoch < n.epoch => n.state \in {"replacing", "reserved"}

(* A row at work may fail, and one that is not final may open an epoch. *)
LEMMA FailureMove ==
    ASSUME NEW r \in Row, r.state \in {"reserved", "active", "replacing"},
           NEW s, NEW e
    PROVE  RowMove(r, ChargedFailure(r, s, e))
  BY DEF RowMove, ChargedFailure, Row, FinalStates

(* A new epoch is opened by a charge of one at most. *)
LEMMA NextEpochMove ==
    ASSUME NEW r \in Row, r.state \in {"active", "blocked", "replacing", "lost"},
           NEW charge \in BOOLEAN, NEW recovery
    PROVE  RowMove(r, NextEpoch(r, charge, recovery))
  BY DEF RowMove, NextEpoch, Row, FinalStates

(* A live row may be settled. *)
LEMMA SettledMove ==
    ASSUME NEW r \in Row, r.state \in LiveStates, NEW s
    PROVE  RowMove(r, Settled(r, s))
  BY DEF RowMove, Settled, Row, FinalStates, LiveStates

(* Every action of a task makes such a move. *)
LEMMA RowMoves ==
    ASSUME NEW t \in Tasks, RowInv(row[t]), row = [u \in Tasks |-> row[u]],
           TaskNext(t)
    PROVE  \E n : row' = [row EXCEPT ![t] = n] /\ RowMove(row[t], n)
<1> DEFINE Good(n) == row' = [row EXCEPT ![t] = n] /\ RowMove(row[t], n)
<1>0. row[t] \in Row  BY DEF RowInv
<1>1. CASE Reserve(t)
  <2>1. RowMove(row[t], FirstEpoch("reserved"))
    BY <1>1 DEF Reserve, FirstEpoch, RowMove, RowInv, FinalStates
  <2>2. QED  BY <2>1, <1>1 DEF Reserve
<1>2. ASSUME NEW h \in 1..MaxEpoch, Activate(t, h)  PROVE \E n : Good(n)
  <2>1. RowMove(row[t], Activated(row[t], h))
    BY <1>2, <1>0 DEF Activate, ActivatePredecessors, Activated, RowMove, Row, FinalStates
  <2>2. QED  BY <2>1, <1>2 DEF Activate
<1>3. CASE Complete(t)
  <2>1. RowMove(row[t], Settled(row[t], "completed"))
    BY <1>3, <1>0, SettledMove DEF Complete, CompletePredecessors, LiveStates
  <2>2. QED  BY <2>1, <1>3 DEF Complete
<1>4. CASE Cancel(t)
  <2>1. RowMove(row[t], Settled(row[t], "cancelled"))
    BY <1>4, <1>0, SettledMove DEF Cancel, CancelPredecessors
  <2>2. QED  BY <2>1, <1>4 DEF Cancel
<1>5. CASE Block(t)
  <2>1. RowMove(row[t], Settled(row[t], "blocked"))
    BY <1>5, <1>0, SettledMove DEF Block, BlockPredecessors, LiveStates
  <2>2. QED  BY <2>1, <1>5 DEF Block
<1>6. CASE BlockOnFailure(t)
  <2>1. RowMove(row[t], ChargedFailure(row[t], "blocked", FALSE))
    BY <1>6, <1>0, FailureMove DEF BlockOnFailure, BlockPredecessors
  <2>2. QED  BY <2>1, <1>6 DEF BlockOnFailure
<1>7. ASSUME NEW e \in BOOLEAN, Lose(t, e)  PROVE \E n : Good(n)
  <2>1. RowMove(row[t], ChargedFailure(row[t], "lost", e))
    BY <1>7, <1>0, FailureMove DEF Lose, LosePredecessors
  <2>2. QED  BY <2>1, <1>7 DEF Lose
<1>8. CASE Exhaust(t)
  <2>1. RowMove(row[t], ChargedFailure(row[t], "exhausted", FALSE))
    BY <1>8, <1>0, FailureMove DEF Exhaust
  <2>2. QED  BY <2>1, <1>8 DEF Exhaust
<1>9. CASE AdvancePastOutcome(t)
  <2> DEFINE charge == row[t].state = "active"
  <2>1. charge \in BOOLEAN
    OBVIOUS
  <2>2. RowMove(row[t], NextEpoch(row[t], charge, TRUE))
    BY <2>1, <1>9, <1>0, NextEpochMove DEF AdvancePastOutcome
  <2>3. QED  BY <2>2, <1>9 DEF AdvancePastOutcome
<1>10. CASE Replace(t)
  <2>1. RowMove(row[t], NextEpoch(row[t], FALSE, FALSE))
    BY <1>10, <1>0, NextEpochMove DEF Replace, ReplacePredecessors
  <2>2. QED  BY <2>1, <1>10 DEF Replace
<1>11. CASE ResumeReplacement(t)
  <2>1. CASE row[t].recovery
    <3>1. RowMove(row[t], NextEpoch(row[t], TRUE, FALSE))
      BY <1>11, <1>0, NextEpochMove DEF ResumeReplacement
    <3>2. QED  BY <3>1, <2>1, <1>11 DEF ResumeReplacement
  <2>2. CASE ~row[t].recovery
    <3>1. RowMove(row[t], row[t])
      BY <1>0 DEF RowMove, Row
    <3>2. row' = [row EXCEPT ![t] = row[t]]
      BY <2>2, <1>11 DEF ResumeReplacement
    <3>3. QED  BY <3>1, <3>2
  <2>3. QED  BY <2>1, <2>2
<1>12. CASE ReissueExpired(t)
  <2>1. RowMove(row[t], ReservedAnew(row[t]))
    BY <1>12, <1>0 DEF ReissueExpired, ReservedAnew, RowMove, Row, FinalStates
  <2>2. QED  BY <2>1, <1>12 DEF ReissueExpired
<1>13. QED
  BY <1>1, <1>2, <1>3, <1>4, <1>5, <1>6, <1>7, <1>8, <1>9, <1>10, <1>11, <1>12
  DEF TaskNext

(* ... and so what a step may do to the rows. *)
LEMMA StepMoves ==
    ASSUME IInv, [Next]_vars
    PROVE  \A t \in Tasks : RowMove(row[t], row'[t])
<1>1. row = [t \in Tasks |-> row[t]] /\ \A t \in Tasks : RowInv(row[t])
  BY IInvByRow
<1>2. \A t \in Tasks : RowMove(row[t], row[t])
  BY <1>1 DEF RowMove, RowInv, Row
<1>3. CASE UNCHANGED vars
  BY <1>3, <1>2 DEF vars
<1>4. ASSUME NEW t \in Tasks, TaskNext(t)
      PROVE  \A u \in Tasks : RowMove(row[u], row'[u])
  <2>1. PICK n : row' = [row EXCEPT ![t] = n] /\ RowMove(row[t], n)
    BY <1>4, <1>1, RowMoves
  <2>2. \A u \in Tasks : row'[u] = IF u = t THEN n ELSE row[u]
    BY <2>1, <1>1
  <2>3. QED  BY <2>1, <2>2, <1>2
<1>5. QED  BY <1>3, <1>4 DEF Next

-----------------------------------------------------------------------------

(* The facts above hold in every reachable state, whatever the order of    *)
(* launches, failures, reroutes, replacements and retries.                  *)
THEOREM IInvInvariant == Spec => []IInv
<1>1. Init => IInv
  BY TaskLifecycleAssumption
  DEF Init, IInv, TypeOK, OneChargePerEpoch, AbsentUncharged,
      BudgetNeverOverdrawn, RerouteLeavesBudget, UnmarkedReplacementHasHolder,
      FirstEpoch, NoHolder, Row, RowStates, LiveStates
<1>2. IInv /\ [Next]_vars => IInv'
  <2> SUFFICES ASSUME IInv, [Next]_vars  PROVE IInv'
    OBVIOUS
  <2>1. row = [t \in Tasks |-> row[t]] /\ \A t \in Tasks : RowInv(row[t])
    BY IInvByRow
  <2>2. row' = [t \in Tasks |-> row'[t]] /\ \A t \in Tasks : RowInv(row'[t])
    <3>1. CASE UNCHANGED vars
      BY <3>1, <2>1 DEF vars
    <3>2. ASSUME NEW t \in Tasks, TaskNext(t)
          PROVE  row' = [u \in Tasks |-> row'[u]] /\ \A u \in Tasks : RowInv(row'[u])
      <4>1. PICK r : row' = [row EXCEPT ![t] = r] /\ RowInv(r)
        BY <3>2, <2>1, RowStep
      <4>2. row' = [u \in Tasks |-> IF u = t THEN r ELSE row[u]]
        BY <4>1, <2>1
      <4>3. QED  BY <4>1, <4>2, <2>1
    <3>3. QED  BY <3>1, <3>2 DEF Next
  <2>3. QED
    BY <2>2 DEF IInv, TypeOK, OneChargePerEpoch, AbsentUncharged,
         BudgetNeverOverdrawn, RerouteLeavesBudget,
         UnmarkedReplacementHasHolder, RowInv, BudgetLeft
<1>3. QED  BY <1>1, <1>2, PTL DEF Spec

(* Every row the actions of the store can produce is well formed. *)
THEOREM TypeCorrect == Spec => []TypeOK
<1>1. IInv => TypeOK  BY DEF IInv
<1>2. QED  BY <1>1, IInvInvariant, PTL

(* No interleaving of launcher, sweeps, reroutes and humans charges one     *)
(* epoch twice.                                                             *)
THEOREM ChargedOncePerEpoch == Spec => []OneChargePerEpoch
<1>1. IInv => OneChargePerEpoch  BY DEF IInv
<1>2. QED  BY <1>1, IInvInvariant, PTL

(* The failure budget is never overdrawn. *)
THEOREM BudgetBounded == Spec => []BudgetNeverOverdrawn
<1>1. IInv => BudgetNeverOverdrawn  BY DEF IInv
<1>2. QED  BY <1>1, IInvInvariant, PTL

(* A replacement the sweep will not fill always has a session behind it. *)
THEOREM ManualReplacementHasHolder == Spec => []UnmarkedReplacementHasHolder
<1>1. IInv => UnmarkedReplacementHasHolder  BY DEF IInv
<1>2. QED  BY <1>1, IInvInvariant, PTL

(* The first legal terminal transition wins, and a lost task comes back only *)
(* in a later epoch.                                                         *)
THEOREM TerminalStays == Spec => TerminalIsFinal
<1>1. IInv /\ [Next]_vars
        => [ \A t \in Tasks :
               /\ row[t].state \in FinalStates => row'[t] = row[t]
               /\ row[t].state = "lost" /\ row'[t].state # "lost"
                    => row'[t].epoch > row[t].epoch ]_vars
  BY StepMoves DEF RowMove
<1>2. QED  BY <1>1, IInvInvariant, PTL DEF Spec, TerminalIsFinal

(* Charges and epochs only grow, one at a time. *)
THEOREM AccountingGrows == Spec => AccountingMonotone
<1>1. IInv /\ [Next]_vars
        => [ \A t \in Tasks :
               /\ row'[t].attempts \in {row[t].attempts, row[t].attempts + 1}
               /\ row'[t].epoch \in {row[t].epoch, row[t].epoch + 1}
               /\ row[t].epoch < row'[t].epoch
                    => row'[t].state \in {"replacing", "reserved"} ]_vars
  BY StepMoves DEF RowMove
<1>2. QED  BY <1>1, IInvInvariant, PTL DEF Spec, AccountingMonotone
=============================================================================
