------------------------------ MODULE Detector ------------------------------
(***************************************************************************)
(* The liveness detector: one capped pass of the reconciler (durable.py)   *)
(* reads what the executor says of each active task, classifies it         *)
(* (liveness.py), records the finding on the task row (task_store.py) and  *)
(* arms the manager's wakes (wakes.py), or tells a human.                  *)
(*                                                                         *)
(* A pass takes the rows of its slice at once and then goes from task to   *)
(* task.  For each it reads evidence of the session the row named, writes  *)
(* the finding in one transaction, reads the row again and acts on it, and *)
(* where it must end the task it first waits for the task's fence.  What   *)
(* happens in between happens to a row the pass still believes in.         *)
(*                                                                         *)
(* Time is the age of things: of a session's last activity, of a stretch,  *)
(* of a reservation, each counted up to the progress timeout, which is the *)
(* approval timeout too.  A unit is longer than a pass takes without its   *)
(* waits.  A budget is one of turns.  Output byte counters, which no       *)
(* process row carries, and malformed policies are left out.               *)
(***************************************************************************)
EXTENDS Integers, FiniteSets

CONSTANTS
  Tasks,
  Rank,         \* [Tasks -> Nat]: the order of their task_ids
  Parent,       \* [Tasks -> Tasks \cup {None}]
  PerPass,      \* tasks_per_pass
  Grace,        \* IDLE_UNREPORTED_GRACE
  Timeout,      \* progress_timeout
  Ceiling,      \* [Tasks -> max_turns of its budget]; 0 is no budget
  Flaky,        \* whether the snapshot that carries the markers may go unread
  MaxEpoch,     \* bound: epochs of a task
  MaxChanges,   \* bound: what sessions, managers and workers do
  None

(* Managers are tasks, task_ids are told apart, a silence takes time.       *)
ASSUME DetectorAssumption ==
  /\ None \notin Tasks \cup Nat
  /\ Parent \in [Tasks -> Tasks \cup {None}] /\ Ceiling \in [Tasks -> Nat]
  /\ Rank \in [Tasks -> Nat] /\ \A t, u \in Tasks : Rank[t] = Rank[u] => t = u
  /\ PerPass \in Nat \ {0} /\ Grace \in Nat \ {0} /\ Timeout \in Nat /\ Grace <= Timeout
  /\ MaxEpoch \in Nat \ {0} /\ MaxChanges \in Nat

VARIABLES
  row,      \* managed_tasks: state, epoch and the liveness columns
  run,      \* run[t][e]: the session of an epoch, in the executor
  retired,  \* terminal_ownerships: the epochs whose session is retired
  det,      \* the pass: where it is and what it holds
  cursor,   \* _liveness_cursor
  heard,    \* the attention items a human has been given
  nudges,   \* history: wakes the manager was armed with in this silence
  told,     \* history: the age of the first wake of the last silence it was told of
  warned,   \* task_wakes: the epochs whose manager was told of the budget
  changes
vars == <<row, run, retired, det, cursor, heard, nudges, told, warned, changes>>

LiveStates == {"reserved", "active", "replacing", "blocked"}
YieldsToAll == LiveStates   \* mutant: any unfinished child is waited for
YieldStates == {"active", "replacing"}
Stalls == {"idle_unreported", "limbo", "stalled"}
Epochs == 1..MaxEpoch

NewRow == [state |-> "reserved", epoch |-> 1, liveness |-> "live", since |-> None, wakes |-> 0,
           over |-> FALSE]
Clear(r) == [r EXCEPT !.liveness = "live", !.since = None, !.wakes = 0, !.over = FALSE]
NoRun == [mode |-> "none", age |-> 0, turns |-> 0]
Rest == [pc |-> "rest", stage |-> "detect", todo |-> {}, task |-> None, epoch |-> 0,
         reason |-> None, over |-> FALSE]

(* Tasks, incidents, pass and approval answers are what liveness.py stores. *)
TypeOK ==
  /\ \A t \in Tasks :
       /\ row[t].state \in LiveStates \cup {"completed", "lost"}
       /\ row[t].epoch \in Epochs
       /\ row[t].liveness \in Stalls \cup {"live", "parked"}
       /\ row[t].since \in (0..Timeout) \cup {None}
       /\ (row[t].since = None) = (row[t].liveness = "live")
       /\ row[t].wakes \in 0..2
       /\ row[t].over \in BOOLEAN
       /\ row[t].wakes > 0 => row[t].liveness \in Stalls /\ Parent[t] # None
  /\ retired \subseteq Tasks \X Epochs /\ warned \subseteq Tasks \X Epochs
  /\ det.pc \in {"rest", "next", "apply", "after", "approval", "lose"}
  /\ det.pc \in {"rest", "next"} <=> det.task = None
  /\ heard \subseteq {"silence", "approval", "lost", "reserved"} \X Tasks \X Epochs

(* A manager that runs has reserved its children.                          *)
Init ==
  /\ row = [t \in Tasks |-> IF Parent[t] = None THEN [NewRow EXCEPT !.state = "active"] ELSE NewRow]
  /\ run = [t \in Tasks |-> [e \in Epochs |->
              IF Parent[t] = None /\ e = 1 THEN [NoRun EXCEPT !.mode = "busy", !.turns = 1] ELSE NoRun]]
  /\ retired = {} /\ heard = {} /\ warned = {}
  /\ det = Rest /\ cursor = None
  /\ nudges = [t \in Tasks |-> 0] /\ told = [t \in Tasks |-> None]
  /\ changes = 0

Now(t) == run[t][row[t].epoch]
Older(n) == IF n = Timeout THEN n ELSE n + 1

-----------------------------------------------------------------------------
(* What sessions, workers and managers do.                                 *)

Change == changes < MaxChanges /\ changes' = changes + 1
\* An item about a silence names its episode: the next silence needs its own.
\* A turn that begins anew is counted.
Begun(r, mode) == IF mode = "busy" /\ r.mode \in {"none", "ended"} THEN 1 ELSE 0
Behaves(t, e, mode) ==
  /\ heard' = heard \ {<<"silence", t, e>>}
  /\ run' = [run EXCEPT ![t][e] = [mode |-> mode, age |-> 0, turns |-> @.turns + Begun(@, mode)]]
  /\ nudges' = IF e = row[t].epoch THEN [nudges EXCEPT ![t] = 0] ELSE nudges

(* The launch of a reserved or replacing epoch is recorded.                *)
Activate(t) ==
  /\ row[t].state \in {"reserved", "replacing"}
  /\ row' = [row EXCEPT ![t].state = "active"]
  /\ Behaves(t, row[t].epoch, "busy")
  /\ UNCHANGED <<retired, det, cursor, told, warned, changes>>

(* A running session falls silent, ends its turn, parks on an approval, is *)
(* nudged or answered and works on, or is killed.                          *)
Turn(t, mode) ==
  /\ Change
  /\ \/ mode \in {"quiet", "ended", "parked"} /\ Now(t).mode = "busy"
     \/ mode = "busy" /\ Now(t).mode \in {"quiet", "ended", "parked"}
     \/ mode = "killed" /\ Now(t).mode \in {"busy", "quiet", "ended", "parked"}
  /\ Behaves(t, row[t].epoch, mode)
  /\ UNCHANGED <<row, retired, det, cursor, told, warned>>

(* `workspace archive` retires the session, and then stops it.             *)
Retire(t) ==
  /\ Change /\ Now(t).mode \in {"busy", "quiet", "ended", "parked"} /\ <<t, row[t].epoch>> \notin retired
  /\ retired' = retired \cup {<<t, row[t].epoch>>}
  /\ UNCHANGED <<row, run, det, cursor, heard, nudges, told, warned>>
StopRetired(t, e) ==
  /\ <<t, e>> \in retired /\ run[t][e].mode # "killed"
  /\ Behaves(t, e, "killed")
  /\ UNCHANGED <<row, retired, det, cursor, told, warned, changes>>

Finish(t, state) ==
  /\ Change /\ row[t].state \in {"active", "replacing"}
  /\ row' = [row EXCEPT ![t].state = state]
  /\ UNCHANGED <<run, retired, det, cursor, heard, nudges, told, warned>>

(* prepare_replacement; the session of the epoch before is stopped later.  *)
Replace(t) ==
  /\ Change /\ row[t].state \in {"active", "blocked", "lost"} /\ row[t].epoch < MaxEpoch
  /\ row' = [row EXCEPT ![t] = [Clear(row[t]) EXCEPT !.state = "replacing", !.epoch = row[t].epoch + 1]]
  /\ nudges' = [nudges EXCEPT ![t] = 0]
  /\ UNCHANGED <<run, retired, det, cursor, heard, told, warned>>
StopOld(t, e) ==
  /\ e < row[t].epoch /\ run[t][e].mode \notin {"none", "killed"}
  /\ Behaves(t, e, "killed")
  /\ UNCHANGED <<row, retired, det, cursor, told, warned, changes>>

(* Only what the pass goes by grows old.                                   *)
Ages(t, e) ==
  /\ e = row[t].epoch
  /\ IF run[t][e].mode = "none" THEN row[t].state = "reserved" ELSE run[t][e].mode # "busy"
Tick ==
  /\ det.pc \in {"rest", "approval", "lose"}
  /\ run' = [t \in Tasks |-> [e \in Epochs |->
       IF Ages(t, e) THEN [run[t][e] EXCEPT !.age = Older(@)] ELSE run[t][e]]]
  /\ row' = [t \in Tasks |-> IF row[t].since = None THEN row[t]
                             ELSE [row[t] EXCEPT !.since = Older(@)]]
  /\ told' = [t \in Tasks |-> IF told[t] = None THEN None ELSE Older(told[t])]
  /\ <<run, row>>' # <<run, row>>
  /\ UNCHANGED <<retired, det, cursor, heard, nudges, warned, changes>>

-----------------------------------------------------------------------------
(* Evidence and its classification.                                        *)

(* What may be read of a session: all of it, all but its snapshot, or      *)
(* nothing.  Without its snapshot there is no marker and no stream.        *)
Marked(r) == r.mode \in {"ended", "parked"}
Reads(r) == {"full", "deaf"} \cup (IF Marked(r) /\ ~Flaky THEN {} ELSE {"rows", "nothing"})

(* classify, by what was read                                              *)
Reason(r, read) ==
  CASE r.mode = "killed" /\ read # "nothing" -> "lost"
    [] r.mode = "parked" /\ read \in {"full", "deaf"} -> "parked"
    [] r.mode = "ended" /\ read \in {"full", "deaf"} ->
         IF r.age < Grace THEN "live" ELSE "idle_unreported"
    [] OTHER ->
         IF r.mode = "busy" \/ r.age < Timeout THEN "live"
         ELSE IF read = "nothing" THEN "unknown"
         ELSE IF read = "deaf" /\ r.mode = "quiet" THEN "limbo" ELSE "stalled"

(* The policy of a task has a budget: its own, or the manager's floor. *)
Budgeted(t) == Ceiling[t] > 0

(* Mutant: the ceiling has to be passed. *)
OverBudgetPast(t, r, read) == read # "nothing" /\ Budgeted(t) /\ r.turns > Ceiling[t]
(* over_budget *)
OverBudget(t, r, read) == read # "nothing" /\ Budgeted(t) /\ r.turns >= Ceiling[t]

(* has_live_wait_predicate: a manager with children at work is not silent. *)
Yielding(t) == \E c \in Tasks : Parent[c] = t /\ row[c].state \in YieldStates
Verdict(t, reason) ==
  IF reason \in {"idle_unreported", "stalled"} /\ Yielding(t) THEN "live" ELSE reason

-----------------------------------------------------------------------------
(* The pass.                                                               *)

Active == {t \in Tasks : row[t].state = "active"}
(* What a pass holds of a row it took, and when its turn is.               *)
Taken(t, place) == [task |-> t, epoch |-> row[t].epoch, place |-> place]
Up(at) == at \in det.todo /\ \A b \in det.todo : at.place <= b.place

(* The order of a pass: on from the cursor, and round.                     *)
Later(t) == cursor # None /\ Rank[t] > Rank[cursor]
Before(u, t) == \/ Later(u) /\ ~Later(t)
                \/ Later(u) = Later(t) /\ Rank[u] < Rank[t]
Place(t) == Cardinality({u \in Active : Before(u, t)})

(* _detection_slice: the rows of the next active tasks, from the cursor.   *)
StartPass ==
  /\ det.pc = "rest"
  /\ det' = [Rest EXCEPT !.pc = "next",
                         !.todo = {Taken(t, Place(t)) : t \in {u \in Active : Place(u) < PerPass}}]
  /\ cursor' = IF Cardinality(Active) <= PerPass THEN None
               ELSE CHOOSE t \in Active : Place(t) = PerPass - 1
  /\ UNCHANGED <<row, run, retired, heard, nudges, told, warned, changes>>

(* _detect_one, up to its verdict                                          *)
Observe(t, read) ==
  /\ det.pc = "next" /\ det.stage = "detect"
  /\ \E at \in det.todo :
       LET r == run[t][at.epoch]
           reason == Verdict(t, Reason(r, read))
       IN  /\ Up(at) /\ at.task = t /\ read \in Reads(r)
           /\ det' = [det EXCEPT !.task = t, !.epoch = at.epoch, !.todo = @ \ {at},
                                 !.reason = reason, !.over = OverBudget(t, r, read),
                                 !.pc = IF reason = "lost" THEN "lose" ELSE "apply"]
  /\ UNCHANGED <<row, run, retired, cursor, heard, nudges, told, warned, changes>>

(* A pass over its time ends early, and the next begins after this task.   *)
Done(pc) == [det EXCEPT !.pc = pc, !.task = None, !.epoch = 0, !.reason = None, !.over = FALSE]
Onward ==
  \/ det' = Done("next") /\ UNCHANGED cursor
  \/ /\ det.stage = "detect" /\ cursor' = det.task
     /\ det' = [Done("next") EXCEPT !.todo = {}]

StretchByName(l) == l   \* mutant: a new label is a new episode
(* liveness_stretch *)
Stretch(l) == IF l \in {"live", "parked"} THEN l ELSE "silent"

(* record_liveness *)
Recorded(r, l) ==
  IF Stretch(r.liveness) = Stretch(l) THEN [r EXCEPT !.liveness = l]
  ELSE [r EXCEPT !.liveness = l, !.wakes = 0,
                 !.since = IF l = "live" THEN None ELSE 0]

(* record_liveness_wakes: the first wake of an episode, and one more when  *)
(* the manager's answer has not brought progress within a timeout.         *)
Due(r, t) ==
  /\ r.state = "active" /\ Parent[t] # None /\ r.liveness \in Stalls
  /\ r.wakes = 0 \/ (r.wakes = 1 /\ r.since = Timeout)

(* record_over_budget: a latch. *)
Flagged(r) == IF r.state \in LiveStates THEN [r EXCEPT !.over = TRUE] ELSE r

(* _apply_finding: the finding, the flag and the wakes they arm are one    *)
(* transaction.                                                            *)
Apply ==
  /\ det.pc = "apply"
  /\ IF det.reason = "unknown" /\ ~det.over
     THEN Onward /\ UNCHANGED <<row, nudges, told, warned>>
     ELSE LET t == det.task
              labelled == IF row[t].state \in LiveStates /\ det.reason # "unknown"
                          THEN Recorded(row[t], det.reason) ELSE row[t]
              seen == IF det.over THEN Flagged(labelled) ELSE labelled
          IN  /\ IF Due(seen, t)
                 THEN /\ row' = [row EXCEPT ![t] = [seen EXCEPT !.wakes = @ + 1, !.since = 0]]
                      /\ nudges' = IF Reason(Now(t), "full") \in Stalls
                                   THEN [nudges EXCEPT ![t] = @ + 1] ELSE nudges
                      /\ told' = IF seen.wakes = 0 THEN [told EXCEPT ![t] = 0] ELSE told
                 ELSE row' = [row EXCEPT ![t] = seen] /\ UNCHANGED <<nudges, told>>
              /\ warned' = IF seen.over /\ seen.state = "active" /\ Parent[t] # None
                           THEN warned \cup {<<t, seen.epoch>>} ELSE warned
              /\ det' = [det EXCEPT !.pc = "after"] /\ UNCHANGED cursor
  /\ UNCHANGED <<run, retired, heard, changes>>

(* _after_finding: it reads the row again.                                 *)
Tell(kind, t, e) == heard' = heard \cup {<<kind, t, e>>}
UnheededYet(r) == r.wakes >= 1   \* mutant: a human hears with the manager
Unheeded(r) == r.wakes = 2 \/ (r.wakes = 1 /\ r.since = Timeout)
After ==
  /\ det.pc = "after"
  /\ LET r == row[det.task] IN
     \/ /\ det.reason = "parked"
        /\ IF r.since = Timeout THEN det' = [det EXCEPT !.pc = "approval"] /\ UNCHANGED cursor
                                ELSE Onward
        /\ UNCHANGED heard
     \/ /\ det.reason # "parked"
        /\ IF r.liveness \in Stalls /\ (Parent[det.task] = None \/ Unheeded(r))
           THEN Tell("silence", det.task, r.epoch) ELSE UNCHANGED heard
        /\ Onward
  /\ UNCHANGED <<row, run, retired, nudges, told, warned, changes>>

(* _resolve_parked_approval, once it holds the fence.                      *)
BlockOnApproval ==
  /\ det.pc = "approval"
  /\ IF row[det.task].state \in {"reserved", "active", "replacing"}
     THEN /\ row' = [row EXCEPT ![det.task].state = "blocked"]
          /\ Tell("approval", det.task, row[det.task].epoch)
     ELSE UNCHANGED <<row, heard>>
  /\ Onward
  /\ UNCHANGED <<run, retired, nudges, told, warned, changes>>

(* _record_loss, once it holds the fence: it reads the row again.  The     *)
(* session is retired through a second connection while the first has the  *)
(* database for writing, which fails unless it is retired already.         *)
LosableByRow == row[det.task].state = "active"   \* mutant: the epoch is not compared
Losable == row[det.task].state = "active" /\ row[det.task].epoch = det.epoch
Held == <<det.task, row[det.task].epoch>> \notin retired
RecordLoss ==
  /\ det.pc = "lose"
  /\ \/ ~Losable /\ Onward /\ UNCHANGED <<row, heard>>
     \/ Losable /\ Held /\ det' = Done("next") /\ UNCHANGED <<row, heard, cursor>>
     \/ /\ Losable /\ ~Held /\ Onward
        /\ row' = [row EXCEPT ![det.task].state = "lost"]
        /\ Tell("lost", det.task, row[det.task].epoch)
  /\ UNCHANGED <<run, retired, nudges, told, warned, changes>>

(* _scan_reserved ends a pass; sweep_losses follows it, which takes every  *)
(* task that is active and reads the evidence of what the row names then.  *)
EndPass ==
  /\ det.pc = "next" /\ det.stage = "detect" /\ det.todo = {}
  /\ det' = [Rest EXCEPT !.pc = "next", !.stage = "sweep",
                         !.todo = {Taken(t, Rank[t]) : t \in Active}]
  /\ heard' = heard \cup {<<"reserved", t, row[t].epoch>> :
       t \in {u \in Tasks : row[u].state = "reserved" /\ Now(u).age = Timeout}}
  /\ UNCHANGED <<row, run, retired, cursor, nudges, told, warned, changes>>

SweepLosses ==
  /\ det.pc = "next" /\ det.stage = "sweep"
  /\ \/ det.todo = {} /\ det' = Rest
     \/ \E at \in det.todo :
          LET dead == /\ row[at.task].state = "active" /\ row[at.task].epoch = at.epoch
                      /\ Now(at.task).mode = "killed"
          IN  /\ Up(at)
              /\ det' = IF dead THEN [det EXCEPT !.pc = "lose", !.todo = @ \ {at}, !.reason = "lost",
                                                !.task = at.task, !.epoch = at.epoch]
                        ELSE [det EXCEPT !.todo = @ \ {at}]
  /\ UNCHANGED <<row, run, retired, cursor, heard, nudges, told, warned, changes>>

(* The reconciler dies, and with it the cursor.                            *)
Restart ==
  /\ Change /\ det.pc # "rest"
  /\ det' = Rest /\ cursor' = None
  /\ UNCHANGED <<row, run, retired, heard, nudges, told, warned>>

Look(t) == \E read \in {"full", "deaf"} : Observe(t, read)
PassStep ==
  \/ \E t \in Tasks, read \in {"full", "deaf", "rows", "nothing"} : Observe(t, read)
  \/ StartPass \/ Apply \/ After \/ BlockOnApproval \/ RecordLoss \/ EndPass \/ SweepLosses
World ==
  \/ \E t \in Tasks :
       \/ Activate(t) \/ Retire(t) \/ Replace(t)
       \/ \E mode \in {"busy", "quiet", "ended", "parked", "killed"} : Turn(t, mode)
       \/ \E state \in {"completed", "blocked"} : Finish(t, state)
       \/ \E e \in Epochs : StopOld(t, e) \/ StopRetired(t, e)
  \/ Restart
Next == PassStep \/ Tick \/ World

Spec == Init /\ [][Next]_vars
(* The bridge runs a pass in every tick, time passes, and an executor that *)
(* is asked again and again answers.                                       *)
FairSpec ==
  /\ Spec /\ WF_vars(PassStep) /\ SF_vars(Tick)
  /\ \A t \in Tasks : SF_vars(Look(t))

-----------------------------------------------------------------------------
(* One unbroken silence wakes the manager twice and no more, however the   *)
(* reading of it is labelled from pass to pass.  A wake that is armed when *)
(* the session has moved on already is not one of the silence that comes;  *)
(* a manager that waits for children is silent anew when they are done.    *)
Leaf(t) == \A c \in Tasks : Parent[c] # t
TwoWakesASilence == \A t \in Tasks : Leaf(t) => nudges[t] <= 2

(* A task is recorded lost only when the session of its own epoch is dead, *)
(* whatever the pass had read of the one before.                           *)
LostIsDead ==
  [][\A t \in Tasks : row[t].state # "lost" /\ row'[t].state = "lost" => Now(t).mode = "killed"]_vars

(* A human hears of a silence of a managed task only after its manager was *)
(* woken and had a whole timeout to restore progress.                      *)
ManagerFirst ==
  [][\A t \in Tasks :
       Parent[t] # None /\ (heard' \ heard) \cap ({"silence"} \X {t} \X Epochs) # {}
         => told[t] = Timeout]_vars

(* An active task that is silent for ever is heard of by a human: one      *)
(* without a manager, one whose manager does not answer, and a manager     *)
(* that waits for a child which is blocked or never ran.                   *)
Silent(t) ==
  /\ row[t].state = "active" /\ Now(t).mode = "quiet"
  /\ \A c \in Tasks : Parent[c] = t => row[c].state \notin {"active", "replacing"}
HumanHears ==
  \A t \in Tasks : \A e \in Epochs :
    (<>[](Silent(t) /\ row[t].epoch = e)) => []<>(<<"silence", t, e>> \in heard)

(* The manager of an active task hears that it is over its budget, although *)
(* the reconciler restarts and the task is silent or yields.                *)
BudgetIsTold ==
  \A t \in Tasks : \A e \in Epochs :
    ~<>[]( /\ row[t].state = "active" /\ row[t].epoch = e /\ Parent[t] # None
           /\ Budgeted(t) /\ run[t][e].turns >= Ceiling[t] /\ run[t][e].mode # "killed"
           /\ <<t, e>> \notin warned )
=============================================================================
