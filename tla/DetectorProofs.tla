--------------------------- MODULE DetectorProofs ---------------------------
(***************************************************************************)
(* What the liveness pass may not do, for any tree of tasks, any policies  *)
(* and any number of epochs, whatever sessions, managers and workers do    *)
(* between its steps.                                                      *)
(*                                                                         *)
(* Each of the three properties relates what the pass believes to what is. *)
(* That only the dead are recorded lost rests on death being final: an     *)
(* epoch that was launched is not launched again (RunsInv), so what the    *)
(* pass saw dead is dead when it has the fence (LoseInv).  That a manager  *)
(* comes before a human rests on the two clocks of a silence: the stretch  *)
(* on the row, restarted by each wake, and the age of the first wake       *)
(* (ToldInv).  That a silence wakes the manager twice at most rests on     *)
(* there being no wake of it that the row does not count (CountInv): a     *)
(* finding that would clear the count is never one about a session that    *)
(* still is in the silence counted.                                        *)
(***************************************************************************)
EXTENDS Detector, TLAPS

(* The values of the rows, of the sessions and of the pass. *)
Ages0 == 0..Timeout
RowType ==
  [ state : LiveStates \cup {"completed", "lost"}, epoch : Epochs,
    liveness : Stalls \cup {"live", "parked"}, since : Ages0 \cup {None}, wakes : 0..2,
    over : BOOLEAN ]
Modes == {"none", "busy", "quiet", "ended", "parked", "killed"}
RunType == [mode : Modes, age : Ages0, turns : Nat]
(* What the places of a pass can be. *)
Places == Nat \cup {Cardinality(S) : S \in SUBSET Tasks}
Entry == [task : Tasks, epoch : Epochs, place : Places]
Reasons == Stalls \cup {"live", "parked", "lost", "unknown"}
DetType ==
  [ pc : {"rest", "next", "apply", "after", "approval", "lose"}, stage : {"detect", "sweep"},
    todo : SUBSET Entry, task : Tasks \cup {None}, epoch : Epochs \cup {0},
    reason : Reasons \cup {None}, over : BOOLEAN ]

(* A stretch is timed from its start; only a managed task that is silent has *)
(* armed wakes.                                                              *)
RowOK(r, t) ==
  /\ r.since = None <=> r.liveness = "live"
  /\ r.wakes > 0 => r.liveness \in Stalls /\ Parent[t] # None

(* A pass that is with a task knows which, and what it found. *)
DetOK(d) ==
  /\ d.pc \in {"rest", "next"} <=> d.task = None
  /\ d.pc \notin {"rest", "next"} => d.epoch \in Epochs
  /\ d.pc = "apply" => d.reason \in Reasons \ {"lost"}

(* What the database and the executor hold. *)
RowsTyped ==
  /\ row \in [Tasks -> RowType] /\ \A t \in Tasks : RowOK(row[t], t)
  /\ run \in [Tasks -> [Epochs -> RunType]]
  /\ retired \subseteq Tasks \X Epochs /\ warned \subseteq Tasks \X Epochs
  /\ heard \subseteq {"silence", "approval", "lost", "reserved"} \X Tasks \X Epochs
  /\ nudges \in [Tasks -> Nat] /\ told \in [Tasks -> Ages0 \cup {None}]

(* No epoch has a session before it is launched, and none is launched twice. *)
RunsInv ==
  \A t \in Tasks :
    /\ row[t].state \in {"reserved", "replacing"} => Now(t).mode = "none"
    /\ \A e \in Epochs : /\ e > row[t].epoch => run[t][e].mode = "none"
                         /\ <<t, e>> \in retired => run[t][e].mode # "none"

(* After one wake the stretch is as old as the wake, after two the first is old. *)
ToldInv ==
  \A t \in Tasks : /\ row[t].wakes = 1 => told[t] = row[t].since
                   /\ row[t].wakes = 2 => told[t] = Timeout

(* What the pass waits to record as lost is dead. *)
LoseInv == det.pc = "lose" => run[det.task][det.epoch].mode = "killed"

(* Every wake of the present silence is counted by the row. *)
CountInv ==
  \A t \in Tasks : Leaf(t) => /\ nudges[t] <= row[t].wakes
                              /\ nudges[t] > 0 => Reason(Now(t), "full") \in Stalls

(* A pass has each task once, no wake of an epoch it does not know of, and   *)
(* no finding that would end a silence the manager was woken for.            *)
TodoInv ==
  /\ \A a, b \in det.todo : a.task = b.task => a = b
  /\ \A a \in det.todo : /\ a.task # det.task
                         /\ a.epoch # row[a.task].epoch => nudges[a.task] = 0
FindingInv ==
  det.pc = "apply" /\ Leaf(det.task) /\ det.reason \in {"live", "parked"} => nudges[det.task] = 0

RowInv == RowsTyped /\ RunsInv /\ ToldInv
DetInv == det \in DetType /\ DetOK(det) /\ LoseInv
(* The inductive invariant, whatever is read of a session ... *)
IInv == RowInv /\ DetInv
(* ... and what it takes in addition where the markers are always read. *)
WakeInv == CountInv /\ TodoInv /\ FindingInv
-----------------------------------------------------------------------------
(* Ages, rows and readings. *)

(* Ages stop at the timeout, and None is none of them. *)
LEMMA Aged ==
    /\ Ages0 \subseteq Nat /\ 0 \in Ages0 /\ Timeout \in Ages0 /\ None \notin Ages0
    /\ \A n \in Ages0 : Older(n) \in Ages0 /\ Older(n) >= n /\ n <= Timeout
    /\ None \notin Tasks /\ Epochs \subseteq Nat /\ 1 \in Epochs /\ 0 \notin Epochs
    /\ Grace \in Nat /\ Grace > 0 /\ Grace <= Timeout /\ Timeout \in Nat /\ MaxEpoch \in Nat
BY DetectorAssumption DEF Ages0, Older, Epochs

(* The parts of a row and of a session. *)
LEMMA Parts ==
    ASSUME RowsTyped, NEW t \in Tasks
    PROVE  /\ row[t] \in RowType /\ RowOK(row[t], t) /\ row \in [Tasks -> RowType]
           /\ run[t] \in [Epochs -> RunType] /\ run \in [Tasks -> [Epochs -> RunType]]
           /\ row[t].epoch \in Epochs /\ Now(t) \in RunType /\ Now(t) = run[t][row[t].epoch]
           /\ \A e \in Epochs : run[t][e] \in RunType
           /\ nudges[t] \in Nat /\ nudges \in [Tasks -> Nat] /\ told[t] \in Ages0 \cup {None}
BY DEF RowsTyped, RowType, Now

(* Whatever part of a session is read, a silence that a whole reading finds *)
(* is found, or nothing is.                                                *)
LEMMA Steady ==
    ASSUME ~Flaky, NEW r \in RunType, Reason(r, "full") \in Stalls, NEW read \in Reads(r)
    PROVE  Reason(r, read) \in Stalls \cup {"unknown"}
<1>1. r.mode \in Modes /\ r.age \in Nat /\ Grace \in Nat /\ Timeout \in Nat
  BY Aged DEF RunType
<1>2. r.mode \notin {"killed", "parked", "busy"}
  BY <1>1 DEF Reason, Stalls
<1>3. CASE r.mode = "ended"
  <2>1. read \in {"full", "deaf"}
    BY <1>3 DEF Reads, Marked
  <2>2. Reason(r, "full") = IF r.age < Grace THEN "live" ELSE "idle_unreported"
    BY <1>3 DEF Reason
  <2>3. Reason(r, read) = IF r.age < Grace THEN "live" ELSE "idle_unreported"
    BY <1>3, <2>1 DEF Reason
  <2>4. QED  BY <2>2, <2>3
<1>4. CASE r.mode \in {"none", "quiet"}
  <2>1. Reason(r, "full") = IF r.age < Timeout THEN "live" ELSE "stalled"
    BY <1>4 DEF Reason
  <2>2. ~(r.age < Timeout)
    BY <2>1 DEF Stalls
  <2>3. Reason(r, read) = IF read = "nothing" THEN "unknown"
                          ELSE IF read = "deaf" /\ r.mode = "quiet" THEN "limbo" ELSE "stalled"
    BY <1>4, <2>2 DEF Reason
  <2>4. QED  BY <2>3 DEF Stalls
<1>5. QED  BY <1>1, <1>2, <1>3, <1>4 DEF Modes

(* A silence lasts while nothing but time passes. *)
LEMMA Lasting ==
    ASSUME NEW r \in RunType, NEW s \in RunType, s.mode = r.mode, s.age >= r.age,
           Reason(r, "full") \in Stalls
    PROVE  Reason(s, "full") \in Stalls
<1>1. r.mode \in Modes /\ r.age \in Nat /\ s.age \in Nat /\ Grace \in Nat /\ Timeout \in Nat
  BY Aged DEF RunType
<1>2. r.mode \notin {"killed", "parked", "busy"}
  BY <1>1 DEF Reason, Stalls
<1>3. CASE r.mode = "ended"
  <2>1. Reason(r, "full") = IF r.age < Grace THEN "live" ELSE "idle_unreported"
    BY <1>3 DEF Reason
  <2>2. Reason(s, "full") = IF s.age < Grace THEN "live" ELSE "idle_unreported"
    BY <1>3 DEF Reason
  <2>3. QED  BY <1>1, <2>1, <2>2 DEF Stalls
<1>4. CASE r.mode \in {"none", "quiet"}
  <2>1. Reason(r, "full") = IF r.age < Timeout THEN "live" ELSE "stalled"
    BY <1>4 DEF Reason
  <2>2. Reason(s, "full") = IF s.age < Timeout THEN "live" ELSE "stalled"
    BY <1>4 DEF Reason
  <2>3. QED  BY <1>1, <2>1, <2>2 DEF Stalls
<1>5. QED  BY <1>1, <1>2, <1>3, <1>4 DEF Modes

(* What a reading can say; that a session is lost only of one that is dead. *)
LEMMA Said ==
    ASSUME NEW r \in RunType, NEW read, NEW t
    PROVE  /\ Reason(r, read) \in Reasons /\ Verdict(t, Reason(r, read)) \in Reasons
           /\ Verdict(t, Reason(r, read)) = "lost" => r.mode = "killed"
           /\ Leaf(t) => Verdict(t, Reason(r, read)) = Reason(r, read)
<1>1. Reason(r, read) \in Reasons
  BY DEF Reason, Reasons, Stalls
<1>2. Reason(r, read) = "lost" => r.mode = "killed"
  BY DEF Reason
<1>3. Leaf(t) => ~Yielding(t)
  BY DEF Leaf, Yielding
<1>4. QED  BY <1>1, <1>2, <1>3 DEF Verdict, Reasons
-----------------------------------------------------------------------------
(* What the world does. *)

(* The pass is not disturbed by what leaves it alone: the dead stay dead, and *)
(* the wakes of a silence are forgotten with it.                             *)
LEMMA Undisturbed ==
    ASSUME RowInv, DetInv, UNCHANGED det,
           \A t \in Tasks, e \in Epochs : run[t][e].mode = "killed" => run'[t][e].mode = "killed"
    PROVE  DetInv'
<1>1. det.pc = "lose" => det.task \in Tasks /\ det.epoch \in Epochs
  BY DEF DetInv, DetOK, DetType
<1>2. LoseInv'
  BY <1>1 DEF DetInv, LoseInv
<1>3. QED  BY <1>2 DEF DetInv, DetOK

(* So too what it would have counted. *)
LEMMA Uncounted ==
    ASSUME RowInv, DetInv, TodoInv, FindingInv, UNCHANGED det,
           \A t \in Tasks : /\ nudges'[t] \in {0, nudges[t]}
                            /\ row'[t].epoch = row[t].epoch \/ nudges'[t] = 0
    PROVE  TodoInv' /\ FindingInv'
<1>1. det.todo \subseteq Entry /\ (det.pc = "apply" => det.task \in Tasks)
  BY DEF DetInv, DetOK, DetType
<1>2. TodoInv'
  <2>1. ASSUME NEW a \in det.todo, a.epoch # row'[a.task].epoch  PROVE nudges'[a.task] = 0
    <3>1. a.task \in Tasks
      BY <1>1 DEF Entry
    <3>2. QED  BY <2>1, <3>1 DEF TodoInv
  <2>2. QED  BY <2>1 DEF TodoInv
<1>3. FindingInv'
  BY <1>1 DEF FindingInv, Leaf
<1>4. QED  BY <1>2, <1>3

(* What a session does, and its manager forgets. *)
LEMMA Behaved ==
    ASSUME RowsTyped, NEW t \in Tasks, NEW e \in Epochs, NEW mode \in Modes, Behaves(t, e, mode)
    PROVE  /\ run' \in [Tasks -> [Epochs -> RunType]] /\ run'[t][e].mode = mode
           /\ \A u \in Tasks, f \in Epochs : u # t \/ f # e => run'[u][f] = run[u][f]
           /\ nudges' \in [Tasks -> Nat] /\ (e = row[t].epoch => nudges'[t] = 0)
           /\ \A u \in Tasks : nudges'[u] \in {0, nudges[u]}
           /\ heard' \subseteq heard
<1>1. PICK n \in Nat : n = run[t][e].turns + Begun(run[t][e], mode)
  <2>1. run[t][e].turns \in Nat /\ Begun(run[t][e], mode) \in Nat
    BY Parts DEF RunType, Begun
  <2>2. QED  BY <2>1
<1>2. run' = [run EXCEPT ![t][e] = [mode |-> mode, age |-> 0, turns |-> n]]
  BY <1>1 DEF Behaves
<1>3. PICK r \in RunType : r = [mode |-> mode, age |-> 0, turns |-> n]
  BY Aged DEF RunType
<1>4. run' = [run EXCEPT ![t][e] = r] /\ r.mode = mode
  BY <1>2, <1>3
<1>5. run \in [Tasks -> [Epochs -> RunType]] /\ nudges \in [Tasks -> Nat]
  BY Parts
<1>6. nudges' = IF e = row[t].epoch THEN [nudges EXCEPT ![t] = 0] ELSE nudges
  BY DEF Behaves
<1>7. heard' \subseteq heard
  BY DEF Behaves
<1>8. QED  BY <1>4, <1>5, <1>6, <1>7

(* A launch is recorded, a session moves, or one that is done with is stopped: *)
(* an epoch that was launched moves, and a dead one does not.                 *)
LEMMA Behaving ==
    ASSUME RowInv, NEW t \in Tasks,
           \/ Activate(t)
           \/ \E mode \in {"busy", "quiet", "ended", "parked", "killed"} : Turn(t, mode)
           \/ \E f \in Epochs : StopOld(t, f) \/ StopRetired(t, f)
    PROVE  /\ UNCHANGED <<retired, det, told, warned>>
           /\ \E e \in Epochs, mode \in Modes \ {"none"} :
                /\ Behaves(t, e, mode) /\ e <= row[t].epoch
                /\ run[t][e].mode = "killed" => mode = "killed"
                /\ \/ /\ UNCHANGED row
                      /\ row[t].state \in {"reserved", "replacing"} => e # row[t].epoch
                   \/ row' = [row EXCEPT ![t].state = "active"]
<1>1. row[t].epoch \in Epochs /\ Epochs \subseteq Nat
  BY Parts, Aged DEF RowInv
<1>2. CASE Activate(t)
  <2>1. run[t][row[t].epoch].mode = "none"
    BY <1>2 DEF Activate, RowInv, RunsInv, Now
  <2>2. QED  BY <1>1, <1>2, <2>1 DEF Activate, Modes
<1>3. ASSUME NEW mode \in {"busy", "quiet", "ended", "parked", "killed"}, Turn(t, mode)
      PROVE  /\ UNCHANGED <<retired, det, told, warned, row>> /\ Behaves(t, row[t].epoch, mode)
             /\ Now(t).mode \notin {"none", "killed"}
  BY <1>3 DEF Turn
<1>4. ASSUME NEW f \in Epochs, StopOld(t, f) \/ StopRetired(t, f)
      PROVE  /\ UNCHANGED <<retired, det, told, warned, row>> /\ Behaves(t, f, "killed")
             /\ run[t][f].mode # "none"
  BY <1>4 DEF StopOld, StopRetired, RowInv, RunsInv
<1>5. \A f \in Epochs : run[t][f].mode # "none" => f <= row[t].epoch
  <2>1. ASSUME NEW f \in Epochs, run[t][f].mode # "none"  PROVE f <= row[t].epoch
    <3>1. ~(f > row[t].epoch)
      BY <2>1 DEF RowInv, RunsInv
    <3>2. f \in Nat /\ row[t].epoch \in Nat
      BY <1>1
    <3>3. QED  BY <3>1, <3>2
  <2>2. QED  BY <2>1
<1>6. row[t].state \in {"reserved", "replacing"} => Now(t).mode = "none"
  BY DEF RowInv, RunsInv
<1>7. ASSUME NEW mode \in {"busy", "quiet", "ended", "parked", "killed"}, Turn(t, mode)
      PROVE  /\ UNCHANGED <<retired, det, told, warned>>
             /\ \E e \in Epochs, m \in Modes \ {"none"} :
                  /\ Behaves(t, e, m) /\ e <= row[t].epoch
                  /\ run[t][e].mode = "killed" => m = "killed"
                  /\ UNCHANGED row
                  /\ row[t].state \in {"reserved", "replacing"} => e # row[t].epoch
  BY <1>1, <1>3, <1>5, <1>6, <1>7 DEF Now, Modes
<1>8. ASSUME NEW f \in Epochs, StopOld(t, f) \/ StopRetired(t, f)
      PROVE  /\ UNCHANGED <<retired, det, told, warned>>
             /\ \E e \in Epochs, m \in Modes \ {"none"} :
                  /\ Behaves(t, e, m) /\ e <= row[t].epoch
                  /\ run[t][e].mode = "killed" => m = "killed"
                  /\ UNCHANGED row
                  /\ row[t].state \in {"reserved", "replacing"} => e # row[t].epoch
  BY <1>4, <1>5, <1>6, <1>8 DEF Now, Modes
<1>9. QED  BY <1>2, <1>7, <1>8

(* One row takes a state ... *)
Moved(t, s) == row' = [row EXCEPT ![t].state = s]
(* ... that is none of those before a launch. *)
LEMMA StateSet ==
    ASSUME RowInv, NEW t \in Tasks, NEW s \in {"active", "blocked", "completed", "lost"}, Moved(t, s)
    PROVE  /\ row' \in [Tasks -> RowType]
           /\ \A u \in Tasks : /\ row'[u].epoch = row[u].epoch /\ row'[u].wakes = row[u].wakes
                               /\ row'[u].since = row[u].since
                               /\ row'[u].liveness = row[u].liveness
                               /\ row'[u].state = IF u = t THEN s ELSE row[u].state
<1>1. PICK r : r = [row[t] EXCEPT !.state = s]
  OBVIOUS
<1>2. row[t] \in RowType /\ row \in [Tasks -> RowType]
  BY Parts DEF RowInv
<1>3. /\ r \in RowType /\ r.epoch = row[t].epoch /\ r.wakes = row[t].wakes /\ r.since = row[t].since
      /\ r.liveness = row[t].liveness /\ r.state = s
  BY <1>1, <1>2 DEF RowType, LiveStates
<1>4. row' = [row EXCEPT ![t] = r]
  BY <1>1, <1>2 DEF Moved
<1>5. QED  BY <1>2, <1>3, <1>4

(* What no step but a wake, a replacement and time changes of a row. *)
LEMMA SameColumns ==
    ASSUME RowInv, row' \in [Tasks -> RowType], UNCHANGED told,
           \A u \in Tasks : /\ row'[u].wakes = row[u].wakes /\ row'[u].since = row[u].since
                            /\ row'[u].liveness = row[u].liveness
    PROVE  (\A u \in Tasks : RowOK(row'[u], u)) /\ ToldInv'
BY DEF RowInv, RowsTyped, RowOK, ToldInv

(* The rows and sessions after a session moved. *)
LEMMA RowsBehaving ==
    ASSUME RowInv, NEW t \in Tasks,
           \/ Activate(t)
           \/ \E mode \in {"busy", "quiet", "ended", "parked", "killed"} : Turn(t, mode)
           \/ \E f \in Epochs : StopOld(t, f) \/ StopRetired(t, f)
    PROVE  /\ RowInv' /\ (CountInv => CountInv')
           /\ DetInv => DetInv'
           /\ DetInv /\ TodoInv /\ FindingInv => TodoInv' /\ FindingInv'
<1>1. PICK e \in Epochs, mode \in Modes \ {"none"} :
         /\ Behaves(t, e, mode) /\ e <= row[t].epoch
         /\ run[t][e].mode = "killed" => mode = "killed"
         /\ \/ UNCHANGED row /\ (row[t].state \in {"reserved", "replacing"} => e # row[t].epoch)
            \/ row' = [row EXCEPT ![t].state = "active"]
  BY Behaving
<1>2. UNCHANGED <<retired, det, told, warned>>
  BY Behaving
<1>3. /\ run' \in [Tasks -> [Epochs -> RunType]] /\ run'[t][e].mode = mode
      /\ \A u \in Tasks, f \in Epochs : u # t \/ f # e => run'[u][f] = run[u][f]
      /\ nudges' \in [Tasks -> Nat] /\ (e = row[t].epoch => nudges'[t] = 0)
      /\ \A u \in Tasks : nudges'[u] \in {0, nudges[u]}
      /\ heard' \subseteq heard
  BY <1>1, Behaved DEF RowInv
<1>4. /\ row' \in [Tasks -> RowType]
      /\ \A u \in Tasks : /\ row'[u].epoch = row[u].epoch /\ row'[u].wakes = row[u].wakes
                          /\ row'[u].since = row[u].since
                          /\ row'[u].liveness = row[u].liveness
                          /\ row'[u].state \in {row[u].state, "active"}
      /\ row'[t].state = "active" \/ UNCHANGED row
  <2>1. CASE UNCHANGED row
    BY <2>1, Parts DEF RowInv
  <2>2. CASE row' = [row EXCEPT ![t].state = "active"]
    <3>1. /\ row' \in [Tasks -> RowType]
          /\ \A u \in Tasks : /\ row'[u].epoch = row[u].epoch /\ row'[u].wakes = row[u].wakes
                              /\ row'[u].since = row[u].since
                              /\ row'[u].liveness = row[u].liveness
                              /\ row'[u].state = IF u = t THEN "active" ELSE row[u].state
      BY <2>2, StateSet DEF Moved
    <3>2. QED  BY <3>1
  <2>3. QED  BY <1>1, <2>1, <2>2
<1>5. RowsTyped' /\ ToldInv'
  BY <1>2, <1>3, <1>4, SameColumns DEF RowInv, RowsTyped
<1>6. RunsInv'
  <2>1. ASSUME NEW u \in Tasks, row'[u].state \in {"reserved", "replacing"}
        PROVE  run'[u][row'[u].epoch].mode = "none"
    <3>1. row[u].state \in {"reserved", "replacing"} /\ row[u].epoch \in Epochs
      BY <1>4, <2>1, Parts DEF RowInv
    <3>2. run[u][row[u].epoch].mode = "none"
      BY <3>1 DEF RowInv, RunsInv, Now
    <3>3. u # t \/ e # row[u].epoch
      <4>1. u = t => row'[t].state # "active"
        BY <2>1
      <4>2. u = t => UNCHANGED row
        BY <1>4, <4>1
      <4>3. u = t /\ UNCHANGED row => e # row[u].epoch
        BY <1>1, <3>1, <4>1, StateSet DEF Moved
      <4>4. QED  BY <4>2, <4>3
    <3>4. QED  BY <1>3, <1>4, <3>1, <3>2, <3>3
  <2>2. ASSUME NEW u \in Tasks, NEW f \in Epochs
        PROVE  /\ f > row'[u].epoch => run'[u][f].mode = "none"
               /\ <<u, f>> \in retired' => run'[u][f].mode # "none"
    <3>1. f \in Nat /\ e \in Nat /\ row[t].epoch \in Nat
      BY Aged, Parts DEF RowInv
    <3>2. f > row[u].epoch => u # t \/ f # e
      BY <1>1, <3>1
    <3>3. QED  BY <1>2, <1>3, <1>4, <3>2 DEF RowInv, RunsInv
  <2>3. QED  BY <2>1, <2>2 DEF RunsInv, Now
<1>7. ASSUME CountInv  PROVE CountInv'
  <2>1. ASSUME NEW u \in Tasks, Leaf(u)
        PROVE  /\ nudges'[u] <= row'[u].wakes
               /\ nudges'[u] > 0 => Reason(run'[u][row'[u].epoch], "full") \in Stalls
    <3>1. /\ nudges[u] <= row[u].wakes /\ nudges[u] \in Nat /\ row[u].wakes \in Nat
          /\ nudges[u] > 0 => Reason(run[u][row[u].epoch], "full") \in Stalls
          /\ row[u].epoch \in Epochs
      BY <1>7, <2>1, Parts DEF RowInv, CountInv, Now, RowType
    <3>2. nudges'[u] <= row'[u].wakes
      BY <1>3, <1>4, <3>1
    <3>3. nudges'[u] > 0 => nudges[u] > 0 /\ (u # t \/ e # row[u].epoch)
      BY <1>3, <3>1
    <3>4. QED  BY <1>3, <1>4, <3>1, <3>2, <3>3
  <2>2. QED  BY <2>1 DEF CountInv, Now, Leaf
<1>8. DetInv => DetInv'
  <2>1. \A u \in Tasks, f \in Epochs : run[u][f].mode = "killed" => run'[u][f].mode = "killed"
    BY <1>1, <1>3
  <2>2. QED  BY <1>2, <2>1, Undisturbed
<1>9. DetInv /\ TodoInv /\ FindingInv => TodoInv' /\ FindingInv'
  BY <1>2, <1>3, <1>4, Uncounted
<1>10. QED  BY <1>5, <1>6, <1>7, <1>8, <1>9 DEF RowInv
(* The items a human may be given. *)
Items == {"silence", "approval", "lost", "reserved"} \X Tasks \X Epochs

(* A row takes a state, and nothing else of it or of a session changes. *)
LEMMA RowsState ==
    ASSUME RowInv, NEW t \in Tasks, NEW s \in {"active", "blocked", "completed", "lost"},
           Moved(t, s), heard' \subseteq Items,
           UNCHANGED <<run, retired, nudges, told, warned>>
    PROVE  /\ RowInv' /\ (CountInv => CountInv')
           /\ \A u \in Tasks : row'[u].epoch = row[u].epoch
<1>1. /\ row' \in [Tasks -> RowType]
      /\ \A u \in Tasks : /\ row'[u].epoch = row[u].epoch /\ row'[u].wakes = row[u].wakes
                          /\ row'[u].since = row[u].since
                          /\ row'[u].liveness = row[u].liveness
                          /\ row'[u].state = IF u = t THEN s ELSE row[u].state
  BY StateSet
<1>2. RowsTyped' /\ ToldInv'
  BY <1>1, SameColumns DEF RowInv, RowsTyped, Items
<1>3. RunsInv'
  BY <1>1 DEF RowInv, RunsInv, Now
<1>4. CountInv => CountInv'
  BY <1>1 DEF CountInv, Now, Leaf
<1>5. QED  BY <1>1, <1>2, <1>3, <1>4 DEF RowInv

(* Nothing of a row or of a session changes but what was told of it. *)
LEMMA RowsSame ==
    ASSUME RowInv, UNCHANGED <<row, run, retired, nudges, told, warned>>, heard' \subseteq Items
    PROVE  RowInv' /\ (CountInv => CountInv')
<1>1. RowsTyped'
  BY DEF RowInv, RowsTyped, RowOK, Items
<1>2. RunsInv' /\ ToldInv'
  BY DEF RowInv, RunsInv, ToldInv, Now
<1>3. CountInv => CountInv'
  BY DEF CountInv, Now, Leaf
<1>4. QED  BY <1>1, <1>2, <1>3 DEF RowInv

(* A session is retired, a worker or a manager ends a task. *)
LEMMA RowsEnding ==
    ASSUME RowInv, NEW t \in Tasks,
           Retire(t) \/ \E state \in {"completed", "blocked"} : Finish(t, state)
    PROVE  /\ RowInv' /\ (CountInv => CountInv')
           /\ DetInv => DetInv'
           /\ DetInv /\ TodoInv /\ FindingInv => TodoInv' /\ FindingInv'
<1>1. UNCHANGED <<run, det, nudges, told, warned, heard>> /\ heard \subseteq Items
  BY DEF Retire, Finish, RowInv, RowsTyped, Items
<1>2. /\ RowInv' /\ (CountInv => CountInv')
      /\ \A u \in Tasks : row'[u].epoch = row[u].epoch
  <2>1. CASE Retire(t)
    <3>1. /\ retired' = retired \cup {<<t, row[t].epoch>>} /\ UNCHANGED row
          /\ run[t][row[t].epoch].mode # "none"
      BY <2>1 DEF Retire, Now
    <3>2. row[t].epoch \in Epochs
      BY Parts DEF RowInv
    <3>3. RowsTyped' /\ ToldInv'
      BY <1>1, <3>1, <3>2 DEF RowInv, RowsTyped, RowOK, ToldInv
    <3>4. RunsInv'
      BY <1>1, <3>1, <3>2 DEF RowInv, RunsInv, Now
    <3>5. CountInv => CountInv'
      BY <1>1, <3>1 DEF CountInv, Now, Leaf
    <3>6. QED  BY <3>1, <3>3, <3>4, <3>5 DEF RowInv
  <2>2. ASSUME NEW state \in {"completed", "blocked"}, Finish(t, state)
        PROVE  /\ RowInv' /\ (CountInv => CountInv')
               /\ \A u \in Tasks : row'[u].epoch = row[u].epoch
    BY <1>1, <2>2, RowsState DEF Finish, Moved
  <2>3. QED  BY <2>1, <2>2
<1>3. DetInv => DetInv'
  BY <1>1, Undisturbed
<1>4. DetInv /\ TodoInv /\ FindingInv => TodoInv' /\ FindingInv'
  BY <1>1, <1>2, Uncounted
<1>5. QED  BY <1>2, <1>3, <1>4

(* A task is replaced: its row starts anew. *)
LEMMA RowsReplaced ==
    ASSUME RowInv, NEW t \in Tasks, Replace(t)
    PROVE  /\ RowInv' /\ (CountInv => CountInv')
           /\ DetInv => DetInv'
           /\ DetInv /\ TodoInv /\ FindingInv => TodoInv' /\ FindingInv'
<1>1. /\ UNCHANGED <<run, retired, det, heard, told, warned>>
      /\ nudges' = [nudges EXCEPT ![t] = 0] /\ row[t].epoch < MaxEpoch
      /\ row' = [row EXCEPT ![t] = [Clear(row[t]) EXCEPT !.state = "replacing",
                                                         !.epoch = row[t].epoch + 1]]
  BY DEF Replace
<1>2. PICK e \in Epochs : e = row[t].epoch + 1
  BY <1>1, Parts, Aged DEF RowInv, Epochs
<1>3. PICK c : c = Clear(row[t])
  OBVIOUS
<1>4. c \in RowType /\ c.liveness = "live" /\ c.since = None /\ c.wakes = 0
  <2>1. PICK o : o = row[t]
    OBVIOUS
  <2>2. o \in RowType
    BY <2>1, Parts DEF RowInv
  <2>3. c = [o EXCEPT !.liveness = "live", !.since = None, !.wakes = 0, !.over = FALSE]
    BY <1>3, <2>1 DEF Clear
  <2>4. 0 \in 0..2 /\ "live" \in Stalls \cup {"live", "parked"} /\ None \in Ages0 \cup {None}
    OBVIOUS
  <2>5. PICK p \in RowType : p = [o EXCEPT !.liveness = "live"]
    BY <2>2, <2>4 DEF RowType
  <2>6. PICK q \in RowType : q = [p EXCEPT !.since = None]
    BY <2>4 DEF RowType
  <2>7. PICK w \in RowType : w = [q EXCEPT !.wakes = 0]
    BY <2>4 DEF RowType
  <2>8. PICK x \in RowType : x = [w EXCEPT !.over = FALSE]
    BY DEF RowType
  <2>9. c = x
    BY ONLY <2>2, <2>3, <2>5, <2>6, <2>7, <2>8 DEF RowType
  <2>10. QED  BY ONLY <2>2, <2>5, <2>6, <2>7, <2>8, <2>9 DEF RowType
<1>5. PICK r : r = [c EXCEPT !.state = "replacing", !.epoch = e]
  OBVIOUS
<1>6. /\ r \in RowType /\ r.state = "replacing" /\ r.epoch = e /\ r.liveness = "live"
      /\ r.since = None /\ r.wakes = 0
  BY <1>4, <1>5 DEF RowType, LiveStates
<1>7. row' = [row EXCEPT ![t] = r]
  BY <1>1, <1>2, <1>3, <1>5
<1>8. /\ row' \in [Tasks -> RowType]
      /\ \A u \in Tasks : row'[u] = IF u = t THEN r ELSE row[u]
  BY <1>6, <1>7, Parts DEF RowInv
<1>9. nudges' \in [Tasks -> Nat] /\ \A u \in Tasks : nudges'[u] = IF u = t THEN 0 ELSE nudges[u]
  BY <1>1, Parts DEF RowInv
<1>10. RowsTyped'
  <2>1. \A u \in Tasks : RowOK(row'[u], u)
    BY <1>6, <1>8 DEF RowInv, RowsTyped, RowOK
  <2>2. QED  BY <1>1, <1>8, <1>9, <2>1 DEF RowInv, RowsTyped
<1>11. ToldInv'
  <2>1. ASSUME NEW u \in Tasks
        PROVE  /\ row'[u].wakes = 1 => told'[u] = row'[u].since
               /\ row'[u].wakes = 2 => told'[u] = Timeout
    <3>1. CASE u = t
      BY <1>6, <1>8, <3>1
    <3>2. CASE u # t
      BY <1>1, <1>8, <3>2 DEF RowInv, ToldInv
    <3>3. QED  BY <3>1, <3>2
  <2>2. QED  BY <2>1 DEF ToldInv
<1>12. RunsInv'
  <2>1. row[t].epoch \in Nat /\ e \in Nat /\ Epochs \subseteq Nat
    BY Parts, Aged DEF RowInv
  <2>2. e > row[t].epoch /\ \A f \in Epochs : f > e => f > row[t].epoch
    BY ONLY <1>2, <2>1
  <2>3. run[t][e].mode = "none"
    BY <2>2 DEF RowInv, RunsInv
  <2>4. QED  BY <1>1, <1>6, <1>8, <2>2, <2>3 DEF RowInv, RunsInv, Now
<1>13. ASSUME CountInv  PROVE CountInv'
  <2>1. ASSUME NEW u \in Tasks, Leaf(u)
        PROVE  /\ nudges'[u] <= row'[u].wakes
               /\ nudges'[u] > 0 => Reason(run'[u][row'[u].epoch], "full") \in Stalls
    <3>1. CASE u = t
      BY <1>6, <1>8, <1>9, <3>1
    <3>2. CASE u # t
      BY <1>1, <1>8, <1>9, <1>13, <2>1, <3>2 DEF CountInv, Now
    <3>3. QED  BY <3>1, <3>2
  <2>2. QED  BY <2>1 DEF CountInv, Now, Leaf
<1>14. DetInv => DetInv'
  BY <1>1, Undisturbed
<1>15. DetInv /\ TodoInv /\ FindingInv => TodoInv' /\ FindingInv'
  <2>1. ASSUME NEW u \in Tasks
        PROVE  nudges'[u] \in {0, nudges[u]} /\ (row'[u].epoch = row[u].epoch \/ nudges'[u] = 0)
    BY <1>8, <1>9
  <2>2. QED  BY <1>1, <2>1, Uncounted
<1>16. QED  BY <1>10, <1>11, <1>12, <1>13, <1>14, <1>15 DEF RowInv

(* Time passes: what was silent is silent, and the clocks of a silence go on *)
(* together.                                                                *)
LEMMA RowsAged ==
    ASSUME RowInv, Tick
    PROVE  /\ RowInv' /\ (CountInv => CountInv')
           /\ DetInv => DetInv'
           /\ DetInv /\ TodoInv /\ FindingInv => TodoInv' /\ FindingInv'
<1>1. /\ UNCHANGED <<retired, det, heard, nudges, warned>>
      /\ run' = [t \in Tasks |-> [e \in Epochs |->
           IF Ages(t, e) THEN [run[t][e] EXCEPT !.age = Older(run[t][e].age)] ELSE run[t][e]]]
      /\ row' = [t \in Tasks |-> IF row[t].since = None THEN row[t]
                                 ELSE [row[t] EXCEPT !.since = Older(row[t].since)]]
      /\ told' = [t \in Tasks |-> IF told[t] = None THEN None ELSE Older(told[t])]
  BY DEF Tick
<1>2. ASSUME NEW t \in Tasks, NEW e \in Epochs
      PROVE  /\ run'[t][e] \in RunType /\ run'[t][e].mode = run[t][e].mode
             /\ run'[t][e].age >= run[t][e].age
  <2>1. PICK r \in RunType : r = run[t][e]
    BY Parts DEF RowInv
  <2>2. PICK n \in Ages0 : n = Older(r.age) /\ n >= r.age /\ r.age \in Nat
    BY Aged DEF RunType
  <2>3. PICK s \in RunType : s = [r EXCEPT !.age = n]
    BY <2>2 DEF RunType
  <2>4. run'[t][e] = IF Ages(t, e) THEN s ELSE r
    BY <1>1, <2>1, <2>2, <2>3
  <2>5. s.mode = r.mode /\ s.age = n
    BY <2>3 DEF RunType
  <2>6. QED  BY <2>1, <2>2, <2>4, <2>5
<1>3. run' \in [Tasks -> [Epochs -> RunType]]
  <2>1. ASSUME NEW t \in Tasks  PROVE run'[t] \in [Epochs -> RunType]
    <3>1. run'[t] = [e \in Epochs |-> IF Ages(t, e)
                       THEN [run[t][e] EXCEPT !.age = Older(run[t][e].age)] ELSE run[t][e]]
      BY <1>1
    <3>2. QED  BY <1>2, <3>1
  <2>2. QED  BY <1>1, <2>1
<1>4. ASSUME NEW t \in Tasks
      PROVE  /\ row'[t] \in RowType
             /\ row'[t].state = row[t].state /\ row'[t].epoch = row[t].epoch
             /\ row'[t].liveness = row[t].liveness /\ row'[t].wakes = row[t].wakes
             /\ row'[t].since = IF row[t].since = None THEN None ELSE Older(row[t].since)
             /\ row'[t].since = None <=> row[t].since = None
  <2>1. PICK r \in RowType : r = row[t]
    BY Parts DEF RowInv
  <2>2. CASE r.since = None
    BY <1>1, <2>1, <2>2
  <2>3. CASE r.since # None
    <3>1. r.since \in Ages0
      BY <2>3 DEF RowType
    <3>2. PICK n \in Ages0 : n = Older(r.since)
      BY <3>1, Aged
    <3>3. PICK s \in RowType : s = [r EXCEPT !.since = n]
      BY <3>2 DEF RowType
    <3>4. row'[t] = s
      BY <1>1, <2>1, <2>3, <3>2, <3>3
    <3>5. /\ s.state = r.state /\ s.epoch = r.epoch /\ s.liveness = r.liveness
          /\ s.wakes = r.wakes /\ s.since = n
      BY <3>3 DEF RowType
    <3>6. n # None
      BY Aged
    <3>7. QED  BY <2>1, <2>3, <3>2, <3>4, <3>5, <3>6
  <2>4. QED  BY <2>2, <2>3
<1>5. told' \in [Tasks -> Ages0 \cup {None}]
  <2>1. \A t \in Tasks : told[t] \in Ages0 \cup {None}
    BY Parts DEF RowInv
  <2>2. QED  BY <1>1, <2>1, Aged
<1>6. RowsTyped'
  <2>1. row' \in [Tasks -> RowType]
    BY <1>1, <1>4
  <2>2. \A t \in Tasks : RowOK(row'[t], t)
    BY <1>4 DEF RowInv, RowsTyped, RowOK
  <2>3. QED  BY <1>1, <1>3, <1>5, <2>1, <2>2 DEF RowInv, RowsTyped
<1>7. RunsInv'
  BY <1>1, <1>2, <1>4, Parts DEF RowInv, RunsInv, Now
<1>8. ToldInv'
  <2>1. ASSUME NEW t \in Tasks
        PROVE  /\ row'[t].wakes = 1 => told'[t] = row'[t].since
               /\ row'[t].wakes = 2 => told'[t] = Timeout
    <3>1. row[t].wakes > 0 => row[t].since # None /\ row[t].since \in Ages0
      BY Parts DEF RowInv, RowOK, RowType, Stalls
    <3>2. told'[t] = IF told[t] = None THEN None ELSE Older(told[t])
      BY <1>1
    <3>3. Older(Timeout) = Timeout /\ Timeout # None
      BY Aged DEF Older
    <3>4. /\ row[t].wakes = 1 => told[t] = row[t].since
          /\ row[t].wakes = 2 => told[t] = Timeout
      BY DEF RowInv, ToldInv
    <3>5. QED  BY <1>4, <3>1, <3>2, <3>3, <3>4
  <2>2. QED  BY <2>1 DEF ToldInv
<1>9. ASSUME CountInv  PROVE CountInv'
  <2>1. ASSUME NEW t \in Tasks, Leaf(t)
        PROVE  /\ nudges'[t] <= row'[t].wakes
               /\ nudges'[t] > 0 => Reason(run'[t][row'[t].epoch], "full") \in Stalls
    <3>1. /\ nudges[t] <= row[t].wakes
          /\ nudges[t] > 0 => Reason(run[t][row[t].epoch], "full") \in Stalls
      BY <1>9, <2>1 DEF CountInv, Now
    <3>2. PICK r \in RunType, s \in RunType :
             /\ r = run[t][row[t].epoch] /\ s = run'[t][row'[t].epoch]
             /\ s.mode = r.mode /\ s.age >= r.age
      BY <1>2, <1>4, Parts DEF RowInv
    <3>3. Reason(r, "full") \in Stalls => Reason(s, "full") \in Stalls
      BY <3>2, Lasting
    <3>4. QED  BY <1>1, <1>4, <3>1, <3>2, <3>3
  <2>2. QED  BY <2>1 DEF CountInv, Now, Leaf
<1>10. DetInv => DetInv'
  BY <1>1, <1>2, Undisturbed
<1>11. DetInv /\ TodoInv /\ FindingInv => TodoInv' /\ FindingInv'
  BY <1>1, <1>4, Uncounted
<1>12. QED  BY <1>6, <1>7, <1>8, <1>9, <1>10, <1>11 DEF RowInv

(* The reconciler dies. *)
LEMMA RowsRestarted ==
    ASSUME RowInv, Restart
    PROVE  RowInv' /\ (CountInv => CountInv') /\ DetInv' /\ TodoInv' /\ FindingInv'
<1>1. UNCHANGED <<row, run, retired, heard, nudges, told, warned>> /\ det' = Rest
  BY DEF Restart
<1>2. RowInv' /\ (CountInv => CountInv')
  BY <1>1, RowsSame DEF RowInv, RowsTyped, Items
<1>3. DetInv'
  BY <1>1 DEF DetInv, DetOK, DetType, LoseInv, Rest
<1>4. TodoInv' /\ FindingInv'
  BY <1>1 DEF TodoInv, FindingInv, Rest
<1>5. QED  BY <1>2, <1>3, <1>4

-----------------------------------------------------------------------------
(* What the pass does. *)

(* What a pass takes of the active tasks, whatever places it gives them. *)
LEMMA Took ==
    ASSUME RowInv, NEW S \in SUBSET Tasks, NEW P \in [Tasks -> Places],
           UNCHANGED <<row, nudges>>,
           \/ det' = [Rest EXCEPT !.pc = "next", !.todo = {Taken(t, P[t]) : t \in S}]
           \/ det' = [Rest EXCEPT !.pc = "next", !.stage = "sweep",
                                  !.todo = {Taken(t, P[t]) : t \in S}]
    PROVE  DetInv' /\ TodoInv' /\ FindingInv'
<1>1. PICK T : T = {Taken(t, P[t]) : t \in S}
  OBVIOUS
<1>2. ASSUME NEW a \in T
      PROVE  /\ a \in Entry /\ a.epoch = row[a.task].epoch
             /\ \E t \in S : a = Taken(t, P[t]) /\ a.task = t
  <2>1. PICK t \in S : a = Taken(t, P[t])
    BY <1>1, <1>2
  <2>2. row[t].epoch \in Epochs /\ t \in Tasks /\ P[t] \in Places
    BY Parts DEF RowInv
  <2>3. QED  BY <2>1, <2>2 DEF Taken, Entry
<1>3. \/ det' = [Rest EXCEPT !.pc = "next", !.todo = T]
      \/ det' = [Rest EXCEPT !.pc = "next", !.stage = "sweep", !.todo = T]
  BY <1>1
<1>4. T \in SUBSET Entry /\ (\A a, b \in T : a.task = b.task => a = b) /\ \A a \in T : a.task # None
  BY <1>2, Aged DEF Entry
<1>5. DetInv'
  BY <1>3, <1>4 DEF DetInv, DetOK, DetType, LoseInv, Rest
<1>6. det'.todo = T /\ det'.task = None /\ det'.pc = "next"
  BY <1>3 DEF Rest
<1>7. TodoInv'
  BY <1>2, <1>4, <1>6 DEF TodoInv
<1>8. FindingInv'
  BY <1>6 DEF FindingInv
<1>9. QED  BY <1>5, <1>7, <1>8

(* A pass begins with its slice, and ends with the sweep. *)
LEMMA PassTaken ==
    ASSUME RowInv, StartPass \/ EndPass
    PROVE  RowInv' /\ (CountInv => CountInv') /\ DetInv' /\ TodoInv' /\ FindingInv'
<1>1. UNCHANGED <<row, run, retired, nudges, told, warned>> /\ heard' \subseteq Items
  <2>1. \A t \in Tasks : row[t].epoch \in Epochs
    BY Parts DEF RowInv
  <2>2. heard \subseteq Items
    BY DEF RowInv, RowsTyped, Items
  <2>3. CASE StartPass
    BY <2>2, <2>3 DEF StartPass
  <2>4. CASE EndPass
    BY <2>1, <2>2, <2>4 DEF EndPass, Items
  <2>5. QED  BY <2>3, <2>4
<1>2. RowInv' /\ (CountInv => CountInv')
  BY <1>1, RowsSame
<1>3. CASE StartPass
  <2>1. \A t \in Tasks : Place(t) \in Places
    BY DEF Place, Places, Active
  <2>2. PICK P \in [Tasks -> Places] : P = [t \in Tasks |-> Place(t)]
    BY <2>1
  <2>3. PICK S \in SUBSET Tasks : S = {u \in Active : Place(u) < PerPass}
    BY DEF Active
  <2>4. {Taken(t, P[t]) : t \in S} = {Taken(t, Place(t)) : t \in S}
    BY <2>2
  <2>5. det' = [Rest EXCEPT !.pc = "next", !.todo = {Taken(t, P[t]) : t \in S}]
    BY <1>3, <2>3, <2>4 DEF StartPass
  <2>6. DetInv' /\ TodoInv' /\ FindingInv'
    BY <1>1, <2>5, Took
  <2>7. QED  BY <1>2, <2>6
<1>4. CASE EndPass
  <2>1. Rank \in [Tasks -> Places]
    BY DetectorAssumption DEF Places
  <2>2. det' = [Rest EXCEPT !.pc = "next", !.stage = "sweep",
                            !.todo = {Taken(t, Rank[t]) : t \in Active}]
    BY <1>4 DEF EndPass
  <2>3. Active \in SUBSET Tasks
    BY DEF Active
  <2>4. DetInv' /\ TodoInv' /\ FindingInv'
    BY <1>1, <2>1, <2>2, <2>3, Took
  <2>5. QED  BY <1>2, <2>4
<1>5. QED  BY <1>3, <1>4

(* The pass takes one task of those it has left, and its todo is without it. *)
LEMMA Taking ==
    ASSUME DetInv, NEW a \in det.todo, UNCHANGED <<row, nudges>>,
           det'.todo = det.todo \ {a}, det'.task \in {a.task, None}, TodoInv
    PROVE  TodoInv'
<1>1. det.todo \subseteq Entry
  BY DEF DetInv, DetType
<1>2. \A b \in det.todo : b.task # None
  BY <1>1, Aged DEF Entry
<1>3. ASSUME NEW b \in det.todo \ {a}
      PROVE  b.task # det'.task /\ (b.epoch # row[b.task].epoch => nudges[b.task] = 0)
  BY <1>2 DEF TodoInv
<1>4. \A b, c \in det.todo \ {a} : b.task = c.task => b = c
  BY DEF TodoInv
<1>5. QED  BY <1>3, <1>4 DEF TodoInv

(* It reads of a session and says what it finds: where the markers are read it *)
(* does not take for progress a silence it has woken the manager for.         *)
LEMMA Observed ==
    ASSUME RowInv, DetInv, NEW t \in Tasks, NEW read, Observe(t, read)
    PROVE  /\ RowInv' /\ (CountInv => CountInv') /\ DetInv'
           /\ ~Flaky /\ CountInv /\ TodoInv => TodoInv' /\ FindingInv'
<1>1. PICK a \in det.todo :
         /\ Up(a) /\ a.task = t /\ read \in Reads(run[t][a.epoch])
         /\ det' = [det EXCEPT !.task = t, !.epoch = a.epoch, !.todo = det.todo \ {a},
                               !.reason = Verdict(t, Reason(run[t][a.epoch], read)),
                               !.over = OverBudget(t, run[t][a.epoch], read),
                               !.pc = IF Verdict(t, Reason(run[t][a.epoch], read)) = "lost"
                                      THEN "lose" ELSE "apply"]
  BY DEF Observe
<1>2. UNCHANGED <<row, run, retired, heard, nudges, told, warned>>
  BY DEF Observe
<1>3. a.epoch \in Epochs /\ det \in DetType /\ det.todo \ {a} \in SUBSET Entry
  BY DEF DetInv, DetType, Entry
<1>4. PICK r \in RunType : r = run[t][a.epoch]
  BY <1>3, Parts DEF RowInv
<1>5. PICK reason \in Reasons :
         reason = Verdict(t, Reason(r, read)) /\ (reason = "lost" => r.mode = "killed")
  BY Said
<1>6. PICK over \in BOOLEAN : over = OverBudget(t, r, read)
  BY DEF OverBudget, Budgeted
<1>7. PICK pc \in {"lose", "apply"} : pc = IF reason = "lost" THEN "lose" ELSE "apply"
  OBVIOUS
<1>8. det' = [det EXCEPT !.task = t, !.epoch = a.epoch, !.todo = det.todo \ {a},
                         !.reason = reason, !.over = over, !.pc = pc]
  BY <1>1, <1>4, <1>5, <1>6, <1>7
<1>9. /\ det' \in DetType
      /\ det'.task = t /\ det'.epoch = a.epoch /\ det'.todo = det.todo \ {a}
      /\ det'.reason = reason /\ det'.pc = pc
  BY <1>3, <1>8 DEF DetType
<1>10. DetInv'
  <2>1. DetOK(det')
    BY <1>3, <1>7, <1>9, Aged DEF DetOK
  <2>2. LoseInv'
    BY <1>2, <1>4, <1>5, <1>7, <1>9 DEF LoseInv
  <2>3. QED  BY <1>9, <2>1, <2>2 DEF DetInv
<1>11. RowInv' /\ (CountInv => CountInv')
  BY <1>2, RowsSame DEF RowInv, RowsTyped, Items
<1>12. ASSUME ~Flaky, CountInv, TodoInv  PROVE TodoInv' /\ FindingInv'
  <2>1. TodoInv'
    BY <1>1, <1>2, <1>9, <1>12, Taking
  <2>2. ASSUME Leaf(t), reason \in {"live", "parked"}  PROVE nudges[t] = 0
    <3>1. CASE a.epoch # row[t].epoch
      BY <1>1, <1>12, <3>1 DEF TodoInv
    <3>2. CASE a.epoch = row[t].epoch
      <4>1. reason = Reason(r, read) /\ r = Now(t) /\ read \in Reads(r)
        BY <1>1, <1>4, <1>5, <2>2, <3>2, Said DEF Now
      <4>2. Reason(r, "full") \in Stalls => Reason(r, read) \in Stalls \cup {"unknown"}
        BY <1>12, <4>1, Steady
      <4>3. nudges[t] > 0 => Reason(r, "full") \in Stalls
        BY <1>12, <2>2, <4>1 DEF CountInv
      <4>4. nudges[t] \in Nat
        BY Parts DEF RowInv
      <4>5. "live" \notin Stalls \cup {"unknown"} /\ "parked" \notin Stalls \cup {"unknown"}
        BY DEF Stalls
      <4>6. QED  BY <2>2, <4>1, <4>2, <4>3, <4>4, <4>5
    <3>3. QED  BY <3>1, <3>2
  <2>3. FindingInv'
    BY <1>2, <1>9, <2>2 DEF FindingInv, Leaf
  <2>4. QED  BY <2>1, <2>3
<1>13. QED  BY <1>10, <1>11, <1>12

(* The pass goes on to the next task, or ends before its time. *)
LEMMA WentOn ==
    ASSUME DetInv, UNCHANGED nudges, \A t \in Tasks : row'[t].epoch = row[t].epoch,
           Onward \/ det' = Done("next")
    PROVE  DetInv' /\ (TodoInv => TodoInv') /\ FindingInv'
<1>1. PICK d : d = Done("next")
  OBVIOUS
<1>2. det \in DetType
  BY DEF DetInv
<1>3. d \in DetType /\ d.pc = "next" /\ d.task = None /\ d.todo = det.todo
  BY <1>1, <1>2 DEF Done, DetType
<1>4. det' = d \/ det' = [d EXCEPT !.todo = {}]
  BY <1>1 DEF Onward
<1>5. det' \in DetType /\ det'.pc = "next" /\ det'.task = None /\ det'.todo \subseteq det.todo
  BY <1>3, <1>4 DEF DetType
<1>6. DetInv'
  BY <1>5 DEF DetInv, DetOK, LoseInv
<1>7. ASSUME TodoInv  PROVE TodoInv'
  <2>1. \A a \in det.todo : a.task \in Tasks
    BY <1>2 DEF DetType, Entry
  <2>2. QED  BY <1>5, <1>7, <2>1, Aged DEF TodoInv
<1>8. FindingInv'
  BY <1>5 DEF FindingInv
<1>9. QED  BY <1>6, <1>7, <1>8

(* The pass stays with its task. *)
LEMMA Stayed ==
    ASSUME DetInv, det.pc \in {"apply", "after"}, NEW pc \in {"after", "approval"},
           det' = [det EXCEPT !.pc = pc]
    PROVE  DetInv' /\ FindingInv' /\ det'.todo = det.todo /\ det'.task = det.task
<1>1. det \in DetType /\ DetOK(det)
  BY DEF DetInv
<1>2. /\ det' \in DetType /\ det'.pc = pc /\ det'.task = det.task /\ det'.epoch = det.epoch
      /\ det'.reason = det.reason /\ det'.todo = det.todo
  BY <1>1 DEF DetType
<1>3. QED  BY <1>1, <1>2 DEF DetInv, DetOK, LoseInv, FindingInv

(* The sweep takes a task, and only a dead one to record it lost. *)
LEMMA Swept ==
    ASSUME RowInv, DetInv, SweepLosses
    PROVE  RowInv' /\ (CountInv => CountInv') /\ DetInv' /\ (TodoInv => TodoInv') /\ FindingInv'
<1>1. UNCHANGED <<row, run, retired, heard, nudges, told, warned>>
  BY DEF SweepLosses
<1>2. RowInv' /\ (CountInv => CountInv')
  BY <1>1, RowsSame DEF RowInv, RowsTyped, Items
<1>3. det \in DetType /\ DetOK(det) /\ det.pc = "next" /\ det.task = None
  BY DEF DetInv, DetOK, SweepLosses
<1>4. CASE det' = Rest
  <2>1. DetInv'
    BY <1>4 DEF DetInv, DetOK, DetType, LoseInv, Rest
  <2>2. TodoInv' /\ FindingInv'
    BY <1>4 DEF TodoInv, FindingInv, Rest
  <2>3. QED  BY <1>2, <2>1, <2>2
<1>5. ASSUME NEW a \in det.todo, row[a.task].epoch = a.epoch, Now(a.task).mode = "killed",
             det' = [det EXCEPT !.pc = "lose", !.todo = det.todo \ {a}, !.reason = "lost",
                                !.task = a.task, !.epoch = a.epoch]
      PROVE  DetInv' /\ (TodoInv => TodoInv') /\ FindingInv'
  <2>1. a.task \in Tasks /\ a.epoch \in Epochs /\ det.todo \ {a} \in SUBSET Entry
    BY <1>3 DEF DetType, Entry
  <2>2. "lost" \in Reasons
    BY DEF Reasons
  <2>3. /\ det' \in DetType /\ det'.pc = "lose" /\ det'.todo = det.todo \ {a}
        /\ det'.task = a.task /\ det'.epoch = a.epoch
    BY <1>3, <1>5, <2>1, <2>2 DEF DetType
  <2>4. DetInv'
    BY <1>1, <1>5, <2>1, <2>3, Aged DEF DetInv, DetOK, LoseInv, Now
  <2>5. TodoInv => TodoInv'
    BY <1>1, <2>3, Taking
  <2>6. QED  BY <2>3, <2>4, <2>5 DEF FindingInv
<1>6. ASSUME NEW a \in det.todo, det' = [det EXCEPT !.todo = det.todo \ {a}]
      PROVE  DetInv' /\ (TodoInv => TodoInv') /\ FindingInv'
  <2>1. /\ det' \in DetType /\ det'.pc = "next" /\ det'.todo = det.todo \ {a} /\ det'.task = None
    BY <1>3, <1>6 DEF DetType
  <2>2. TodoInv => TodoInv'
    BY <1>1, <2>1, Taking
  <2>3. QED  BY <2>1, <2>2 DEF DetInv, DetOK, LoseInv, FindingInv
<1>7. QED  BY <1>2, <1>4, <1>5, <1>6 DEF SweepLosses

(* It reads the row again and tells a human, waits for a fence, or goes on. *)
LEMMA Afterwards ==
    ASSUME RowInv, DetInv, After
    PROVE  RowInv' /\ (CountInv => CountInv') /\ DetInv' /\ (TodoInv => TodoInv') /\ FindingInv'
<1>1. UNCHANGED <<row, run, retired, nudges, told, warned>> /\ det.pc = "after"
  BY DEF After
<1>2. det.task \in Tasks /\ row[det.task].epoch \in Epochs
  BY <1>1, Parts DEF RowInv, DetInv, DetOK, DetType
<1>3. heard' \subseteq Items
  BY <1>2 DEF After, Tell, RowInv, RowsTyped, Items
<1>4. RowInv' /\ (CountInv => CountInv')
  BY <1>1, <1>3, RowsSame
<1>5. CASE Onward
  <2>1. \A u \in Tasks : row'[u].epoch = row[u].epoch
    BY <1>1
  <2>2. DetInv' /\ (TodoInv => TodoInv') /\ FindingInv'
    BY <1>1, <1>5, <2>1, WentOn
  <2>3. QED  BY <1>4, <2>2
<1>6. CASE det' = [det EXCEPT !.pc = "approval"]
  <2>1. DetInv' /\ FindingInv' /\ det'.todo = det.todo /\ det'.task = det.task
    BY <1>1, <1>6, Stayed
  <2>2. TodoInv => TodoInv'
    BY <1>1, <2>1 DEF TodoInv
  <2>3. QED  BY <1>4, <2>1, <2>2
<1>7. QED  BY <1>5, <1>6 DEF After

(* It has the fence: the task is blocked on its approval, or lost. *)
LEMMA Ended ==
    ASSUME RowInv, DetInv, BlockOnApproval \/ RecordLoss
    PROVE  RowInv' /\ (CountInv => CountInv') /\ DetInv' /\ (TodoInv => TodoInv') /\ FindingInv'
<1>1. /\ UNCHANGED <<run, retired, nudges, told, warned>> /\ det.pc \in {"approval", "lose"}
      /\ Onward \/ det' = Done("next")
  BY DEF BlockOnApproval, RecordLoss
<1>2. det.task \in Tasks /\ row[det.task].epoch \in Epochs
  BY <1>1, Parts DEF RowInv, DetInv, DetOK, DetType
<1>3. heard' \subseteq Items
  BY <1>2 DEF BlockOnApproval, RecordLoss, Tell, RowInv, RowsTyped, Items
<1>4. \/ UNCHANGED row
      \/ row' = [row EXCEPT ![det.task].state = "blocked"]
      \/ row' = [row EXCEPT ![det.task].state = "lost"]
  BY DEF BlockOnApproval, RecordLoss
<1>5. /\ RowInv' /\ (CountInv => CountInv')
      /\ \A u \in Tasks : row'[u].epoch = row[u].epoch
  <2>1. CASE UNCHANGED row
    BY <1>1, <1>3, <2>1, RowsSame
  <2>2. CASE row' = [row EXCEPT ![det.task].state = "blocked"]
    BY <1>1, <1>2, <1>3, <2>2, RowsState DEF Moved
  <2>3. CASE row' = [row EXCEPT ![det.task].state = "lost"]
    BY <1>1, <1>2, <1>3, <2>3, RowsState DEF Moved
  <2>4. QED  BY <1>4, <2>1, <2>2, <2>3
<1>6. DetInv' /\ (TodoInv => TodoInv') /\ FindingInv'
  BY <1>1, <1>5, WentOn
<1>7. QED  BY <1>5, <1>6

-----------------------------------------------------------------------------
(* A finding is applied. *)

(* The row with the finding on it, and with the flag. *)
Labelled(t) ==
  IF row[t].state \in LiveStates /\ det.reason # "unknown"
  THEN Recorded(row[t], det.reason) ELSE row[t]
Seen(t) == IF det.over THEN Flagged(Labelled(t)) ELSE Labelled(t)

(* A finding keeps the wakes of an episode with their clock, or ends it; a *)
(* silence does not end one.                                              *)
LEMMA Recording ==
    ASSUME NEW t \in Tasks, NEW r \in RowType, RowOK(r, t),
           NEW l \in Reasons \ {"lost", "unknown"}
    PROVE  LET x == Recorded(r, l)
           IN  /\ x \in RowType /\ RowOK(x, t) /\ x.state = r.state /\ x.epoch = r.epoch
               /\ x.wakes > 0 => x.wakes = r.wakes /\ x.since = r.since
               /\ l \in {"live", "parked"} \/ x.wakes = r.wakes
<1>1. PICK x : x = Recorded(r, l)
  OBVIOUS
<1>2. /\ l \in Stalls \cup {"live", "parked"} /\ None \notin Ages0 /\ 0 \in Ages0 /\ 0 \in 0..2
      /\ "live" \notin Stalls /\ "parked" \notin Stalls
  BY Aged DEF Reasons, Stalls
<1>3. /\ r.liveness \in Stalls \cup {"live", "parked"} /\ r.wakes \in Nat
      /\ r.since \in Ages0 \cup {None}
  BY DEF RowType
<1>4. CASE Stretch(r.liveness) = Stretch(l)
  <2>1. x = [r EXCEPT !.liveness = l]
    BY <1>1, <1>4 DEF Recorded
  <2>2. /\ x \in RowType /\ x.liveness = l /\ x.since = r.since /\ x.wakes = r.wakes
        /\ x.state = r.state /\ x.epoch = r.epoch
    BY <1>2, <2>1 DEF RowType
  <2>3. /\ r.liveness = "live" <=> l = "live"
        /\ r.liveness \in Stalls <=> l \in Stalls
    BY <1>2, <1>3, <1>4 DEF Stretch
  <2>4. RowOK(x, t)
    BY <2>2, <2>3 DEF RowOK
  <2>5. QED  BY <1>1, <2>2, <2>4
<1>5. CASE Stretch(r.liveness) # Stretch(l)
  <2>1. PICK n \in Ages0 \cup {None} : n = IF l = "live" THEN None ELSE 0
    BY <1>2
  <2>2. PICK y \in RowType : y = [r EXCEPT !.liveness = l]
    BY <1>2 DEF RowType
  <2>3. PICK z \in RowType : z = [y EXCEPT !.wakes = 0]
    BY <1>2 DEF RowType
  <2>4. PICK w \in RowType : w = [z EXCEPT !.since = n]
    BY DEF RowType
  <2>5. x = w
    BY <1>1, <1>5, <2>1, <2>2, <2>3, <2>4 DEF Recorded, RowType
  <2>6. /\ x \in RowType /\ x.liveness = l /\ x.since = n /\ x.wakes = 0
        /\ x.state = r.state /\ x.epoch = r.epoch
    BY <2>2, <2>3, <2>4, <2>5 DEF RowType
  <2>7. RowOK(x, t)
    BY <1>2, <2>1, <2>6 DEF RowOK
  <2>8. l \in {"live", "parked"} \/ r.wakes = 0
    <3>1. l \in Stalls => r.liveness \notin Stalls
      BY <1>2, <1>5 DEF Stretch
    <3>2. QED  BY <1>2, <1>3, <3>1 DEF RowOK
  <2>9. QED  BY <1>1, <2>6, <2>7, <2>8
<1>6. QED  BY <1>4, <1>5

(* The row that the transaction has before it arms a wake. *)
LEMMA Seeing ==
    ASSUME RowInv, DetInv, det.pc = "apply"
    PROVE  LET t == det.task
               x == Seen(t)
           IN  /\ t \in Tasks /\ x \in RowType /\ RowOK(x, t)
               /\ x.state = row[t].state /\ x.epoch = row[t].epoch
               /\ x.wakes > 0 => x.wakes = row[t].wakes /\ x.since = row[t].since
               /\ det.reason \in {"live", "parked"} \/ x.wakes = row[t].wakes
<1>1. PICK t \in Tasks : t = det.task
  BY DEF DetInv, DetOK, DetType
<1>2. det.reason \in Reasons \ {"lost"}
  BY DEF DetInv, DetOK
<1>3. PICK r \in RowType : r = row[t] /\ RowOK(r, t)
  BY Parts DEF RowInv
<1>4. PICK y : y = Labelled(t)
  OBVIOUS
<1>5. /\ y \in RowType /\ RowOK(y, t) /\ y.state = r.state /\ y.epoch = r.epoch
      /\ y.wakes > 0 => y.wakes = r.wakes /\ y.since = r.since
      /\ det.reason \in {"live", "parked"} \/ y.wakes = r.wakes
  <2>1. CASE r.state \in LiveStates /\ det.reason # "unknown"
    <3>1. y = Recorded(r, det.reason)
      BY <1>3, <1>4, <2>1 DEF Labelled
    <3>2. det.reason \in Reasons \ {"lost", "unknown"}
      BY <1>2, <2>1
    <3>3. QED  BY <1>3, <3>1, <3>2, Recording
  <2>2. CASE ~(r.state \in LiveStates /\ det.reason # "unknown")
    BY <1>3, <1>4, <2>2 DEF Labelled
  <2>3. QED  BY <2>1, <2>2
<1>6. PICK x : x = Seen(t)
  OBVIOUS
<1>7. x = y \/ x = [y EXCEPT !.over = TRUE]
  BY <1>4, <1>6 DEF Seen, Flagged
<1>8. /\ x \in RowType /\ x.state = y.state /\ x.epoch = y.epoch /\ x.liveness = y.liveness
      /\ x.since = y.since /\ x.wakes = y.wakes
  BY <1>5, <1>7 DEF RowType
<1>9. RowOK(x, t)
  BY <1>5, <1>8 DEF RowOK
<1>10. QED  BY <1>1, <1>3, <1>5, <1>6, <1>8, <1>9

(* What the transaction does: it writes the row it sees, or arms a wake. *)
LEMMA Applying ==
    ASSUME RowInv, DetInv, Apply
    PROVE  /\ UNCHANGED <<run, retired, heard>> /\ det.pc = "apply"
           /\ \/ Onward /\ UNCHANGED <<row, nudges, told, warned>>
              \/ /\ det' = [det EXCEPT !.pc = "after"]
                 /\ warned' \in {warned, warned \cup {<<det.task, Seen(det.task).epoch>>}}
                 /\ \/ /\ row' = [row EXCEPT ![det.task] = Seen(det.task)]
                       /\ UNCHANGED <<nudges, told>>
                    \/ /\ Due(Seen(det.task), det.task)
                       /\ row' = [row EXCEPT ![det.task] =
                                    [Seen(det.task) EXCEPT !.wakes = Seen(det.task).wakes + 1,
                                                           !.since = 0]]
                       /\ \/ UNCHANGED nudges
                          \/ /\ Reason(Now(det.task), "full") \in Stalls
                             /\ nudges' = [nudges EXCEPT ![det.task] = nudges[det.task] + 1]
                       /\ told' = IF Seen(det.task).wakes = 0 THEN [told EXCEPT ![det.task] = 0]
                                  ELSE told
<1>1. UNCHANGED <<run, retired, heard>> /\ det.pc = "apply"
  BY DEF Apply
<1>2. CASE det.reason = "unknown" /\ ~det.over
  BY <1>1, <1>2 DEF Apply
<1>3. CASE ~(det.reason = "unknown" /\ ~det.over)
  <2>1. PICK x : x = Seen(det.task)
    OBVIOUS
  <2>2. /\ IF Due(x, det.task)
           THEN /\ row' = [row EXCEPT ![det.task] = [x EXCEPT !.wakes = x.wakes + 1, !.since = 0]]
                /\ nudges' = IF Reason(Now(det.task), "full") \in Stalls
                             THEN [nudges EXCEPT ![det.task] = nudges[det.task] + 1] ELSE nudges
                /\ told' = IF x.wakes = 0 THEN [told EXCEPT ![det.task] = 0] ELSE told
           ELSE row' = [row EXCEPT ![det.task] = x] /\ UNCHANGED <<nudges, told>>
        /\ warned' = IF x.over /\ x.state = "active" /\ Parent[det.task] # None
                     THEN warned \cup {<<det.task, x.epoch>>} ELSE warned
        /\ det' = [det EXCEPT !.pc = "after"]
    BY <1>3, <2>1 DEF Apply, Seen, Labelled
  <2>3. warned' \in {warned, warned \cup {<<det.task, x.epoch>>}}
    BY <2>2
  <2>4. CASE Due(x, det.task)
    BY <1>1, <2>1, <2>2, <2>3, <2>4
  <2>5. CASE ~Due(x, det.task)
    BY <1>1, <2>1, <2>2, <2>3, <2>5
  <2>6. QED  BY <2>4, <2>5
<1>4. QED  BY <1>2, <1>3

(* The row of a task that was x is written as y, and what follows for the clock *)
(* of its first wake and for the count of its wakes.                           *)
Written(t, x, y) ==
  /\ row' = [row EXCEPT ![t] = y] /\ RowOK(y, t)
  /\ y.state = row[t].state /\ y.epoch = row[t].epoch
  /\ told' \in [Tasks -> Ages0 \cup {None}] /\ \A u \in Tasks \ {t} : told'[u] = told[u]
  /\ y.wakes = 1 => told'[t] = y.since
  /\ y.wakes = 2 => told'[t] = Timeout
  /\ nudges' \in [Tasks -> Nat] /\ \A u \in Tasks \ {t} : nudges'[u] = nudges[u]
  /\ \/ y.wakes = x.wakes /\ nudges'[t] = nudges[t]
     \/ y.wakes = x.wakes + 1
        /\ \/ nudges'[t] = nudges[t]
           \/ /\ nudges'[t] = nudges[t] + 1
              /\ Reason(Now(t), "full") \in Stalls

(* A finding that says a session moved is of one whose manager has had no wake, *)
(* and one that arms a wake counts it on the row.                              *)
LEMMA Applied ==
    ASSUME RowInv, DetInv, Apply
    PROVE  /\ RowInv' /\ DetInv' /\ FindingInv'
           /\ CountInv /\ TodoInv /\ FindingInv => CountInv' /\ TodoInv'
           /\ \A u \in Tasks : row'[u].state = row[u].state
<1>1. UNCHANGED <<run, retired, heard>> /\ det.pc = "apply"
  BY Applying
<1>2. CASE Onward /\ UNCHANGED <<row, nudges, told, warned>>
  <2>1. RowInv' /\ (CountInv => CountInv')
    BY <1>1, <1>2, RowsSame DEF RowInv, RowsTyped, Items
  <2>2. \A u \in Tasks : row'[u].epoch = row[u].epoch /\ row'[u].state = row[u].state
    BY <1>2
  <2>3. DetInv' /\ (TodoInv => TodoInv') /\ FindingInv'
    BY <1>2, <2>2, WentOn
  <2>4. QED  BY <2>1, <2>2, <2>3
<1>3. PICK t \in Tasks, x \in RowType : t = det.task /\ x = Seen(t)
  BY <1>1, Seeing
<1>4. /\ RowOK(x, t) /\ x.state = row[t].state /\ x.epoch = row[t].epoch
      /\ x.wakes > 0 => x.wakes = row[t].wakes /\ x.since = row[t].since
      /\ det.reason \in {"live", "parked"} \/ x.wakes = row[t].wakes
  BY <1>1, <1>3, Seeing
<1>5. CASE ~(Onward /\ UNCHANGED <<row, nudges, told, warned>>)
  <2>1. /\ det' = [det EXCEPT !.pc = "after"]
        /\ warned' \in {warned, warned \cup {<<t, x.epoch>>}}
        /\ \/ row' = [row EXCEPT ![t] = x] /\ UNCHANGED <<nudges, told>>
           \/ /\ Due(x, t)
              /\ row' = [row EXCEPT ![t] = [x EXCEPT !.wakes = x.wakes + 1, !.since = 0]]
              /\ \/ UNCHANGED nudges
                 \/ /\ Reason(Now(t), "full") \in Stalls
                    /\ nudges' = [nudges EXCEPT ![t] = nudges[t] + 1]
              /\ told' = IF x.wakes = 0 THEN [told EXCEPT ![t] = 0] ELSE told
    BY <1>3, <1>5, Applying
  <2>2. /\ row \in [Tasks -> RowType] /\ nudges \in [Tasks -> Nat] /\ nudges[t] \in Nat
        /\ told \in [Tasks -> Ages0 \cup {None}] /\ x.wakes \in 0..2 /\ x.epoch \in Epochs
        /\ row[t].wakes \in Nat
    BY Parts DEF RowInv, RowsTyped, RowType
  <2>3. \E y \in RowType : Written(t, x, y)
    <3>1. /\ row[t].wakes = 1 => told[t] = row[t].since
          /\ row[t].wakes = 2 => told[t] = Timeout
      BY DEF RowInv, ToldInv
    <3>2. CASE row' = [row EXCEPT ![t] = x] /\ UNCHANGED <<nudges, told>>
      <4>1. Written(t, x, x)
        BY <1>4, <2>2, <3>1, <3>2 DEF Written
      <4>2. QED  BY <4>1
    <3>3. CASE /\ Due(x, t)
               /\ row' = [row EXCEPT ![t] = [x EXCEPT !.wakes = x.wakes + 1, !.since = 0]]
               /\ \/ UNCHANGED nudges
                  \/ /\ Reason(Now(t), "full") \in Stalls
                     /\ nudges' = [nudges EXCEPT ![t] = nudges[t] + 1]
               /\ told' = IF x.wakes = 0 THEN [told EXCEPT ![t] = 0] ELSE told
      <4>1. x.wakes \in {0, 1} /\ Parent[t] # None /\ x.liveness \in Stalls
        BY <3>3 DEF Due
      <4>2. PICK n \in 0..2 : n = x.wakes + 1
        BY <4>1
      <4>3. PICK w \in RowType : w = [x EXCEPT !.wakes = n]
        BY DEF RowType
      <4>4. PICK y \in RowType : y = [w EXCEPT !.since = 0]
        BY Aged DEF RowType
      <4>5. row' = [row EXCEPT ![t] = y]
        <5>1. [x EXCEPT !.wakes = n, !.since = 0] = y
          BY <4>3, <4>4 DEF RowType
        <5>2. QED  BY <3>3, <4>2, <5>1
      <4>6. /\ y.state = x.state /\ y.epoch = x.epoch /\ y.liveness = x.liveness
            /\ y.since = 0 /\ y.wakes = n
        BY <4>3, <4>4 DEF RowType
      <4>7. RowOK(y, t)
        <5>1. 0 # None /\ "live" \notin Stalls
          BY Aged DEF Stalls
        <5>2. QED  BY <4>1, <4>6, <5>1 DEF RowOK
      <4>8. /\ told' \in [Tasks -> Ages0 \cup {None}] /\ \A u \in Tasks \ {t} : told'[u] = told[u]
            /\ y.wakes = 1 => told'[t] = y.since
            /\ y.wakes = 2 => told'[t] = Timeout
        <5>1. 0 \in Ages0
          BY Aged
        <5>2. x.wakes = 1 => told[t] = Timeout
          BY <1>4, <3>1, <3>3 DEF Due
        <5>3. CASE x.wakes = 0
          BY <2>2, <3>3, <4>2, <4>6, <5>1, <5>3
        <5>4. CASE x.wakes = 1
          BY <2>2, <3>3, <4>2, <4>6, <5>2, <5>4
        <5>5. QED  BY <4>1, <5>3, <5>4
      <4>9. /\ nudges' \in [Tasks -> Nat] /\ \A u \in Tasks \ {t} : nudges'[u] = nudges[u]
            /\ \/ nudges'[t] = nudges[t]
               \/ /\ nudges'[t] = nudges[t] + 1
                  /\ Reason(Now(t), "full") \in Stalls
        BY <2>2, <3>3
      <4>10. y.state = row[t].state /\ y.epoch = row[t].epoch /\ y.wakes = x.wakes + 1
        BY <1>4, <4>2, <4>6
      <4>11. Written(t, x, y)
        BY <4>5, <4>7, <4>8, <4>9, <4>10 DEF Written
      <4>12. QED  BY <4>11
    <3>4. QED  BY <2>1, <3>2, <3>3
  <2>4. PICK y \in RowType :
          /\ row' = [row EXCEPT ![t] = y] /\ RowOK(y, t)
          /\ y.state = row[t].state /\ y.epoch = row[t].epoch
          /\ told' \in [Tasks -> Ages0 \cup {None}] /\ \A u \in Tasks \ {t} : told'[u] = told[u]
          /\ y.wakes = 1 => told'[t] = y.since
          /\ y.wakes = 2 => told'[t] = Timeout
          /\ nudges' \in [Tasks -> Nat] /\ \A u \in Tasks \ {t} : nudges'[u] = nudges[u]
          /\ \/ y.wakes = x.wakes /\ nudges'[t] = nudges[t]
             \/ y.wakes = x.wakes + 1
                /\ \/ nudges'[t] = nudges[t]
                   \/ /\ nudges'[t] = nudges[t] + 1
                      /\ Reason(Now(t), "full") \in Stalls
    BY <2>3 DEF Written
  <2>5. /\ row' \in [Tasks -> RowType] /\ row'[t] = y
        /\ \A u \in Tasks \ {t} : row'[u] = row[u]
        /\ \A u \in Tasks : row'[u].state = row[u].state /\ row'[u].epoch = row[u].epoch
    BY <2>2, <2>4
  <2>6. RowsTyped'
    <3>1. \A u \in Tasks : RowOK(row'[u], u)
      BY <2>4, <2>5 DEF RowInv, RowsTyped
    <3>2. warned' \subseteq Tasks \X Epochs
      BY <2>1, <2>2 DEF RowInv, RowsTyped
    <3>3. QED  BY <1>1, <2>4, <2>5, <3>1, <3>2 DEF RowInv, RowsTyped
  <2>7. RunsInv'
    BY <1>1, <2>5 DEF RowInv, RunsInv, Now
  <2>8. ToldInv'
    BY <2>4, <2>5 DEF RowInv, ToldInv
  <2>9. DetInv' /\ FindingInv' /\ det'.todo = det.todo /\ det'.task = det.task
    BY <1>1, <2>1, Stayed
  <2>10. ASSUME TodoInv  PROVE TodoInv'
    <3>1. \A a \in det.todo : a.task \in Tasks \ {t}
      BY <1>3, <2>10 DEF TodoInv, DetInv, DetType, Entry
    <3>2. QED  BY <2>4, <2>5, <2>9, <2>10, <3>1 DEF TodoInv
  <2>11. ASSUME CountInv, FindingInv  PROVE CountInv'
    <3>1. ASSUME NEW u \in Tasks, Leaf(u)
          PROVE  /\ nudges'[u] <= row'[u].wakes
                 /\ nudges'[u] > 0 => Reason(run'[u][row'[u].epoch], "full") \in Stalls
      <4>1. /\ nudges[u] <= row[u].wakes
            /\ nudges[u] > 0 => Reason(run[u][row[u].epoch], "full") \in Stalls
        BY <2>11, <3>1 DEF CountInv, Now
      <4>2. CASE u # t
        BY <1>1, <2>4, <2>5, <4>1, <4>2
      <4>3. CASE u = t
        <5>1. nudges[t] <= x.wakes
          <6>1. CASE det.reason \in {"live", "parked"}
            BY <1>1, <1>3, <2>2, <2>11, <3>1, <4>3, <6>1 DEF FindingInv
          <6>2. CASE x.wakes = row[t].wakes
            BY <4>1, <4>3, <6>2
          <6>3. QED  BY <1>4, <6>1, <6>2
        <5>2. nudges'[t] <= y.wakes
          BY <2>2, <2>4, <5>1
        <5>3. nudges'[t] > 0 => Reason(run[t][row[t].epoch], "full") \in Stalls
          BY <2>2, <2>4, <4>1, <4>3 DEF Now
        <5>4. QED  BY <1>1, <2>4, <2>5, <4>3, <5>2, <5>3
      <4>4. QED  BY <4>2, <4>3
    <3>2. QED  BY <3>1 DEF CountInv, Now, Leaf
  <2>12. QED  BY <2>5, <2>6, <2>7, <2>8, <2>9, <2>10, <2>11 DEF RowInv
<1>6. QED  BY <1>2, <1>5

-----------------------------------------------------------------------------
(* The invariants. *)

(* Managers run, their children are reserved, and there is no silence yet. *)
LEMMA Begins ==
    ASSUME Init
    PROVE  IInv /\ WakeInv
<1>1. PICK r \in RowType, a \in RowType :
         /\ r = NewRow /\ a = [NewRow EXCEPT !.state = "active"]
         /\ r.state = "reserved" /\ a.state = "active" /\ r.epoch = 1 /\ a.epoch = 1
         /\ r.liveness = "live" /\ a.liveness = "live" /\ r.since = None /\ a.since = None
         /\ r.wakes = 0 /\ a.wakes = 0
  <2>1. PICK r \in RowType : r = NewRow
    <3>1. /\ "reserved" \in LiveStates \cup {"completed", "lost"} /\ 1 \in Epochs
          /\ "live" \in Stalls \cup {"live", "parked"} /\ None \in Ages0 \cup {None} /\ 0 \in 0..2
      BY Aged DEF LiveStates
    <3>2. QED  BY <3>1 DEF RowType, NewRow
  <2>2. PICK a \in RowType : a = [r EXCEPT !.state = "active"]
    BY DEF RowType, LiveStates
  <2>3. /\ r.state = "reserved" /\ r.epoch = 1 /\ r.liveness = "live" /\ r.since = None
        /\ r.wakes = 0
    BY <2>1 DEF NewRow
  <2>4. /\ a.state = "active" /\ a.epoch = 1 /\ a.liveness = "live" /\ a.since = None
        /\ a.wakes = 0
    BY <2>2, <2>3 DEF RowType
  <2>5. QED  BY <2>1, <2>2, <2>3, <2>4
<1>2. PICK n \in RunType, b \in RunType :
         n = NoRun /\ b = [NoRun EXCEPT !.mode = "busy", !.turns = 1] /\ n.mode = "none"
  <2>1. PICK n \in RunType : n = NoRun /\ n.mode = "none"
    <3>1. "none" \in Modes /\ 0 \in Ages0 /\ 0 \in Nat
      BY Aged DEF Modes
    <3>2. PICK n \in RunType : n = NoRun
      BY <3>1 DEF RunType, NoRun
    <3>3. QED  BY <3>2 DEF NoRun
  <2>2. PICK b \in RunType : b = [n EXCEPT !.mode = "busy", !.turns = 1]
    BY DEF RunType, Modes
  <2>3. QED  BY <2>1, <2>2
<1>3. /\ row = [t \in Tasks |-> IF Parent[t] = None THEN a ELSE r]
      /\ run = [t \in Tasks |-> [e \in Epochs |-> IF Parent[t] = None /\ e = 1 THEN b ELSE n]]
      /\ retired = {} /\ heard = {} /\ warned = {} /\ det = Rest
      /\ nudges = [t \in Tasks |-> 0] /\ told = [t \in Tasks |-> None]
  BY <1>1, <1>2 DEF Init
<1>4. ASSUME NEW t \in Tasks
      PROVE  /\ row[t] \in RowType /\ RowOK(row[t], t) /\ row[t].epoch = 1 /\ row[t].wakes = 0
             /\ row[t].state \in {"reserved", "replacing"} => Parent[t] # None
  BY <1>1, <1>3 DEF RowOK
<1>5. RowsTyped
  <2>1. row \in [Tasks -> RowType] /\ \A t \in Tasks : RowOK(row[t], t)
    BY <1>3, <1>4
  <2>2. run \in [Tasks -> [Epochs -> RunType]]
    BY <1>3
  <2>3. nudges \in [Tasks -> Nat] /\ told \in [Tasks -> Ages0 \cup {None}]
    BY <1>3
  <2>4. QED  BY <1>3, <2>1, <2>2, <2>3 DEF RowsTyped
<1>6. RunsInv
  <2>1. ASSUME NEW t \in Tasks
        PROVE  /\ row[t].state \in {"reserved", "replacing"} => run[t][row[t].epoch].mode = "none"
               /\ \A e \in Epochs : e > row[t].epoch => run[t][e].mode = "none"
    <3>1. \A e \in Epochs : Parent[t] # None \/ e # 1 => run[t][e].mode = "none"
      BY <1>2, <1>3
    <3>2. QED  BY <1>4, <3>1, Aged
  <2>2. QED  BY <1>3, <2>1 DEF RunsInv, Now
<1>7. ToldInv
  BY <1>4 DEF ToldInv
<1>8. DetInv
  BY <1>3 DEF DetInv, DetOK, DetType, LoseInv, Rest
<1>9. WakeInv
  <2>1. CountInv
    BY <1>3, <1>4 DEF CountInv
  <2>2. TodoInv /\ FindingInv
    BY <1>3 DEF TodoInv, FindingInv, Rest
  <2>3. QED  BY <2>1, <2>2 DEF WakeInv
<1>10. QED  BY <1>5, <1>6, <1>7, <1>8, <1>9 DEF IInv, RowInv

(* The actions, by what they do to the rows and to the pass. *)
LEMMA Acting ==
    ASSUME Next
    PROVE  \/ \E t \in Tasks :
                \/ Activate(t)
                \/ \E mode \in {"busy", "quiet", "ended", "parked", "killed"} : Turn(t, mode)
                \/ \E e \in Epochs : StopOld(t, e) \/ StopRetired(t, e)
           \/ \E t \in Tasks :
                Retire(t) \/ \E state \in {"completed", "blocked"} : Finish(t, state)
           \/ \E t \in Tasks : Replace(t)
           \/ Tick \/ Restart \/ StartPass \/ EndPass \/ SweepLosses
           \/ \E t \in Tasks : \E read : Observe(t, read)
           \/ Apply \/ After \/ BlockOnApproval \/ RecordLoss
BY DEF Next, PassStep, World

(* Every step keeps the invariant, and the count of wakes where the markers *)
(* are always read.                                                        *)
LEMMA Kept ==
    ASSUME IInv, [Next]_vars
    PROVE  IInv' /\ (~Flaky /\ WakeInv => WakeInv')
<1>1. RowInv /\ DetInv
  BY DEF IInv
<1> SUFFICES RowInv' /\ DetInv' /\ (~Flaky /\ CountInv /\ TodoInv /\ FindingInv
                                      => CountInv' /\ TodoInv' /\ FindingInv')
  BY DEF IInv, WakeInv
<1>2. CASE UNCHANGED vars
  <2>1. UNCHANGED <<row, run, retired, det, heard, nudges, told, warned>>
    BY <1>2 DEF vars
  <2>2. RowInv' /\ (CountInv => CountInv')
    BY <1>1, <2>1, RowsSame DEF RowInv, RowsTyped, Items
  <2>3. DetInv' /\ (TodoInv => TodoInv') /\ (FindingInv => FindingInv')
    BY <1>1, <2>1 DEF DetInv, LoseInv, TodoInv, FindingInv
  <2>4. QED  BY <2>2, <2>3
<1>3. ASSUME NEW t \in Tasks,
             \/ Activate(t)
             \/ \E mode \in {"busy", "quiet", "ended", "parked", "killed"} : Turn(t, mode)
             \/ \E e \in Epochs : StopOld(t, e) \/ StopRetired(t, e)
      PROVE  RowInv' /\ DetInv' /\ (CountInv /\ TodoInv /\ FindingInv
                                      => CountInv' /\ TodoInv' /\ FindingInv')
  BY <1>1, <1>3, RowsBehaving
<1>4. ASSUME NEW t \in Tasks,
             Retire(t) \/ \E state \in {"completed", "blocked"} : Finish(t, state)
      PROVE  RowInv' /\ DetInv' /\ (CountInv /\ TodoInv /\ FindingInv
                                      => CountInv' /\ TodoInv' /\ FindingInv')
  BY <1>1, <1>4, RowsEnding
<1>5. ASSUME NEW t \in Tasks, Replace(t)
      PROVE  RowInv' /\ DetInv' /\ (CountInv /\ TodoInv /\ FindingInv
                                      => CountInv' /\ TodoInv' /\ FindingInv')
  BY <1>1, <1>5, RowsReplaced
<1>6. CASE Tick
  BY <1>1, <1>6, RowsAged
<1>7. CASE Restart
  BY <1>1, <1>7, RowsRestarted
<1>8. CASE StartPass \/ EndPass
  BY <1>1, <1>8, PassTaken
<1>9. CASE SweepLosses
  BY <1>1, <1>9, Swept
<1>10. ASSUME NEW t \in Tasks, NEW read, Observe(t, read)
       PROVE  RowInv' /\ DetInv' /\ (~Flaky /\ CountInv /\ TodoInv /\ FindingInv
                                       => CountInv' /\ TodoInv' /\ FindingInv')
  BY <1>1, <1>10, Observed
<1>11. CASE Apply
  BY <1>1, <1>11, Applied
<1>12. CASE After
  BY <1>1, <1>12, Afterwards
<1>13. CASE BlockOnApproval \/ RecordLoss
  BY <1>1, <1>13, Ended
<1>14. CASE Next
  BY <1>3, <1>4, <1>5, <1>6, <1>7, <1>8, <1>9, <1>10, <1>11, <1>12, <1>13, <1>14, Acting
<1>15. QED  BY <1>2, <1>14

(* The invariant holds throughout, whatever can be read of a session. *)
THEOREM Invariant == Spec => []IInv
<1>1. Init => IInv
  BY Begins
<1>2. IInv /\ [Next]_vars => IInv'
  BY Kept
<1>3. QED  BY <1>1, <1>2, PTL DEF Spec

(* Every row, finding and item has the values the store declares for it. *)
THEOREM TypeCorrect == Spec => []TypeOK
<1>1. IInv => TypeOK
  <2>1. ASSUME IInv  PROVE TypeOK
    <3>1. RowsTyped /\ det \in DetType /\ DetOK(det)
      BY <2>1 DEF IInv, RowInv, DetInv
    <3>2. ASSUME NEW t \in Tasks
          PROVE  /\ row[t].state \in LiveStates \cup {"completed", "lost"}
                 /\ row[t].epoch \in Epochs
                 /\ row[t].liveness \in Stalls \cup {"live", "parked"}
                 /\ row[t].since \in (0..Timeout) \cup {None}
                 /\ (row[t].since = None) = (row[t].liveness = "live")
                 /\ row[t].wakes \in 0..2
                 /\ row[t].over \in BOOLEAN
                 /\ row[t].wakes > 0 => row[t].liveness \in Stalls /\ Parent[t] # None
      <4>1. row[t] \in RowType /\ RowOK(row[t], t)
        BY <3>1 DEF RowsTyped
      <4>2. (row[t].since = None) = (row[t].liveness = "live")
        BY <4>1 DEF RowOK
      <4>3. QED  BY <4>1, <4>2 DEF RowType, RowOK, Ages0
    <3>3. QED  BY <3>1, <3>2 DEF TypeOK, RowsTyped, DetType, DetOK
  <2>2. QED  BY <2>1
<1>2. QED  BY <1>1, Invariant, PTL

(* One unbroken silence wakes the manager of a task twice at most, while the *)
(* markers of a session that ended its turn or waits for an approval are     *)
(* read whenever anything is: the detector takes no silence for progress.    *)
THEOREM TwoWakes ==
    ASSUME ~Flaky
    PROVE  Spec => []TwoWakesASilence
<1>1. Init => IInv /\ WakeInv
  BY Begins
<1>2. (IInv /\ WakeInv) /\ [Next]_vars => (IInv /\ WakeInv)'
  BY Kept
<1>3. IInv /\ WakeInv => TwoWakesASilence
  <2>1. ASSUME IInv, WakeInv, NEW t \in Tasks, Leaf(t)  PROVE nudges[t] <= 2
    <3>1. nudges[t] <= row[t].wakes
      BY <2>1 DEF WakeInv, CountInv
    <3>2. nudges[t] \in Nat /\ row[t].wakes \in 0..2
      BY <2>1, Parts DEF IInv, RowInv, RowType
    <3>3. QED  BY <3>1, <3>2
  <2>2. QED  BY <2>1 DEF TwoWakesASilence
<1>4. QED  BY <1>1, <1>2, <1>3, PTL DEF Spec
-----------------------------------------------------------------------------
(* What a step may never do. *)

(* Only the fence of a task that is dead records it lost: what the pass saw  *)
(* of the epoch it waited for still is so when it has the fence.             *)
LEMMA LossSeen ==
    ASSUME IInv, [Next]_vars, NEW t \in Tasks, row[t].state # "lost", row'[t].state = "lost"
    PROVE  Now(t).mode = "killed"
<1>1. RowInv /\ DetInv /\ row[t] \in RowType /\ row \in [Tasks -> RowType]
  BY Parts DEF IInv, RowInv
<1>2. ASSUME NEW u \in Tasks, NEW s, row' = [row EXCEPT ![u].state = s], s # "lost"  PROVE FALSE
  BY <1>1, <1>2 DEF RowType
<1>3. CASE RecordLoss
  <2>1. row' = [row EXCEPT ![det.task].state = "lost"] /\ Losable /\ det.pc = "lose"
    BY <1>1, <1>3 DEF RecordLoss
  <2>2. t = det.task
    <3>1. t # det.task => row'[t] = row[t]
      BY <1>1, <2>1
    <3>2. QED  BY <3>1
  <2>3. QED  BY <1>1, <2>1, <2>2 DEF Losable, DetInv, LoseInv, Now
<1>4. CASE Apply
  BY <1>1, <1>4, Applied
<1>5. CASE Tick
  <2>1. row'[t] = IF row[t].since = None THEN row[t]
                  ELSE [row[t] EXCEPT !.since = Older(row[t].since)]
    BY <1>5 DEF Tick
  <2>2. row'[t].state = row[t].state
    BY <1>1, <2>1 DEF RowType
  <2>3. QED  BY <2>2
<1>6. ASSUME NEW u \in Tasks, Replace(u)  PROVE FALSE
  <2>1. row' = [row EXCEPT ![u] = [Clear(row[u]) EXCEPT !.state = "replacing",
                                                        !.epoch = row[u].epoch + 1]]
    BY <1>6 DEF Replace
  <2>2. PICK c : c = Clear(row[u])
    OBVIOUS
  <2>3. row[u] \in RowType
    BY Parts DEF IInv, RowInv
  <2>4. [c EXCEPT !.state = "replacing", !.epoch = row[u].epoch + 1].state # "lost"
    BY <2>2, <2>3 DEF Clear, RowType
  <2>5. QED  BY <1>1, <2>1, <2>2, <2>4
<1>7. ASSUME NEW u \in Tasks,
             \/ Activate(u)
             \/ \E mode \in {"busy", "quiet", "ended", "parked", "killed"} : Turn(u, mode)
             \/ \E e \in Epochs : StopOld(u, e) \/ StopRetired(u, e)
      PROVE  FALSE
  <2>1. UNCHANGED row \/ row' = [row EXCEPT ![u].state = "active"]
    BY <1>7 DEF Activate, Turn, StopOld, StopRetired
  <2>2. QED  BY <1>2, <2>1
<1>8. ASSUME NEW u \in Tasks,
             Retire(u) \/ \E state \in {"completed", "blocked"} : Finish(u, state)
      PROVE  FALSE
  <2>1. UNCHANGED row \/ \E s \in {"completed", "blocked"} : row' = [row EXCEPT ![u].state = s]
    BY <1>8 DEF Retire, Finish
  <2>2. QED  BY <1>2, <2>1
<1>9. CASE BlockOnApproval
  <2>1. UNCHANGED row \/ row' = [row EXCEPT ![det.task].state = "blocked"]
    BY <1>9 DEF BlockOnApproval
  <2>2. det.task \in Tasks
    BY <1>1, <1>9 DEF BlockOnApproval, DetInv, DetOK, DetType
  <2>3. QED  BY <1>2, <2>1, <2>2
<1>10. ~UNCHANGED row
  OBVIOUS
<1>11. Next
  BY <1>10 DEF vars
<1>12. QED  BY <1>3, <1>4, <1>5, <1>6, <1>7, <1>8, <1>9, <1>10, <1>11, Acting
         DEF Restart, StartPass, EndPass, SweepLosses, Observe, After

(* A task is recorded lost only when the session of its own epoch is dead. *)
THEOREM LossIsDeath == Spec => LostIsDead
<1>1. IInv /\ [Next]_vars =>
        [\A t \in Tasks : row[t].state # "lost" /\ row'[t].state = "lost"
                            => Now(t).mode = "killed"]_vars
  BY LossSeen
<1>2. QED  BY <1>1, Invariant, PTL DEF Spec, LostIsDead

(* A human is told of a silence of a managed task only by the pass, and only *)
(* when both clocks of the silence have run out.                             *)
LEMMA SilenceTold ==
    ASSUME IInv, [Next]_vars, NEW t \in Tasks, Parent[t] # None,
           (heard' \ heard) \cap ({"silence"} \X {t} \X Epochs) # {}
    PROVE  told[t] = Timeout
<1>1. RowInv /\ DetInv
  BY DEF IInv
<1>2. PICK e \in Epochs : <<"silence", t, e>> \in heard' /\ <<"silence", t, e>> \notin heard
  OBVIOUS
<1>3. CASE After
  <2>1. t = det.task /\ Unheeded(row[t])
    BY <1>2, <1>3 DEF After, Tell
  <2>2. row[t].wakes = 1 => told[t] = row[t].since
    BY <1>1 DEF RowInv, ToldInv
  <2>3. row[t].wakes = 2 => told[t] = Timeout
    BY <1>1 DEF RowInv, ToldInv
  <2>4. QED  BY <2>1, <2>2, <2>3 DEF Unheeded
<1>4. ASSUME NEW u \in Tasks,
             \/ Activate(u)
             \/ \E mode \in {"busy", "quiet", "ended", "parked", "killed"} : Turn(u, mode)
             \/ \E f \in Epochs : StopOld(u, f) \/ StopRetired(u, f)
      PROVE  FALSE
  <2>1. \E f, mode : Behaves(u, f, mode)
    BY <1>4 DEF Activate, Turn, StopOld, StopRetired
  <2>2. heard' \subseteq heard
    BY <2>1 DEF Behaves
  <2>3. QED  BY <1>2, <2>2
<1>5. CASE BlockOnApproval \/ RecordLoss \/ EndPass
  BY <1>2, <1>5 DEF BlockOnApproval, RecordLoss, EndPass, Tell
<1>6. CASE Apply \/ Tick
  BY <1>2, <1>6 DEF Apply, Tick
<1>7. Next
  BY <1>2 DEF vars
<1>8. QED  BY <1>2, <1>3, <1>4, <1>5, <1>6, <1>7, Acting
        DEF Restart, StartPass, SweepLosses, Observe, Retire, Finish, Replace

(* A human hears of a silence of a managed task only after its manager was *)
(* woken and had a whole timeout to restore progress.                      *)
THEOREM ManagerHearsFirst == Spec => ManagerFirst
<1>1. IInv /\ [Next]_vars =>
        [\A t \in Tasks :
           Parent[t] # None /\ (heard' \ heard) \cap ({"silence"} \X {t} \X Epochs) # {}
             => told[t] = Timeout]_vars
  BY SilenceTold
<1>2. QED  BY <1>1, Invariant, PTL DEF Spec, ManagerFirst
=============================================================================
