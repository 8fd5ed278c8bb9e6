--------------------------- MODULE UpdatesProofs ---------------------------
(***************************************************************************)
(* What an activation of a release may not do, for any releases and any    *)
(* number of processes, service commands, faults and crashes.              *)
(*                                                                         *)
(* The activation lock is what the three properties have in common: while  *)
(* one process is between its wait and its swap no other renews the        *)
(* refusal, so what was seen idle stays idle as long as the refusal is in  *)
(* force; and no other has a state of update.json to write back over the   *)
(* failure it records.  The bridge does not need the lock: whoever takes   *)
(* it down is at a point from which every way on brings it back, and a     *)
(* service command that takes it down withdraws the wish for it with it.   *)
(*                                                                         *)
(* What pruning leaves installed is not typed here: the prover knows       *)
(* nothing of SelectSeq, and no property below needs it.                   *)
(***************************************************************************)
EXTENDS Updates, TLAPS

(* What is cut off if something runs, and where the bridge is down for a swap. *)
Cutting == {"bootout", "define", "mark", "bootstrap"}
Down    == {"define", "mark", "bootstrap", "health", "import", "archive", "restore", "fail",
            "recordFailedDown", "again"}
Points  == {"idle", "stage", "stageState", "prune", "remove"} \union Activating \union Starting

(* The files and services are what they should be; the releases that are     *)
(* installed and the bounds are left out.                                     *)
SpentType == [ stages : Nat, services : Nat, faults : Nat, crashed : BOOLEAN, slow : BOOLEAN ]
HostTyped ==
    /\ file \in FileType
    /\ plist \in Releases \union {Base}
    /\ backend \in [loaded : BOOLEAN, runs : Releases \union {Base}, healthy : BOOLEAN]
    /\ bridge \in BOOLEAN /\ wanted \in BOOLEAN
    /\ drain \in BOOLEAN /\ work \in {"none", "turn", "approval"}
    /\ spent \in SpentType
Typed == HostTyped /\ caller \in [Callers -> CallerType]

(* _activation_lock: one activation at a time, and it has a release. *)
Locked ==
    /\ \A p, q \in Callers : caller[p].pc \in Activating /\ caller[q].pc \in Activating => p = q
    /\ \A p \in Callers : caller[p].pc \in Activating => Pending(p) # NoRelease

(* A failure that is recorded was the last thing an activation wrote. *)
FailedInv ==
    file.status = "failed" =>
        /\ file.pending = NoRelease
        /\ \A p \in Callers : caller[p].pc \in Activating => caller[p].pc = "again"

(* A service that is wanted, and a bridge that is down: somebody brings it up. *)
Missing == wanted /\ ~bridge /\ ~spent.crashed /\ ~spent.slow
BridgeInv == Missing => \E p \in Callers : caller[p].pc \in Down

(* What is being staged is a release. *)
Staging == {"stage", "stageState"}
StageInv == \A p \in Callers : caller[p].pc \in Staging => caller[p].release \in Releases

(* The inductive invariant. *)
IInv == Typed /\ StageInv /\ Locked /\ FailedInv /\ NoTurnCut /\ BridgeInv

-----------------------------------------------------------------------------
(* The records of the processes. *)

(* A process at no point is idle. *)
LEMMA IdleTyped == NoCall \in CallerType /\ NoCall.pc = "idle"
<1>1. PICK f : f = NoFile
  OBVIOUS
<1>2. f \in FileType
  BY <1>1 DEF NoFile, FileType
<1>3. QED  BY <1>1, <1>2 DEF NoCall, CallerType

(* What going to a point changes of a process. *)
LEMMA GotoRecord ==
    ASSUME Typed, NEW p \in Callers, NEW c \in Points, Go(p, c)
    PROVE  \E r \in CallerType : /\ caller' = [caller EXCEPT ![p] = r]
                                 /\ r.pc = c /\ r.state = caller[p].state
                                 /\ r.release = caller[p].release
<1>1. PICK s \in CallerType : s = caller[p]
  BY DEF Typed
<1>2. PICK r : r = [s EXCEPT !.pc = c]
  OBVIOUS
<1>3. r \in CallerType /\ r.pc = c /\ r.state = s.state /\ r.release = s.release
  BY <1>2 DEF CallerType, Points
<1>4. caller' = [caller EXCEPT ![p] = r]
  BY <1>1, <1>2 DEF Go
<1>5. QED  BY <1>1, <1>3, <1>4

(* A process that returns is idle. *)
LEMMA ReturnRecord ==
    ASSUME NEW p \in Callers, End(p)
    PROVE  \E r \in CallerType : caller' = [caller EXCEPT ![p] = r] /\ r.pc = "idle"
BY IdleTyped DEF End

(* A call begins with what update.json says then. *)
LEMMA BeginRecord ==
    ASSUME Typed, NEW p \in Callers, NEW c \in Points, NEW release \in Releases \union {Base, NoRelease},
           Call(p, c, release)
    PROVE  \E r \in CallerType : /\ caller' = [caller EXCEPT ![p] = r] /\ caller[p].pc = "idle"
                                 /\ r.pc = c /\ r.state = file /\ r.release = release
<1>1. PICK s \in CallerType : s = NoCall
  BY IdleTyped
<1>2. PICK r : r = [s EXCEPT !.pc = c, !.release = release, !.state = file, !.old = plist]
  OBVIOUS
<1>3. r \in CallerType /\ r.pc = c /\ r.state = file /\ r.release = release
  BY <1>2 DEF CallerType, Points, Typed, HostTyped
<1>4. caller' = [caller EXCEPT ![p] = r]
  BY <1>1, <1>2 DEF Call
<1>5. QED  BY <1>3, <1>4 DEF Call, In

(* Each way of spending the bounds but a crash and a slow bridge. *)
Spends ==
    \/ spent' = spent \/ Fault \/ Service
    \/ spent' = [spent EXCEPT !.stages = @ + 1]
SpendsNone == spent' \in SpentType /\ spent'.crashed = spent.crashed /\ spent'.slow = spent.slow

(* They are no crash. *)
LEMMA SpendsLittle ==
    ASSUME HostTyped, Spends
    PROVE  SpendsNone
BY DEF Fault, Service, HostTyped, SpentType, Spends, SpendsNone

(* Those two do away with what the bridge was promised. *)
LEMMA SpendsPromise ==
    ASSUME HostTyped,
           \/ spent' = [spent EXCEPT !.faults = @ + 1, !.crashed = TRUE]
           \/ spent' = [spent EXCEPT !.faults = @ + 1, !.slow = TRUE]
    PROVE  spent' \in SpentType /\ (spent'.crashed \/ spent'.slow)
<1>1. PICK s \in SpentType : s = spent
  BY DEF HostTyped
<1>2. PICK n \in Nat : n = s.faults + 1
  BY DEF SpentType
<1>3. PICK c : c = [s EXCEPT !.faults = n, !.crashed = TRUE]
  OBVIOUS
<1>4. PICK d : d = [s EXCEPT !.faults = n, !.slow = TRUE]
  OBVIOUS
<1>5. c \in SpentType /\ c.crashed /\ d \in SpentType /\ d.slow
  BY <1>3, <1>4 DEF SpentType
<1>6. spent' = c \/ spent' = d
  BY <1>1, <1>2, <1>3, <1>4
<1>7. QED  BY <1>5, <1>6

(* A step of p, which leaves it with the record r. *)
LEMMA Moved ==
    ASSUME IInv, NEW p \in Callers, NEW r \in CallerType, caller' = [caller EXCEPT ![p] = r], HostTyped',
           r.pc \in Staging => r.release \in Releases,
           r.pc \in Activating =>
              /\ r.state.pending # NoRelease
              /\ caller[p].pc \in Activating \/ \A q \in Callers : caller[q].pc \notin Activating,
           file'.status = "failed" =>
              /\ file'.pending = NoRelease
              /\ r.pc \in Activating => r.pc = "again"
              /\ file.status = "failed" \/ caller[p].pc \in Activating,
           drain' => \/ work' = "none"
                     \/ drain /\ work' = work /\ (r.pc \in Cutting => caller[p].pc \in Cutting)
                     \/ caller[p].pc \in Activating /\ r.pc \notin Cutting,
           Missing' => r.pc \in Down \/ (Missing /\ caller[p].pc \notin Down)
    PROVE  IInv'
<1>1. caller \in [Callers -> CallerType] /\ caller'[p] = r /\ \A q \in Callers : q # p => caller'[q] = caller[q]
  BY DEF IInv, Typed
<1>2. Typed'
  BY <1>1 DEF Typed
<1>3. Locked'
  BY <1>1 DEF IInv, Locked, Pending, State
<1>4. FailedInv'
  BY <1>1 DEF IInv, Locked, FailedInv
<1>5. NoTurnCut'
  <2>1. SUFFICES ASSUME NEW q \in Callers, caller'[q].pc \in Cutting, drain'
                 PROVE  work' = "none"
    BY DEF NoTurnCut, Cutting
  <2>2. Cutting \subseteq Activating
    BY DEF Cutting, Activating, Waiting, Swapping
  <2>3. CASE drain /\ work' = work /\ (r.pc \in Cutting => caller[p].pc \in Cutting)
    <3>1. caller[q].pc \in Cutting
      BY <1>1, <2>1, <2>3
    <3>2. QED  BY <2>3, <3>1 DEF IInv, NoTurnCut, Cutting
  <2>4. CASE caller[p].pc \in Activating /\ r.pc \notin Cutting
    BY <1>1, <2>1, <2>2, <2>4 DEF IInv, Locked
  <2>5. QED  BY <2>1, <2>3, <2>4
<1>6. BridgeInv'
  BY <1>1 DEF IInv, BridgeInv
<1>7. StageInv'
  BY <1>1 DEF IInv, StageInv
<1>8. QED  BY <1>2, <1>3, <1>4, <1>5, <1>6, <1>7 DEF IInv
(* A step of p that is no part of an activation. *)
LEMMA Aside ==
    ASSUME IInv, NEW p \in Callers, NEW r \in CallerType, caller' = [caller EXCEPT ![p] = r], HostTyped',
           caller[p].pc \notin Activating, r.pc \notin Activating,
           r.pc \in Staging => r.release \in Releases,
           file' = file \/ file'.status # "failed",
           drain' => work' = "none" \/ (drain /\ work' = work),
           wanted' /\ ~bridge' => wanted /\ ~bridge, SpendsNone
    PROVE  IInv'
<1>1. Missing' => Missing
  BY DEF Missing, SpendsNone
<1>2. r.pc \notin Cutting /\ caller[p].pc \notin Down
  BY DEF Cutting, Down, Activating, Waiting, Swapping
<1>3. file'.status = "failed" => file'.pending = NoRelease /\ file.status = "failed"
  BY DEF IInv, FailedInv
<1>4. QED  BY <1>1, <1>2, <1>3, Moved

(* A step of an activation that goes on. *)
LEMMA Inside ==
    ASSUME IInv, NEW p \in Callers, NEW r \in CallerType, caller' = [caller EXCEPT ![p] = r], HostTyped',
           caller[p].pc \in Activating, r.pc \in Activating, r.state = caller[p].state,
           file' = file \/ file'.status # "failed",
           caller[p].pc # "again" \/ r.pc = "again",
           drain' => work' = "none" \/ (r.pc \in Cutting => drain /\ work' = work /\ caller[p].pc \in Cutting),
           r.pc \in Down \/ bridge' \/ (bridge' = bridge /\ wanted' = wanted /\ caller[p].pc \notin Down /\ SpendsNone)
    PROVE  IInv'
<1>1. Missing' => r.pc \in Down \/ (Missing /\ caller[p].pc \notin Down)
  BY DEF Missing, SpendsNone
<1>2. r.state.pending # NoRelease
  BY DEF IInv, Locked, Pending, State
<1>3. file'.status = "failed" => /\ file'.pending = NoRelease /\ file.status = "failed"
                                /\ r.pc = "again"
  BY DEF IInv, FailedInv
<1>4. r.pc \notin Staging
  BY DEF Staging, Activating, Waiting, Swapping
<1>5. QED  BY <1>1, <1>2, <1>3, <1>4, Moved

(* A step that moves no process. *)
LEMMA Still ==
    ASSUME IInv, caller' = caller, HostTyped',
           file' = file \/ file'.status # "failed",
           drain' => \/ work' = "none" \/ (drain /\ work' = work)
                     \/ \A p \in Callers : caller[p].pc \notin Cutting,
           wanted' /\ ~bridge' => wanted /\ ~bridge, SpendsNone
    PROVE  IInv'
<1>1. Missing' => Missing
  BY DEF Missing, SpendsNone
<1>2. Typed' /\ StageInv' /\ Locked' /\ FailedInv' /\ BridgeInv'
  BY <1>1 DEF IInv, Typed, StageInv, Locked, Pending, State, FailedInv, BridgeInv
<1>3. NoTurnCut'
  BY DEF IInv, NoTurnCut, Cutting
<1>4. QED  BY <1>2, <1>3 DEF IInv
-----------------------------------------------------------------------------
(* Staging, cancelling and pruning are no part of an activation. *)

(* A release is to be downloaded. *)
LEMMA StageKeeps ==
    ASSUME IInv, NEW p \in Callers, NEW x \in Releases, Stage(p, x)
    PROVE  IInv'
<1>1. SpendsNone /\ HostTyped
  BY SpendsLittle DEF Stage, Spends, IInv, Typed
<1>2. PICK r \in CallerType : /\ caller' = [caller EXCEPT ![p] = r] /\ caller[p].pc = "idle"
                              /\ r.pc = "stage" /\ r.release = x
  BY BeginRecord DEF Stage, IInv, Points
<1>3. HostTyped' /\ UNCHANGED <<file, serviceVars, executorVars>>
  BY <1>1 DEF Stage, HostTyped, SpendsNone, serviceVars, executorVars, legacyVars
<1>4. QED  BY <1>1, <1>2, <1>3, Aside DEF serviceVars, executorVars, legacyVars, Activating,
       Waiting, Swapping, Starting, Staging


(* It is, or that fails. *)
LEMMA InstallKeeps ==
    ASSUME IInv, NEW p \in Callers, InstallRelease(p)
    PROVE  IInv'
<1>1. SpendsNone /\ HostTyped
  BY SpendsLittle DEF InstallRelease, Spends, IInv, Typed
<1>2. PICK r \in CallerType : caller' = [caller EXCEPT ![p] = r] /\ r.pc \in {"stageState", "idle"}
                            /\ (r.pc = "stageState" => r.release = caller[p].release)
  BY GotoRecord, ReturnRecord DEF InstallRelease, IInv, Points
<1>3. HostTyped' /\ UNCHANGED <<file, serviceVars, executorVars>> /\ caller[p].pc = "stage"
  BY <1>1 DEF InstallRelease, In, HostTyped, SpendsNone, serviceVars, executorVars, legacyVars
<1>4. QED  BY <1>1, <1>2, <1>3, Aside DEF serviceVars, executorVars, legacyVars, Activating,
       Waiting, Swapping, Starting, Staging, StageInv, IInv


(* The release is pending. *)
LEMMA StagedKeeps ==
    ASSUME IInv, NEW p \in Callers, WriteStaged(p)
    PROVE  IInv'
<1>1. SpendsNone /\ HostTyped
  BY SpendsLittle DEF WriteStaged, Spends, IInv, Typed
<1>2. PICK r \in CallerType : caller' = [caller EXCEPT ![p] = r] /\ r.pc \in {"prune", "idle"}
  BY GotoRecord, ReturnRecord DEF WriteStaged, IInv, Points
<1>3. caller[p].pc = "stageState" /\ UNCHANGED <<serviceVars, executorVars, spent>>
  BY DEF WriteStaged, In
<1>4. file' = file \/ file'.status = "staged"
  BY DEF WriteStaged
<1>5. file' \in FileType
  <2>1. State(p).active \in Releases \union {NoRelease} /\ file \in FileType
    BY DEF IInv, Typed, HostTyped, CallerType, FileType, State
  <2>2. CASE WriteStaged(p) /\ file' # file
    <3>1. caller[p].release \in Releases
      BY <1>3 DEF IInv, StageInv, Staging
    <3>2. QED  BY <2>1, <2>2, <3>1 DEF WriteStaged, FileType, IInv
  <2>3. QED  BY <2>1, <2>2
<1>6. HostTyped'
  BY <1>1, <1>3, <1>5 DEF HostTyped, SpendsNone, serviceVars, executorVars, legacyVars
<1>7. QED  BY <1>1, <1>2, <1>3, <1>4, <1>6, Aside DEF serviceVars, executorVars, legacyVars,
       Activating, Waiting, Swapping, Starting, Staging


(* Pruning reads update.json, and removes. *)
LEMMA PruneKeeps ==
    ASSUME IInv, NEW p \in Callers, PruneReads(p) \/ PruneRemoves(p)
    PROVE  IInv'
<1>1. PICK r \in CallerType : caller' = [caller EXCEPT ![p] = r] /\ r.pc \in {"remove", "idle"}
  <2>1. CASE PruneRemoves(p)
    BY <2>1, ReturnRecord DEF PruneRemoves
  <2>2. CASE PruneReads(p)
    <3>1. PICK s \in CallerType : s = caller[p]
      BY DEF IInv, Typed
    <3>2. PICK r : r = [s EXCEPT !.pc = "remove", !.state = file]
      OBVIOUS
    <3>3. r \in CallerType /\ r.pc = "remove"
      BY <3>2 DEF CallerType, IInv, Typed, HostTyped
    <3>4. caller' = [caller EXCEPT ![p] = r]
      BY <2>2, <3>1, <3>2 DEF PruneReads
    <3>5. QED  BY <3>3, <3>4
  <2>3. QED  BY <2>1, <2>2
<1>2. /\ UNCHANGED <<file, serviceVars, executorVars, spent>>
      /\ caller[p].pc \in {"prune", "idle", "remove"}
  BY DEF PruneReads, PruneRemoves, In
<1>3. HostTyped' /\ SpendsNone
  BY <1>2 DEF IInv, Typed, HostTyped, SpentType, SpendsNone, serviceVars, executorVars, legacyVars
<1>4. QED  BY <1>1, <1>2, <1>3, Aside DEF serviceVars, executorVars, legacyVars, Activating,
       Waiting, Swapping, Starting, Staging


-----------------------------------------------------------------------------
(* Starting, stopping and installing the services. *)

(* A service command begins; an install writes its definition first. *)
LEMMA ServiceKeeps ==
    ASSUME IInv, NEW p \in Callers, NEW install \in BOOLEAN, ServiceStart(p, install)
    PROVE  IInv'
<1>1. SpendsNone /\ HostTyped
  BY SpendsLittle DEF ServiceStart, Spends, IInv, Typed
<1>2. PICK x \in {Base, NoRelease} : x = IF install THEN Base ELSE NoRelease
  OBVIOUS
<1>3. PICK r \in CallerType : caller' = [caller EXCEPT ![p] = r] /\ caller[p].pc = "idle" /\ r.pc = "start"
  <2>1. Call(p, "start", x)
    BY <1>2 DEF ServiceStart
  <2>2. QED  BY <2>1, BeginRecord DEF IInv, Points, Activating, Waiting, Swapping, Starting
<1>4. UNCHANGED <<file, backend, bridge, wanted, executorVars>>
  BY DEF ServiceStart
<1>5. plist' \in Releases \union {Base}
  BY DEF ServiceStart, Define, IInv, Typed, HostTyped
<1>6. HostTyped'
  BY <1>1, <1>4, <1>5 DEF HostTyped, SpendsNone, executorVars
<1>7. QED  BY <1>1, <1>3, <1>4, <1>6, Aside DEF executorVars, Activating, Waiting, Swapping,
       Starting, Staging


(* What a restarted service runs is what its definition names, if anything; *)
(* whatever ran is gone.                                                    *)
LEMMA Restarted ==
    ASSUME HostTyped, UNCHANGED <<backend, drain, work>> \/ Restart \/ Unload
    PROVE  /\ backend' \in [loaded : BOOLEAN, runs : Releases \union {Base}, healthy : BOOLEAN]
           /\ drain' \in BOOLEAN /\ work' \in {"none", "turn", "approval"}
           /\ drain' => drain /\ work' = work
<1>1. CASE Restart
  <2>1. PICK h \in BOOLEAN : h = (Installed(plist) /\ plist \notin Bad)
    OBVIOUS
  <2>2. backend' = [loaded |-> TRUE, runs |-> plist, healthy |-> h]
    BY <1>1, <2>1 DEF Restart
  <2>3. backend' \in [loaded : BOOLEAN, runs : Releases \union {Base}, healthy : BOOLEAN]
    BY <2>1, <2>2 DEF HostTyped
  <2>4. drain' = FALSE /\ work' = "none"
    BY <1>1 DEF Restart
  <2>5. QED  BY <2>3, <2>4
<1>2. CASE Unload
  BY <1>2 DEF Unload, HostTyped
<1>3. CASE UNCHANGED <<backend, drain, work>>
  BY <1>3 DEF HostTyped
<1>4. QED  BY <1>1, <1>2, <1>3

(* start takes the bridge down with its wish, and brings it up with it. *)
LEMMA StartKeeps ==
    ASSUME IInv, NEW p \in Callers, StartStep(p)
    PROVE  IInv'
<1>1. SpendsNone /\ HostTyped
  BY SpendsLittle DEF StartStep, Spends, IInv, Typed
<1>2. caller[p].pc \in Starting /\ UNCHANGED file /\ UNCHANGED plist
  BY DEF StartStep, In, Starting, serviceVars
<1>3. PICK r \in CallerType : caller' = [caller EXCEPT ![p] = r] /\ r.pc \in Starting \union {"idle"}
  <2>1. (\E c \in Starting : Go(p, c)) \/ End(p)
    BY DEF StartStep, Starting
  <2>2. Starting \subseteq Points
    BY DEF Points
  <2>3. QED  BY <2>1, <2>2, GotoRecord, ReturnRecord DEF IInv
<1>4. /\ \/ UNCHANGED <<backend, drain, work>>
         \/ Restart \/ Unload
      /\ \/ UNCHANGED <<bridge, wanted>>
         \/ bridge' = FALSE /\ wanted' = FALSE
         \/ bridge' = TRUE /\ wanted' = TRUE
  BY DEF StartStep, serviceVars, executorVars
<1>5. HostTyped' /\ (drain' => drain /\ work' = work)
  <2>1. /\ backend' \in [loaded : BOOLEAN, runs : Releases \union {Base}, healthy : BOOLEAN]
        /\ drain' \in BOOLEAN /\ work' \in {"none", "turn", "approval"}
        /\ drain' => drain /\ work' = work
    BY <1>1, <1>4, Restarted
  <2>2. bridge' \in BOOLEAN /\ wanted' \in BOOLEAN
    BY <1>1, <1>4 DEF HostTyped
  <2>3. QED  BY <1>1, <1>2, <2>1, <2>2 DEF HostTyped, SpendsNone
<1>6. wanted' /\ ~bridge' => wanted /\ ~bridge
  BY <1>4
<1>7. caller[p].pc \notin Activating /\ r.pc \notin Activating /\ r.pc \notin Staging
  BY <1>2, <1>3 DEF Activating, Waiting, Swapping, Starting, Staging
<1>8. QED  BY <1>1, <1>2, <1>3, <1>5, <1>6, <1>7, Aside


(* An install that failed goes back to what it found. *)
LEMMA StartFailedKeeps ==
    ASSUME IInv, NEW p \in Callers, StartFailed(p)
    PROVE  IInv'
<1>1. /\ caller[p].pc \in Starting /\ UNCHANGED file /\ SpendsNone
      /\ HostTyped /\ spent' \in SpentType
  BY DEF StartFailed, In, Starting, SpendsNone, IInv, Typed, HostTyped
<1>2. PICK r \in CallerType : caller' = [caller EXCEPT ![p] = r] /\ r.pc \in Starting \union {"idle"}
  <2>1. Go(p, "rollback") \/ Go(p, "rollbackHealth") \/ End(p)
    BY DEF StartFailed
  <2>2. QED  BY <2>1, GotoRecord, ReturnRecord DEF IInv, Points, Activating, Waiting, Swapping,
         Starting
<1>3. /\ UNCHANGED <<backend, drain, work>> \/ Restart
      /\ \/ UNCHANGED <<bridge, wanted>>
         \/ bridge' = (bridge \/ backend.healthy) /\ wanted' = (wanted \/ backend.healthy)
      /\ plist' = plist \/ plist' = caller[p].old
  BY DEF StartFailed, serviceVars, executorVars
<1>4. /\ backend' \in [loaded : BOOLEAN, runs : Releases \union {Base}, healthy : BOOLEAN]
      /\ drain' \in BOOLEAN /\ work' \in {"none", "turn", "approval"}
      /\ drain' => drain /\ work' = work
  BY <1>1, <1>3, Restarted
<1>5. backend.healthy \in BOOLEAN
  BY <1>1 DEF HostTyped
<1>6. bridge' \in BOOLEAN /\ wanted' \in BOOLEAN /\ (wanted' /\ ~bridge' => wanted /\ ~bridge)
  BY <1>1, <1>3, <1>5 DEF HostTyped
<1>7. plist' \in Releases \union {Base}
  BY <1>1, <1>3 DEF HostTyped, IInv, Typed, CallerType
<1>8. HostTyped'
  BY <1>1, <1>4, <1>6, <1>7 DEF HostTyped
<1>9. caller[p].pc \notin Activating /\ r.pc \notin Activating /\ r.pc \notin Staging
  BY <1>1, <1>2 DEF Activating, Waiting, Swapping, Starting, Staging
<1>10. QED  BY <1>1, <1>2, <1>4, <1>6, <1>8, <1>9, Aside

-----------------------------------------------------------------------------
(* Steps that are nobody's. *)

(* Cancelling, stopping the services, turns and the end of the refusal. *)
LEMMA StillKeeps ==
    ASSUME IInv, Cancel \/ ServiceStop \/ Turn \/ DrainLapses
    PROVE  IInv'
<1>1. CASE Cancel
  <2>1. file' \in FileType /\ file'.status # "failed"
    BY <1>1 DEF Cancel, IInv, Typed, HostTyped, FileType
  <2>2. HostTyped' /\ SpendsNone
    BY <1>1, <2>1 DEF Cancel, IInv, Typed, HostTyped, SpentType, SpendsNone, serviceVars,
       executorVars
  <2>3. QED  BY <1>1, <2>1, <2>2, Still DEF Cancel, serviceVars, executorVars
<1>2. CASE ServiceStop
  <2>1. HostTyped /\ Unload /\ SpendsNone
    BY <1>2, SpendsLittle DEF ServiceStop, Spends, IInv, Typed
  <2>2. /\ backend' \in [loaded : BOOLEAN, runs : Releases \union {Base}, healthy : BOOLEAN]
        /\ drain' \in BOOLEAN /\ work' \in {"none", "turn", "approval"}
        /\ drain' => drain /\ work' = work
    BY <2>1, Restarted
  <2>3. bridge' = FALSE /\ wanted' = FALSE /\ UNCHANGED <<file, plist, caller>>
    BY <1>2 DEF ServiceStop
  <2>4. HostTyped'
    BY <2>1, <2>2, <2>3 DEF HostTyped, SpendsNone
  <2>5. QED  BY <2>1, <2>2, <2>3, <2>4, Still
<1>3. CASE Turn
  <2>1. UNCHANGED <<file, plist, backend, bridge, wanted, drain, caller, spent>>
    BY <1>3 DEF Turn, serviceVars
  <2>2. /\ work' \in {"none", "turn", "approval"}
        /\ drain => (work = "none" <=> work' = "none") \/ work' = "none"
    BY <1>3 DEF Turn
  <2>3. Typed' /\ StageInv' /\ Locked' /\ FailedInv' /\ BridgeInv'
    BY <2>1, <2>2 DEF IInv, Typed, HostTyped, StageInv, Locked, Pending, State, FailedInv,
       BridgeInv,
                      Missing
  <2>4. NoTurnCut'
    BY <2>1, <2>2 DEF IInv, NoTurnCut
  <2>5. QED  BY <2>3, <2>4 DEF IInv
<1>4. CASE DrainLapses
  <2>1. HostTyped /\ SpendsNone
    BY <1>4, SpendsLittle DEF DrainLapses, Spends, IInv, Typed
  <2>2. drain' = FALSE /\ UNCHANGED <<file, plist, backend, bridge, wanted, work, caller>>
    BY <1>4 DEF DrainLapses, serviceVars
  <2>3. HostTyped'
    BY <2>1, <2>2 DEF HostTyped, SpendsNone
  <2>4. QED  BY <2>1, <2>2, <2>3, Still
<1>5. QED  BY <1>1, <1>2, <1>3, <1>4


(* A process that dies is idle, and no bridge is promised any more. *)
LEMMA CrashKeeps ==
    ASSUME IInv, NEW p \in Callers, Crash(p)
    PROVE  IInv'
<1>1. PICK r \in CallerType : caller' = [caller EXCEPT ![p] = r] /\ r.pc = "idle"
  BY ReturnRecord DEF Crash
<1>2. UNCHANGED <<file, plist, backend, bridge, wanted, drain, work>>
  BY DEF Crash, serviceVars, executorVars
<1>3. spent' \in SpentType /\ (spent'.crashed \/ spent'.slow)
  BY SpendsPromise DEF Crash, IInv, Typed
<1>4. HostTyped'
  BY <1>2, <1>3 DEF IInv, Typed, HostTyped
<1>5. ~Missing'
  BY <1>3 DEF Missing
<1>6. file'.status = "failed" => file'.pending = NoRelease /\ file.status = "failed"
  BY <1>2 DEF IInv, FailedInv
<1>7. r.pc \notin Cutting /\ r.pc \notin Activating /\ r.pc \notin Staging
  BY <1>1 DEF Cutting, Activating, Waiting, Swapping, Staging
<1>8. QED  BY <1>1, <1>2, <1>4, <1>5, <1>6, <1>7, Moved


-----------------------------------------------------------------------------
(* activate_after_drain *)

(* An activation begins with a release, while no other is under way. *)
LEMMA ActivateKeeps ==
    ASSUME IInv, NEW p \in Callers, Activate(p)
    PROVE  IInv'
<1>1. PICK r \in CallerType : /\ caller' = [caller EXCEPT ![p] = r] /\ caller[p].pc = "idle"
                              /\ r.pc = "drain" /\ r.state = file
  BY BeginRecord DEF Activate, IInv, Points, Activating, Waiting
<1>2. /\ UNCHANGED <<file, plist, backend, bridge, wanted, drain, work, spent>>
      /\ file.pending # NoRelease /\ \A q \in Callers : caller[q].pc \notin Activating
  BY DEF Activate, serviceVars, executorVars
<1>3. HostTyped' /\ (Missing' => Missing)
  BY <1>2 DEF IInv, Typed, HostTyped, Missing
<1>4. file'.status # "failed"
  BY <1>2 DEF IInv, FailedInv
<1>5. r.pc \notin Cutting /\ r.pc \notin Staging /\ caller[p].pc \notin Down
  BY <1>1 DEF Cutting, Staging, Down
<1>6. QED  BY <1>1, <1>2, <1>3, <1>4, <1>5, Moved

(* A step of an activation that ends it. *)
LEMMA Ends ==
    ASSUME IInv, NEW p \in Callers, NEW r \in CallerType, caller' = [caller EXCEPT ![p] = r], HostTyped',
           caller[p].pc \in Activating, r.pc \in {"idle", "prune"},
           file' = file \/ (file'.status = "failed" => file'.pending = NoRelease),
           bridge' \/ ~wanted' \/ spent'.crashed \/ spent'.slow
           \/ (bridge' = bridge /\ wanted' = wanted /\ caller[p].pc \notin Down /\ SpendsNone)
    PROVE  IInv'
<1>1. r.pc \notin Cutting /\ r.pc \notin Activating /\ r.pc \notin Staging
  BY DEF Cutting, Activating, Waiting, Swapping, Staging
<1>2. Missing' => Missing /\ caller[p].pc \notin Down
  BY DEF Missing, SpendsNone
<1>3. file'.status = "failed" => file'.pending = NoRelease
  BY DEF IInv, FailedInv
<1>4. QED  BY <1>1, <1>2, <1>3, Moved
(* RequestDrain: the backend refuses from here on, unless it does not know how; no other activation is past its wait. *)
LEMMA DrainKeeps ==
    ASSUME IInv, NEW p \in Callers, RequestDrain(p)
    PROVE  IInv'
<1>1. /\ caller[p].pc = "drain" /\ HostTyped /\ SpendsNone
      /\ UNCHANGED <<file, plist, backend, bridge, wanted, work>>
  BY SpendsLittle DEF RequestDrain, In, Spends, IInv, Typed, serviceVars
<1>2. drain' \in BOOLEAN
  BY DEF RequestDrain, IInv, Typed, HostTyped
<1>3. HostTyped'
  BY <1>1, <1>2 DEF HostTyped, SpendsNone
<1>4. PICK r \in CallerType : /\ caller' = [caller EXCEPT ![p] = r]
                              /\ r.pc = "idle" \/ (r.pc = "wait" /\ r.state = caller[p].state)
  <2>1. CASE Go(p, "wait") \/ End(p)
    BY <2>1, GotoRecord, ReturnRecord DEF IInv, Points, Activating, Waiting, Swapping
  <2>2. CASE caller' = [caller EXCEPT ![p].pc = "wait", ![p].enforced = TRUE]
    <3>1. PICK s \in CallerType : s = caller[p]
      BY DEF IInv, Typed
    <3>2. PICK r : r = [s EXCEPT !.pc = "wait", !.enforced = TRUE]
      OBVIOUS
    <3>3. r \in CallerType /\ r.pc = "wait" /\ r.state = s.state
      BY <3>2 DEF CallerType, Activating, Waiting, Swapping
    <3>4. caller' = [caller EXCEPT ![p] = r]
      BY <2>2, <3>1, <3>2
    <3>5. QED  BY <3>1, <3>3, <3>4
  <2>3. QED  BY <2>1, <2>2 DEF RequestDrain
<1>5. caller[p].pc \in Activating /\ caller[p].pc \notin Down /\ r.pc \notin Cutting
  BY <1>1, <1>4 DEF Activating, Waiting, Swapping, Cutting, Down
<1>6. CASE r.pc = "idle"
  BY <1>1, <1>3, <1>4, <1>5, <1>6, Ends
<1>7. CASE r.pc = "wait" /\ r.state = caller[p].state
  <2>1. r.pc \in Activating
    BY <1>7 DEF Activating, Waiting, Swapping
  <2>2. QED  BY <1>1, <1>3, <1>4, <1>5, <1>7, <2>1, Inside
<1>8. QED  BY <1>4, <1>6, <1>7


(* Nor is one when the refusal is renewed. *)
LEMMA RearmKeeps ==
    ASSUME IInv, NEW p \in Callers, Rearm(p)
    PROVE  IInv'
<1>1. caller[p].pc = "wait" /\ drain' = TRUE
      /\ UNCHANGED <<file, plist, backend, bridge, wanted, work, caller, spent>>
  BY DEF Rearm, In, serviceVars
<1>2. HostTyped' /\ SpendsNone
  BY <1>1 DEF IInv, Typed, HostTyped, SpentType, SpendsNone
<1>3. \A q \in Callers : caller[q].pc \notin Cutting
  BY <1>1 DEF IInv, Locked, Activating, Waiting, Swapping, Cutting
<1>4. QED  BY <1>1, <1>2, <1>3, Still


(* Nothing runs when the swap begins. *)
LEMMA SeeIdleKeeps ==
    ASSUME IInv, NEW p \in Callers, SeeIdle(p)
    PROVE  IInv'
<1>1. /\ caller[p].pc = "wait" /\ work = "none" /\ Go(p, "bootout")
      /\ UNCHANGED <<file, plist, backend, bridge, wanted, drain, work, spent>>
  BY DEF SeeIdle, In, NothingRuns, serviceVars, executorVars
<1>2. HostTyped' /\ SpendsNone
  BY <1>1 DEF IInv, Typed, HostTyped, SpentType, SpendsNone
<1>3. QED
  <2>1. PICK r \in CallerType : /\ caller' = [caller EXCEPT ![p] = r]
                                /\ r.pc = "bootout" /\ r.state = caller[p].state
    BY <1>1, GotoRecord DEF IInv, Points, Activating, Waiting, Swapping
  <2>2. caller[p].pc \in Activating /\ caller[p].pc \notin Down /\ r.pc \in Activating
    BY <1>1, <2>1 DEF Activating, Waiting, Swapping, Cutting, Down
  <2>3. QED  BY <1>1, <1>2, <2>1, <2>2, Inside


(* The wait is over: the state that was read is written back, or the process raises. *)
LEMMA GiveUpKeeps ==
    ASSUME IInv, NEW p \in Callers, GiveUp(p)
    PROVE  IInv'
<1>1. /\ caller[p].pc = "wait" /\ HostTyped /\ SpendsNone /\ End(p)
      /\ UNCHANGED <<plist, backend, bridge, wanted, work>>
  BY SpendsLittle DEF GiveUp, In, Spends, IInv, Typed, serviceVars
<1>2. drain' \in BOOLEAN
  BY <1>1 DEF GiveUp, HostTyped
<1>3. file' \in FileType /\ (file' = file \/ file'.status # "failed")
  BY DEF GiveUp, State, IInv, Typed, HostTyped, CallerType, FileType
<1>4. HostTyped'
  BY <1>1, <1>2, <1>3 DEF HostTyped, SpendsNone
<1>5. PICK r \in CallerType : caller' = [caller EXCEPT ![p] = r] /\ r.pc = "idle"
  BY <1>1, ReturnRecord
<1>6. caller[p].pc \in Activating /\ caller[p].pc \notin Down
  BY <1>1 DEF Activating, Waiting, Swapping, Cutting, Down
<1>7. QED  BY <1>1, <1>3, <1>4, <1>5, <1>6, Ends


(* The bridge goes down for the swap; if it does so unseen, none is promised. *)
LEMMA BootoutKeeps ==
    ASSUME IInv, NEW p \in Callers, BootoutBridge(p)
    PROVE  IInv'
<1>1. /\ caller[p].pc = "bootout" /\ HostTyped
      /\ UNCHANGED <<file, plist, backend, wanted, work>>
  BY DEF BootoutBridge, In, IInv, Typed
<1>2. caller[p].pc \in Activating /\ caller[p].pc \in Cutting /\ caller[p].pc \notin Down
  BY <1>1 DEF Activating, Waiting, Swapping, Cutting, Down
<1>3. drain' \in BOOLEAN /\ bridge' \in BOOLEAN
  BY <1>1 DEF BootoutBridge, Raise, HostTyped
<1>4. CASE Go(p, "define") /\ UNCHANGED <<drain, spent>>
  <2>1. PICK r \in CallerType : /\ caller' = [caller EXCEPT ![p] = r]
                                /\ r.pc = "define" /\ r.state = caller[p].state
    BY <1>4, GotoRecord DEF IInv, Points, Activating, Waiting, Swapping
  <2>2. HostTyped' /\ SpendsNone
    BY <1>1, <1>3, <1>4 DEF HostTyped, SpentType, SpendsNone
  <2>3. r.pc \in Activating /\ r.pc \in Down
    BY <2>1 DEF Activating, Waiting, Swapping, Cutting, Down
  <2>4. QED  BY <1>1, <1>2, <1>4, <2>1, <2>2, <2>3, Inside
<1>5. CASE bridge' = bridge /\ Raise(p) /\ Fault
  <2>1. SpendsNone
    BY <1>1, <1>5, SpendsLittle DEF Spends
  <2>2. HostTyped'
    BY <1>1, <1>3, <2>1 DEF HostTyped, SpendsNone
  <2>3. PICK r \in CallerType : caller' = [caller EXCEPT ![p] = r] /\ r.pc = "idle"
    BY <1>5, ReturnRecord DEF Raise
  <2>4. QED  BY <1>1, <1>2, <1>5, <2>1, <2>2, <2>3, Ends
<1>6. CASE Raise(p) /\ spent' = [spent EXCEPT !.faults = @ + 1, !.slow = TRUE]
  <2>1. spent' \in SpentType /\ (spent'.crashed \/ spent'.slow)
    BY <1>1, <1>6, SpendsPromise
  <2>2. HostTyped'
    BY <1>1, <1>3, <2>1 DEF HostTyped
  <2>3. PICK r \in CallerType : caller' = [caller EXCEPT ![p] = r] /\ r.pc = "idle"
    BY <1>6, ReturnRecord DEF Raise
  <2>4. QED  BY <1>1, <1>2, <2>1, <2>2, <2>3, Ends
<1>7. QED  BY <1>4, <1>5, <1>6 DEF BootoutBridge

(* The definition names the release, or what failed is put right later. *)
LEMMA DefineKeeps ==
    ASSUME IInv, NEW p \in Callers, WriteDefinition(p)
    PROVE  IInv'
<1>1. /\ caller[p].pc = "define" /\ HostTyped /\ SpendsNone
      /\ UNCHANGED <<file, backend, bridge, wanted, work>>
  BY SpendsLittle DEF WriteDefinition, In, Spends, IInv, Typed
<1>2. caller[p].pc \in Activating /\ caller[p].pc \in Cutting
  BY <1>1 DEF Activating, Waiting, Swapping, Cutting, Down
<1>3. drain' \in BOOLEAN /\ (drain' => drain)
  <2>1. drain \in BOOLEAN
    BY <1>1 DEF HostTyped
  <2>2. PICK b \in BOOLEAN : b = ~(caller[p].enforced /\ backend.healthy)
    OBVIOUS
  <2>3. drain' = drain \/ drain' = (drain /\ b)
    BY <2>2 DEF WriteDefinition
  <2>4. QED  BY <2>1, <2>3
<1>4. plist' \in Releases \union {Base}
  <2>1. Pending(p) \in Releases
    BY <1>2 DEF IInv, Typed, Locked, Pending, State, CallerType, FileType
  <2>2. QED  BY <1>1, <2>1 DEF WriteDefinition, Define, HostTyped
<1>5. HostTyped'
  BY <1>1, <1>3, <1>4 DEF HostTyped, SpendsNone
<1>6. PICK c \in {"mark", "again"} : Go(p, c)
  BY DEF WriteDefinition
<1>7. PICK r \in CallerType : /\ caller' = [caller EXCEPT ![p] = r]
                              /\ r.pc = c /\ r.state = caller[p].state
  BY <1>6, GotoRecord DEF IInv, Points, Activating, Waiting, Swapping
<1>8. r.pc \in Activating /\ r.pc \in Down
  BY <1>6, <1>7 DEF Activating, Waiting, Swapping, Cutting, Down
<1>9. drain' => drain /\ work' = work /\ caller[p].pc \in Cutting
  BY <1>1, <1>2, <1>3
<1>10. QED  BY <1>1, <1>2, <1>5, <1>7, <1>8, <1>9, Inside


(* An activation that goes on has not failed. *)
LEMMA MarkKeeps ==
    ASSUME IInv, NEW p \in Callers, MarkActivating(p)
    PROVE  IInv'
<1>1. /\ caller[p].pc = "mark" /\ Go(p, "bootstrap")
      /\ UNCHANGED <<plist, backend, bridge, wanted, drain, work, spent>>
  BY DEF MarkActivating, In, serviceVars, executorVars
<1>2. file' \in FileType /\ file'.status # "failed"
  BY DEF MarkActivating, State, IInv, Typed, CallerType, FileType
<1>3. HostTyped' /\ SpendsNone
  BY <1>1, <1>2 DEF IInv, Typed, HostTyped, SpentType, SpendsNone
<1>4. PICK r \in CallerType : /\ caller' = [caller EXCEPT ![p] = r]
                              /\ r.pc = "bootstrap" /\ r.state = caller[p].state
  BY <1>1, GotoRecord DEF IInv, Points, Activating, Waiting, Swapping
<1>5. /\ caller[p].pc \in Activating /\ caller[p].pc \in Cutting
      /\ r.pc \in Activating /\ r.pc \in Down
  BY <1>1, <1>4 DEF Activating, Waiting, Swapping, Cutting, Down
<1>6. QED  BY <1>1, <1>2, <1>3, <1>4, <1>5, Inside


(* What ran is cut off, and the refusal with it. *)
LEMMA BootstrapKeeps ==
    ASSUME IInv, NEW p \in Callers, BootstrapBackend(p)
    PROVE  IInv'
<1>1. /\ caller[p].pc = "bootstrap" /\ HostTyped /\ SpendsNone /\ (Restart \/ Unload)
      /\ UNCHANGED <<file, plist, bridge, wanted>>
  BY SpendsLittle DEF BootstrapBackend, In, Spends, IInv, Typed
<1>2. /\ backend' \in [loaded : BOOLEAN, runs : Releases \union {Base}, healthy : BOOLEAN]
      /\ drain' \in BOOLEAN /\ work' \in {"none", "turn", "approval"}
  BY <1>1, Restarted
<1>3. work' = "none"
  BY <1>1 DEF Restart, Unload
<1>4. HostTyped'
  BY <1>1, <1>2 DEF HostTyped, SpendsNone
<1>5. PICK c \in {"health", "fail"} : Go(p, c)
  BY DEF BootstrapBackend
<1>6. PICK r \in CallerType : /\ caller' = [caller EXCEPT ![p] = r]
                              /\ r.pc = c /\ r.state = caller[p].state
  BY <1>5, GotoRecord DEF IInv, Points, Activating, Waiting, Swapping
<1>7. caller[p].pc \in Activating /\ r.pc \in Activating /\ r.pc \in Down
  BY <1>1, <1>5, <1>6 DEF Activating, Waiting, Swapping, Cutting, Down
<1>8. QED  BY <1>1, <1>3, <1>4, <1>6, <1>7, Inside


(* The backend is looked at, and legacy databases are imported. *)
LEMMA SwapKeeps ==
    ASSUME IInv, NEW p \in Callers, CheckHealth(p) \/ Import(p) \/ ArchiveLegacy(p)
    PROVE  IInv'
<1>1. /\ caller[p].pc \in {"health", "import", "archive"} /\ HostTyped /\ SpendsNone
      /\ UNCHANGED <<file, plist, backend, bridge, wanted, drain, work>>
  BY SpendsLittle DEF CheckHealth, Import, ArchiveLegacy, In, Spends, IInv, Typed, serviceVars,
     executorVars
<1>2. HostTyped'
  BY <1>1 DEF HostTyped, SpendsNone
<1>3. PICK c \in {"import", "fail", "restore", "archive"} : Go(p, c)
  BY DEF CheckHealth, Import, ArchiveLegacy
<1>4. PICK r \in CallerType : /\ caller' = [caller EXCEPT ![p] = r]
                              /\ r.pc = c /\ r.state = caller[p].state
  BY <1>3, GotoRecord DEF IInv, Points, Activating, Waiting, Swapping
<1>5. /\ caller[p].pc \in Activating /\ caller[p].pc # "again"
      /\ r.pc \in Activating /\ r.pc \in Down /\ r.pc \notin Cutting
  BY <1>1, <1>3, <1>4 DEF Activating, Waiting, Swapping, Cutting, Down
<1>6. QED  BY <1>1, <1>2, <1>4, <1>5, Inside


(* The bridge is back, unless bringing it back failed. *)
LEMMA RestoreKeeps ==
    ASSUME IInv, NEW p \in Callers, RestoreBridge(p)
    PROVE  IInv'
<1>1. /\ caller[p].pc = "restore" /\ HostTyped /\ SpendsNone /\ bridge' \in BOOLEAN
      /\ UNCHANGED <<file, plist, backend, wanted, drain, work>>
  BY SpendsLittle DEF RestoreBridge, In, Spends, IInv, Typed, executorVars
<1>2. HostTyped'
  BY <1>1 DEF HostTyped, SpendsNone
<1>3. PICK c \in {"record", "fail"} : Go(p, c) /\ (c = "record" => bridge' = TRUE)
  BY DEF RestoreBridge
<1>4. PICK r \in CallerType : /\ caller' = [caller EXCEPT ![p] = r]
                              /\ r.pc = c /\ r.state = caller[p].state
  BY <1>3, GotoRecord DEF IInv, Points, Activating, Waiting, Swapping
<1>5. /\ caller[p].pc \in Activating /\ caller[p].pc # "again"
      /\ r.pc \in Activating /\ r.pc \notin Cutting /\ (r.pc \in Down \/ bridge')
  BY <1>1, <1>3, <1>4 DEF Activating, Waiting, Swapping, Cutting, Down
<1>6. QED  BY <1>1, <1>2, <1>4, <1>5, Inside


(* The release is active. *)
LEMMA RecordKeeps ==
    ASSUME IInv, NEW p \in Callers, RecordActive(p)
    PROVE  IInv'
<1>1. /\ caller[p].pc = "record" /\ Go(p, "prune")
      /\ UNCHANGED <<plist, backend, bridge, wanted, drain, work, spent>>
  BY DEF RecordActive, In, serviceVars, executorVars
<1>2. file' \in FileType /\ file'.status # "failed"
  BY DEF RecordActive, Pending, State, IInv, Typed, CallerType, FileType
<1>3. HostTyped' /\ SpendsNone
  BY <1>1, <1>2 DEF IInv, Typed, HostTyped, SpentType, SpendsNone
<1>4. PICK r \in CallerType : /\ caller' = [caller EXCEPT ![p] = r]
                              /\ r.pc = "prune" /\ r.state = caller[p].state
  BY <1>1, GotoRecord DEF IInv, Points, Activating, Waiting, Swapping
<1>5. caller[p].pc \in Activating /\ caller[p].pc \notin Down
  BY <1>1 DEF Activating, Waiting, Swapping, Cutting, Down
<1>6. QED  BY <1>1, <1>2, <1>3, <1>4, <1>5, Ends


(* After a failure the bridge is back, or is tried again. *)
LEMMA FailKeeps ==
    ASSUME IInv, NEW p \in Callers, Fail(p)
    PROVE  IInv'
<1>1. /\ caller[p].pc = "fail" /\ HostTyped /\ SpendsNone /\ bridge' \in BOOLEAN
      /\ UNCHANGED <<file, plist, backend, wanted, work>>
  BY SpendsLittle DEF Fail, In, Spends, IInv, Typed
<1>2. drain' \in BOOLEAN
  BY <1>1 DEF Fail, HostTyped
<1>3. HostTyped'
  BY <1>1, <1>2 DEF HostTyped, SpendsNone
<1>4. PICK c \in {"recordFailed", "recordFailedDown"} :
         Go(p, c) /\ (c = "recordFailed" => bridge' = TRUE)
  BY DEF Fail
<1>5. PICK r \in CallerType : /\ caller' = [caller EXCEPT ![p] = r]
                              /\ r.pc = c /\ r.state = caller[p].state
  BY <1>4, GotoRecord DEF IInv, Points, Activating, Waiting, Swapping
<1>6. /\ caller[p].pc \in Activating /\ caller[p].pc # "again"
      /\ r.pc \in Activating /\ r.pc \notin Cutting /\ (r.pc \in Down \/ bridge')
  BY <1>1, <1>4, <1>5 DEF Activating, Waiting, Swapping, Cutting, Down
<1>7. QED  BY <1>1, <1>3, <1>5, <1>6, Inside


(* The failure is recorded, and is the last that is written of this activation. *)
LEMMA RecordFailedKeeps ==
    ASSUME IInv, NEW p \in Callers, RecordFailed(p)
    PROVE  IInv'
<1>1. /\ caller[p].pc \in {"recordFailed", "recordFailedDown"}
      /\ UNCHANGED <<plist, backend, bridge, wanted, drain, work, spent>>
  BY DEF RecordFailed, In, serviceVars, executorVars
<1>2. file' \in FileType /\ file'.pending = NoRelease
  BY DEF RecordFailed, State, IInv, Typed, CallerType, FileType
<1>3. HostTyped' /\ SpendsNone
  BY <1>1, <1>2 DEF IInv, Typed, HostTyped, SpentType, SpendsNone
<1>4. caller[p].pc \in Activating
  BY <1>1 DEF Activating, Waiting, Swapping, Cutting, Down
<1>5. CASE caller[p].pc = "recordFailed" /\ End(p)
  <2>1. PICK r \in CallerType : caller' = [caller EXCEPT ![p] = r] /\ r.pc = "idle"
    BY <1>5, ReturnRecord
  <2>2. caller[p].pc \notin Down
    BY <1>5 DEF Down
  <2>3. QED  BY <1>1, <1>2, <1>3, <1>4, <2>1, <2>2, Ends
<1>6. CASE caller[p].pc = "recordFailedDown" /\ Go(p, "again")
  <2>1. PICK r \in CallerType : /\ caller' = [caller EXCEPT ![p] = r]
                                /\ r.pc = "again" /\ r.state = caller[p].state
    BY <1>6, GotoRecord DEF IInv, Points, Activating, Waiting, Swapping
  <2>2. r.pc \in Down /\ r.pc \notin Cutting /\ r.pc \notin Staging
    BY <2>1 DEF Down, Cutting, Staging
  <2>3. r.state.pending # NoRelease
    BY <1>4, <2>1 DEF IInv, Locked, Pending, State
  <2>4. QED  BY <1>1, <1>2, <1>3, <1>4, <2>1, <2>2, <2>3, Moved
<1>7. QED  BY <1>5, <1>6 DEF RecordFailed, In


(* The bridge is back in the end. *)
LEMMA AgainKeeps ==
    ASSUME IInv, NEW p \in Callers, RestoreAgain(p)
    PROVE  IInv'
<1>1. /\ caller[p].pc = "again" /\ bridge' = TRUE /\ End(p)
      /\ UNCHANGED <<file, plist, backend, wanted, drain, work, spent>>
  BY DEF RestoreAgain, In, executorVars
<1>2. HostTyped'
  BY <1>1 DEF IInv, Typed, HostTyped, SpentType
<1>3. PICK r \in CallerType : caller' = [caller EXCEPT ![p] = r] /\ r.pc = "idle"
  BY <1>1, ReturnRecord
<1>4. caller[p].pc \in Activating
  BY <1>1 DEF Activating, Waiting, Swapping, Cutting, Down
<1>5. QED  BY <1>1, <1>2, <1>3, <1>4, Ends


-----------------------------------------------------------------------------
(* The theorems. *)

(* Nothing is staged or activated at the start, and the bridge is up. *)
LEMMA InitIInv == ReleasesInit => IInv
<1> SUFFICES ASSUME ReleasesInit  PROVE IInv
  OBVIOUS
<1>2. PICK x \in CallerType : x = NoCall /\ x.pc = "idle"
  BY IdleTyped
<1>3. \A p \in Callers : caller[p] = x
  BY <1>2 DEF ReleasesInit
<1>4. caller \in [Callers -> CallerType]
  BY <1>2 DEF ReleasesInit
<1>5. file \in FileType /\ file.status # "failed"
  BY DEF ReleasesInit, NoFile, FileType
<1>6. HostTyped
  BY <1>5 DEF ReleasesInit, HostTyped, SpentType
<1>7. ~drain /\ bridge
  BY DEF ReleasesInit
<1>8. "idle" \notin Activating /\ "idle" \notin Staging
  BY DEF Activating, Waiting, Swapping, Staging
<1>9. Locked /\ StageInv
  BY <1>2, <1>3, <1>8 DEF Locked, StageInv
<1>10. FailedInv /\ NoTurnCut /\ BridgeInv
  BY <1>5, <1>7 DEF FailedInv, NoTurnCut, BridgeInv, Missing
<1>11. QED  BY <1>4, <1>6, <1>9, <1>10 DEF IInv, Typed

(* Every step keeps the invariant. *)
LEMMA NextIInv == IInv /\ [ReleasesNext]_releaseVars => IInv'
<1>1. SUFFICES ASSUME IInv, [ReleasesNext]_releaseVars  PROVE IInv'
  OBVIOUS
<1>2. ASSUME NEW p \in Callers, ActivateStep(p)
      PROVE  IInv'
  BY <1>1, <1>2, DrainKeeps, RearmKeeps, SeeIdleKeeps, GiveUpKeeps, BootoutKeeps, DefineKeeps,
     MarkKeeps, BootstrapKeeps, SwapKeeps, RestoreKeeps, RecordKeeps, FailKeeps,
     RecordFailedKeeps, AgainKeeps DEF ActivateStep
<1>3. ASSUME NEW p \in Callers,
             \/ \E x \in Releases : Stage(p, x)
             \/ InstallRelease(p) \/ WriteStaged(p) \/ PruneReads(p) \/ PruneRemoves(p)
             \/ Activate(p)
             \/ \E install \in BOOLEAN : ServiceStart(p, install)
             \/ StartStep(p) \/ StartFailed(p) \/ Crash(p)
      PROVE  IInv'
  BY <1>1, <1>3, StageKeeps, InstallKeeps, StagedKeeps, PruneKeeps, ActivateKeeps, ServiceKeeps,
     StartKeeps, StartFailedKeeps, CrashKeeps
<1>4. CASE Cancel \/ ServiceStop \/ Turn \/ DrainLapses
  BY <1>1, <1>4, StillKeeps
<1>5. CASE UNCHANGED releaseVars
  BY <1>1, <1>5 DEF releaseVars, serviceVars, executorVars, legacyVars, IInv, Typed, HostTyped,
     StageInv,
     Locked, Pending, State, FailedInv, NoTurnCut, BridgeInv, Missing
<1>6. QED  BY <1>1, <1>2, <1>3, <1>4, <1>5 DEF ReleasesNext

(* The inductive invariant holds, for any releases and any number of         *)
(* processes.                                                                *)
THEOREM Invariant == ReleasesSpec => []IInv
<1>1. IInv /\ [ReleasesNext]_releaseVars => IInv'
  BY NextIInv
<1>2. QED  BY InitIInv, <1>1, PTL DEF ReleasesSpec

(* An activation that takes the backend down under its own refusal cuts      *)
(* nothing off (updates.py, _activate_locked): no turn, and none that waits   *)
(* for an answer.                                                            *)
THEOREM NothingCut == ReleasesSpec => []NoTurnCut
<1>1. IInv => NoTurnCut
  BY DEF IInv
<1>2. QED  BY Invariant, <1>1, PTL

(* Whichever step of a swap failed, and whatever service commands ran         *)
(* meanwhile, the bridge is up again after it (updates.py,                    *)
(* _activate_locked), unless a process died or the bridge went down unseen.   *)
THEOREM BridgeBack == ReleasesSpec => []BridgeServed
<1>1. IInv => BridgeServed
  BY DEF IInv, BridgeInv, Missing, BridgeServed, Down, Swapping
<1>2. QED  BY Invariant, <1>1, PTL

(* A release that failed becomes pending again only by being staged again    *)
(* (updates.py): no process that read update.json before puts it back.       *)
THEOREM FailureFinal == ReleasesSpec => FailedIsNotRetried
<1>1. ASSUME IInv, ReleasesNext, file.status = "failed", file'.pending # NoRelease
      PROVE  file'.status = "staged"
  <2>1. file.pending = NoRelease /\ \A p \in Callers : caller[p].pc \in Activating => caller[p].pc = "again"
    BY <1>1 DEF IInv, FailedInv
  <2>2. CASE file' = file
    BY <1>1, <2>1, <2>2
  <2>3. ASSUME NEW p \in Callers, GiveUp(p) \/ MarkActivating(p) \/ RecordActive(p) \/ RecordFailed(p)
        PROVE  FALSE
    <3>1. caller[p].pc \in {"wait", "mark", "record", "recordFailed", "recordFailedDown"}
      BY <2>3 DEF GiveUp, MarkActivating, RecordActive, RecordFailed, In
    <3>2. QED  BY <2>1, <3>1 DEF Activating, Waiting, Swapping
  <2>4. ASSUME NEW p \in Callers, WriteStaged(p), file' # file
        PROVE  file'.status = "staged"
    BY <2>4 DEF WriteStaged
  <2>5. \/ file' = file
        \/ \E p \in Callers : \/ GiveUp(p) \/ MarkActivating(p) \/ RecordActive(p)
                              \/ RecordFailed(p) \/ WriteStaged(p)
    <3>1. ASSUME NEW p \in Callers, ActivateStep(p)
          PROVE  file' = file \/ GiveUp(p) \/ MarkActivating(p) \/ RecordActive(p) \/ RecordFailed(p)
      BY <3>1 DEF ActivateStep, RequestDrain, Rearm, SeeIdle, BootoutBridge, WriteDefinition,
         BootstrapBackend, CheckHealth, Import, ArchiveLegacy, RestoreBridge, Fail, RestoreAgain
    <3>2. ASSUME NEW p \in Callers,
                 \/ \E x \in Releases : Stage(p, x)
                 \/ InstallRelease(p) \/ PruneReads(p) \/ PruneRemoves(p) \/ Activate(p)
                 \/ \E install \in BOOLEAN : ServiceStart(p, install)
                 \/ StartStep(p) \/ StartFailed(p) \/ Crash(p)
          PROVE  file' = file
      BY <3>2 DEF Stage, InstallRelease, PruneReads, PruneRemoves, Activate, ServiceStart,
         StartStep,
         StartFailed, Crash
    <3>3. CASE ServiceStop \/ Turn \/ DrainLapses
      BY <3>3 DEF ServiceStop, Turn, DrainLapses
    <3>4. CASE Cancel
      BY <1>1, <2>1, <3>4 DEF Cancel
    <3>5. QED  BY <1>1, <3>1, <3>2, <3>3, <3>4 DEF ReleasesNext
  <2>6. QED  BY <2>2, <2>3, <2>4, <2>5
<1>2. IInv /\ [ReleasesNext]_releaseVars =>
         [file.status = "failed" /\ file'.pending # NoRelease => file'.status = "staged"]_releaseVars
  BY <1>1
<1>3. QED  BY Invariant, <1>2, PTL DEF ReleasesSpec, FailedIsNotRetried
=============================================================================
