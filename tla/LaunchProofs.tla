---------------------------- MODULE LaunchProofs ----------------------------
(***************************************************************************)
(* Safety of the launch protocol for any number of processes, any failure  *)
(* budget, and any number of epochs, commands, crashes and time-outs.      *)
(*                                                                         *)
(* The fence is open around every executor request, so a process goes on   *)
(* with what it read before others stepped in.  That the holder was        *)
(* launched is therefore not inductive: activate() compares nothing, and   *)
(* makes whatever session its caller remembers the holder.  IInv says what *)
(* a process may remember at each of its points (ProcInv), that this stays *)
(* true whatever the others do (Grows: epochs, launches and ends are never *)
(* undone), and what a current snapshot still says of the row              *)
(* (SnapshotInv), which is all that the writes under a version rest on.    *)
(*                                                                         *)
(* That Launch implements TaskLifecycle follows: the writes that check     *)
(* nothing are legal by what ProcInv says of the session, the others by    *)
(* what SnapshotInv says of the row.  The theorems of TaskLifecycle about  *)
(* charges and final states then hold of Launch.                           *)
(*                                                                         *)
(* Four more invariants are inductive given IInv, each for a property of   *)
(* the moments at which nothing is under way: StartInv says where the      *)
(* processes of a reserved task can be, HandoverInv what they may do with  *)
(* a session that is succeeded, PlaceInv where a session works and who     *)
(* knows it, and RecordInv that while nothing disturbs the processes a     *)
(* session that runs is launched, marked for the end of its workspace, or  *)
(* owed by a process that has yet to write it down or to stop it.          *)
(***************************************************************************)
EXTENDS Launch, TLAPS

(* The session of epoch e was launched, and the journal says so. *)
Known(e) ==
    /\ e \in 1..row.epoch
    /\ native[e].state # "none"
    /\ effect[e].state \in {"launched", "terminal"}

(* What the row says of itself: a reroute left a charge to spend, a row    *)
(* that was never inserted is at its first epoch, and whoever holds the    *)
(* task was launched.                                                      *)
RowInv ==
    /\ row.state = "replacing" /\ row.recovery => L!BudgetLeft(row)
    /\ row.state = "absent" =>
         /\ row.epoch = 1 /\ row.attempts = 0 /\ row.holder = None
         /\ ~row.recovery /\ ~row.expired
    /\ row.state = "active" => row.holder # None
    /\ row.holder # None => Known(row.holder)

(* The journal knows no epoch the row has not reached, and what it says    *)
(* was launched, or records as a successor, was.                           *)
JournalInv ==
    \A e \in Epochs :
        /\ effect[e].state # "none" => e <= row.epoch
        /\ effect[e].state = "launched" => Known(e)
        /\ successor[e] # None => Known(successor[e])

(* Where a process has a session to hand over, and where it has one to     *)
(* hand over to.                                                           *)
Succeeding == {"replace", "retire", "transfer", "link", "forward", "retireFinal"}
Holding    == {"activate", "link", "forward", "handover"}

(* What a process remembers at each point, whoever stepped in since: its   *)
(* epoch was reached, the source it succeeds exists, the session it is     *)
(* about to make the holder was launched.                                  *)
ProcInv(r) ==
    /\ r.epoch <= row.epoch
    /\ r.pc \notin {"idle", "finish", "observe"} => r.epoch # 0
    /\ r.pc \in Succeeding => r.src # None
    /\ r.pc \in Holding => Known(r.sid)
    /\ r.pc = "reply" /\ r.reply = "ok" => native[r.epoch].state # "none"
    /\ r.pc = "looked" /\ r.sid # None
         => r.sid = r.epoch /\ native[r.epoch].state # "none"

(* What a process read is what the row still says. *)
SnapshotInv(r) ==
    /\ r.epoch = row.epoch
    /\ r.src = row.holder
    /\ r.pc = "route" =>
         /\ row.state \in {"active", "blocked"}
         /\ L!BudgetLeft(row) /\ L!CanOpenEpoch(row)
         /\ row.state = "active" => ~L!LastFailure(row)

(* The inductive invariant. *)
IInv == /\ TypeOK
        /\ RowInv
        /\ JournalInv
        /\ \A p \in Procs : ProcInv(proc[p])
        /\ \A p \in fresh : SnapshotInv(proc[p])

-----------------------------------------------------------------------------
(* What a step keeps. *)

(* The bounds are kept. *)
Spent == [ commands : 0..MaxCommands, crashes : 0..MaxCrashes, timeouts : 0..MaxTimeouts ]

(* TypeOK but for the processes. *)
StoreType ==
    /\ row \in RowType
    /\ effect \in [Epochs -> EffectType]
    /\ retired \subseteq Epochs
    /\ successor \in [Epochs -> 0..MaxEpoch]
    /\ intents \subseteq Epochs
    /\ native \in [Epochs -> NativeType]
    /\ spent \in Spent

(* The row's epoch only grows, and what was launched stays known. Every    *)
(* step does that, so what a process that did not move remembers stays     *)
(* true.                                                                   *)
Grows ==
    /\ row.epoch <= row'.epoch
    /\ \A e \in Epochs :
         /\ native[e].state # "none" => native'[e].state # "none"
         /\ effect[e].state \in {"launched", "terminal"}
              => effect'[e].state \in {"launched", "terminal"}

(* A session that was launched stays known. *)
LEMMA KnownGrows ==
    ASSUME StoreType, StoreType', Grows, NEW e, Known(e)
    PROVE  Known(e)' /\ e \in Epochs
<1>1. e \in Epochs
  BY LaunchAssumption DEF Known, StoreType, RowType, Epochs
<1>2. e \in 1..row'.epoch
  BY LaunchAssumption DEF Known, StoreType, RowType, Epochs, Grows
<1>3. QED  BY <1>1, <1>2 DEF Known, Grows

(* What a process remembers stays true while the store grows. *)
LEMMA ProcInvGrows ==
    ASSUME StoreType, StoreType', Grows, NEW r \in ProcType, ProcInv(r)
    PROVE  ProcInv(r)'
<1>1. r.epoch \in 0..MaxEpoch
  BY DEF ProcType
<1>2. r.epoch <= row'.epoch
  <2>1. row.epoch \in Nat /\ row'.epoch \in Nat /\ r.epoch \in Nat
    <3>1. row.epoch \in Epochs /\ row'.epoch \in Epochs
      BY DEF StoreType, RowType
    <3>2. QED  BY <1>1, <3>1, LaunchAssumption DEF LaunchAssumption, Epochs
  <2>2. r.epoch <= row.epoch /\ row.epoch <= row'.epoch
    BY DEF ProcInv, Grows
  <2>3. QED  BY <2>1, <2>2
<1>3. r.pc \in Holding => Known(r.sid)'
  BY KnownGrows DEF ProcInv
<1>4. r.epoch # 0 /\ native[r.epoch].state # "none" => native'[r.epoch].state # "none"
  BY <1>1, LaunchAssumption DEF Grows, Epochs
<1>5. QED  BY <1>2, <1>3, <1>4 DEF ProcInv

(* So does what the row says, if it is not written. *)
LEMMA RowInvGrows ==
    ASSUME StoreType, StoreType', Grows, UNCHANGED row, RowInv
    PROVE  RowInv'
  BY KnownGrows DEF RowInv, L!BudgetLeft

(* And what the journal says, if no epoch is entered and none becomes      *)
(* launched.                                                               *)
LEMMA JournalInvGrows ==
    ASSUME StoreType, StoreType', Grows, JournalInv, UNCHANGED successor,
           \A e \in Epochs :
               /\ effect'[e].state = "launched" => effect[e].state = "launched"
               /\ effect'[e].state # "none" => effect[e].state # "none"
    PROVE  JournalInv'
<1>1. ASSUME NEW e \in Epochs, effect'[e].state # "none"  PROVE e <= row'.epoch
  <2>1. e <= row.epoch /\ row.epoch <= row'.epoch
    BY <1>1 DEF JournalInv, Grows
  <2>2. row.epoch \in Epochs /\ row'.epoch \in Epochs
    BY DEF StoreType, RowType
  <2>3. QED  BY <2>1, <2>2, LaunchAssumption DEF LaunchAssumption, Epochs
<1>2. QED  BY <1>1, KnownGrows DEF JournalInv

(* A step of one process p. The others' memories are kept by Grows, and    *)
(* their snapshots are current only if the row was not written. All        *)
(* actions but those that move no process come down to this.               *)
LEMMA Step ==
    ASSUME IInv, StoreType', Grows, RowInv', JournalInv',
           NEW p \in Procs, NEW r \in ProcType,
           proc' = [proc EXCEPT ![p] = r], ProcInv(r)',
           fresh' \subseteq {q \in Procs : proc'[q].pc # "idle"},
           p \in fresh' => SnapshotInv(r)',
           \A q \in fresh' \ {p} : q \in fresh /\ row' = row
    PROVE  IInv'
<1>1. TypeOK'
  BY DEF IInv, TypeOK, StoreType, At, Spent
<1>2. StoreType
  BY DEF IInv, TypeOK, StoreType, Spent
<1>3. ASSUME NEW q \in Procs  PROVE ProcInv(proc[q])'
  <2>1. CASE q = p
    BY <2>1 DEF IInv, TypeOK
  <2>2. CASE q # p
    <3>1. proc'[q] = proc[q] /\ proc[q] \in ProcType
      BY <2>2 DEF IInv, TypeOK
    <3>2. ProcInv(proc[q])
      BY DEF IInv
    <3>3. QED  BY <1>2, <3>1, <3>2, ProcInvGrows
  <2>3. QED  BY <2>1, <2>2
<1>4. ASSUME NEW q \in fresh'  PROVE SnapshotInv(proc[q])'
  <2>1. CASE q = p
    BY <2>1 DEF IInv, TypeOK
  <2>2. CASE q # p
    BY <2>2 DEF IInv, TypeOK, SnapshotInv, L!BudgetLeft, L!CanOpenEpoch, L!LastFailure
  <2>3. QED  BY <2>1, <2>2
<1>5. QED  BY <1>1, <1>3, <1>4 DEF IInv

-----------------------------------------------------------------------------

(* Every program point. *)
Points == Fenced \union Unfenced

(* An idle process remembers nothing. *)
LEMMA IdleIsIdle ==
    /\ Idle \in ProcType /\ Idle.pc = "idle"
    /\ StoreType  => ProcInv(Idle)
    /\ StoreType' => ProcInv(Idle)'
<1>1. Idle \in ProcType /\ Idle.pc = "idle" /\ Idle.epoch = 0
  BY LaunchAssumption DEF LaunchAssumption, Idle, ProcType, Unfenced, Replies
<1>2. StoreType => row.epoch \in 1..MaxEpoch
  BY DEF StoreType, RowType, Epochs
<1>3. StoreType' => row'.epoch \in 1..MaxEpoch
  BY DEF StoreType, RowType, Epochs
<1>4. QED  BY <1>1, <1>2, <1>3 DEF ProcInv, Succeeding, Holding

(* What going to a point changes of a process's record. *)
LEMMA GotoRecord ==
    ASSUME NEW q \in ProcType, NEW pc \in Points
    PROVE  LET r == [q EXCEPT !.pc = pc] IN
           /\ r \in ProcType /\ r.pc = pc
           /\ r.epoch = q.epoch /\ r.src = q.src /\ r.sid = q.sid /\ r.reply = q.reply
  BY DEF ProcType, Points

(* What reading a row puts into a process's record. *)
LEMMA SnapshotRecord ==
    ASSUME NEW r \in RowType, NEW pc \in Points,
           NEW op \in {"none", "start", "replace", "auto", "observe", "complete", "cancel",
                       "sweep"}
    PROVE  LET q == [Idle EXCEPT !.pc = pc, !.op = op, !.epoch = r.epoch,
                                 !.src = r.holder, !.ws = r.ws]
           IN  /\ q \in ProcType /\ q.pc = pc /\ q.epoch = r.epoch /\ q.src = r.holder
               /\ q.sid = None
<1>1. /\ r.epoch \in 0..MaxEpoch /\ r.holder \in 0..MaxEpoch /\ r.ws \in 0..MaxEpoch
      /\ 0 \in 0..MaxEpoch /\ "none" \in Replies
  BY LaunchAssumption DEF LaunchAssumption, RowType, Epochs, Replies
<1>2. QED  BY <1>1 DEF Idle, ProcType, None, Points

(* r remembers no more of the row than q did. *)
SameSnapshot(r, q) ==
    r.epoch = q.epoch /\ r.src = q.src /\ (r.pc = "route" => q.pc = "route")

(* A step of p that does not write the row, and keeps p's snapshot,        *)
(* returns, or goes on with a current one.                                 *)
LEMMA KeptStep ==
    ASSUME IInv, StoreType', Grows, JournalInv', RowKept,
           NEW p \in Procs, NEW r \in ProcType,
           proc' = [proc EXCEPT ![p] = r], ProcInv(r)',
           r.pc = "idle" \/ SameSnapshot(r, proc[p]) \/ (p \in fresh => SnapshotInv(r))
    PROVE  IInv'
<1>1. StoreType /\ RowInv
  BY DEF IInv, TypeOK, StoreType, Spent
<1>2. fresh' = {q \in fresh : proc'[q].pc # "idle"} /\ row' = row /\ fresh \subseteq Procs
  BY DEF IInv, TypeOK, RowKept, Running
<1>3. proc'[p] = r
  BY DEF IInv, TypeOK
<1>4. RowInv'
  BY <1>1, <1>2, RowInvGrows
<1>5. p \in fresh' => SnapshotInv(r)'
  BY <1>2, <1>3 DEF IInv, SnapshotInv, SameSnapshot, L!BudgetLeft, L!CanOpenEpoch, L!LastFailure
<1>6. QED  BY <1>2, <1>4, <1>5, Step

(* A step in which p reads the row anew. *)
LEMMA ReadStep ==
    ASSUME IInv, StoreType', Grows, JournalInv', NEW p \in Procs, RowRead(p),
           NEW r \in ProcType, r.pc # "idle",
           proc' = [proc EXCEPT ![p] = r], ProcInv(r)', SnapshotInv(r)
    PROVE  IInv'
<1>1. StoreType /\ RowInv
  BY DEF IInv, TypeOK, StoreType, Spent
<1>2. /\ fresh' = {q \in fresh \union {p} : proc'[q].pc # "idle"}
      /\ row' = row /\ fresh \subseteq Procs
  BY DEF IInv, TypeOK, RowRead, Running
<1>3. proc'[p] = r
  BY DEF IInv, TypeOK
<1>4. RowInv'
  BY <1>1, <1>2, RowInvGrows
<1>5. SnapshotInv(r)'
  BY <1>2, <1>3 DEF SnapshotInv, L!BudgetLeft, L!CanOpenEpoch, L!LastFailure
<1>6. QED  BY <1>2, <1>4, <1>5, Step

(* Steps that touch nothing but the process. *)
LEMMA SameStore ==
    ASSUME StoreType, JournalInv, spent' \in Spent, UNCHANGED row,
           JournalKept, OwnersKept, NativeKept
    PROVE  StoreType' /\ Grows /\ JournalInv'
<1>1. StoreType' /\ Grows
  <2>1. row.epoch \in Nat
    <3>1. row.epoch \in Epochs
      BY DEF StoreType, RowType
    <3>2. QED  BY <3>1, LaunchAssumption DEF LaunchAssumption, Epochs
  <2>2. QED  BY <2>1 DEF StoreType, Grows, JournalKept, OwnersKept, NativeKept
<1>2. QED  BY <1>1, JournalInvGrows DEF JournalKept, OwnersKept

(* The bounds are kept by each way of spending them. *)
LEMMA SpentKept ==
    ASSUME IInv
    PROVE  /\ NotCommand => spent' \in Spent
           /\ \A p : Command(p) => spent' \in Spent
           /\ spent.timeouts < MaxTimeouts /\ spent' = [spent EXCEPT !.timeouts = @ + 1]
                => spent' \in Spent
           /\ spent.crashes < MaxCrashes /\ spent' = [spent EXCEPT !.crashes = @ + 1]
                => spent' \in Spent
<1>1. spent \in Spent  BY DEF IInv, TypeOK, Spent
<1>2. QED  BY <1>1, LaunchAssumption DEF LaunchAssumption, Spent, NotCommand, Command

(* A step that moves p and writes nothing. *)
LEMMA QuietStep ==
    ASSUME IInv, OnlyProc, spent' \in Spent, NEW p \in Procs, NEW r \in ProcType,
           proc' = [proc EXCEPT ![p] = r], ProcInv(r),
           r.pc = "idle" \/ SameSnapshot(r, proc[p]) \/ (p \in fresh => SnapshotInv(r))
    PROVE  IInv'
<1>1. StoreType /\ JournalInv
  BY DEF IInv, TypeOK, StoreType, Spent
<1>2. StoreType' /\ Grows /\ JournalInv'
  BY <1>1, SameStore DEF OnlyProc, RowKept
<1>3. ProcInv(r)'
  BY <1>1, <1>2, ProcInvGrows
<1>4. QED  BY <1>2, <1>3, KeptStep DEF OnlyProc

(* A step in which p reads the row, and writes nothing. *)
LEMMA QuietRead ==
    ASSUME IInv, JournalKept, OwnersKept, NativeKept, spent' \in Spent,
           NEW p \in Procs, RowRead(p), NEW r \in ProcType, r.pc # "idle",
           proc' = [proc EXCEPT ![p] = r], ProcInv(r), SnapshotInv(r)
    PROVE  IInv'
<1>1. StoreType /\ JournalInv
  BY DEF IInv, TypeOK, StoreType, Spent
<1>2. StoreType' /\ Grows /\ JournalInv'
  BY <1>1, SameStore DEF RowRead
<1>3. ProcInv(r)'
  BY <1>1, <1>2, ProcInvGrows
<1>4. QED  BY <1>2, <1>3, ReadStep

(* The parts of the invariant, where a proof needs no more of it. *)
LEMMA IInvParts ==
    IInv => /\ StoreType /\ RowInv /\ JournalInv
            /\ \A p \in Procs : proc[p] \in ProcType /\ ProcInv(proc[p])
  BY DEF IInv, TypeOK, StoreType, Spent

(* An operation may return at any point. *)
LEMMA QuietReturn ==
    ASSUME IInv, OnlyProc, spent' \in Spent, NEW p \in Procs, Return(p)
    PROVE  IInv'
  BY IInvParts, IdleIsIdle, QuietStep DEF Return

(* Points that ask nothing of a process but an epoch, and perhaps a source. *)
LEMMA GotoInv ==
    ASSUME NEW q \in ProcType, ProcInv(q), q.epoch # 0,
           NEW pc \in Points \ (Holding \union {"reply", "looked"}),
           pc \in Succeeding => q.src # None
    PROVE  ProcInv([q EXCEPT !.pc = pc])
  BY GotoRecord DEF ProcInv

(* A step of p to a point that asks for nothing p does not have. *)
LEMMA QuietGoto ==
    ASSUME IInv, OnlyProc, NotCommand, NEW p \in Procs, proc[p].epoch # 0,
           NEW pc \in Points \ (Holding \union {"reply", "looked", "route"}),
           pc \in Succeeding => proc[p].src # None, Goto(p, pc)
    PROVE  IInv'
<1> DEFINE r == [proc[p] EXCEPT !.pc = pc]
<1>1. proc[p] \in ProcType /\ ProcInv(proc[p])
  BY IInvParts
<1>2. r \in ProcType /\ r.pc = pc /\ SameSnapshot(r, proc[p])
  BY <1>1, GotoRecord DEF SameSnapshot
<1>3. ProcInv(r)
  BY <1>1, GotoInv
<1>4. proc' = [proc EXCEPT ![p] = r]
  BY DEF Goto
<1>5. spent' \in Spent
  BY SpentKept
<1>6. QED  BY <1>2, <1>3, <1>4, <1>5, QuietStep

(* The journal's row of epoch e, and nothing else of the store, is written. *)
EffectStep(e) ==
    /\ effect' \in [Epochs -> EffectType]
    /\ \A d \in Epochs \ {e} : effect'[d] = effect[d]
    /\ effect[e].state \in {"launched", "terminal"}
         => effect'[e].state \in {"launched", "terminal"}
    /\ effect'[e].state # "none" => e <= row.epoch
    /\ effect'[e].state = "launched" => native[e].state # "none"
    /\ RowKept /\ OwnersKept /\ NativeKept /\ NotCommand

(* A write of one epoch's journal row keeps the store and the journal in   *)
(* order.                                                                  *)
LEMMA JournalStep ==
    ASSUME IInv, NEW e \in Epochs, EffectStep(e)
    PROVE  StoreType' /\ Grows /\ JournalInv'
<1> USE DEF EffectStep, RowKept
<1>1. StoreType /\ JournalInv
  BY IInvParts
<1>2. StoreType' /\ Grows
  <2>1. row.epoch \in Nat
    <3>1. row.epoch \in Epochs
      BY <1>1 DEF StoreType, RowType
    <3>2. QED  BY <3>1, LaunchAssumption DEF LaunchAssumption, Epochs
  <2>2. QED  BY <1>1, <2>1 DEF StoreType, Grows, OwnersKept, NativeKept, NotCommand
<1>3. ASSUME NEW d \in Epochs, effect'[d].state = "launched"  PROVE Known(d)'
  <2>1. CASE d = e
    <3>1. d \in 1..row.epoch /\ native[d].state # "none"
      BY <1>3, <2>1, <1>1, LaunchAssumption DEF LaunchAssumption, StoreType, RowType, Epochs
    <3>2. QED  BY <3>1, <1>3 DEF Known, NativeKept
  <2>2. CASE d # e
    BY <1>1, <1>2, <1>3, <2>2, KnownGrows DEF JournalInv
  <2>3. QED  BY <2>1, <2>2
<1>4. ASSUME NEW d \in Epochs, successor'[d] # None  PROVE Known(successor[d])'
  BY <1>1, <1>2, <1>4, KnownGrows DEF JournalInv, OwnersKept
<1>5. ASSUME NEW d \in Epochs, effect'[d].state # "none"  PROVE d <= row'.epoch
  BY <1>1, <1>5 DEF JournalInv
<1>6. QED  BY <1>2, <1>3, <1>4, <1>5 DEF JournalInv, OwnersKept

(* The same, with the process that writes it moving on ... *)
LEMMA EffectMove ==
    ASSUME IInv, NEW e \in Epochs, EffectStep(e),
           NEW p \in Procs, NEW r \in ProcType,
           proc' = [proc EXCEPT ![p] = r], ProcInv(r)',
           r.pc = "idle" \/ SameSnapshot(r, proc[p]) \/ (p \in fresh => SnapshotInv(r))
    PROVE  IInv'
  BY JournalStep, KeptStep DEF EffectStep

(* ... returning ... *)
LEMMA EffectReturn ==
    ASSUME IInv, NEW e \in Epochs, EffectStep(e), NEW p \in Procs, Return(p)
    PROVE  IInv'
  BY JournalStep, EffectMove, IdleIsIdle DEF Return

(* ... or going to a point that asks for nothing it does not have. *)
LEMMA EffectGoto ==
    ASSUME IInv, NEW e \in Epochs, EffectStep(e), NEW p \in Procs, proc[p].epoch # 0,
           NEW pc \in Points \ (Holding \union {"reply", "looked", "route"}),
           pc \in Succeeding => proc[p].src # None, Goto(p, pc)
    PROVE  IInv'
<1>1. proc[p] \in ProcType /\ ProcInv(proc[p]) /\ StoreType
  BY IInvParts
<1>2. PICK r \in ProcType : r = [proc[p] EXCEPT !.pc = pc]
  BY <1>1, GotoRecord
<1>3. ProcInv(r) /\ SameSnapshot(r, proc[p])
  BY <1>1, <1>2, GotoInv, GotoRecord DEF SameSnapshot
<1>4. ProcInv(r)'
  BY <1>1, <1>2, <1>3, JournalStep, ProcInvGrows
<1>5. proc' = [proc EXCEPT ![p] = r]
  BY <1>2 DEF Goto
<1>6. QED  BY <1>3, <1>4, <1>5, EffectMove

(* A journal that is left alone is a case of EffectStep ... *)
LEMMA KeptIsEffectStep ==
    ASSUME IInv, NEW e \in Epochs, OnlyProc, NotCommand
    PROVE  EffectStep(e)
<1>1. /\ effect[e].state = "launched" => Known(e)
      /\ effect[e].state # "none" => e <= row.epoch
  BY IInvParts DEF JournalInv
<1>2. QED
  BY <1>1, IInvParts, LaunchAssumption
  DEF LaunchAssumption, EffectStep, OnlyProc, JournalKept, StoreType, Known, Epochs, RowType

(* ... and so is one whose row of e ends, as all of _journaled_launch's    *)
(* error paths end it.                                                     *)
LEMMA EndIsEffectStep ==
    ASSUME IInv, NEW e \in Epochs, e <= row.epoch, NEW ws \in 0..MaxEpoch,
           NEW outcome \in {"none", "provider", "other"},
           effect' = [effect EXCEPT ![e] = Terminal(@, ws, outcome)],
           RowKept, OwnersKept, NativeKept, NotCommand
    PROVE  EffectStep(e)
<1>1. effect \in [Epochs -> EffectType]
  BY IInvParts DEF StoreType
<1>2. Terminal(effect[e], ws, outcome) \in EffectType
      /\ Terminal(effect[e], ws, outcome).state = "terminal"
  BY <1>1 DEF EffectType, Terminal
<1>3. QED  BY <1>1, <1>2 DEF EffectStep

-----------------------------------------------------------------------------

(* The session is launched, journalled, and p goes on to activate it or    *)
(* to link it to its source.                                               *)
LEMMA LaunchedStep ==
    ASSUME IInv, NEW p \in Procs, proc[p].epoch # 0, NEW e \in Epochs,
           e = proc[p].epoch,
           Launched(p, e), EffectStep(e), effect'[e].state = "launched"
    PROVE  IInv'
<1> DEFINE n == [proc[p] EXCEPT !.sid = e,
                                !.ws  = effect'[e].ws,
                                !.pc  = IF proc[p].src = None \/ proc[p].op = "start"
                                          THEN "activate" ELSE "link"]
<1>1. proc[p] \in ProcType /\ ProcInv(proc[p]) /\ StoreType
  BY IInvParts
<1>2. /\ n \in ProcType /\ SameSnapshot(n, proc[p]) /\ n.epoch = e /\ n.sid = e
      /\ n.pc = "activate" \/ (n.pc = "link" /\ n.src # None)
  <2>1. effect'[e].ws \in 0..MaxEpoch
    BY DEF EffectStep, EffectType
  <2>2. {"activate", "link"} \subseteq Fenced \union Unfenced
    BY DEF Fenced
  <2>3. e \in 0..MaxEpoch
    BY LaunchAssumption DEF LaunchAssumption, Epochs
  <2>4. QED  BY <1>1, <2>1, <2>2, <2>3 DEF ProcType, SameSnapshot
<1>3. StoreType' /\ Grows /\ JournalInv'
  BY JournalStep
<1>4. Known(e)'
  BY <1>3 DEF JournalInv
<1>5. e <= row'.epoch
  BY <1>4, <1>3, LaunchAssumption DEF LaunchAssumption, Known, StoreType, RowType, Epochs
<1>6. proc' = [proc EXCEPT ![p] = n]
  BY IInvParts DEF Launched, IInv, TypeOK
<1> HIDE DEF n
<1>7. PICK r \in ProcType : r = n
  BY <1>2
<1>8. ProcInv(r)'
  BY <1>2, <1>4, <1>5, <1>7 DEF ProcInv, Succeeding, Holding
<1>9. QED  BY <1>2, <1>6, <1>7, <1>8, EffectMove

(* A process that is past its first read has an epoch, and the row         *)
(* reached it.                                                             *)
LEMMA HasEpoch ==
    ASSUME IInv, NEW p \in Procs, proc[p].pc \notin {"idle", "finish", "observe"}
    PROVE  proc[p].epoch \in Epochs /\ proc[p].epoch # 0 /\ proc[p].epoch <= row.epoch
<1>1. proc[p].epoch \in 0..MaxEpoch /\ proc[p].epoch # 0
  BY IInvParts DEF ProcType, ProcInv
<1>2. QED  BY <1>1, IInvParts, LaunchAssumption DEF LaunchAssumption, Epochs, ProcInv

(* _journaled_launch: the reservation, the adoption, the wait for another  *)
(* launcher, and the refusal.                                              *)
LEMMA ReserveKeeps ==
    ASSUME IInv, NEW p \in Procs, Reserve(p)  PROVE IInv'
<1> DEFINE e == proc[p].epoch
<1>0. e \in Epochs /\ e # 0 /\ e <= row.epoch /\ effect \in [Epochs -> EffectType]
  BY HasEpoch, IInvParts DEF Reserve, At, StoreType
<1>1. spent' \in Spent
  BY SpentKept DEF Reserve
<1>2. CASE Return(p) /\ JournalKept
  BY <1>1, <1>2, QuietReturn DEF Reserve, OnlyProc
<1>3. CASE effect[e].state = "launched" /\ JournalKept /\ Launched(p, e)
  <2>1. EffectStep(e) /\ effect'[e].state = "launched"
    BY <1>0, <1>3, KeptIsEffectStep DEF Reserve, OnlyProc, JournalKept
  <2>2. QED  BY <1>0, <1>3, <2>1, LaunchedStep
<1>4. CASE Goto(p, "busy") /\ JournalKept
  <2>1. "busy" \in Points \ (Holding \union {"reply", "looked", "route"} \union Succeeding)
    BY DEF Points, Unfenced, Holding, Succeeding
  <2>2. QED  BY <1>0, <1>4, <2>1, QuietGoto DEF Reserve, OnlyProc
<1>5. CASE /\ effect[e].state \in {"none", "reserved"}
           /\ effect' = [effect EXCEPT ![e].state = "reserved", ![e].live = TRUE,
                                       ![e].bridge = (p = Bridge)]
           /\ Goto(p, "call")
  <2>1. "call" \in Points \ (Holding \union {"reply", "looked", "route"} \union Succeeding)
    BY DEF Points, Unfenced, Holding, Succeeding
  <2>2. EffectStep(e)
    <3>1. PICK x \in EffectType : x = effect[e]
      BY <1>0
    <3>2. PICK b \in BOOLEAN : b = (p = Bridge)
      OBVIOUS
    <3>3. PICK y : y = [x EXCEPT !.state = "reserved", !.live = TRUE, !.bridge = b]
      OBVIOUS
    <3>4. y \in EffectType /\ y.state = "reserved"
      BY <3>3 DEF EffectType
    <3>5. effect' = [effect EXCEPT ![e].state = "reserved", ![e].live = TRUE, ![e].bridge = b]
      BY <1>5, <3>2
    <3>6. effect' = [effect EXCEPT ![e] = y]
      BY ONLY <1>0, <3>1, <3>3, <3>5
    <3>7. effect[e].state \notin {"launched", "terminal"} /\ NotCommand
          /\ RowKept /\ OwnersKept /\ NativeKept
      BY <1>5 DEF Reserve
    <3>8. QED  BY <1>0, <3>4, <3>6, <3>7 DEF EffectStep
  <2>3. QED  BY <1>0, <1>5, <2>1, <2>2, EffectGoto
<1>6. QED  BY <1>2, <1>3, <1>4, <1>5 DEF Reserve

(* The answer came for a task that moved on. *)
LEMMA ReplySupersededKeeps ==
    ASSUME IInv, NEW p \in Procs, ReplySuperseded(p)  PROVE IInv'
<1> DEFINE e  == proc[p].epoch
           ws == native[e].ws
<1>0. e \in Epochs /\ e # 0 /\ e <= row.epoch /\ ws \in 0..MaxEpoch
  BY HasEpoch, IInvParts DEF ReplySuperseded, Answer, At, StoreType, NativeType
<1>1. EffectStep(e)
  BY <1>0, EndIsEffectStep DEF ReplySuperseded, Superseded
<1>2. PICK r \in ProcType : r = [proc[p] EXCEPT !.pc = "stop", !.ws = ws]
  BY <1>0, IInvParts DEF ProcType, Unfenced
<1>3. r.pc = "stop" /\ SameSnapshot(r, proc[p]) /\ proc' = [proc EXCEPT ![p] = r]
  BY <1>2, IInvParts DEF ProcType, SameSnapshot, ReplySuperseded
<1>4. ProcInv(r)
  BY <1>0, <1>2, <1>3, IInvParts DEF ProcInv, Holding, Succeeding, SameSnapshot
<1>5. ProcInv(r)'
  BY <1>0, <1>1, <1>4, JournalStep, ProcInvGrows, IInvParts
<1>6. QED  BY <1>0, <1>1, <1>3, <1>5, EffectMove

(* The answer is recorded. *)
LEMMA ReplyLaunchedKeeps ==
    ASSUME IInv, NEW p \in Procs, ReplyLaunched(p)  PROVE IInv'
<1> DEFINE e  == proc[p].epoch
<1>0. /\ e \in Epochs /\ e # 0 /\ e <= row.epoch
      /\ effect \in [Epochs -> EffectType] /\ native[e].ws \in 0..MaxEpoch
  BY HasEpoch, IInvParts DEF ReplyLaunched, Answer, At, StoreType, NativeType
<1>1. CASE Return(p) /\ JournalKept
  BY <1>1, QuietReturn, SpentKept DEF ReplyLaunched, OnlyProc
<1>2. CASE /\ effect' = [effect EXCEPT ![e].state = "launched", ![e].ws = native[e].ws]
           /\ Launched(p, e)
  <2>1. e <= row.epoch /\ native[e].state # "none"
    BY <1>0, IInvParts DEF ProcInv, ReplyLaunched, Answer, At
  <2>2. EffectStep(e) /\ effect'[e].state = "launched"
    <3>1. PICK x \in EffectType : x = effect[e]
      BY <1>0
    <3>2. PICK ws \in 0..MaxEpoch : ws = native[e].ws
      BY <1>0
    <3>3. PICK y : y = [x EXCEPT !.state = "launched", !.ws = ws]
      OBVIOUS
    <3>4. y \in EffectType /\ y.state = "launched"
      BY <3>3 DEF EffectType
    <3>5. effect' = [effect EXCEPT ![e].state = "launched", ![e].ws = ws]
      BY <1>2, <3>2
    <3>6. effect' = [effect EXCEPT ![e] = y]
      BY ONLY <1>0, <3>1, <3>3, <3>5
    <3>7. NotCommand /\ RowKept /\ OwnersKept /\ NativeKept
      BY DEF ReplyLaunched
    <3>8. QED  BY <1>0, <2>1, <3>4, <3>6, <3>7 DEF EffectStep
  <2>3. QED  BY <1>0, <1>2, <2>2, LaunchedStep
<1>3. QED  BY <1>1, <1>2 DEF ReplyLaunched

(* The epoch ends with the rejection. *)
LEMMA ReplyRejectedKeeps ==
    ASSUME IInv, NEW p \in Procs, ReplyRejected(p)  PROVE IInv'
<1> DEFINE e  == proc[p].epoch
<1>0. e \in Epochs /\ e # 0 /\ e <= row.epoch /\ effect[e].ws \in 0..MaxEpoch
  BY HasEpoch, IInvParts DEF ReplyRejected, Answer, At, StoreType, EffectType
<1>1. CASE Return(p) /\ JournalKept
  BY <1>1, QuietReturn, SpentKept DEF ReplyRejected, OnlyProc
<1>2. ASSUME NEW o \in {"provider", "other"},
             effect' = [effect EXCEPT ![e] = Terminal(@, @.ws, o)]
      PROVE  EffectStep(e)
  <2>1. effect' = [effect EXCEPT ![e] = Terminal(@, effect[e].ws, o)]
    BY <1>2
  <2>2. QED  BY <1>0, <2>1, EndIsEffectStep DEF ReplyRejected
<1>3. "rejected" \in Points \ (Holding \union {"reply", "looked", "route"} \union Succeeding)
  BY DEF Points, Fenced, Holding, Succeeding
<1>4. CASE effect' = [effect EXCEPT ![e] = Terminal(@, @.ws, "other")] /\ Return(p)
  BY <1>0, <1>2, <1>4, EffectReturn
<1>5. CASE /\ \E o \in {"provider", "other"} :
                effect' = [effect EXCEPT ![e] = Terminal(@, @.ws, o)]
           /\ Goto(p, "rejected")
  BY <1>0, <1>2, <1>3, <1>5, EffectGoto
<1>6. QED  BY <1>1, <1>4, <1>5 DEF ReplyRejected

(* Nobody knows what became of the launch. *)
LEMMA ReplyUnknownKeeps ==
    ASSUME IInv, NEW p \in Procs, ReplyUnknown(p)  PROVE IInv'
<1> DEFINE e  == proc[p].epoch
<1>0. e \in Epochs /\ e <= row.epoch /\ effect[e].ws \in 0..MaxEpoch
  BY HasEpoch, IInvParts DEF ReplyUnknown, Answer, At, StoreType, EffectType
<1>1. CASE JournalKept
  BY <1>1, QuietReturn, SpentKept DEF ReplyUnknown, OnlyProc
<1>2. CASE effect' = [effect EXCEPT ![e] = Terminal(@, @.ws, "other")]
  <2>1. effect' = [effect EXCEPT ![e] = Terminal(@, effect[e].ws, "other")]
    BY <1>2
  <2>2. QED  BY <1>0, <2>1, EndIsEffectStep, EffectReturn DEF ReplyUnknown
<1>3. QED  BY <1>1, <1>2 DEF ReplyUnknown

(* The executor lost the session. *)
LEMMA ReplyLostKeeps ==
    ASSUME IInv, NEW p \in Procs, ReplyLost(p)  PROVE IInv'
<1> DEFINE e  == proc[p].epoch
<1>0. e \in Epochs /\ e # 0 /\ e <= row.epoch /\ effect[e].ws \in 0..MaxEpoch
  BY HasEpoch, IInvParts DEF ReplyLost, Answer, At, StoreType, EffectType
<1>1. CASE Return(p) /\ JournalKept
  BY <1>1, QuietReturn, SpentKept DEF ReplyLost, OnlyProc
<1>2. CASE effect' = [effect EXCEPT ![e] = Terminal(@, @.ws, "other")] /\ Goto(p, "nativelost")
  <2>1. effect' = [effect EXCEPT ![e] = Terminal(@, effect[e].ws, "other")]
    BY <1>2
  <2>2. "nativelost" \in Points \ (Holding \union {"reply", "looked", "route"} \union Succeeding)
    BY DEF Points, Fenced, Holding, Succeeding
  <2>3. EffectStep(e)
    BY <1>0, <2>1, EndIsEffectStep DEF ReplyLost
  <2>4. QED  BY <1>0, <1>2, <2>2, <2>3, EffectGoto
<1>3. QED  BY <1>1, <1>2 DEF ReplyLost

-----------------------------------------------------------------------------

(* Sessions come and change, and are never forgotten to have been. *)
LEMMA NativeStep ==
    ASSUME IInv, native' \in [Epochs -> NativeType],
           \A e \in Epochs : native[e].state # "none" => native'[e].state # "none",
           UNCHANGED row, JournalKept, OwnersKept, spent' \in Spent
    PROVE  StoreType' /\ Grows /\ JournalInv'
<1>1. StoreType /\ JournalInv
  BY IInvParts
<1>2. StoreType' /\ Grows
  <2>1. row.epoch \in Nat
    <3>1. row.epoch \in Epochs
      BY <1>1 DEF StoreType, RowType
    <3>2. QED  BY <3>1, LaunchAssumption DEF LaunchAssumption, Epochs
  <2>2. QED  BY <1>1, <2>1 DEF StoreType, Grows, OwnersKept, JournalKept
<1>3. QED  BY <1>1, <1>2, JournalInvGrows DEF JournalKept, OwnersKept

(* After a request the epoch's session exists. *)
LEMMA CreatedNative ==
    ASSUME IInv, NEW p \in Procs, At(p, "call")
    PROVE  /\ Created(p) \in [Epochs -> NativeType]
           /\ \A e \in Epochs : native[e].state # "none" => Created(p)[e].state # "none"
           /\ Created(p)[proc[p].epoch].state # "none"
<1>1. proc[p].epoch \in Epochs
  BY HasEpoch DEF At
<1>2. Workspace(p) \in 0..MaxEpoch /\ native \in [Epochs -> NativeType]
  BY IInvParts DEF Workspace, ProcType, StoreType
<1>3. QED  BY <1>1, <1>2 DEF Created, NativeType

(* The executor creates the session, or returns it. *)
LEMMA CallAcceptedKeeps ==
    ASSUME IInv, NEW p \in Procs, CallAccepted(p)  PROVE IInv'
<1>0. proc[p].epoch \in Epochs /\ proc[p].epoch # 0 /\ proc[p] \in ProcType /\ ProcInv(proc[p])
  BY HasEpoch, IInvParts DEF CallAccepted, At
<1>1. PICK reply \in {"ok", "lost"} :
         proc' = [proc EXCEPT ![p].pc = "reply", ![p].reply = reply]
  BY DEF CallAccepted
<1>2. PICK r \in ProcType : r = [proc[p] EXCEPT !.pc = "reply", !.reply = reply]
  BY <1>0 DEF ProcType, Unfenced, Replies
<1>3. r.pc = "reply" /\ SameSnapshot(r, proc[p])
  BY <1>0, <1>2 DEF ProcType, SameSnapshot
<1>4. proc' = [proc EXCEPT ![p] = r]
  BY <1>1, <1>2, IInvParts DEF IInv, TypeOK
<1>5. StoreType' /\ Grows /\ JournalInv'
  BY NativeStep, CreatedNative, SpentKept DEF CallAccepted, RowKept
<1>6. native'[r.epoch].state # "none"
  BY <1>3, CreatedNative DEF CallAccepted, SameSnapshot
<1>7. r.epoch <= row'.epoch
  BY <1>0, <1>3 DEF ProcInv, SameSnapshot, CallAccepted, RowKept
<1>8. ProcInv(r)'
  BY <1>0, <1>3, <1>6, <1>7 DEF ProcInv, Holding, Succeeding, SameSnapshot
<1>9. QED  BY <1>3, <1>4, <1>5, <1>8, KeptStep DEF CallAccepted

(* The executor refuses. *)
LEMMA CallRefusedKeeps ==
    ASSUME IInv, NEW p \in Procs, CallRefused(p)  PROVE IInv'
<1>0. proc[p].epoch # 0 /\ proc[p] \in ProcType /\ ProcInv(proc[p])
  BY HasEpoch, IInvParts DEF CallRefused, At
<1>1. PICK reply \in {"rejected", "refused", "unknown"} :
         proc' = [proc EXCEPT ![p].pc = "reply", ![p].reply = reply]
  BY DEF CallRefused
<1>2. PICK r \in ProcType : r = [proc[p] EXCEPT !.pc = "reply", !.reply = reply]
  BY <1>0 DEF ProcType, Unfenced, Replies
<1>3. r.pc = "reply" /\ r.reply # "ok" /\ SameSnapshot(r, proc[p])
  BY <1>0, <1>2 DEF ProcType, SameSnapshot
<1>4. proc' = [proc EXCEPT ![p] = r]
  BY <1>1, <1>2, IInvParts DEF IInv, TypeOK
<1>5. ProcInv(r)
  BY <1>0, <1>3 DEF ProcInv, Holding, Succeeding, SameSnapshot
<1>6. QED  BY <1>3, <1>4, <1>5, QuietStep, SpentKept DEF CallRefused

(* The executor does not answer, whether or not it created the session. *)
LEMMA CallTimesOutKeeps ==
    ASSUME IInv, NEW p \in Procs, CallTimesOut(p)  PROVE IInv'
<1>1. spent' \in Spent
  BY SpentKept DEF CallTimesOut
<1>2. StoreType' /\ Grows /\ JournalInv'
  <2>1. native \in [Epochs -> NativeType]
    BY IInvParts DEF StoreType
  <2>2. QED  BY <1>1, <2>1, NativeStep, CreatedNative DEF CallTimesOut, RowKept
<1>3. QED  BY <1>2, IdleIsIdle, KeptStep DEF CallTimesOut, Return

-----------------------------------------------------------------------------

(* A write of the row alone. *)
LEMMA RowStep ==
    ASSUME IInv, row' \in RowType, row.epoch <= row'.epoch,
           JournalKept, OwnersKept, NativeKept, spent' \in Spent
    PROVE  StoreType' /\ Grows /\ JournalInv'
<1>1. StoreType /\ JournalInv
  BY IInvParts
<1>2. StoreType' /\ Grows
  BY <1>1 DEF StoreType, Grows, JournalKept, OwnersKept, NativeKept
<1>3. QED  BY <1>1, <1>2, JournalInvGrows DEF JournalKept, OwnersKept

(* What TypeOK says of the row, in a form arithmetic can use. *)
LEMMA RowIsTyped ==
    ASSUME IInv
    PROVE  /\ row \in RowType
           /\ row.epoch \in Nat \ {0} /\ row.epoch <= MaxEpoch /\ row.attempts \in Nat
           /\ row.attempts <= MaxAttempts
           /\ row.epoch \in 0..MaxEpoch /\ row.holder \in 0..MaxEpoch
           /\ MaxAttempts \in Nat /\ MaxEpoch \in Nat
<1>1. row \in RowType
  BY IInvParts DEF StoreType
<1>2. /\ row.epoch \in 1..MaxEpoch /\ row.attempts \in 0..MaxAttempts
      /\ row.holder \in 0..MaxEpoch
  BY <1>1 DEF RowType, Epochs
<1>3. QED  BY <1>1, <1>2, LaunchAssumption DEF LaunchAssumption

(* A process that writes the row and returns. *)
LEMMA RowReturn ==
    ASSUME IInv, row' \in RowType, row.epoch <= row'.epoch, RowInv',
           JournalKept, OwnersKept, NativeKept, spent' \in Spent,
           fresh' = {}, NEW p \in Procs, Return(p)
    PROVE  IInv'
  BY RowStep, Step, IdleIsIdle DEF Return

(* The charged failures of TaskLifecycle, on this row. *)
LEMMA ChargeRow ==
    ASSUME IInv, NEW s \in {"blocked", "lost", "exhausted"}, NEW e \in BOOLEAN,
           L!BudgetLeft(row), row.state # "absent",
           row' = L!ChargedFailure(row, s, e),
           JournalKept, OwnersKept, NativeKept, spent' \in Spent
    PROVE  row' \in RowType /\ row'.epoch = row.epoch /\ RowInv'
<1>1. /\ row'.state \in {"blocked", "lost", "exhausted"}
      /\ row'.epoch = row.epoch /\ row'.holder = row.holder
      /\ row'.attempts = row.attempts + 1
      /\ row'.recovery = row.recovery /\ row'.ws = row.ws
      /\ row'.expired \in BOOLEAN
      /\ row' = [row EXCEPT !.state = row'.state, !.attempts = row'.attempts,
                            !.expired = row'.expired]
  BY RowIsTyped DEF RowType, L!ChargedFailure
<1>2. row' \in RowType
  <2>1. row.attempts + 1 \in 0..MaxAttempts
    BY RowIsTyped DEF L!BudgetLeft
  <2>2. {"blocked", "lost", "exhausted"} \subseteq L!RowStates
    BY DEF L!RowStates, L!LiveStates, L!TerminalStates, L!FinalStates
  <2>3. QED  BY <1>1, <2>1, <2>2, RowIsTyped DEF RowType
<1>3. StoreType /\ RowInv /\ StoreType' /\ Grows
  BY <1>1, <1>2, RowIsTyped, RowStep, IInvParts
<1>4. RowInv'
  BY <1>1, <1>3, KnownGrows DEF RowInv
<1>5. QED  BY <1>1, <1>2, <1>4

(* _record_failure, where it is the last thing an operation does. *)
LEMMA FailKeeps ==
    ASSUME IInv, NEW s \in {"blocked", "lost"}, NEW e \in BOOLEAN, NEW p \in Procs,
           Return(p), Fail(s, e), JournalKept, OwnersKept, NativeKept, NotCommand
    PROVE  IInv'
<1>1. spent' \in Spent
  BY SpentKept
<1>2. CASE RowKept
  BY <1>1, <1>2, QuietReturn DEF OnlyProc
<1>3. CASE /\ row.state \in L!BlockPredecessors /\ L!BudgetLeft(row)
           /\ Write(L!ChargedFailure(row, s, e), {})
  <2>1. row' \in RowType /\ row'.epoch = row.epoch /\ RowInv'
    BY <1>1, <1>3, ChargeRow DEF L!BlockPredecessors, Write
  <2>2. QED  BY <1>1, <1>3, <2>1, RowIsTyped, RowReturn DEF Write
<1>4. QED  BY <1>2, <1>3 DEF Fail

(* activate() compares no epoch, and needs none for this: the session it   *)
(* is given was launched, by Holding.                                      *)
LEMMA ActivateKeeps ==
    ASSUME IInv, NEW p \in Procs, Activate(p)  PROVE IInv'
<1>1. spent' \in Spent
  BY SpentKept DEF Activate
<1>2. CASE RowKept
  BY <1>1, <1>2, QuietReturn DEF OnlyProc, Activate
<1>3. CASE Write([L!Activated(row, proc[p].sid) EXCEPT !.ws = proc[p].ws], {})
  <2>1. Known(proc[p].sid) /\ proc[p].ws \in 0..MaxEpoch
    BY IInvParts DEF Activate, At, ProcInv, Holding, ProcType
  <2>2. proc[p].sid \in 0..MaxEpoch /\ proc[p].sid # None
    BY <2>1, RowIsTyped DEF Known, None
  <2>3. /\ row'.state = "active" /\ row'.holder = proc[p].sid
        /\ row'.epoch = row.epoch /\ row' \in RowType
    BY <1>3, <2>1, <2>2, RowIsTyped
    DEF Write, RowType, L!Activated, L!RowStates, L!LiveStates
  <2>4. StoreType /\ StoreType' /\ Grows
    BY <1>1, <2>3, RowStep, RowIsTyped, IInvParts DEF Activate
  <2>5. RowInv'
    BY <2>1, <2>2, <2>3, <2>4, KnownGrows DEF RowInv
  <2>6. QED  BY <1>1, <1>3, <2>3, <2>5, RowIsTyped, RowReturn DEF Activate, Write
<1>4. QED  BY <1>2, <1>3 DEF Activate

-----------------------------------------------------------------------------

(* A session with a record is retired, or its commands are marked. *)
LEMMA OwnersStep ==
    ASSUME IInv, UNCHANGED <<row, successor>>, JournalKept, NativeKept,
           retired' \subseteq Epochs, intents' \subseteq Epochs, spent' \in Spent
    PROVE  StoreType' /\ Grows /\ JournalInv'
<1>1. StoreType /\ JournalInv
  BY IInvParts
<1>2. StoreType' /\ Grows
  BY <1>1, RowIsTyped DEF StoreType, Grows, JournalKept, NativeKept
<1>3. QED  BY <1>1, <1>2, JournalInvGrows DEF JournalKept

(* A process that hands over has a source. *)
LEMMA HasSource ==
    ASSUME IInv, NEW p \in Procs, proc[p].pc \in Succeeding
    PROVE  proc[p].src \in Epochs /\ proc[p].src # None
<1>1. proc[p].src \in 0..MaxEpoch /\ proc[p].src # None
  BY IInvParts DEF ProcType, ProcInv
<1>2. QED  BY <1>1, LaunchAssumption DEF LaunchAssumption, Epochs, None

(* A step of p to another point, whatever became of the store. *)
LEMMA GotoStep ==
    ASSUME IInv, StoreType', Grows, JournalInv', RowKept, NEW p \in Procs, proc[p].epoch # 0,
           NEW pc \in Points \ (Holding \union {"reply", "looked", "route"}),
           pc \in Succeeding => proc[p].src # None, Goto(p, pc)
    PROVE  IInv'
<1>1. proc[p] \in ProcType /\ ProcInv(proc[p]) /\ StoreType
  BY IInvParts
<1>2. PICK r \in ProcType : r = [proc[p] EXCEPT !.pc = pc]
  BY <1>1, GotoRecord
<1>3. ProcInv(r) /\ SameSnapshot(r, proc[p])
  BY <1>1, <1>2, GotoInv, GotoRecord DEF SameSnapshot
<1>4. ProcInv(r)'
  BY <1>1, <1>3, ProcInvGrows
<1>5. proc' = [proc EXCEPT ![p] = r]
  BY <1>2 DEF Goto
<1>6. QED  BY <1>3, <1>4, <1>5, KeptStep

(* The source is quarantined. *)
LEMMA RetireKeeps ==
    ASSUME IInv, NEW p \in Procs, Retire(p)  PROVE IInv'
<1>1. proc[p].src \in Epochs /\ proc[p].src # None /\ proc[p].epoch # 0
  BY HasSource, HasEpoch DEF Retire, At, Succeeding
<1>2. StoreType' /\ Grows /\ JournalInv'
  BY <1>1, OwnersStep, SpentKept, IInvParts DEF Retire, RowKept, StoreType
<1>3. "transfer" \in Points \ (Holding \union {"reply", "looked", "route"})
  BY DEF Points, Unfenced, Holding
<1>4. QED  BY <1>1, <1>2, <1>3, GotoStep DEF Retire

(* A recorded successor is taken as it is, and JournalInv knows it. *)
LEMMA TransferKeeps ==
    ASSUME IInv, NEW p \in Procs, Transfer(p)  PROVE IInv'
<1> DEFINE s == successor[proc[p].src]
<1>1. /\ proc[p].src \in Epochs /\ proc[p].src # None /\ proc[p].epoch # 0
      /\ proc[p] \in ProcType /\ ProcInv(proc[p]) /\ s \in 0..MaxEpoch
  BY HasSource, HasEpoch, IInvParts DEF Transfer, At, Succeeding, StoreType
<1>2. CASE s # None /\ proc' = [proc EXCEPT ![p].sid = s, ![p].pc = "forward"]
  <2>1. Known(s)
    BY <1>1, <1>2, IInvParts DEF JournalInv
  <2>2. PICK r \in ProcType : r = [proc[p] EXCEPT !.sid = s, !.pc = "forward"]
    BY <1>1 DEF ProcType, Unfenced
  <2>3. r.pc = "forward" /\ r.sid = s /\ SameSnapshot(r, proc[p])
    BY <1>1, <2>2 DEF ProcType, SameSnapshot
  <2>4. ProcInv(r)
    BY <1>1, <2>1, <2>3 DEF ProcInv, Holding, Succeeding, SameSnapshot
  <2>5. proc' = [proc EXCEPT ![p] = r]
    BY <1>2, <2>2, IInvParts DEF IInv, TypeOK
  <2>6. QED  BY <2>3, <2>4, <2>5, QuietStep, SpentKept DEF Transfer
<1>3. CASE Goto(p, "reserve")
  <2>1. "reserve" \in Points \ (Holding \union {"reply", "looked", "route"} \union Succeeding)
    BY DEF Points, Fenced, Holding, Succeeding
  <2>2. QED  BY <1>1, <1>3, <2>1, QuietGoto DEF Transfer
<1>4. CASE Return(p)
  BY <1>4, QuietReturn, SpentKept DEF Transfer
<1>5. QED  BY <1>2, <1>3, <1>4 DEF Transfer

(* A step that goes on with the session it has found, or made. *)
LEMMA HoldingGoto ==
    ASSUME IInv, StoreType', Grows, JournalInv', RowKept, NEW p \in Procs,
           proc[p].pc \in {"link", "forward"},
           NEW pc \in {"forward", "handover"}, Goto(p, pc)
    PROVE  IInv'
<1>1. proc[p] \in ProcType /\ ProcInv(proc[p]) /\ StoreType /\ pc \in Points
  BY IInvParts DEF Points, Unfenced
<1>2. PICK r \in ProcType : r = [proc[p] EXCEPT !.pc = pc]
  BY <1>1, GotoRecord
<1>3. r.pc = pc /\ SameSnapshot(r, proc[p]) /\ r.sid = proc[p].sid
  BY <1>1, <1>2, GotoRecord DEF SameSnapshot
<1>4. ProcInv(r)
  BY <1>1, <1>3 DEF ProcInv, SameSnapshot, Holding, Succeeding
<1>5. ProcInv(r)'
  BY <1>1, <1>4, ProcInvGrows
<1>6. proc' = [proc EXCEPT ![p] = r]
  BY <1>2 DEF Goto
<1>7. QED  BY <1>3, <1>5, <1>6, KeptStep

(* The successor is recorded, and was launched. *)
LEMMA LinkKeeps ==
    ASSUME IInv, NEW p \in Procs, Link(p)  PROVE IInv'
<1> DEFINE src == proc[p].src
           sid == proc[p].sid
<1>1. /\ src \in Epochs /\ src # None /\ Known(sid) /\ sid \in Epochs
      /\ StoreType /\ JournalInv
  <2>1. src \in Epochs /\ src # None /\ Known(sid) /\ StoreType /\ JournalInv
    BY HasSource, IInvParts DEF Link, At, Succeeding, ProcInv, Holding
  <2>2. sid \in Epochs
    BY <2>1, RowIsTyped DEF Known, Epochs
  <2>3. QED  BY <2>1, <2>2
<1>2. CASE UNCHANGED successor /\ Return(p)
  BY <1>2, QuietReturn, SpentKept DEF Link, OnlyProc, OwnersKept
<1>3. CASE /\ successor' = [successor EXCEPT ![src] = sid]
           /\ Return(p) \/ Goto(p, "forward")
  <2>1. StoreType' /\ Grows
    <3>1. successor' \in [Epochs -> 0..MaxEpoch]
      BY <1>1, <1>3, RowIsTyped DEF StoreType, Epochs
    <3>2. QED
      BY <1>1, <3>1, SpentKept, RowIsTyped
      DEF StoreType, Link, RowKept, JournalKept, NativeKept, Grows
  <2>2. \A e \in Epochs : Known(e) => Known(e)'
    BY <1>1, <2>1, KnownGrows
  <2>3. JournalInv'
    <3>1. ASSUME NEW e \in Epochs, successor'[e] # None  PROVE Known(successor[e])'
      <4>1. successor'[e] = sid \/ successor'[e] = successor[e]
        BY <1>1, <1>3 DEF StoreType
      <4>2. successor'[e] \in Epochs /\ Known(successor'[e])
        BY <1>1, <4>1, <3>1, RowIsTyped DEF JournalInv, Known, Epochs
      <4>3. QED  BY <2>2, <4>2
    <3>2. QED
      BY <1>1, <2>2, <3>1 DEF JournalInv, Link, RowKept, JournalKept
  <2>4. CASE Return(p)
    BY <2>1, <2>3, <2>4, IdleIsIdle, KeptStep DEF Return, Link
  <2>5. CASE Goto(p, "forward")
    BY <2>1, <2>3, <2>5, HoldingGoto DEF Link, At
  <2>6. QED  BY <1>3, <2>4, <2>5
<1>4. QED  BY <1>2, <1>3 DEF Link

(* The source's commands are interrupted. *)
LEMMA ForwardKeeps ==
    ASSUME IInv, NEW p \in Procs, Forward(p)  PROVE IInv'
<1>1. native \in [Epochs -> NativeType] /\ proc[p].src \in Epochs
  BY IInvParts, HasSource DEF StoreType, Forward, At, Succeeding
<1>2. /\ native' \in [Epochs -> NativeType]
      /\ \A e \in Epochs : native[e].state # "none" => native'[e].state # "none"
  BY <1>1 DEF Forward, NativeType
<1>3. StoreType' /\ Grows /\ JournalInv'
  BY <1>2, NativeStep, SpentKept DEF Forward, RowKept
<1>4. QED  BY <1>3, HoldingGoto DEF Forward, At

-----------------------------------------------------------------------------

(* The state complete() or cancel() asks for. *)
FinalState(op) == IF op = "cancel" THEN "cancelled" ELSE "completed"

(* The uncharged finishes of TaskLifecycle, on this row. *)
LEMMA SettleRow ==
    ASSUME IInv, NEW s \in {"completed", "cancelled", "blocked"}, row.state # "absent",
           row' = L!Settled(row, s),
           JournalKept, NativeKept, UNCHANGED <<retired, successor>>,
           intents' \subseteq Epochs, spent' \in Spent
    PROVE  StoreType' /\ Grows /\ JournalInv' /\ RowInv'
<1>1. /\ row'.state = s /\ row'.epoch = row.epoch /\ row'.holder = row.holder
      /\ row'.attempts = row.attempts /\ row'.recovery = row.recovery
      /\ row' \in RowType
  BY RowIsTyped
  DEF RowType, L!Settled, L!RowStates, L!LiveStates, L!TerminalStates, L!FinalStates
<1>2. StoreType /\ RowInv /\ JournalInv
  BY IInvParts
<1>3. StoreType' /\ Grows
  BY <1>1, <1>2, RowIsTyped DEF StoreType, Grows, JournalKept, NativeKept
<1>4. JournalInv'
  BY <1>2, <1>3, JournalInvGrows DEF JournalKept
<1>5. RowInv'
  BY <1>1, <1>2, <1>3, KnownGrows DEF RowInv
<1>6. QED  BY <1>3, <1>4, <1>5

(* complete() and cancel(): the write, the marks, and the fresh snapshot. *)
LEMMA FinishDecideKeeps ==
    ASSUME IInv, NEW p \in Procs, FinishDecide(p)  PROVE IInv'
<1> DEFINE state == FinalState(proc[p].op)
           legal == row.state \in IF proc[p].op = "cancel" THEN L!CancelPredecessors
                                                            ELSE L!CompletePredecessors
<1>1. intents' \subseteq Epochs
  <2>1. row.holder # None => row.holder \in Epochs
    BY RowIsTyped DEF Epochs, None
  <2>2. QED  BY <2>1, IInvParts DEF StoreType, FinishDecide
<1>2. spent' \in Spent /\ StoreType /\ RowInv
  BY SpentKept, IInvParts DEF FinishDecide
<1>3. /\ StoreType' /\ Grows /\ JournalInv' /\ RowInv'
      /\ row'.epoch = row.epoch
      /\ fresh' = {} \/ (row' = row /\ fresh' = {q \in fresh : proc'[q].pc # "idle"})
  <2>1. CASE legal
    <3>1. row' = L!Settled(row, state) /\ fresh' = {}
      BY <2>1 DEF FinishDecide, Write, FinalState
    <3>2. row.state # "absent" /\ state \in {"completed", "cancelled", "blocked"}
      BY <2>1 DEF L!CancelPredecessors, L!CompletePredecessors, L!LiveStates, FinalState
    <3>3. row'.epoch = row.epoch
      BY <3>1, RowIsTyped DEF L!Settled, RowType
    <3>4. QED  BY <1>1, <1>2, <3>1, <3>2, <3>3, SettleRow DEF FinishDecide
  <2>2. CASE ~legal
    <3>1. row' = row /\ fresh' = {q \in fresh : proc'[q].pc # "idle"}
      BY <2>2 DEF FinishDecide, RowKept, Running
    <3>2. StoreType' /\ Grows /\ JournalInv'
      BY <1>1, <1>2, <3>1, OwnersStep, IInvParts DEF FinishDecide, StoreType
    <3>3. QED  BY <1>2, <3>1, <3>2, RowInvGrows
  <2>3. QED  BY <2>1, <2>2
<1>4. fresh \subseteq Procs /\ row \in RowType
  BY IInvParts DEF IInv, TypeOK, StoreType
<1>5. CASE Return(p)
  <2>1. proc' = [proc EXCEPT ![p] = Idle] /\ proc'[p].pc = "idle"
    BY <1>5, IdleIsIdle DEF IInv, TypeOK, Return
  <2>2. QED  BY <1>3, <1>4, <2>1, IdleIsIdle, Step
<1>6. CASE Snapshot(p, proc[p].op, row, "closeEffect")
  <2>1. /\ "closeEffect" \in Points \ (Holding \union Succeeding)
        /\ proc[p].op \in {"none", "start", "replace", "auto", "observe", "complete",
                           "cancel", "sweep"}
    BY IInvParts DEF Points, Fenced, Holding, Succeeding, ProcType
  <2>2. PICK r \in ProcType :
          r = [Idle EXCEPT !.pc = "closeEffect", !.op = proc[p].op, !.epoch = row.epoch,
                           !.src = row.holder, !.ws = row.ws]
    BY <1>4, <2>1, SnapshotRecord
  <2>3. /\ r.pc = "closeEffect" /\ r.epoch = row.epoch /\ r.src = row.holder
        /\ proc' = [proc EXCEPT ![p] = r]
    <3>1. r.pc = "closeEffect" /\ r.epoch = row.epoch /\ r.src = row.holder
      BY <2>2 DEF Idle
    <3>2. proc' = [proc EXCEPT ![p] = r]
      BY <1>6, <2>2 DEF Snapshot
    <3>3. QED  BY <3>1, <3>2
  <2>4. ProcInv(r)'
    BY <1>3, <2>3, RowIsTyped DEF ProcInv, Holding, Succeeding
  <2>5. proc'[p] = r
    BY <2>3 DEF IInv, TypeOK
  <2>6. row' = row => SnapshotInv(r)'
    BY <2>3 DEF SnapshotInv
  <2>7. QED  BY <1>3, <1>4, <2>3, <2>4, <2>5, <2>6, Step
<1>7. QED  BY <1>5, <1>6 DEF FinishDecide

(* The epoch's effect ends with the task. *)
LEMMA CloseEffectKeeps ==
    ASSUME IInv, NEW p \in Procs, CloseEffect(p)  PROVE IInv'
<1> DEFINE e  == proc[p].epoch
           x  == effect[e]
           ws == IF proc[p].ws # None /\ x.state # "none" THEN x.ws ELSE proc[p].ws
           pc == IF proc[p].src # None THEN "retireFinal"
                 ELSE IF ws # None THEN "stop" ELSE "stopped"
<1>1. /\ e \in Epochs /\ e # 0 /\ e <= row.epoch /\ x.ws \in 0..MaxEpoch
      /\ ws \in 0..MaxEpoch /\ proc[p] \in ProcType /\ ProcInv(proc[p]) /\ StoreType
  <2>1. /\ e \in Epochs /\ e # 0 /\ e <= row.epoch
        /\ proc[p] \in ProcType /\ ProcInv(proc[p]) /\ StoreType
    BY HasEpoch, IInvParts DEF CloseEffect, At
  <2>2. x.ws \in 0..MaxEpoch /\ proc[p].ws \in 0..MaxEpoch
    BY <2>1 DEF StoreType, EffectType, ProcType
  <2>3. QED  BY <2>1, <2>2
<1>2. EffectStep(e)
  <2>1. CASE JournalKept
    BY <1>1, <2>1, KeptIsEffectStep DEF CloseEffect, OnlyProc
  <2>2. CASE effect' = [effect EXCEPT ![e] = Terminal(x, x.ws, "other")]
    BY <1>1, <2>2, EndIsEffectStep DEF CloseEffect
  <2>3. QED  BY <2>1, <2>2 DEF CloseEffect
<1>3. PICK r \in ProcType : r = [proc[p] EXCEPT !.ws = ws, !.pc = pc]
  <2>1. {"retireFinal", "stop", "stopped"} \subseteq Fenced \union Unfenced
    BY DEF Fenced, Unfenced
  <2>2. QED  BY <1>1, <2>1 DEF ProcType
<1>4. /\ r.pc \in {"retireFinal", "stop", "stopped"} /\ SameSnapshot(r, proc[p])
      /\ r.pc = "retireFinal" => r.src # None
  BY <1>1, <1>3 DEF ProcType, SameSnapshot
<1>5. ProcInv(r)
  BY <1>1, <1>4 DEF ProcInv, Holding, Succeeding, SameSnapshot
<1>6. proc' = [proc EXCEPT ![p] = r]
  BY <1>3, IInvParts DEF CloseEffect, IInv, TypeOK
<1>7. ProcInv(r)'
  BY <1>1, <1>2, <1>5, JournalStep, ProcInvGrows
<1>8. QED  BY <1>1, <1>2, <1>4, <1>6, <1>7, EffectMove

(* The holder of a finished task is retired. *)
LEMMA RetireFinalKeeps ==
    ASSUME IInv, NEW p \in Procs, RetireFinal(p)  PROVE IInv'
<1>1. proc[p].src \in Epochs /\ proc[p].src # None /\ proc[p].epoch # 0
  BY HasSource, HasEpoch DEF RetireFinal, At, Succeeding
<1>2. StoreType' /\ Grows /\ JournalInv'
  BY <1>1, OwnersStep, SpentKept, IInvParts DEF RetireFinal, RowKept, StoreType
<1>3. {"stop", "stopped"} \subseteq Points \ (Holding \union {"reply", "looked", "route"})
  BY DEF Points, Unfenced, Holding
<1>4. QED  BY <1>1, <1>2, <1>3, GotoStep DEF RetireFinal

(* The executor stops a workspace. *)
LEMMA StopKeeps ==
    ASSUME IInv, NEW p \in Procs, Stop(p)  PROVE IInv'
<1>1. native \in [Epochs -> NativeType] /\ proc[p].epoch # 0
  BY IInvParts, HasEpoch DEF StoreType, Stop, At
<1>2. /\ native' \in [Epochs -> NativeType]
      /\ \A e \in Epochs : native[e].state # "none" => native'[e].state # "none"
  BY <1>1 DEF Stop, NativeType
<1>3. StoreType' /\ Grows /\ JournalInv'
  BY <1>2, NativeStep, SpentKept DEF Stop, RowKept
<1>4. "stopped" \in Points \ (Holding \union {"reply", "looked", "route"} \union Succeeding)
  BY DEF Points, Unfenced, Holding, Succeeding
<1>5. QED  BY <1>1, <1>3, <1>4, GotoStep DEF Stop

(* The mark is taken back. *)
LEMMA AckStopKeeps ==
    ASSUME IInv, NEW p \in Procs, AckStop(p)  PROVE IInv'
<1> DEFINE e == proc[p].epoch
<1>1. e \in Epochs /\ e # 0 /\ e <= row.epoch /\ effect \in [Epochs -> EffectType]
  BY HasEpoch, IInvParts DEF AckStop, At, StoreType
<1>2. EffectStep(e)
  <2>1. CASE effect' = effect
    BY <1>1, <2>1, KeptIsEffectStep DEF AckStop, OnlyProc, JournalKept
  <2>2. CASE effect[e].state = "terminal" /\ effect' = [effect EXCEPT ![e].ws = None]
    BY <1>1, <2>2, LaunchAssumption DEF LaunchAssumption, EffectStep, EffectType, AckStop, None
  <2>3. QED  BY <2>1, <2>2 DEF AckStop
<1>3. "cleanup" \in Points \ (Holding \union {"reply", "looked", "route"} \union Succeeding)
  BY DEF Points, Unfenced, Holding, Succeeding
<1>4. QED  BY <1>1, <1>2, <1>3, EffectGoto, EffectReturn DEF AckStop

(* A step that moves no process. *)
LEMMA StillStep ==
    ASSUME IInv, StoreType', Grows, RowInv', JournalInv', UNCHANGED proc,
           fresh' = {} \/ UNCHANGED <<row, fresh>>
    PROVE  IInv'
<1>1. Bridge \in Procs  BY DEF Procs
<1>2. /\ proc[Bridge] \in ProcType /\ ProcInv(proc[Bridge]) /\ StoreType
      /\ proc' = [proc EXCEPT ![Bridge] = proc[Bridge]]
  BY <1>1, IInvParts DEF IInv, TypeOK
<1>3. PICK r \in ProcType : r = proc[Bridge]
  BY <1>2
<1>4. ProcInv(r)'
  BY <1>2, <1>3, ProcInvGrows
<1>5. fresh' \subseteq {q \in Procs : proc'[q].pc # "idle"}
  BY DEF IInv, TypeOK, At
<1>6. Bridge \in fresh' => SnapshotInv(r)'
  BY <1>3 DEF IInv, SnapshotInv, L!BudgetLeft, L!CanOpenEpoch, L!LastFailure
<1>7. QED  BY <1>1, <1>2, <1>3, <1>4, <1>5, <1>6, Step

(* A marked session's commands are interrupted. *)
LEMMA CleanupKeeps ==
    ASSUME IInv, NEW p \in Procs, NEW e \in Epochs, Cleanup(p, e)  PROVE IInv'
<1>1. StoreType /\ RowInv /\ JournalInv
  BY IInvParts
<1>2. /\ native' \in [Epochs -> NativeType]
      /\ \A d \in Epochs : native[d].state # "none" => native'[d].state # "none"
  BY <1>1 DEF Cleanup, StoreType, NativeType
<1>3. StoreType' /\ Grows
  BY <1>1, <1>2, SpentKept, RowIsTyped DEF Cleanup, StoreType, Grows, JournalKept
<1>4. RowInv' /\ JournalInv'
  BY <1>1, <1>3, RowInvGrows, JournalInvGrows DEF Cleanup, JournalKept
<1>5. QED  BY <1>3, <1>4, StillStep DEF Cleanup

(* blocked() writes the row and moves no process. *)
LEMMA BlockKeeps ==
    ASSUME IInv, NEW p \in Procs, Block(p)  PROVE IInv'
<1>1. row.state # "absent" /\ row' = L!Settled(row, "blocked") /\ fresh' = {}
  BY DEF Block, Write, L!BlockPredecessors
<1>2. StoreType' /\ Grows /\ JournalInv' /\ RowInv'
  BY <1>1, SettleRow, SpentKept, IInvParts DEF Block, OwnersKept, StoreType
<1>3. QED  BY <1>1, <1>2, StillStep DEF Block

(* A lease runs out. *)
LEMMA LeaseExpiresKeeps ==
    ASSUME IInv, NEW e \in Epochs, LeaseExpires(e)  PROVE IInv'
<1>1. StoreType /\ RowInv /\ JournalInv
  BY IInvParts
<1>2. /\ effect' \in [Epochs -> EffectType]
      /\ \A d \in Epochs : effect'[d].state = effect[d].state
  <2>1. PICK x \in EffectType : x = effect[e]
    BY <1>1 DEF StoreType
  <2>2. PICK y : y = [x EXCEPT !.live = FALSE]
    OBVIOUS
  <2>3. y \in EffectType /\ y.state = x.state
    BY <2>2 DEF EffectType
  <2>4. effect' = [effect EXCEPT ![e] = y] /\ effect \in [Epochs -> EffectType]
    BY <1>1, <2>1, <2>2 DEF LeaseExpires, StoreType
  <2>5. QED  BY <2>1, <2>3, <2>4
<1>3. StoreType' /\ Grows
  BY <1>1, <1>2, RowIsTyped DEF LeaseExpires, StoreType, Grows, OwnersKept
<1>4. RowInv' /\ JournalInv'
  BY <1>1, <1>2, <1>3, RowInvGrows, JournalInvGrows DEF LeaseExpires, OwnersKept
<1>5. QED  BY <1>3, <1>4, StillStep DEF LeaseExpires

(* A session ends by itself. *)
LEMMA NativeEndsKeeps ==
    ASSUME IInv, NEW e \in Epochs, NativeEnds(e)  PROVE IInv'
<1>1. StoreType /\ RowInv /\ JournalInv
  BY IInvParts
<1>2. /\ native' \in [Epochs -> NativeType]
      /\ \A d \in Epochs : native[d].state # "none" => native'[d].state # "none"
  <2>1. PICK s \in {"failed", "refused", "lost"} : native' = [native EXCEPT ![e].state = s]
    BY DEF NativeEnds
  <2>2. PICK x \in NativeType : x = native[e]
    BY <1>1 DEF StoreType
  <2>3. PICK y : y = [x EXCEPT !.state = s]
    OBVIOUS
  <2>4. y \in NativeType /\ y.state # "none"
    BY <2>3 DEF NativeType
  <2>5. native' = [native EXCEPT ![e] = y] /\ native \in [Epochs -> NativeType]
    BY <1>1, <2>1, <2>2, <2>3 DEF StoreType
  <2>6. QED  BY <2>4, <2>5
<1>3. StoreType' /\ Grows
  BY <1>1, <1>2, RowIsTyped DEF NativeEnds, StoreType, Grows, OwnersKept
<1>4. RowInv' /\ JournalInv'
  BY <1>1, <1>3, RowInvGrows, JournalInvGrows DEF NativeEnds, OwnersKept
<1>5. QED  BY <1>3, <1>4, StillStep DEF NativeEnds

(* A process dies, and takes its snapshot with it. *)
LEMMA CrashKeeps ==
    ASSUME IInv, NEW p \in Procs, Crash(p)  PROVE IInv'
<1>1. StoreType /\ RowInv /\ JournalInv
  BY IInvParts
<1>2. /\ effect' \in [Epochs -> EffectType]
      /\ \A d \in Epochs : effect'[d].state = effect[d].state
  <2>1. ASSUME NEW d \in Epochs
        PROVE  LET y == [effect[d] EXCEPT !.bridge = FALSE]
               IN  y \in EffectType /\ y.state = effect[d].state
    <3>1. PICK x \in EffectType : x = effect[d]
      BY <1>1 DEF StoreType
    <3>2. QED  BY <3>1 DEF EffectType
  <2>2. CASE effect' = effect
    BY <1>1, <2>2 DEF StoreType
  <2>3. CASE effect' = [d \in Epochs |-> [effect[d] EXCEPT !.bridge = FALSE]]
    BY <2>1, <2>3
  <2>4. QED  BY <2>2, <2>3 DEF Crash
<1>3. StoreType' /\ Grows
  BY <1>1, <1>2, SpentKept, RowIsTyped
  DEF Crash, StoreType, Grows, OwnersKept, NativeKept, RowKept
<1>4. JournalInv'
  BY <1>1, <1>2, <1>3, JournalInvGrows DEF Crash, OwnersKept
<1>5. QED  BY <1>3, <1>4, IdleIsIdle, KeptStep DEF Crash, Return

-----------------------------------------------------------------------------

(* A process that takes a snapshot of the row as it is, and does nothing else. *)
LEMMA SnapshotKeeps ==
    ASSUME IInv, NEW p \in Procs,
           NEW pc \in Points \ (Holding \union {"idle", "reply", "looked"}),
           NEW op \in {"none", "start", "replace", "auto", "observe", "complete", "cancel",
                       "sweep"},
           pc \in Succeeding => row.holder # None,
           pc = "route" => /\ row.state \in {"active", "blocked"}
                           /\ L!BudgetLeft(row) /\ L!CanOpenEpoch(row)
                           /\ row.state = "active" => ~L!LastFailure(row),
           Snapshot(p, op, row, pc), RowRead(p) \/ RowKept,
           JournalKept, OwnersKept, NativeKept, spent' \in Spent
    PROVE  IInv'
<1>1. PICK r \in ProcType :
         r = [Idle EXCEPT !.pc = pc, !.op = op, !.epoch = row.epoch,
                          !.src = row.holder, !.ws = row.ws]
  BY RowIsTyped, SnapshotRecord
<1>2. r.pc = pc /\ r.epoch = row.epoch /\ r.src = row.holder
  BY <1>1 DEF Idle
<1>3. proc' = [proc EXCEPT ![p] = r]
  BY <1>1 DEF Snapshot
<1>4. ProcInv(r) /\ SnapshotInv(r)
  BY <1>2, RowIsTyped DEF ProcInv, SnapshotInv
<1>5. CASE RowRead(p)
  BY <1>2, <1>3, <1>4, <1>5, QuietRead
<1>6. CASE RowKept
  BY <1>3, <1>4, <1>6, QuietStep DEF OnlyProc
<1>7. QED  BY <1>5, <1>6

(* expire_reservations finds an expired reservation. *)
LEMMA SweepExpiredKeeps ==
    ASSUME IInv, NEW p \in Procs, SweepExpired(p)  PROVE IInv'
<1>1. "lookup" \in Points \ (Holding \union {"idle", "reply", "looked", "route"} \union Succeeding)
  BY DEF Points, Unfenced, Holding, Succeeding
<1>2. QED  BY <1>1, SnapshotKeeps, SpentKept DEF SweepExpired

(* reconcile_terminal finds a workspace to stop; the epoch it is of was    *)
(* reached, by JournalInv.                                                 *)
LEMMA SweepTerminalKeeps ==
    ASSUME IInv, NEW p \in Procs, NEW e \in Epochs, SweepTerminal(p, e)  PROVE IInv'
<1>1. e <= row.epoch /\ effect[e].ws \in 0..MaxEpoch /\ e \in 0..MaxEpoch /\ e # 0
  BY IInvParts, LaunchAssumption
  DEF LaunchAssumption, SweepTerminal, JournalInv, StoreType, EffectType, Epochs
<1>2. PICK r \in ProcType :
         r = [Idle EXCEPT !.pc = "stop", !.op = "sweep", !.epoch = e, !.ws = effect[e].ws]
  BY <1>1, IdleIsIdle DEF ProcType, Unfenced
<1>3. r.pc = "stop" /\ r.epoch = e
  BY <1>2 DEF Idle
<1>4. ProcInv(r)
  BY <1>1, <1>3 DEF ProcInv, Holding, Succeeding
<1>5. p \notin fresh
  BY DEF IInv, TypeOK, SweepTerminal
<1>6. QED  BY <1>2, <1>4, <1>5, QuietStep, SpentKept DEF SweepTerminal

(* What the executor has for the epoch. *)
LEMMA LookupKeeps ==
    ASSUME IInv, NEW p \in Procs, Lookup(p)  PROVE IInv'
<1> DEFINE e   == proc[p].epoch
           sid == IF native[e].state \in {"none", "lost"} THEN None ELSE e
<1>1. /\ e \in Epochs /\ e \in 0..MaxEpoch /\ e # 0 /\ proc[p] \in ProcType /\ ProcInv(proc[p])
      /\ native[e].ws \in 0..MaxEpoch /\ 0 \in 0..MaxEpoch
  <2>1. e \in Epochs /\ e # 0 /\ proc[p] \in ProcType /\ ProcInv(proc[p]) /\ StoreType
    BY HasEpoch, IInvParts DEF Lookup, At
  <2>2. native[e].ws \in 0..MaxEpoch
    BY <2>1 DEF StoreType, NativeType
  <2>3. e \in 0..MaxEpoch /\ 0 \in 0..MaxEpoch
    BY <2>1, LaunchAssumption DEF LaunchAssumption, Epochs
  <2>4. QED  BY <2>1, <2>2, <2>3
<1>2. PICK r \in ProcType :
         r = [proc[p] EXCEPT !.pc = "looked", !.sid = sid, !.ws = native[e].ws]
  BY <1>1 DEF ProcType, Unfenced, None
<1>3. /\ r.pc = "looked" /\ SameSnapshot(r, proc[p])
      /\ r.sid # None => r.sid = e /\ native[e].state # "none"
  BY <1>1, <1>2 DEF ProcType, SameSnapshot
<1>4. ProcInv(r)
  BY <1>1, <1>3 DEF ProcInv, Holding, Succeeding, SameSnapshot
<1>5. proc' = [proc EXCEPT ![p] = r]
  BY <1>2, IInvParts DEF Lookup, IInv, TypeOK
<1>6. QED  BY <1>3, <1>4, <1>5, QuietStep, SpentKept DEF Lookup

(* The session found is marked for cleanup. *)
LEMMA ExpiredSupersededKeeps ==
    ASSUME IInv, NEW p \in Procs, ExpiredSuperseded(p)  PROVE IInv'
<1> DEFINE e == proc[p].epoch
<1>1. e \in Epochs /\ e # 0 /\ e <= row.epoch /\ proc[p].ws \in 0..MaxEpoch
  BY HasEpoch, IInvParts DEF ExpiredSuperseded, Looked, At, ProcType
<1>2. CASE Return(p) /\ JournalKept
  BY <1>2, QuietReturn, SpentKept DEF ExpiredSuperseded, OnlyProc
<1>3. CASE /\ effect' = [effect EXCEPT ![e] = Superseded(@, proc[p].ws)]
           /\ Goto(p, "stop")
  <2>1. EffectStep(e)
    BY <1>1, <1>3, EndIsEffectStep DEF ExpiredSuperseded, Superseded
  <2>2. "stop" \in Points \ (Holding \union {"reply", "looked", "route"} \union Succeeding)
    BY DEF Points, Unfenced, Holding, Succeeding
  <2>3. QED  BY <1>1, <1>3, <2>1, <2>2, EffectGoto
<1>4. QED  BY <1>2, <1>3 DEF ExpiredSuperseded

(* The session found is adopted. *)
LEMMA ExpiredAdoptedKeeps ==
    ASSUME IInv, NEW p \in Procs, ExpiredAdopted(p)  PROVE IInv'
<1>0. PICK e \in Epochs : e = proc[p].epoch
  BY HasEpoch DEF ExpiredAdopted, Looked, At
<1>1. /\ e # 0 /\ e <= row.epoch /\ proc[p] \in ProcType /\ ProcInv(proc[p])
      /\ proc[p].ws \in 0..MaxEpoch /\ effect \in [Epochs -> EffectType] /\ StoreType
  BY <1>0, HasEpoch, IInvParts DEF ExpiredAdopted, Looked, At, ProcType, StoreType
<1>2. CASE Return(p) /\ JournalKept
  BY <1>2, QuietReturn, SpentKept DEF ExpiredAdopted, OnlyProc
<1>3. CASE /\ effect' = [effect EXCEPT ![e].state = "launched", ![e].ws = proc[p].ws]
           /\ Goto(p, "activate")
  <2>1. proc[p].sid = e /\ native[e].state # "none"
    BY <1>0, <1>1 DEF ProcInv, ExpiredAdopted, Looked, At
  <2>2. EffectStep(e) /\ effect'[e].state = "launched"
    BY <1>1, <1>3, <2>1 DEF EffectStep, EffectType, ExpiredAdopted
  <2>3. StoreType' /\ Grows /\ Known(e)'
    BY <1>1, <2>2, JournalStep DEF JournalInv
  <2>4. PICK r \in ProcType : r = [proc[p] EXCEPT !.pc = "activate"]
    BY <1>1 DEF ProcType, Fenced
  <2>5. r.pc = "activate" /\ r.sid = e /\ SameSnapshot(r, proc[p])
    BY <1>0, <1>1, <2>1, <2>4 DEF ProcType, SameSnapshot
  <2>6. e <= row'.epoch
    BY <1>1 DEF ExpiredAdopted, RowKept
  <2>7. ProcInv(r)'
    BY <1>0, <1>1, <2>3, <2>5, <2>6 DEF ProcInv, Holding, Succeeding, SameSnapshot
  <2>8. QED  BY <1>1, <1>3, <2>2, <2>4, <2>5, <2>7, EffectMove DEF Goto
<1>4. QED  BY <1>0, <1>2, <1>3 DEF ExpiredAdopted

(* The reservation ends. *)
LEMMA ExpiredAbsentKeeps ==
    ASSUME IInv, NEW p \in Procs, ExpiredAbsent(p)  PROVE IInv'
<1> DEFINE e == proc[p].epoch
<1>1. e \in Epochs /\ e # 0 /\ e <= row.epoch /\ effect[e].ws \in 0..MaxEpoch
  BY HasEpoch, IInvParts DEF ExpiredAbsent, Looked, At, StoreType, EffectType
<1>2. CASE Return(p) /\ JournalKept
  BY <1>2, QuietReturn, SpentKept DEF ExpiredAbsent, OnlyProc
<1>3. CASE effect' = [effect EXCEPT ![e] = Terminal(@, @.ws, "other")] /\ Goto(p, "expired")
  <2>1. effect' = [effect EXCEPT ![e] = Terminal(@, effect[e].ws, "other")]
    BY <1>3
  <2>2. "expired" \in Points \ (Holding \union {"reply", "looked", "route"} \union Succeeding)
    BY DEF Points, Fenced, Holding, Succeeding
  <2>3. EffectStep(e)
    BY <1>1, <2>1, EndIsEffectStep DEF ExpiredAbsent
  <2>4. QED  BY <1>1, <1>3, <2>2, <2>3, EffectGoto
<1>4. QED  BY <1>2, <1>3 DEF ExpiredAbsent

-----------------------------------------------------------------------------

(* The row at its first epoch is inserted. *)
LEMMA StartReserveKeeps ==
    ASSUME IInv, NEW p \in Procs, StartReserve(p)  PROVE IInv'
<1>1. /\ row' = [row EXCEPT !.state = "reserved"] /\ fresh' = {} /\ spent' \in Spent
      /\ RowInv /\ StoreType
  BY SpentKept, IInvParts DEF StartReserve, Write
<1>2. /\ row'.state = "reserved" /\ row'.epoch = row.epoch /\ row'.holder = None
      /\ row' \in RowType
  BY <1>1, RowIsTyped DEF RowInv, StartReserve, RowType, L!RowStates, L!LiveStates
<1>3. StoreType' /\ Grows /\ JournalInv'
  BY <1>1, <1>2, RowIsTyped, RowStep DEF StartReserve
<1>4. RowInv'
  BY <1>2 DEF RowInv
<1>5. PICK r \in ProcType :
         r = [Idle EXCEPT !.pc = "start", !.op = "start", !.epoch = row.epoch,
                          !.src = row.holder, !.ws = row.ws]
  BY RowIsTyped, SnapshotRecord DEF Points, Unfenced
<1>6. r.pc = "start" /\ r.epoch = row'.epoch /\ proc' = [proc EXCEPT ![p] = r]
  BY <1>2, <1>5 DEF Idle, StartReserve, Snapshot
<1>7. ProcInv(r)'
  BY <1>2, <1>6, RowIsTyped DEF ProcInv, Holding, Succeeding
<1>8. QED  BY <1>1, <1>3, <1>4, <1>6, <1>7, Step

(* An expired task is reserved anew, at its next epoch. *)
LEMMA StartReissueKeeps ==
    ASSUME IInv, NEW p \in Procs, StartReissue(p)  PROVE IInv'
<1>1. /\ row' = [ state    |-> "reserved", epoch |-> row.epoch + 1,
                  attempts |-> row.attempts, holder |-> None,
                  recovery |-> FALSE, expired |-> FALSE, ws |-> None ]
      /\ fresh' = {} /\ spent' \in Spent
  BY SpentKept DEF StartReissue, Write
<1>2. row.epoch + 1 \in Epochs
  BY RowIsTyped DEF StartReissue, L!CanOpenEpoch, Epochs
<1>3. /\ row'.state = "reserved" /\ row'.epoch = row.epoch + 1 /\ row'.holder = None
      /\ row' \in RowType
  BY <1>1, <1>2, RowIsTyped DEF RowType, L!RowStates, L!LiveStates, None
<1>4. StoreType' /\ Grows /\ JournalInv'
  BY <1>1, <1>3, RowIsTyped, RowStep DEF StartReissue
<1>5. RowInv'
  BY <1>3 DEF RowInv
<1>6. PICK r \in ProcType :
         r = [Idle EXCEPT !.pc = "start", !.op = "start", !.epoch = row'.epoch,
                          !.src = row'.holder, !.ws = row'.ws]
  BY <1>3, SnapshotRecord DEF Points, Unfenced
<1>7. r.pc = "start" /\ r.epoch = row'.epoch /\ proc' = [proc EXCEPT ![p] = r]
  BY <1>6 DEF Idle, StartReissue, Snapshot
<1>8. ProcInv(r)'
  BY <1>3, <1>7, RowIsTyped DEF ProcInv, Holding, Succeeding
<1>9. QED  BY <1>1, <1>4, <1>5, <1>7, <1>8, Step

(* A reservation is adopted by another start. *)
LEMMA StartAgainKeeps ==
    ASSUME IInv, NEW p \in Procs, StartAgain(p)  PROVE IInv'
<1>1. "start" \in Points \ (Holding \union {"idle", "reply", "looked", "route"} \union Succeeding)
  BY DEF Points, Unfenced, Holding, Succeeding
<1>2. QED  BY <1>1, SnapshotKeeps, SpentKept DEF StartAgain, OnlyProc

(* _start_reserved reads the row. *)
LEMMA StartReadKeeps ==
    ASSUME IInv, NEW p \in Procs, StartRead(p)  PROVE IInv'
<1>1. "startIO" \in Points \ (Holding \union {"idle", "reply", "looked", "route"} \union Succeeding)
  BY DEF Points, Unfenced, Holding, Succeeding
<1>2. CASE Snapshot(p, "start", row, "startIO") /\ RowRead(p)
  BY <1>1, <1>2, SnapshotKeeps, SpentKept DEF StartRead
<1>3. CASE Return(p) /\ RowKept
  BY <1>3, QuietReturn, SpentKept DEF StartRead, OnlyProc
<1>4. QED  BY <1>2, <1>3 DEF StartRead

(* The reservation asks for nothing but an epoch. *)
LEMMA ReserveNext ==
    "reserve" \in Points \ (Holding \union {"reply", "looked", "route"} \union Succeeding)
  BY DEF Points, Fenced, Holding, Succeeding

(* It goes on if nothing moved. *)
LEMMA StartDispatchKeeps ==
    ASSUME IInv, NEW p \in Procs, StartDispatch(p)  PROVE IInv'
<1>1. proc[p].epoch # 0
  BY HasEpoch DEF StartDispatch, At
<1>2. QED
  BY <1>1, ReserveNext, QuietGoto, QuietReturn, SpentKept DEF StartDispatch

(* replace() reads a row with a holder. *)
LEMMA ReplaceReadKeeps ==
    ASSUME IInv, NEW p \in Procs, ReplaceRead(p)  PROVE IInv'
<1>1. "replace" \in Points \ (Holding \union {"idle", "reply", "looked", "route"})
  BY DEF Points, Unfenced, Holding
<1>2. QED  BY <1>1, SnapshotKeeps, SpentKept DEF ReplaceRead

(* The new epochs of TaskLifecycle, on this row. *)
LEMMA NextEpochRow ==
    ASSUME IInv, NEW charge \in BOOLEAN, NEW recovery \in BOOLEAN,
           row' = L!NextEpoch(row, charge, recovery),
           L!CanOpenEpoch(row), charge => L!BudgetLeft(row),
           recovery => IF charge THEN ~L!LastFailure(row) ELSE L!BudgetLeft(row),
           JournalKept, OwnersKept, NativeKept, spent' \in Spent
    PROVE  /\ StoreType' /\ Grows /\ JournalInv' /\ RowInv'
           /\ row'.state = "replacing" /\ row'.epoch = row.epoch + 1
           /\ row'.holder = row.holder
<1>1. /\ row'.state = "replacing" /\ row'.epoch = row.epoch + 1
      /\ row'.holder = row.holder /\ row'.recovery = recovery
      /\ row'.attempts = IF charge THEN row.attempts + 1 ELSE row.attempts
  BY RowIsTyped DEF RowType, L!NextEpoch
<1>2. row' \in RowType
  <2>1. row.epoch + 1 \in Epochs
    BY RowIsTyped DEF L!CanOpenEpoch, Epochs
  <2>2. (IF charge THEN row.attempts + 1 ELSE row.attempts) \in 0..MaxAttempts
    BY RowIsTyped DEF L!BudgetLeft
  <2>3. "replacing" \in L!RowStates
    BY DEF L!RowStates, L!LiveStates
  <2>4. QED  BY <2>1, <2>2, <2>3, RowIsTyped DEF RowType, L!NextEpoch
<1>3. StoreType /\ RowInv /\ StoreType' /\ Grows /\ JournalInv'
  BY <1>1, <1>2, RowIsTyped, RowStep, IInvParts
<1>4. recovery => L!BudgetLeft(row')
  BY <1>1, RowIsTyped DEF L!BudgetLeft, L!LastFailure
<1>5. RowInv'
  <2>1. (L!BudgetLeft(row))' <=> L!BudgetLeft(row')
    BY DEF L!BudgetLeft
  <2>2. QED  BY <1>1, <1>3, <1>4, <2>1, KnownGrows DEF RowInv
<1>6. QED  BY <1>1, <1>3, <1>5

(* A process that opens an epoch keeps the row it wrote as its snapshot. *)
LEMMA WrittenSnapshot ==
    ASSUME IInv, StoreType', Grows, RowInv', JournalInv', NEW p \in Procs, fresh' = {p},
           NEW op \in {"replace", "auto"}, NEW pc \in {"retire", "autoIO"},
           pc = "retire" => row'.holder # None,
           Snapshot(p, op, row', pc)
    PROVE  IInv'
<1>1. row' \in RowType /\ row'.epoch \in Nat \ {0}
  <2>1. row' \in RowType  BY DEF StoreType
  <2>2. row'.epoch \in Epochs  BY <2>1 DEF RowType
  <2>3. QED  BY <2>1, <2>2, LaunchAssumption DEF LaunchAssumption, Epochs
<1>2. pc \in Points
  BY DEF Points, Fenced, Unfenced
<1>3. PICK r \in ProcType :
         r = [Idle EXCEPT !.pc = pc, !.op = op, !.epoch = row'.epoch,
                          !.src = row'.holder, !.ws = row'.ws]
  BY <1>1, <1>2, SnapshotRecord
<1>4. /\ r.pc = pc /\ r.epoch = row'.epoch /\ r.src = row'.holder
      /\ proc' = [proc EXCEPT ![p] = r]
  BY <1>3 DEF Idle, Snapshot
<1>5. ProcInv(r)' /\ SnapshotInv(r)'
  BY <1>1, <1>4 DEF ProcInv, SnapshotInv, Holding, Succeeding
<1>6. proc'[p].pc # "idle"
  BY <1>4 DEF IInv, TypeOK
<1>7. QED  BY <1>4, <1>5, <1>6, Step

(* The prepared row is written, and its holder is still the one that was   *)
(* read.                                                                   *)
LEMMA ReplaceCommitKeeps ==
    ASSUME IInv, NEW p \in Procs, ReplaceCommit(p)  PROVE IInv'
<1>1. spent' \in Spent
  BY SpentKept DEF ReplaceCommit
<1>2. CASE Return(p) /\ RowKept
  BY <1>1, <1>2, QuietReturn DEF ReplaceCommit, OnlyProc
<1>3. CASE /\ Replaceable /\ ~Moved(p)
           /\ Write(Reopened, {p}) /\ Snapshot(p, "replace", Reopened, "retire")
  <2>1. row.holder # None
    <3>1. proc[p].src # None
      BY HasSource DEF ReplaceCommit, At, Succeeding
    <3>2. QED  BY <1>3, <3>1 DEF Moved, IInv, SnapshotInv
  <2>2. StoreType' /\ Grows /\ RowInv' /\ JournalInv' /\ row'.holder = row.holder
    <3>1. CASE row.state = "replacing" /\ ~row.recovery
      <4>1. row' = row
        BY <1>3, <3>1 DEF Write, Reopened
      <4>2. QED  BY <1>1, <4>1, SameStore, RowInvGrows, IInvParts DEF ReplaceCommit
    <3>2. CASE ~(row.state = "replacing" /\ ~row.recovery)
      <4>1. row' = L!NextEpoch(row, row.state = "replacing", FALSE)
        BY <1>3, <3>2 DEF Write, Reopened
      <4>2. L!CanOpenEpoch(row)
        BY <1>3, <3>2 DEF Replaceable
      <4>3. row.state = "replacing" => L!BudgetLeft(row)
        BY <3>2, IInvParts, RowIsTyped DEF RowInv, RowType
      <4>4. QED  BY <1>1, <4>1, <4>2, <4>3, NextEpochRow DEF ReplaceCommit
    <3>3. QED  BY <3>1, <3>2
  <2>3. row' = Reopened /\ fresh' = {p} /\ Snapshot(p, "replace", row', "retire")
    BY <1>3 DEF Write
  <2>4. QED  BY <2>1, <2>2, <2>3, WrittenSnapshot
<1>4. QED  BY <1>2, <1>3 DEF ReplaceCommit

(* A process that notes a session and looks at the row later. *)
LEMMA FinishReadKeeps ==
    ASSUME IInv, NEW p \in Procs, NEW op \in {"complete", "cancel"}, FinishRead(p, op)
    PROVE  IInv'
<1>1. PICK r \in ProcType : r = [Idle EXCEPT !.pc = "finish", !.op = op, !.sid = row.holder]
  BY RowIsTyped, IdleIsIdle DEF ProcType, Unfenced
<1>2. r.pc = "finish" /\ r.epoch = 0
  BY <1>1 DEF Idle
<1>3. ProcInv(r)
  BY <1>2, RowIsTyped DEF ProcInv, Holding, Succeeding
<1>4. p \notin fresh
  BY DEF IInv, TypeOK, FinishRead, Command
<1>5. QED  BY <1>1, <1>3, <1>4, QuietStep, SpentKept DEF FinishRead

-----------------------------------------------------------------------------

(* The bridge is one of the processes. *)
LEMMA BridgeIsProc == Bridge \in Procs
  BY DEF Procs

(* A tick that charges the row, and moves no process or returns. *)
LEMMA ChargeStill ==
    ASSUME IInv, NEW s \in {"blocked", "exhausted"}, L!BudgetLeft(row), row.state # "absent",
           Write(L!ChargedFailure(row, s, FALSE), {}), UNCHANGED proc,
           JournalKept, OwnersKept, NativeKept, NotCommand
    PROVE  IInv'
<1>1. row' = L!ChargedFailure(row, s, FALSE) /\ fresh' = {} /\ spent' \in Spent
  BY SpentKept DEF Write
<1>2. row' \in RowType /\ row'.epoch = row.epoch /\ RowInv'
  BY <1>1, ChargeRow
<1>3. row.epoch <= row'.epoch
  BY <1>2, RowIsTyped
<1>4. StoreType' /\ Grows /\ JournalInv'
  BY <1>1, <1>2, <1>3, RowStep
<1>5. QED  BY <1>1, <1>2, <1>4, StillStep

(* A replacement that ended unfilled blocks the task. *)
LEMMA ResumeEndedKeeps == IInv /\ ResumeEnded => IInv'
<1>1. SUFFICES ASSUME IInv, ResumeEnded  PROVE IInv'
  OBVIOUS
<1>2. QED  BY <1>1, ChargeStill DEF ResumeEnded

(* An outcome no route is left for blocks it. *)
LEMMA AdvanceBlocksKeeps == IInv /\ AdvanceBlocks => IInv'
<1>1. SUFFICES ASSUME IInv, AdvanceBlocks  PROVE IInv'
  OBVIOUS
<1>2. QED  BY <1>1, ChargeStill DEF AdvanceBlocks

(* A replacement that did not end is filled. *)
LEMMA ResumeUnfilledKeeps == IInv /\ ResumeUnfilled => IInv'
<1>1. SUFFICES ASSUME IInv, ResumeUnfilled  PROVE IInv'
  OBVIOUS
<1>2. {"retire", "autoIO"} \subseteq Points \ (Holding \union {"idle", "reply", "looked", "route"})
  BY DEF Points, Fenced, Unfenced, Holding
<1>3. (Prepared(row) = "retire" /\ row.holder # None) \/ Prepared(row) = "autoIO"
  BY DEF Prepared
<1>4. "autoIO" \notin Succeeding
  BY DEF Succeeding
<1>5. QED
  BY <1>1, <1>2, <1>3, <1>4, SnapshotKeeps, SpentKept, BridgeIsProc DEF ResumeUnfilled

(* A workspace launch goes on if nothing moved. *)
LEMMA AutoDispatchKeeps == IInv /\ AutoDispatch => IInv'
<1>1. SUFFICES ASSUME IInv, AutoDispatch  PROVE IInv'
  OBVIOUS
<1>2. proc[Bridge].epoch # 0
  BY <1>1, HasEpoch, BridgeIsProc DEF AutoDispatch, At
<1>3. QED
  BY <1>1, <1>2, ReserveNext, QuietGoto, QuietReturn, SpentKept, BridgeIsProc DEF AutoDispatch

(* The breaker ends the task; the holder it retires exists, since an       *)
(* active row has one.                                                     *)
LEMMA AdvanceExhaustsKeeps == IInv /\ AdvanceExhausts => IInv'
<1>1. SUFFICES ASSUME IInv, AdvanceExhausts  PROVE IInv'
  OBVIOUS
<1>2. row' = L!ChargedFailure(row, "exhausted", FALSE) /\ fresh' = {} /\ spent' \in Spent
  BY <1>1, SpentKept DEF AdvanceExhausts, Write
<1>3. row' \in RowType /\ row'.epoch = row.epoch /\ RowInv'
  BY <1>1, <1>2, ChargeRow DEF AdvanceExhausts
<1>4. StoreType' /\ Grows /\ JournalInv'
  <2>1. row.epoch <= row'.epoch
    BY <1>1, <1>3, RowIsTyped
  <2>2. QED  BY <1>1, <1>2, <1>3, <2>1, RowStep DEF AdvanceExhausts
<1>5. row.holder # None
  BY <1>1, IInvParts DEF AdvanceExhausts, RowInv
<1>6. PICK r \in ProcType : r = [Idle EXCEPT !.pc = "retireFinal", !.op = "auto",
                                            !.epoch = row.epoch, !.src = row.holder]
  BY <1>1, RowIsTyped, IdleIsIdle DEF ProcType, Fenced
<1>7. /\ r.pc = "retireFinal" /\ r.epoch = row.epoch /\ r.src = row.holder
      /\ proc' = [proc EXCEPT ![Bridge] = r]
  BY <1>1, <1>6 DEF Idle, AdvanceExhausts
<1>8. ProcInv(r)'
  BY <1>1, <1>3, <1>5, <1>7, RowIsTyped DEF ProcInv, Holding, Succeeding
<1>9. QED  BY <1>1, <1>2, <1>3, <1>4, <1>7, <1>8, Step, BridgeIsProc

(* A route is chosen, within the budget. *)
LEMMA AdvanceRoutesKeeps == IInv /\ AdvanceRoutes => IInv'
<1>1. SUFFICES ASSUME IInv, AdvanceRoutes  PROVE IInv'
  OBVIOUS
<1>2. "route" \in Points \ (Holding \union {"idle", "reply", "looked"} \union Succeeding)
  BY DEF Points, Unfenced, Holding, Succeeding
<1>3. QED  BY <1>1, <1>2, SnapshotKeeps, SpentKept, BridgeIsProc DEF AdvanceRoutes

(* The reroute is written, and the budget SnapshotInv remembers is what    *)
(* is left of it.                                                          *)
LEMMA RerouteKeeps == IInv /\ Reroute => IInv'
<1>1. SUFFICES ASSUME IInv, Reroute  PROVE IInv'
  OBVIOUS
<1> DEFINE n == L!NextEpoch(row, row.state = "active", TRUE)
<1>2. spent' \in Spent
  BY <1>1, SpentKept DEF Reroute
<1>3. CASE Return(Bridge) /\ RowKept
  BY <1>1, <1>2, <1>3, QuietReturn, BridgeIsProc DEF Reroute, OnlyProc
<1>4. CASE /\ ~Moved(Bridge) /\ Snapshot(Bridge, "auto", n, Prepared(n))
           /\ Write(n, {Bridge})
  <2>1. row' = n /\ fresh' = {Bridge}
    BY <1>4 DEF Write
  <2>2. /\ L!BudgetLeft(row) /\ L!CanOpenEpoch(row)
        /\ row.state = "active" => ~L!LastFailure(row)
    BY <1>1, <1>4 DEF Reroute, At, Moved, IInv, SnapshotInv
  <2>3. StoreType' /\ Grows /\ RowInv' /\ JournalInv'
    BY <1>1, <1>2, <2>1, <2>2, NextEpochRow DEF Reroute
  <2>4. Snapshot(Bridge, "auto", row', Prepared(row'))
    BY <1>4, <2>1
  <2>5. (Prepared(row') = "retire" /\ row'.holder # None) \/ Prepared(row') = "autoIO"
    BY DEF Prepared
  <2>6. QED  BY <1>1, <2>1, <2>3, <2>4, <2>5, WrittenSnapshot, BridgeIsProc
<1>5. QED  BY <1>1, <1>3, <1>4 DEF Reroute

(* A session that ended is looked at. *)
LEMMA ObserveKeeps == IInv /\ Observe => IInv'
<1>1. SUFFICES ASSUME IInv, Observe  PROVE IInv'
  OBVIOUS
<1>2. PICK r \in ProcType :
         r = [Idle EXCEPT !.pc = "observe", !.op = "observe", !.sid = row.holder]
  BY <1>1, RowIsTyped, IdleIsIdle DEF ProcType, Unfenced
<1>3. r.pc = "observe" /\ r.epoch = 0
  BY <1>2 DEF Idle
<1>4. ProcInv(r)
  BY <1>1, <1>3, RowIsTyped DEF ProcInv, Holding, Succeeding
<1>5. Bridge \notin fresh
  BY <1>1 DEF IInv, TypeOK, Observe
<1>6. QED  BY <1>1, <1>2, <1>4, <1>5, QuietStep, SpentKept, BridgeIsProc DEF Observe

(* The row is read anew under the fence. *)
LEMMA ObserveReadKeeps == IInv /\ ObserveRead => IInv'
<1>1. SUFFICES ASSUME IInv, ObserveRead  PROVE IInv'
  OBVIOUS
<1>2. CASE Return(Bridge)
  BY <1>1, <1>2, QuietReturn, SpentKept, BridgeIsProc DEF ObserveRead
<1>3. CASE proc' = [proc EXCEPT ![Bridge].pc = "observing", ![Bridge].epoch = row.epoch]
  <2>1. proc[Bridge] \in ProcType /\ ProcInv(proc[Bridge])
    BY <1>1, IInvParts, BridgeIsProc
  <2>2. PICK r \in ProcType : r = [proc[Bridge] EXCEPT !.pc = "observing", !.epoch = row.epoch]
    BY <1>1, <2>1, RowIsTyped DEF ProcType, Unfenced
  <2>3. r.pc = "observing" /\ r.epoch = row.epoch /\ r.src = proc[Bridge].src
    BY <2>1, <2>2 DEF ProcType
  <2>4. ProcInv(r)
    BY <1>1, <2>3, RowIsTyped DEF ProcInv, Holding, Succeeding
  <2>5. Bridge \in fresh => SnapshotInv(r)
    BY <1>1, <2>3 DEF IInv, SnapshotInv
  <2>6. proc' = [proc EXCEPT ![Bridge] = r]
    BY <1>1, <1>3, <2>2, BridgeIsProc DEF IInv, TypeOK
  <2>7. QED  BY <1>1, <2>4, <2>5, <2>6, QuietStep, SpentKept, BridgeIsProc DEF ObserveRead
<1>4. QED  BY <1>1, <1>2, <1>3 DEF ObserveRead

(* The provider's refusal ends the epoch that was read. *)
LEMMA ObserveRefusalKeeps == IInv /\ ObserveRefusal => IInv'
<1>1. SUFFICES ASSUME IInv, ObserveRefusal  PROVE IInv'
  OBVIOUS
<1> DEFINE e == proc[Bridge].epoch
<1>2. e \in Epochs /\ e <= row.epoch /\ effect[e].ws \in 0..MaxEpoch
  BY <1>1, HasEpoch, IInvParts, BridgeIsProc DEF ObserveRefusal, At, StoreType, EffectType
<1>3. CASE JournalKept
  BY <1>1, <1>3, QuietReturn, SpentKept, BridgeIsProc DEF ObserveRefusal, OnlyProc
<1>4. CASE effect' = [effect EXCEPT ![e] = Terminal(@, @.ws, "provider")]
  <2>1. effect' = [effect EXCEPT ![e] = Terminal(@, effect[e].ws, "provider")]
    BY <1>4
  <2>2. QED
    BY <1>1, <1>2, <2>1, EndIsEffectStep, EffectReturn, BridgeIsProc DEF ObserveRefusal
<1>5. QED  BY <1>1, <1>3, <1>4 DEF ObserveRefusal

-----------------------------------------------------------------------------

(* The invariant holds before the first start. *)
LEMMA InitIInv == Init => IInv
<1> SUFFICES ASSUME Init  PROVE IInv
  OBVIOUS
<1>1. TypeOK
  <2>1. row \in RowType
    BY LaunchAssumption
    DEF LaunchAssumption, Init, RowType, Epochs, None, L!RowStates, L!TerminalStates, L!LiveStates
  <2>2. effect \in [Epochs -> EffectType] /\ native \in [Epochs -> NativeType]
    BY LaunchAssumption DEF LaunchAssumption, Init, EffectType, NativeType, Unused, None
  <2>3. successor \in [Epochs -> 0..MaxEpoch] /\ retired \subseteq Epochs /\ intents \subseteq Epochs
    BY LaunchAssumption DEF LaunchAssumption, Init, None
  <2>4. proc \in [Procs -> ProcType]
    BY IdleIsIdle DEF Init
  <2>5. spent \in Spent
    BY LaunchAssumption DEF LaunchAssumption, Init, Spent
  <2>6. fresh = {}  BY DEF Init
  <2>7. QED  BY <2>1, <2>2, <2>3, <2>4, <2>5, <2>6 DEF TypeOK, Spent
<1>2. RowInv
  BY DEF Init, RowInv, None
<1>3. JournalInv
  BY DEF Init, JournalInv, Unused, None
<1>4. \A p \in Procs : ProcInv(proc[p])
  BY <1>1, IdleIsIdle DEF Init, TypeOK, StoreType, Spent
<1>5. QED  BY <1>1, <1>2, <1>3, <1>4 DEF IInv, Init

(* An operation that has begun keeps the invariant. *)
LEMMA ContinueKeeps ==
    ASSUME IInv, NEW p \in Procs, Continue(p)  PROVE IInv'
<1>1. CASE Launching(p)
  <2>1. BusyRetry(p) => IInv'
    BY ReserveNext, QuietGoto, HasEpoch DEF BusyRetry, At
  <2>2. BusyGiveUp(p) \/ ReplyRefused(p) => IInv'
    BY QuietReturn, SpentKept DEF BusyGiveUp, ReplyRefused
  <2>3. BlockRejected(p) \/ LoseNative(p) => IInv'
    BY FailKeeps DEF BlockRejected, LoseNative
  <2>4. QED
    BY <1>1, <2>1, <2>2, <2>3, ReserveKeeps, CallAcceptedKeeps, CallRefusedKeeps,
       ReplySupersededKeeps, ReplyLaunchedKeeps, ReplyRejectedKeeps, ReplyUnknownKeeps,
       ReplyLostKeeps, ActivateKeeps, RetireKeeps, TransferKeeps, LinkKeeps, ForwardKeeps
    DEF Launching
<1>2. CASE Settling(p)
  <2>1. CleanupEnds(p) => IInv'
    BY QuietReturn, SpentKept DEF CleanupEnds
  <2>2. LoseExpired(p) => IInv'
    BY FailKeeps DEF LoseExpired
  <2>3. QED
    BY <1>2, <2>1, <2>2, FinishDecideKeeps, CloseEffectKeeps, RetireFinalKeeps, StopKeeps,
       AckStopKeeps, LookupKeeps, ExpiredSupersededKeeps, ExpiredAdoptedKeeps,
       ExpiredAbsentKeeps
    DEF Settling
<1>3. CASE Starting(p)
  <2>1. StartRefused(p) => IInv'
    BY QuietReturn, SpentKept DEF StartRefused
  <2>2. QED
    BY <1>3, <2>1, StartReadKeeps, StartDispatchKeeps, ReplaceCommitKeeps DEF Starting
<1>4. CASE p = Bridge /\ Reconciling
  <2>1. ObserveFailure => IInv'
    BY FailKeeps, BridgeIsProc DEF ObserveFailure
  <2>2. ObserveNothing => IInv'
    BY QuietReturn, SpentKept, BridgeIsProc DEF ObserveNothing
  <2>3. QED
    BY <1>4, <2>1, <2>2, AutoDispatchKeeps, RerouteKeeps, ObserveReadKeeps,
       ObserveRefusalKeeps
    DEF Reconciling
<1>5. QED  BY <1>1, <1>2, <1>3, <1>4 DEF Continue

(* Every step does. *)
LEMMA NextIInv == IInv /\ [Next]_vars => IInv'
<1> SUFFICES ASSUME IInv, [Next]_vars  PROVE IInv'
  OBVIOUS
<1>1. ASSUME NEW p \in Procs, Continue(p) \/ Sweep(p) \/ Faults(p)  PROVE IInv'
  <2>1. Sweep(p) => IInv'
    BY SweepExpiredKeeps, SweepTerminalKeeps, CleanupKeeps DEF Sweep
  <2>2. StopFails(p) \/ LookupFails(p) => IInv'
    BY QuietReturn, SpentKept DEF StopFails, LookupFails
  <2>3. QED
    BY <1>1, <2>1, <2>2, ContinueKeeps, CrashKeeps, CallTimesOutKeeps DEF Faults
<1>2. ASSUME NEW p \in Commands, Given(p)  PROVE IInv'
  BY <1>2, StartReserveKeeps, StartAgainKeeps, StartReissueKeeps, ReplaceReadKeeps,
     BlockKeeps, FinishReadKeeps
  DEF Given, Procs
<1>3. CASE TickNext
  BY <1>3, ResumeEndedKeeps, ResumeUnfilledKeeps, AdvanceExhaustsKeeps, AdvanceBlocksKeeps,
     AdvanceRoutesKeeps, ObserveKeeps
  DEF TickNext, Resume, Advance
<1>4. ASSUME NEW e \in Epochs, LeaseExpires(e) \/ NativeEnds(e)  PROVE IInv'
  BY <1>4, LeaseExpiresKeeps, NativeEndsKeeps
<1>5. CASE UNCHANGED vars
  <2>1. StoreType' /\ Grows /\ RowInv' /\ JournalInv'
    <3>1. StoreType /\ RowInv /\ JournalInv
      BY IInvParts
    <3>2. StoreType' /\ Grows
      BY <1>5, <3>1, RowIsTyped DEF vars, StoreType, Grows
    <3>3. QED  BY <1>5, <3>1, <3>2, RowInvGrows, JournalInvGrows DEF vars
  <2>2. QED  BY <1>5, <2>1, StillStep DEF vars
<1>6. QED  BY <1>1, <1>2, <1>3, <1>4, <1>5 DEF Next

(* The inductive invariant holds of every behaviour, for any number of     *)
(* processes, any budget and any bounds.                                   *)
THEOREM Invariant == Spec => []IInv
<1>1. QED  BY InitIInv, NextIInv, PTL DEF Spec

(* The row, the journal, the executor and every process stay well formed. *)
THEOREM TypeCorrect == Spec => []TypeOK
<1>1. IInv => TypeOK  BY DEF IInv
<1>2. QED  BY <1>1, Invariant, PTL

(* sdk.py _journaled_launch: whoever holds the task was launched, and the  *)
(* journal has it, whatever was adopted, replayed or taken over by whom.   *)
THEOREM HolderLaunched == Spec => []HolderWasLaunched
<1>1. IInv => HolderWasLaunched  BY DEF IInv, RowInv, Known, HolderWasLaunched
<1>2. QED  BY <1>1, Invariant, PTL

-----------------------------------------------------------------------------

(* What every action but a reservation does: what is over stays over, and   *)
(* nobody begins a request.                                                 *)
Barred ==
    /\ \A e \in Epochs : effect[e].state = "terminal" => effect'[e].state = "terminal"
    /\ \A q \in Procs : proc'[q].pc = "call" => proc[q].pc = "call"

(* No process begins a request by returning ... *)
LEMMA ReturnBarred ==
    ASSUME IInv, NEW p \in Procs, Return(p)
    PROVE  \A q \in Procs : proc'[q].pc = "call" => proc[q].pc = "call"
  BY IdleIsIdle DEF IInv, TypeOK, Return

(* ... by going anywhere else ... *)
LEMMA GotoBarred ==
    ASSUME IInv, NEW p \in Procs, NEW pc, pc # "call", Goto(p, pc)
    PROVE  \A q \in Procs : proc'[q].pc = "call" => proc[q].pc = "call"
  BY IInvParts DEF IInv, TypeOK, Goto, ProcType

(* ... by reading the row ... *)
LEMMA SnapshotBarred ==
    ASSUME IInv, NEW p \in Procs, NEW pc, pc # "call", NEW op, NEW r, Snapshot(p, op, r, pc)
    PROVE  \A q \in Procs : proc'[q].pc = "call" => proc[q].pc = "call"
  BY DEF IInv, TypeOK, Snapshot, Idle

(* ... or once its session is launched. *)
LEMMA LaunchedBarred ==
    ASSUME IInv, NEW p \in Procs, NEW e, Launched(p, e)
    PROVE  \A q \in Procs : proc'[q].pc = "call" => proc[q].pc = "call"
<1> DEFINE pc == IF proc[p].src = None \/ proc[p].op = "start" THEN "activate" ELSE "link"
<1>1. proc'[p].pc = pc /\ \A q \in Procs \ {p} : proc'[q] = proc[q]
  BY IInvParts DEF Launched, IInv, TypeOK, ProcType
<1>2. QED  BY <1>1

(* No step of a launch begins a request but the reservation. *)
LEMMA LaunchingBarred ==
    ASSUME IInv, NEW p \in Procs, Launching(p), ~Reserve(p)  PROVE Barred
<1>0. effect \in [Epochs -> EffectType] /\ proc \in [Procs -> ProcType]
  BY DEF IInv, TypeOK
<1>1. BusyRetry(p) \/ Retire(p) \/ Forward(p) => Barred
  BY GotoBarred DEF BusyRetry, Retire, Forward, OnlyProc, JournalKept, Barred
<1>2. BusyGiveUp(p) \/ ReplyRefused(p) \/ BlockRejected(p) \/ LoseNative(p) \/ Activate(p) => Barred
  BY ReturnBarred
  DEF BusyGiveUp, ReplyRefused, BlockRejected, LoseNative, Activate, OnlyProc, JournalKept, Barred
<1>3. CallAccepted(p) \/ CallRefused(p) => Barred
  BY <1>0 DEF CallAccepted, CallRefused, OnlyProc, JournalKept, Barred, ProcType
<1>4. ReplySuperseded(p) => Barred
  BY <1>0 DEF ReplySuperseded, Superseded, Terminal, Barred, ProcType, EffectType
<1>5. ReplyLaunched(p) => Barred
  BY <1>0, LaunchedBarred, ReturnBarred DEF ReplyLaunched, Open, JournalKept, Barred, EffectType
<1>6. ReplyRejected(p) \/ ReplyUnknown(p) \/ ReplyLost(p) => Barred
  BY <1>0, ReturnBarred, GotoBarred
  DEF ReplyRejected, ReplyUnknown, ReplyLost, Terminal, JournalKept, Barred, EffectType
<1>7. Transfer(p) => Barred
  BY <1>0, ReturnBarred, GotoBarred DEF Transfer, OnlyProc, JournalKept, Barred, ProcType
<1>8. Link(p) => Barred
  BY ReturnBarred, GotoBarred DEF Link, JournalKept, Barred
<1>9. QED
  BY <1>1, <1>2, <1>3, <1>4, <1>5, <1>6, <1>7, <1>8 DEF Launching

(* No step of a finish, a cleanup or a sweep does. *)
LEMMA SettlingBarred ==
    ASSUME IInv, NEW p \in Procs, Settling(p)  PROVE Barred
<1>0. effect \in [Epochs -> EffectType] /\ proc \in [Procs -> ProcType]
  BY DEF IInv, TypeOK
<1>1. FinishDecide(p) => Barred
  BY SnapshotBarred, ReturnBarred DEF FinishDecide, JournalKept, Barred
<1>2. CloseEffect(p) => Barred
  <2>1. SUFFICES ASSUME CloseEffect(p)  PROVE Barred
    OBVIOUS
  <2>2. \A e \in Epochs : effect[e].state = "terminal" => effect'[e].state = "terminal"
    BY <1>0, <2>1 DEF CloseEffect, Terminal, JournalKept, EffectType
  <2>3. proc'[p].pc # "call" /\ \A q \in Procs \ {p} : proc'[q] = proc[q]
    BY <1>0, <2>1 DEF CloseEffect, ProcType
  <2>4. QED  BY <2>2, <2>3 DEF Barred
<1>3. RetireFinal(p) \/ Stop(p) => Barred
  BY GotoBarred DEF RetireFinal, Stop, JournalKept, Barred
<1>4. AckStop(p) => Barred
  BY <1>0, GotoBarred, ReturnBarred DEF AckStop, Barred, EffectType
<1>5. CleanupEnds(p) \/ LoseExpired(p) => Barred
  BY ReturnBarred DEF CleanupEnds, LoseExpired, OnlyProc, JournalKept, Barred
<1>6. Lookup(p) => Barred
  BY <1>0 DEF Lookup, OnlyProc, JournalKept, Barred, ProcType
<1>7. ExpiredSuperseded(p) \/ ExpiredAdopted(p) \/ ExpiredAbsent(p) => Barred
  BY <1>0, GotoBarred, ReturnBarred
  DEF ExpiredSuperseded, ExpiredAdopted, ExpiredAbsent, Superseded, Terminal, Open,
      JournalKept, Barred, EffectType
<1>8. QED
  BY <1>1, <1>2, <1>3, <1>4, <1>5, <1>6, <1>7 DEF Settling

(* No step of the bridge's reconciliation does. *)
LEMMA TickBarred ==
    ASSUME IInv, Reconciling \/ TickNext  PROVE Barred
<1>0. effect \in [Epochs -> EffectType] /\ proc \in [Procs -> ProcType] /\ Bridge \in Procs
  BY BridgeIsProc DEF IInv, TypeOK
<1>1. AutoDispatch \/ ObserveFailure \/ ObserveNothing => Barred
  BY <1>0, GotoBarred, ReturnBarred
  DEF AutoDispatch, ObserveFailure, ObserveNothing, OnlyProc, JournalKept, Barred
<1>2. Prepared(row) # "call" /\ \A r : Prepared(r) # "call"
  BY DEF Prepared
<1>3. Reroute \/ ResumeUnfilled \/ AdvanceRoutes => Barred
  BY <1>0, <1>2, SnapshotBarred, ReturnBarred
  DEF Reroute, ResumeUnfilled, AdvanceRoutes, JournalKept, Barred
<1>4. ObserveRead => Barred
  BY <1>0, ReturnBarred DEF ObserveRead, OnlyProc, JournalKept, Barred, ProcType
<1>5. ObserveRefusal => Barred
  BY <1>0, ReturnBarred DEF ObserveRefusal, Terminal, JournalKept, Barred, EffectType
<1>6. ResumeEnded \/ AdvanceBlocks => Barred
  BY DEF ResumeEnded, AdvanceBlocks, JournalKept, Barred
<1>7. AdvanceExhausts \/ Observe => Barred
  BY <1>0 DEF AdvanceExhausts, Observe, OnlyProc, JournalKept, Barred, Idle
<1>8. QED
  BY <1>1, <1>3, <1>4, <1>5, <1>6, <1>7 DEF Reconciling, TickNext, Resume, Advance

(* No command, no start and no fault does. *)
LEMMA OthersBarred ==
    ASSUME IInv, NEW p \in Procs, Starting(p) \/ Sweep(p) \/ Faults(p) \/ Given(p)  PROVE Barred
<1>0. effect \in [Epochs -> EffectType] /\ proc \in [Procs -> ProcType]
  BY DEF IInv, TypeOK
<1>1. Starting(p) => Barred
  BY SnapshotBarred, GotoBarred, ReturnBarred
  DEF Starting, StartRead, StartDispatch, StartRefused, ReplaceCommit, OnlyProc, JournalKept, Barred
<1>2. Sweep(p) => Barred
  <2>1. SweepExpired(p) => Barred
    BY SnapshotBarred DEF SweepExpired, JournalKept, Barred
  <2>2. ASSUME NEW e \in Epochs, SweepTerminal(p, e)  PROVE Barred
    BY <1>0, <2>2 DEF SweepTerminal, OnlyProc, JournalKept, Barred, Idle
  <2>3. ASSUME NEW e \in Epochs, Cleanup(p, e)  PROVE Barred
    BY <2>3 DEF Cleanup, JournalKept, Barred
  <2>4. QED  BY <2>1, <2>2, <2>3 DEF Sweep
<1>3. Faults(p) => Barred
  <2>1. Crash(p) => Barred
    BY <1>0, ReturnBarred DEF Crash, Barred, EffectType
  <2>2. CallTimesOut(p) \/ StopFails(p) \/ LookupFails(p) => Barred
    BY ReturnBarred DEF CallTimesOut, StopFails, LookupFails, OnlyProc, JournalKept, Barred
  <2>3. QED  BY <2>1, <2>2 DEF Faults
<1>4. Given(p) => Barred
  <2>1. ASSUME NEW op \in {"complete", "cancel"}, FinishRead(p, op)  PROVE Barred
    BY <1>0, <2>1 DEF FinishRead, OnlyProc, JournalKept, Barred, Idle
  <2>2. StartReserve(p) \/ StartAgain(p) \/ StartReissue(p) \/ ReplaceRead(p) => Barred
    BY SnapshotBarred
    DEF StartReserve, StartAgain, StartReissue, ReplaceRead, OnlyProc, JournalKept, Barred
  <2>3. Block(p) => Barred
    BY DEF Block, JournalKept, Barred
  <2>4. QED  BY <2>1, <2>2, <2>3 DEF Given
<1>5. QED  BY <1>1, <1>2, <1>3, <1>4

(* A reservation alone begins a request, for an epoch that is not over. *)
LEMMA ReserveBarrier ==
    ASSUME IInv, NEW p \in Procs, Reserve(p)
    PROVE  /\ \A e \in Epochs : effect[e].state = "terminal" => effect'[e].state = "terminal"
           /\ \A q \in Procs : proc'[q].pc = "call" /\ proc[q].pc # "call"
                => /\ effect'[proc[q].epoch].state = "reserved"
                   /\ effect[proc[q].epoch].state \in {"none", "reserved"}
<1> DEFINE e == proc[p].epoch
<1>0. effect \in [Epochs -> EffectType] /\ proc \in [Procs -> ProcType] /\ e \in Epochs
  BY HasEpoch DEF IInv, TypeOK, Reserve, At
<1>1. CASE JournalKept /\ (Return(p) \/ Goto(p, "busy") \/ Launched(p, e))
  BY <1>1, ReturnBarred, GotoBarred, LaunchedBarred DEF JournalKept
<1>2. CASE /\ effect[e].state \in {"none", "reserved"}
           /\ effect' = [effect EXCEPT ![e].state = "reserved", ![e].live = TRUE,
                                       ![e].bridge = (p = Bridge)]
           /\ Goto(p, "call")
  <2>1. effect'[e].state = "reserved" /\ \A d \in Epochs \ {e} : effect'[d] = effect[d]
    BY <1>0, <1>2 DEF EffectType
  <2>2. \A q \in Procs \ {p} : proc'[q] = proc[q]
    BY <1>0, <1>2 DEF Goto
  <2>3. QED  BY <1>2, <2>1, <2>2
<1>3. QED  BY <1>1, <1>2 DEF Reserve

(* effects.py: a terminal journal row is a launch barrier. A request is    *)
(* only ever begun for an epoch reserved at that moment, and an epoch      *)
(* once over never opens again, whoever adopts, sweeps, crashes or         *)
(* answers late.                                                           *)
THEOREM Barrier == Spec => LaunchBarrier
<1>1. ASSUME IInv, [Next]_vars
      PROVE  /\ \A e \in Epochs :
                   effect[e].state = "terminal" => effect'[e].state = "terminal"
             /\ \A p \in Procs :
                   proc'[p].pc = "call" /\ proc[p].pc # "call"
                     => /\ effect'[proc[p].epoch].state = "reserved"
                        /\ effect[proc[p].epoch].state \in {"none", "reserved"}
  <2>1. CASE \E p \in Procs : Reserve(p)
    BY <1>1, <2>1, ReserveBarrier
  <2>2. CASE Barred
    BY <2>2 DEF Barred
  <2>3. CASE \E e \in Epochs : LeaseExpires(e) \/ NativeEnds(e)
    <3>1. PICK e \in Epochs : LeaseExpires(e) \/ NativeEnds(e)
      BY <2>3
    <3>2. effect \in [Epochs -> EffectType]
      BY <1>1 DEF IInv, TypeOK
    <3>3. Barred
      BY <3>1, <3>2 DEF LeaseExpires, NativeEnds, Barred, EffectType
    <3>4. QED  BY <3>3, <2>2
  <2>4. CASE UNCHANGED vars
    BY <2>4 DEF vars
  <2>5. QED
    <3>1. ASSUME NEW p \in Procs, Continue(p) \/ Sweep(p) \/ Faults(p), ~Reserve(p)
          PROVE  Barred
      BY <1>1, <3>1, LaunchingBarred, SettlingBarred, TickBarred, OthersBarred DEF Continue
    <3>2. ASSUME NEW p \in Commands, Given(p)  PROVE Barred
      BY <1>1, <3>2, OthersBarred DEF Procs
    <3>3. TickNext => Barred
      BY <1>1, TickBarred
    <3>4. QED  BY <1>1, <2>1, <2>2, <2>3, <2>4, <3>1, <3>2, <3>3 DEF Next
<1>2. QED  BY <1>1, Invariant, PTL DEF Spec, LaunchBarrier

-----------------------------------------------------------------------------

(* What TaskLifecycle sees of the row. *)
Image(r) == [ state |-> r.state, epoch |-> r.epoch, attempts |-> r.attempts,
              holder |-> r.holder, recovery |-> r.recovery, expired |-> r.expired ]

(* Two rows of the lifecycle with the same fields are the same row. *)
LEMMA SameImage ==
    ASSUME NEW a \in L!Row, a.state = row'.state, a.epoch = row'.epoch,
           a.attempts = row'.attempts, a.holder = row'.holder,
           a.recovery = row'.recovery, a.expired = row'.expired
    PROVE  Image(row') = a
  BY DEF L!Row, Image

(* It is a row of TaskLifecycle. *)
LEMMA ImageTyped ==
    ASSUME NEW r \in RowType
    PROVE  Image(r) \in L!Row
  BY LaunchAssumption DEF LaunchAssumption, RowType, L!Row, Image, Epochs

(* A write of the row is an EXCEPT of the lifecycle's one-row table. *)
LEMMA ImageWritten ==
    [t \in {"task"} |-> Image(row')] =
        [[t \in {"task"} |-> Image(row)] EXCEPT !["task"] = Image(row')]
  OBVIOUS

(* A row that is kept is a stutter. *)
LEMMA ImageKept ==
    UNCHANGED row => UNCHANGED L!vars
  BY DEF L!vars

(* activate() is Activate: the session is one of an epoch the row          *)
(* reached.                                                                *)
LEMMA MapActivate ==
    ASSUME IInv, row.state \in L!ActivatePredecessors, NEW h \in 1..row.epoch, NEW ws,
           row' = [L!Activated(row, h) EXCEPT !.ws = ws]
    PROVE  L!TaskNext("task")
<1>0. h \in 1..MaxEpoch /\ h \in 0..MaxEpoch
  BY RowIsTyped
<1>2. Image(row') = L!Activated(Image(row), h)
  <2>1. /\ row'.state = "active" /\ row'.holder = h
        /\ row'.epoch = row.epoch /\ row'.attempts = row.attempts
        /\ row'.recovery = row.recovery /\ row'.expired = row.expired
    BY RowIsTyped DEF L!Activated, RowType
  <2>2. PICK a \in L!Row : a = Image(row)
    BY RowIsTyped, ImageTyped
  <2>3. "active" \in L!RowStates
    BY DEF L!RowStates, L!LiveStates, L!TerminalStates, L!FinalStates
  <2>4. /\ a.state = row.state /\ a.epoch = row.epoch /\ a.attempts = row.attempts
        /\ a.holder = row.holder /\ a.recovery = row.recovery /\ a.expired = row.expired
    BY <2>2 DEF Image
  <2>5. PICK b \in L!Row : b = L!Activated(a, h)
    BY <1>0, <2>3, <2>4, RowIsTyped DEF L!Row, L!Activated
  <2>6. QED
    BY <2>1, <2>2, <2>4, <2>5, SameImage DEF L!Row, L!Activated
<1>3. L!Activate("task", h)
  BY <1>2, ImageWritten DEF L!Activate, Image
<1>4. QED  BY <1>0, <1>3 DEF L!TaskNext

(* The uncharged finishes are Complete, Cancel and Block. *)
LEMMA MapSettled ==
    ASSUME IInv, NEW s, row' = L!Settled(row, s),
           \/ s = "completed" /\ row.state \in L!CompletePredecessors
           \/ s = "cancelled" /\ row.state \in L!CancelPredecessors
           \/ s = "blocked" /\ row.state \in L!BlockPredecessors
    PROVE  L!TaskNext("task")
<1>1. Image(row') = L!Settled(Image(row), s)
  <2>1. /\ row'.state = s /\ row'.expired = FALSE
        /\ row'.epoch = row.epoch /\ row'.attempts = row.attempts
        /\ row'.holder = row.holder /\ row'.recovery = row.recovery
    BY RowIsTyped DEF L!Settled, RowType
  <2>2. PICK a \in L!Row : a = Image(row)
    BY RowIsTyped, ImageTyped
  <2>3. s \in L!RowStates
    BY DEF L!RowStates, L!LiveStates, L!TerminalStates, L!FinalStates
  <2>4. /\ a.state = row.state /\ a.epoch = row.epoch /\ a.attempts = row.attempts
        /\ a.holder = row.holder /\ a.recovery = row.recovery /\ a.expired = row.expired
    BY <2>2 DEF Image
  <2>5. PICK b \in L!Row : b = L!Settled(a, s)
    BY <2>3, <2>4, RowIsTyped DEF L!Row, L!Settled
  <2>6. QED
    BY <2>1, <2>2, <2>4, <2>5, SameImage DEF L!Row, L!Settled
<1>2. \/ s = "completed" /\ L!Complete("task")
      \/ s = "cancelled" /\ L!Cancel("task")
      \/ s = "blocked" /\ L!Block("task")
  <2>1. CASE s = "completed" /\ row.state \in L!CompletePredecessors
    BY <1>1, <2>1, ImageWritten DEF L!Complete, Image
  <2>2. CASE s = "cancelled" /\ row.state \in L!CancelPredecessors
    BY <1>1, <2>2, ImageWritten DEF L!Cancel, Image
  <2>3. CASE s = "blocked" /\ row.state \in L!BlockPredecessors
    BY <1>1, <2>3, ImageWritten DEF L!Block, Image
  <2>4. QED  BY <2>1, <2>2, <2>3
<1>3. QED  BY <1>2 DEF L!TaskNext

(* The charged ones are BlockOnFailure, Lose and Exhaust. *)
LEMMA MapCharged ==
    ASSUME IInv, L!BudgetLeft(row), NEW s, NEW x \in BOOLEAN,
           row' = L!ChargedFailure(row, s, x),
           \/ s = "blocked" /\ ~x /\ row.state \in L!BlockPredecessors
           \/ s = "lost" /\ row.state \in L!LosePredecessors
           \/ s = "exhausted" /\ ~x /\ row.state = "active" /\ L!LastFailure(row)
    PROVE  L!TaskNext("task")
<1>1. Image(row') = L!ChargedFailure(Image(row), s, x)
  <2>1. /\ row'.state = IF L!LastFailure(row) THEN "exhausted" ELSE s
        /\ row'.attempts = row.attempts + 1
        /\ row'.expired = (x /\ ~L!LastFailure(row))
        /\ row'.epoch = row.epoch /\ row'.holder = row.holder /\ row'.recovery = row.recovery
    BY RowIsTyped DEF L!ChargedFailure, RowType
  <2>2. PICK a \in L!Row : a = Image(row)
    BY RowIsTyped, ImageTyped
  <2>3. s \in L!RowStates /\ "exhausted" \in L!RowStates
    BY DEF L!RowStates, L!LiveStates, L!TerminalStates, L!FinalStates
  <2>4. /\ a.state = row.state /\ a.epoch = row.epoch /\ a.attempts = row.attempts
        /\ a.holder = row.holder /\ a.recovery = row.recovery /\ a.expired = row.expired
    BY <2>2 DEF Image
  <2>5. L!LastFailure(a) = L!LastFailure(row)
    BY <2>4 DEF L!LastFailure
  <2>6. PICK t \in L!RowStates : t = IF L!LastFailure(row) THEN "exhausted" ELSE s
    BY <2>3
  <2>7. PICK w \in BOOLEAN : w = (x /\ ~L!LastFailure(row))
    OBVIOUS
  <2>8. PICK b \in L!Row : b = [a EXCEPT !.state = t, !.attempts = a.attempts + 1,
                                         !.expired = w]
    <3>1. PICK n \in Nat : n = a.attempts + 1
      BY <2>4, RowIsTyped
    <3>2. [a EXCEPT !.state = t, !.attempts = n, !.expired = w] \in L!Row
      BY DEF L!Row
    <3>3. QED  BY <3>1, <3>2
  <2>9. /\ b.state = t /\ b.attempts = a.attempts + 1 /\ b.expired = w
        /\ b.epoch = a.epoch /\ b.holder = a.holder /\ b.recovery = a.recovery
    BY <2>8 DEF L!Row
  <2>10. Image(row') = b
    BY <2>1, <2>4, <2>6, <2>7, <2>9, SameImage
  <2>11. b = L!ChargedFailure(a, s, x)
    BY <2>5, <2>6, <2>7, <2>8 DEF L!ChargedFailure
  <2>12. QED  BY <2>2, <2>10, <2>11
<1>2. \/ s = "blocked" /\ L!BlockOnFailure("task")
      \/ s = "lost" /\ L!Lose("task", x)
      \/ s = "exhausted" /\ L!Exhaust("task")
  <2>1. CASE s = "blocked" /\ ~x /\ row.state \in L!BlockPredecessors
    <3>1. Image(row') = L!ChargedFailure(Image(row), "blocked", FALSE)
      BY <1>1, <2>1
    <3>2. QED  BY <2>1, <3>1, ImageWritten DEF L!BlockOnFailure, Image, L!BudgetLeft
  <2>2. CASE s = "lost" /\ row.state \in L!LosePredecessors
    <3>1. Image(row') = L!ChargedFailure(Image(row), "lost", x)
      BY <1>1, <2>2
    <3>2. QED  BY <2>2, <3>1, ImageWritten DEF L!Lose, Image, L!BudgetLeft
  <2>3. CASE s = "exhausted" /\ ~x /\ row.state = "active" /\ L!LastFailure(row)
    <3>1. Image(row') = L!ChargedFailure(Image(row), "exhausted", FALSE)
      BY <1>1, <2>3
    <3>2. QED  BY <2>3, <3>1, ImageWritten DEF L!Exhaust, Image, L!BudgetLeft, L!LastFailure
  <2>4. QED  BY <2>1, <2>2, <2>3
<1>3. QED  BY <1>2 DEF L!TaskNext

(* A new epoch is AdvancePastOutcome, Replace or ResumeReplacement, by     *)
(* who opens it and from what.                                             *)
LEMMA MapNextEpoch ==
    ASSUME IInv, NEW c \in BOOLEAN, NEW v \in BOOLEAN, row' = L!NextEpoch(row, c, v),
           L!CanOpenEpoch(row),
           \/ /\ v /\ row.state \in {"active", "blocked"} /\ L!BudgetLeft(row)
              /\ row.state = "active" => ~L!LastFailure(row)
              /\ c = (row.state = "active")
           \/ /\ ~v /\ ~c /\ row.state \in L!ReplacePredecessors
              /\ row.holder # None /\ L!BudgetLeft(row)
           \/ /\ ~v /\ c /\ row.state = "replacing" /\ row.recovery
              /\ row.holder # None
    PROVE  L!TaskNext("task")
<1>1. Image(row') = L!NextEpoch(Image(row), c, v)
  <2>1. /\ row'.state = "replacing" /\ row'.epoch = row.epoch + 1
        /\ row'.attempts = IF c THEN row.attempts + 1 ELSE row.attempts
        /\ row'.recovery = v
        /\ row'.holder = row.holder /\ row'.expired = row.expired
    BY RowIsTyped DEF L!NextEpoch, RowType
  <2>2. PICK a \in L!Row : a = Image(row)
    BY RowIsTyped, ImageTyped
  <2>3. "replacing" \in L!RowStates
    BY DEF L!RowStates, L!LiveStates, L!TerminalStates, L!FinalStates
  <2>4. /\ a.state = row.state /\ a.epoch = row.epoch /\ a.attempts = row.attempts
        /\ a.holder = row.holder /\ a.recovery = row.recovery /\ a.expired = row.expired
    BY <2>2 DEF Image
  <2>5. PICK n \in Nat : n = IF c THEN a.attempts + 1 ELSE a.attempts
    BY <2>4, RowIsTyped
  <2>6. a.epoch + 1 \in 1..MaxEpoch
    BY <2>4, RowIsTyped DEF L!CanOpenEpoch
  <2>7. PICK b \in L!Row : b = [a EXCEPT !.state = "replacing", !.epoch = a.epoch + 1,
                                         !.attempts = n, !.recovery = v]
    BY <2>3, <2>6 DEF L!Row
  <2>8. /\ b.state = "replacing" /\ b.epoch = a.epoch + 1 /\ b.attempts = n
        /\ b.recovery = v /\ b.holder = a.holder /\ b.expired = a.expired
    BY <2>7 DEF L!Row
  <2>9. Image(row') = b
    BY <2>1, <2>4, <2>5, <2>8, SameImage
  <2>10. b = L!NextEpoch(a, c, v)
    BY <2>5, <2>7 DEF L!NextEpoch
  <2>11. QED  BY <2>2, <2>9, <2>10
<1>2. L!AdvancePastOutcome("task") \/ L!Replace("task") \/ L!ResumeReplacement("task")
  <2>1. CASE v
    <3>1. /\ Image(row') = L!NextEpoch(Image(row), row.state = "active", TRUE)
          /\ row.state \in {"active", "blocked"} /\ L!BudgetLeft(row)
          /\ row.state = "active" => ~L!LastFailure(row)
      BY <1>1, <2>1
    <3>2. L!AdvancePastOutcome("task")
      BY <3>1, ImageWritten
      DEF L!AdvancePastOutcome, Image, L!BudgetLeft, L!LastFailure, L!CanOpenEpoch
    <3>3. QED  BY <3>2
  <2>2. CASE ~v /\ ~c
    <3>1. Image(row') = L!NextEpoch(Image(row), FALSE, FALSE)
      BY <1>1, <2>2
    <3>2. row.state \in L!ReplacePredecessors /\ row.holder # 0 /\ L!BudgetLeft(row)
      BY <2>2 DEF None
    <3>3. L!Replace("task")
      BY <3>1, <3>2, ImageWritten DEF L!Replace, Image, L!BudgetLeft, L!CanOpenEpoch, L!NoHolder
    <3>4. QED  BY <3>3
  <2>3. CASE ~v /\ c
    <3>1. Image(row') = L!NextEpoch(Image(row), TRUE, FALSE)
      BY <1>1, <2>3
    <3>2. row.state = "replacing" /\ row.recovery /\ row.holder # 0
      BY <2>3 DEF None
    <3>3. L!ResumeReplacement("task")
      BY <3>1, <3>2, ImageWritten DEF L!ResumeReplacement, Image, L!CanOpenEpoch, L!NoHolder
    <3>4. QED  BY <3>3
  <2>4. QED  BY <2>1, <2>2, <2>3
<1>3. QED  BY <1>2 DEF L!TaskNext

(* The inserted row is FirstEpoch, since one never inserted is uncharged. *)
LEMMA MapReserved ==
    ASSUME IInv, row.state = "absent", row' = [row EXCEPT !.state = "reserved"]
    PROVE  L!TaskNext("task")
<1>1. RowInv /\ row \in RowType
  BY IInvParts, RowIsTyped
<1>2. Image(row') = L!FirstEpoch("reserved")
  BY <1>1 DEF Image, RowInv, RowType, L!FirstEpoch, None, L!NoHolder
<1>3. L!Reserve("task")
  BY <1>2, ImageWritten DEF L!Reserve, Image
<1>4. QED  BY <1>3 DEF L!TaskNext

(* _reissue_expired is ReissueExpired. *)
LEMMA MapReissued ==
    ASSUME IInv, row.state = "lost", row.expired, L!BudgetLeft(row), L!CanOpenEpoch(row),
           row' = [ state    |-> "reserved", epoch |-> row.epoch + 1,
                    attempts |-> row.attempts, holder |-> None,
                    recovery |-> FALSE, expired |-> FALSE, ws |-> None ]
    PROVE  L!TaskNext("task")
<1>1. Image(row') = L!ReservedAnew(Image(row))
  BY DEF Image, L!ReservedAnew, None, L!NoHolder
<1>2. L!ReissueExpired("task")
  BY <1>1, ImageWritten DEF L!ReissueExpired, Image, L!BudgetLeft, L!CanOpenEpoch
<1>3. QED  BY <1>2 DEF L!TaskNext

(* The step of the lifecycle, or none. *)
Mapped == L!TaskNext("task") \/ UNCHANGED row

(* _record_failure maps. *)
LEMMA FailMapped ==
    ASSUME IInv, NEW s \in {"blocked", "lost"}, NEW x \in BOOLEAN, s = "blocked" => ~x,
           Fail(s, x)
    PROVE  Mapped
  BY MapCharged
  DEF Fail, Write, RowKept, Mapped, L!BlockPredecessors, L!LosePredecessors

(* So does activate(), by what Holding says of its session ... *)
LEMMA ActivateMapped ==
    ASSUME IInv, NEW p \in Procs, Activate(p)
    PROVE  Mapped
<1>1. proc[p].sid \in 1..row.epoch
  BY IInvParts DEF Activate, At, ProcInv, Holding, Known
<1>2. QED  BY <1>1, MapActivate DEF Activate, Write, RowKept, Mapped

(* ... a finish ... *)
LEMMA FinishMapped ==
    ASSUME IInv, NEW p \in Procs, FinishDecide(p)
    PROVE  Mapped
<1>1. CASE proc[p].op = "cancel"
  BY <1>1, MapSettled DEF FinishDecide, Write, RowKept, Mapped
<1>2. CASE proc[p].op # "cancel"
  BY <1>2, MapSettled DEF FinishDecide, Write, RowKept, Mapped
<1>3. QED  BY <1>1, <1>2

(* ... a replacement, by the holder SnapshotInv remembers ... *)
LEMMA ReplaceMapped ==
    ASSUME IInv, NEW p \in Procs, ReplaceCommit(p)
    PROVE  Mapped
<1>1. CASE Replaceable /\ p \in fresh /\ row' = Reopened
  <2>1. row.holder # None
    BY <1>1, IInvParts
    DEF IInv, SnapshotInv, ProcInv, Succeeding, ReplaceCommit, At
  <2>2. CASE row' = row
    BY <2>2 DEF Mapped
  <2>3. CASE row.state = "replacing" /\ row.recovery
    BY <1>1, <2>1, <2>3, MapNextEpoch DEF Replaceable, Reopened, Mapped, L!ReplacePredecessors
  <2>4. CASE row.state # "replacing"
    BY <1>1, <2>1, <2>4, MapNextEpoch DEF Replaceable, Reopened, Mapped
  <2>5. QED  BY <1>1, <2>2, <2>3, <2>4 DEF Reopened
<1>2. QED  BY <1>1 DEF ReplaceCommit, Moved, Write, RowKept, Mapped

(* ... and a reroute, by the budget it remembers. *)
LEMMA RerouteMapped ==
    ASSUME IInv, Reroute
    PROVE  Mapped
<1>1. CASE Bridge \in fresh /\ row' = L!NextEpoch(row, row.state = "active", TRUE)
  <2>1. /\ row.state \in {"active", "blocked"}
        /\ L!BudgetLeft(row) /\ L!CanOpenEpoch(row)
        /\ row.state = "active" => ~L!LastFailure(row)
    BY <1>1 DEF IInv, SnapshotInv, Reroute, At
  <2>2. QED  BY <1>1, <2>1, MapNextEpoch DEF Mapped
<1>2. QED  BY <1>1 DEF Reroute, Moved, Write, RowKept, Mapped

(* Whatever else an operation does leaves the row alone. *)
LEMMA ContinueMapped ==
    ASSUME IInv, NEW p \in Procs, Continue(p)
    PROVE  Mapped
<1>1. CASE Launching(p)
  BY <1>1, FailMapped, ActivateMapped
  DEF Launching, Reserve, BusyRetry, BusyGiveUp, CallAccepted, CallRefused, ReplySuperseded,
      ReplyLaunched, ReplyRejected, ReplyUnknown, ReplyRefused, ReplyLost, BlockRejected,
      LoseNative, Retire, Transfer, Link, Forward, OnlyProc, RowKept, Mapped
<1>2. CASE Settling(p)
  BY <1>2, FailMapped, FinishMapped
  DEF Settling, CloseEffect, RetireFinal, Stop, AckStop, CleanupEnds, Lookup,
      ExpiredSuperseded, ExpiredAdopted, ExpiredAbsent, LoseExpired, OnlyProc, RowKept, Mapped
<1>3. CASE Starting(p)
  BY <1>3, ReplaceMapped
  DEF Starting, StartRead, StartDispatch, StartRefused, OnlyProc, RowKept, RowRead, Mapped
<1>4. CASE p = Bridge /\ Reconciling
  BY <1>4, FailMapped, RerouteMapped
  DEF Reconciling, AutoDispatch, ObserveRead, ObserveRefusal, ObserveFailure, ObserveNothing,
      OnlyProc, RowKept, Mapped
<1>5. QED  BY <1>1, <1>2, <1>3, <1>4 DEF Continue

(* The bridge's stages map. *)
LEMMA TickMapped ==
    ASSUME IInv, TickNext
    PROVE  Mapped
<1>1. ResumeEnded \/ AdvanceExhausts \/ AdvanceBlocks => Mapped
  BY MapCharged
  DEF ResumeEnded, AdvanceExhausts, AdvanceBlocks, Write, L!BlockPredecessors, Mapped
<1>2. ResumeUnfilled \/ AdvanceRoutes \/ Observe => Mapped
  BY DEF ResumeUnfilled, AdvanceRoutes, Observe, OnlyProc, RowKept, RowRead, Mapped
<1>3. QED  BY <1>1, <1>2 DEF TickNext, Resume, Advance

(* The commands' first steps map. *)
LEMMA GivenMapped ==
    ASSUME IInv, NEW p \in Procs, Given(p)
    PROVE  Mapped
<1>1. StartReserve(p) => Mapped
  BY MapReserved DEF StartReserve, Write, Mapped
<1>2. StartReissue(p) => Mapped
  BY MapReissued DEF StartReissue, Write, Mapped
<1>3. Block(p) => Mapped
  BY MapSettled DEF Block, Write, Mapped
<1>4. \/ StartAgain(p) \/ ReplaceRead(p)
      \/ \E op \in {"complete", "cancel"} : FinishRead(p, op)
      => Mapped
  BY DEF StartAgain, ReplaceRead, FinishRead, OnlyProc, RowKept, RowRead, Mapped
<1>5. QED  BY <1>1, <1>2, <1>3, <1>4 DEF Given

(* Every step is a step of the lifecycle, or leaves its row alone. *)
LEMMA NextMapped == IInv /\ [Next]_vars => [L!Next]_(L!vars)
<1> SUFFICES ASSUME IInv, [Next]_vars  PROVE Mapped
  BY ImageKept DEF Mapped, L!Next
<1>1. ASSUME NEW p \in Procs, Sweep(p) \/ Faults(p)  PROVE Mapped
  BY <1>1
  DEF Sweep, SweepExpired, SweepTerminal, Cleanup, Faults, Crash, CallTimesOut, StopFails,
      LookupFails, OnlyProc, RowKept, RowRead, Mapped
<1>2. ASSUME NEW e \in Epochs, LeaseExpires(e) \/ NativeEnds(e)  PROVE Mapped
  BY <1>2 DEF LeaseExpires, NativeEnds, Mapped
<1>3. UNCHANGED vars => Mapped
  BY DEF vars, Mapped
<1>4. QED
  BY <1>1, <1>2, <1>3, ContinueMapped, TickMapped, GivenMapped DEF Next, Procs

(* However the operations of several processes interleave, die and are     *)
(* retried, the row only makes the transitions of TaskLifecycle.           *)
THEOREM Refinement == Spec => ImplementsLifecycle
<1>1. Init => L!Init
  BY DEF Init, L!Init, L!FirstEpoch, None, L!NoHolder
<1>2. QED  BY <1>1, NextMapped, Invariant, PTL DEF Spec, ImplementsLifecycle, L!Spec

-----------------------------------------------------------------------------
(* What is proved of TaskLifecycle holds of Launch. *)

(* The lifecycle's table of rows, which holds the one row of this task. *)
Life == [t \in {"task"} |-> Image(row)]

LP == INSTANCE TaskLifecycleProofs WITH Tasks <- {"task"}, row <- Life

(* The lifecycle's constants are this module's. *)
LEMMA LifeAssumption == LP!TaskLifecycleAssumption
  BY LaunchAssumption DEF LaunchAssumption, LP!TaskLifecycleAssumption

(* Launch makes the steps of the lifecycle the other module's theorems are  *)
(* about; the two instances differ in name only.                            *)
LEMMA LaunchIsLife == Spec => LP!Spec
<1>1. L!Init => LP!Init
  BY DEF Life, Image, L!Init, LP!Init, L!FirstEpoch, LP!FirstEpoch, L!NoHolder, LP!NoHolder
<1>2. [L!Next]_(L!vars) => [LP!Next]_(LP!vars)
  BY
  DEF Life, Image, L!Next, LP!Next, L!TaskNext, LP!TaskNext, L!Reserve, LP!Reserve,
      L!Activate, LP!Activate, L!Complete, LP!Complete, L!Cancel, LP!Cancel,
      L!Block, LP!Block, L!BlockOnFailure, LP!BlockOnFailure, L!Lose, LP!Lose,
      L!Exhaust, LP!Exhaust, L!AdvancePastOutcome, LP!AdvancePastOutcome, L!Replace,
      LP!Replace, L!ResumeReplacement, LP!ResumeReplacement, L!ReissueExpired,
      LP!ReissueExpired, L!FirstEpoch, LP!FirstEpoch, L!ActivatePredecessors,
      LP!ActivatePredecessors, L!CompletePredecessors, LP!CompletePredecessors,
      L!CancelPredecessors, LP!CancelPredecessors, L!BlockPredecessors,
      LP!BlockPredecessors, L!LosePredecessors, LP!LosePredecessors,
      L!ReplacePredecessors, LP!ReplacePredecessors, L!LiveStates, LP!LiveStates,
      L!Activated, LP!Activated, L!Settled, LP!Settled, L!ChargedFailure,
      LP!ChargedFailure, L!NextEpoch, LP!NextEpoch, L!ReservedAnew, LP!ReservedAnew,
      L!LastFailure, LP!LastFailure, L!BudgetLeft, LP!BudgetLeft, L!CanOpenEpoch,
      LP!CanOpenEpoch, L!NoHolder, LP!NoHolder, L!vars, LP!vars
<1>3. QED
  BY <1>1, <1>2, Refinement, PTL DEF ImplementsLifecycle, LP!Spec, L!Spec

(* failure-accounting.md: whichever of several processes abandons an epoch, *)
(* and however late, an epoch is charged once at most.                      *)
THEOREM ChargedOnce == Spec => []L!OneChargePerEpoch
<1>1. LP!Spec => []LP!OneChargePerEpoch
  BY LP!ChargedOncePerEpoch, LifeAssumption
<1>2. LP!OneChargePerEpoch => L!OneChargePerEpoch
  BY DEF Life, Image, LP!OneChargePerEpoch, L!OneChargePerEpoch
<1>3. QED  BY <1>1, <1>2, LaunchIsLife, PTL

(* The breaker bounds the charges of all processes together, though some of *)
(* them charge after a look at the budget that is no longer current.        *)
THEOREM BudgetBounded == Spec => []L!BudgetNeverOverdrawn
<1>1. LP!Spec => []LP!BudgetNeverOverdrawn
  BY LP!BudgetBounded, LifeAssumption
<1>2. LP!BudgetNeverOverdrawn => L!BudgetNeverOverdrawn
  BY DEF Life, Image, LP!BudgetNeverOverdrawn, L!BudgetNeverOverdrawn
<1>3. QED  BY <1>1, <1>2, LaunchIsLife, PTL

(* kernel-contract.md: the first legal terminal transition wins over every  *)
(* late launcher, sweep and reroute, and a lost task comes back only in a   *)
(* later epoch.                                                             *)
THEOREM TerminalStays == Spec => L!TerminalIsFinal
<1> DEFINE Row1 == [t \in {"task"} |->
                      [ state    |-> row.state,
                        epoch    |-> row.epoch,
                        attempts |-> row.attempts,
                        holder   |-> row.holder,
                        recovery |-> row.recovery,
                        expired  |-> row.expired ]]
           Final1(F) == \A t \in {"task"} :
                          /\ Row1[t].state \in F => Row1'[t] = Row1[t]
                          /\ Row1[t].state = "lost" /\ Row1'[t].state # "lost"
                               => Row1'[t].epoch > Row1[t].epoch
<1>1. LP!Spec => LP!TerminalIsFinal
  BY LP!TerminalStays, LifeAssumption
<1>2. LP!TerminalIsFinal <=> [][Final1(LP!FinalStates)]_<<Row1>>
  BY PTL DEF LP!TerminalIsFinal, LP!vars, Life, Image
<1>3. L!TerminalIsFinal <=> [][Final1(L!FinalStates)]_<<Row1>>
  BY PTL DEF L!TerminalIsFinal, L!vars
<1>4. LP!FinalStates = L!FinalStates
  BY DEF LP!FinalStates, L!FinalStates
<1>5. [Final1(LP!FinalStates)]_<<Row1>> => [Final1(L!FinalStates)]_<<Row1>>
  BY <1>4
<1>6. QED
  BY <1>1, <1>2, <1>3, <1>5, LaunchIsLife, PTL
-----------------------------------------------------------------------------
(* A reservation can be started.  The row leaves "reserved" with its first *)
(* write, so whoever read it there and is past that read holds a current   *)
(* snapshot, and none of the paths for a task that moved on is open to it. *)
(* So the epoch's journal row ends only where the ender goes on to end the *)
(* task.  It does, as long as no process dies on the way.                  *)

(* Where a process ends the task, having ended its epoch. *)
Ending == {"rejected", "nativelost", "expired"}

(* p is about to end the task for its current epoch. *)
Deciding(p) == proc[p].epoch = row.epoch /\ proc[p].pc \in Ending

(* Where a start, and an expiry sweep, of a reserved task may be. *)
StartPoints == {"startIO", "reserve", "busy", "call", "reply", "rejected", "nativelost",
                "activate"}
SweepPoints == {"lookup", "looked", "expired", "activate"}

(* What a process can be at, of the epoch of a task that is reserved. *)
AtStart(p) ==
    \/ proc[p].epoch # row.epoch
    \/ proc[p].pc \in {"idle", "start"}
    \/ proc[p].op = "sweep" /\ proc[p].pc \in {"stop", "stopped"}
    \/ p \in fresh /\ proc[p].op = "start" /\ proc[p].pc \in StartPoints
    \/ p \in fresh /\ proc[p].op = "sweep" /\ proc[p].pc \in SweepPoints

(* Before the task is reserved nothing happens to it ... *)
AbsentInv ==
    row.state = "absent" =>
        /\ \A p \in Procs : At(p, "idle")
        /\ \A e \in Epochs : effect[e].state = "none"

(* ... and while it is, an epoch that is over has somebody to say so. *)
ReservedInv ==
    row.state = "reserved" =>
        /\ row.holder = None
        /\ L!BudgetLeft(row)
        /\ \A p \in Procs : AtStart(p)
        /\ spent.crashes = 0 /\ effect[row.epoch].state = "terminal"
             => \E p \in Procs : Deciding(p)

StartInv == AbsentInv /\ ReservedInv

(* A write that leaves the reservation behind keeps it. *)
RowLeft == row'.state \notin {"absent", "reserved"}

LEMMA LeftKeeps == RowLeft => StartInv'
  BY DEF RowLeft, StartInv, AbsentInv, ReservedInv

(* No other process moves, and its snapshot stays as current as it was. *)
Others(p) == \A q \in Procs \ {p} : proc'[q] = proc[q] /\ (q \in fresh => q \in fresh')

(* What a step of p does to a reserved task it does not write. *)
Fine(p) ==
    /\ Others(p)
    /\ AtStart(p)'
    /\ effect'[row.epoch].state = "terminal"
         => effect[row.epoch].state = "terminal" \/ Deciding(p)'
    /\ spent'.crashes = 0 => spent.crashes = 0 /\ ~Deciding(p)

LEMMA FineKeeps ==
    ASSUME StartInv, row.state = "reserved", row' = row, NEW p \in Procs, Fine(p)
    PROVE  StartInv'
<1>1. ASSUME NEW q \in Procs  PROVE AtStart(q)'
  <2>1. CASE q = p
    BY <2>1 DEF Fine
  <2>2. CASE q # p
    <3>1. proc'[q] = proc[q] /\ (q \in fresh => q \in fresh') /\ AtStart(q)
      BY <2>2 DEF Fine, Others, StartInv, ReservedInv
    <3>2. QED  BY ONLY <3>1, row' = row DEF AtStart
  <2>3. QED  BY <2>1, <2>2
<1>2. ASSUME spent'.crashes = 0, effect'[row.epoch].state = "terminal"
      PROVE  \E q \in Procs : Deciding(q)'
  <2>1. CASE Deciding(p)'
    BY <2>1
  <2>2. CASE effect[row.epoch].state = "terminal"
    <3>1. PICK q \in Procs : Deciding(q)
      BY <1>2, <2>2 DEF Fine, StartInv, ReservedInv
    <3>2. q # p /\ proc'[q] = proc[q]
      BY <1>2, <3>1 DEF Fine, Others
    <3>3. Deciding(q)'
      BY <3>1, <3>2 DEF Deciding
    <3>4. QED  BY <3>3
  <2>3. QED  BY <1>2, <2>1, <2>2 DEF Fine
<1>3. row.holder = None /\ L!BudgetLeft(row)
  BY DEF StartInv, ReservedInv
<1>4. L!BudgetLeft(row)'
  BY <1>3 DEF L!BudgetLeft
<1>5. QED  BY <1>1, <1>2, <1>3, <1>4 DEF StartInv, AbsentInv, ReservedInv

(* What the steps of a process leave in its record. *)
LEMMA Moves ==
    ASSUME IInv, NEW p \in Procs
    PROVE  /\ Return(p) => proc'[p] = Idle
           /\ \A pc : Goto(p, pc) => /\ proc'[p].pc = pc /\ proc'[p].op = proc[p].op
                                     /\ proc'[p].epoch = proc[p].epoch
           /\ \A op, r, pc : Snapshot(p, op, r, pc) =>
                /\ proc'[p].pc = pc /\ proc'[p].op = op /\ proc'[p].epoch = r.epoch
           /\ \A e : Launched(p, e) =>
                /\ proc'[p].pc \in {"activate", "link"}
                /\ proc[p].op = "start" => proc'[p].pc = "activate"
                /\ proc'[p].op = proc[p].op /\ proc'[p].epoch = proc[p].epoch
<1>1. proc \in [Procs -> ProcType] /\ proc[p] \in ProcType
  BY DEF IInv, TypeOK
<1>2. Return(p) => proc'[p] = Idle
  BY <1>1 DEF Return
<1>3. ASSUME NEW pc, Goto(p, pc)
      PROVE  proc'[p].pc = pc /\ proc'[p].op = proc[p].op /\ proc'[p].epoch = proc[p].epoch
  BY <1>1, <1>3 DEF Goto, ProcType
<1>4. ASSUME NEW op, NEW r, NEW pc, Snapshot(p, op, r, pc)
      PROVE  proc'[p].pc = pc /\ proc'[p].op = op /\ proc'[p].epoch = r.epoch
  BY <1>1, <1>4 DEF Snapshot, Idle
<1>5. ASSUME NEW e, Launched(p, e)
      PROVE  /\ proc'[p].pc \in {"activate", "link"}
             /\ proc[p].op = "start" => proc'[p].pc = "activate"
             /\ proc'[p].op = proc[p].op /\ proc'[p].epoch = proc[p].epoch
  BY <1>1, <1>5 DEF Launched, ProcType
<1>6. QED  BY <1>2, <1>3, <1>4, <1>5

(* Whatever p does, it moves no other process. *)
LEMMA OthersStay ==
    ASSUME IInv, NEW p \in Procs, RowKept \/ RowRead(p),
           \A q \in Procs \ {p} : proc'[q] = proc[q]
    PROVE  Others(p)
<1>1. ASSUME NEW q \in fresh \ {p}  PROVE q \in fresh'
  <2>1. q \in Procs /\ proc[q].pc # "idle" /\ proc'[q] = proc[q]
    BY <1>1 DEF IInv, TypeOK, At
  <2>2. QED  BY <1>1, <2>1 DEF RowKept, RowRead, Running
<1>2. QED  BY <1>1 DEF Others

LEMMA OthersKept ==
    ASSUME IInv, NEW p \in Procs, RowKept \/ RowRead(p),
           \/ Return(p)
           \/ \E pc : Goto(p, pc)
           \/ \E op, r, pc : Snapshot(p, op, r, pc)
           \/ \E e : Launched(p, e)
    PROVE  Others(p)
<1>1. \A q \in Procs \ {p} : proc'[q] = proc[q]
  BY DEF IInv, TypeOK, Return, Goto, Snapshot, Launched
<1>2. QED  BY <1>1, OthersStay

(* The epoch of the task is a real one. *)
LEMMA RowEpoch == IInv => row.epoch \in Epochs /\ row.epoch # 0 /\ row.epoch \in Nat
  BY LaunchAssumption DEF LaunchAssumption, IInv, TypeOK, RowType, Epochs

(* A process with a current snapshot keeps it, a process that reads has one. *)
LEMMA StaysFresh ==
    ASSUME NEW p \in Procs, proc'[p].pc # "idle"
    PROVE  /\ RowKept /\ p \in fresh => p \in fresh'
           /\ RowRead(p) => p \in fresh'
  BY DEF RowKept, RowRead, Running

(* p returns, and ends nothing. *)
LEMMA FineReturn ==
    ASSUME IInv, NEW p \in Procs, Return(p), RowKept, NotCommand, ~Deciding(p),
           effect'[row.epoch].state = "terminal" => effect[row.epoch].state = "terminal"
    PROVE  Fine(p)
<1>1. proc'[p] = Idle /\ Others(p)
  BY Moves, OthersKept
<1>2. proc'[p].epoch # row'.epoch
  BY <1>1, RowEpoch DEF Idle, RowKept
<1>3. QED  BY <1>1, <1>2 DEF Fine, AtStart, NotCommand

(* What a step of a launch or a cleanup is allowed to touch: the epoch of  *)
(* the process that takes it.                                              *)
OwnStep(p) ==
    /\ RowKept /\ NotCommand
    /\ \A q \in Procs \ {p} : proc'[q] = proc[q]
    /\ proc'[p].epoch \in {proc[p].epoch, 0}
    /\ \A e \in Epochs \ {proc[p].epoch} : effect'[e].state = effect[e].state

(* It does not touch a later reservation. *)
LEMMA OwnIsFine ==
    ASSUME IInv, NEW p \in Procs, OwnStep(p), proc[p].epoch # row.epoch
    PROVE  Fine(p)
<1>1. Others(p)
  BY OthersStay DEF OwnStep
<1>2. proc'[p].epoch # row'.epoch /\ ~Deciding(p)
  BY RowEpoch DEF OwnStep, RowKept, Deciding
<1>3. effect'[row.epoch].state = effect[row.epoch].state
  BY RowEpoch DEF OwnStep
<1>4. QED  BY <1>1, <1>2, <1>3 DEF Fine, AtStart, OwnStep, NotCommand

(* A failure that is recorded leaves the reservation behind; one of a      *)
(* reserved task is recorded.                                              *)
LEMMA FailLeaves ==
    ASSUME NEW state \in {"blocked", "lost"}, NEW expired, IInv, Fail(state, expired)
    PROVE  /\ RowKept \/ RowLeft
           /\ row.state = "reserved" /\ L!BudgetLeft(row) => RowLeft
<1>1. row \in RowType
  BY DEF IInv, TypeOK
<1>2. L!ChargedFailure(row, state, expired).state \in {"exhausted", "blocked", "lost"}
  BY <1>1 DEF L!ChargedFailure, RowType
<1>3. QED  BY <1>2 DEF Fail, Write, RowLeft, L!BlockPredecessors

(* An activation that is recorded does so too. *)
LEMMA ActivateLeaves ==
    ASSUME IInv, NEW p \in Procs, Activate(p)
    PROVE  /\ RowKept \/ RowLeft
           /\ row.state = "reserved" => RowLeft
<1>1. row \in RowType
  BY DEF IInv, TypeOK
<1>2. [L!Activated(row, proc[p].sid) EXCEPT !.ws = proc[p].ws].state = "active"
  BY <1>1 DEF L!Activated, RowType
<1>3. QED  BY <1>2 DEF Activate, Write, RowLeft, L!ActivatePredecessors

(* A step that returns and writes at most its own epoch's journal row. *)
LEMMA OwnReturn ==
    ASSUME IInv, NEW p \in Procs, Return(p), RowKept, NotCommand,
           \A e \in Epochs \ {proc[p].epoch} : effect'[e].state = effect[e].state
    PROVE  OwnStep(p)
<1>1. proc'[p].epoch = 0
  BY Moves DEF Idle
<1>2. \A q \in Procs \ {p} : proc'[q] = proc[q]
  BY DEF IInv, TypeOK, Return
<1>3. QED  BY <1>1, <1>2 DEF OwnStep

LEMMA OwnGoto ==
    ASSUME IInv, NEW p \in Procs, NEW pc, Goto(p, pc), RowKept, NotCommand,
           \A e \in Epochs \ {proc[p].epoch} : effect'[e].state = effect[e].state
    PROVE  OwnStep(p)
<1>1. proc'[p].epoch = proc[p].epoch
  BY Moves
<1>2. \A q \in Procs \ {p} : proc'[q] = proc[q]
  BY DEF IInv, TypeOK, Goto
<1>3. QED  BY <1>1, <1>2 DEF OwnStep

LEMMA OwnLaunched ==
    ASSUME IInv, NEW p \in Procs, NEW s, Launched(p, s), RowKept, NotCommand,
           \A e \in Epochs \ {proc[p].epoch} : effect'[e].state = effect[e].state
    PROVE  OwnStep(p)
<1>1. proc'[p].epoch = proc[p].epoch
  BY Moves
<1>2. \A q \in Procs \ {p} : proc'[q] = proc[q]
  BY DEF IInv, TypeOK, Launched
<1>3. QED  BY <1>1, <1>2 DEF OwnStep

(* No step of a launch touches another epoch. *)
LEMMA LaunchingOwn ==
    ASSUME IInv, NEW p \in Procs, Launching(p)  PROVE OwnStep(p) \/ RowLeft
<1> DEFINE Apart == \A e \in Epochs \ {proc[p].epoch} : effect'[e].state = effect[e].state
<1>0. effect \in [Epochs -> EffectType] /\ proc \in [Procs -> ProcType]
  BY DEF IInv, TypeOK
<1>1. Reserve(p) => OwnStep(p)
  <2>1. SUFFICES ASSUME Reserve(p)  PROVE OwnStep(p)
    OBVIOUS
  <2>2. RowKept /\ NotCommand /\ Apart
    BY <1>0, <2>1 DEF Reserve, JournalKept
  <2>3. Return(p) \/ Launched(p, proc[p].epoch) \/ Goto(p, "busy") \/ Goto(p, "call")
    BY <2>1 DEF Reserve
  <2>4. QED  BY <2>2, <2>3, OwnReturn, OwnGoto, OwnLaunched
<1>2. BusyRetry(p) \/ Retire(p) \/ Forward(p) => OwnStep(p)
  BY OwnGoto DEF BusyRetry, Retire, Forward, OnlyProc, JournalKept
<1>3. BusyGiveUp(p) \/ ReplyRefused(p) => OwnStep(p)
  BY OwnReturn DEF BusyGiveUp, ReplyRefused, OnlyProc, JournalKept
<1>4. CallAccepted(p) \/ CallRefused(p) => OwnStep(p)
  <2>1. SUFFICES ASSUME CallAccepted(p) \/ CallRefused(p)  PROVE OwnStep(p)
    OBVIOUS
  <2>2. PICK reply : proc' = [proc EXCEPT ![p].pc = "reply", ![p].reply = reply]
    BY <2>1 DEF CallAccepted, CallRefused
  <2>3. proc'[p].epoch = proc[p].epoch /\ \A q \in Procs \ {p} : proc'[q] = proc[q]
    BY <1>0, <2>2 DEF ProcType
  <2>4. RowKept /\ NotCommand /\ UNCHANGED effect
    BY <2>1 DEF CallAccepted, CallRefused, OnlyProc, JournalKept
  <2>5. QED  BY <2>3, <2>4 DEF OwnStep
<1>5. ReplySuperseded(p) => OwnStep(p)
  <2>1. SUFFICES ASSUME ReplySuperseded(p)  PROVE OwnStep(p)
    OBVIOUS
  <2>2. RowKept /\ NotCommand /\ Apart
    BY <1>0, <2>1 DEF ReplySuperseded
  <2>3. proc'[p].epoch = proc[p].epoch /\ \A q \in Procs \ {p} : proc'[q] = proc[q]
    BY <1>0, <2>1 DEF ReplySuperseded, ProcType
  <2>4. QED  BY <2>2, <2>3 DEF OwnStep
<1>6. ReplyLaunched(p) => OwnStep(p)
  <2>1. SUFFICES ASSUME ReplyLaunched(p)  PROVE OwnStep(p)
    OBVIOUS
  <2>2. RowKept /\ NotCommand /\ Apart
    BY <1>0, <2>1 DEF ReplyLaunched, JournalKept
  <2>3. Return(p) \/ Launched(p, proc[p].epoch)
    BY <2>1 DEF ReplyLaunched
  <2>4. QED  BY <2>2, <2>3, OwnReturn, OwnLaunched
<1>7. ReplyRejected(p) \/ ReplyUnknown(p) \/ ReplyLost(p) => OwnStep(p)
  <2>1. SUFFICES ASSUME ReplyRejected(p) \/ ReplyUnknown(p) \/ ReplyLost(p)  PROVE OwnStep(p)
    OBVIOUS
  <2>2. RowKept /\ NotCommand
    BY <2>1 DEF ReplyRejected, ReplyUnknown, ReplyLost
  <2>3. Apart
    BY <1>0, <2>1 DEF ReplyRejected, ReplyUnknown, ReplyLost, JournalKept
  <2>4. Return(p) \/ Goto(p, "rejected") \/ Goto(p, "nativelost")
    BY <2>1 DEF ReplyRejected, ReplyUnknown, ReplyLost
  <2>5. QED  BY <2>2, <2>3, <2>4, OwnReturn, OwnGoto
<1>8. BlockRejected(p) \/ LoseNative(p) => OwnStep(p) \/ RowLeft
  BY FailLeaves, OwnReturn DEF BlockRejected, LoseNative, JournalKept
<1>9. Activate(p) => OwnStep(p) \/ RowLeft
  BY ActivateLeaves, OwnReturn DEF Activate, JournalKept
<1>10. Transfer(p) => OwnStep(p)
  <2>1. SUFFICES ASSUME Transfer(p)  PROVE OwnStep(p)
    OBVIOUS
  <2>2. RowKept /\ NotCommand /\ UNCHANGED effect
    BY <2>1 DEF Transfer, OnlyProc, JournalKept
  <2>3. CASE Return(p) \/ Goto(p, "reserve")
    BY <2>2, <2>3, OwnReturn, OwnGoto
  <2>4. CASE proc' = [proc EXCEPT ![p].sid = successor[proc[p].src], ![p].pc = "forward"]
    <3>1. proc'[p].epoch = proc[p].epoch /\ \A q \in Procs \ {p} : proc'[q] = proc[q]
      BY <1>0, <2>4 DEF ProcType
    <3>2. QED  BY <2>2, <3>1 DEF OwnStep
  <2>5. QED  BY <2>1, <2>3, <2>4 DEF Transfer
<1>11. Link(p) => OwnStep(p)
  BY OwnReturn, OwnGoto DEF Link, JournalKept
<1>12. QED
  BY <1>1, <1>2, <1>3, <1>4, <1>5, <1>6, <1>7, <1>8, <1>9, <1>10, <1>11 DEF Launching

(* Nor does one of a cleanup or a sweep. *)
LEMMA SettlingOwn ==
    ASSUME IInv, NEW p \in Procs, Settling(p), ~FinishDecide(p)  PROVE OwnStep(p) \/ RowLeft
<1> DEFINE Apart == \A e \in Epochs \ {proc[p].epoch} : effect'[e].state = effect[e].state
<1>0. effect \in [Epochs -> EffectType] /\ proc \in [Procs -> ProcType]
  BY DEF IInv, TypeOK
<1>1. CloseEffect(p) => OwnStep(p)
  <2>1. SUFFICES ASSUME CloseEffect(p)  PROVE OwnStep(p)
    OBVIOUS
  <2>2. RowKept /\ NotCommand /\ Apart
    BY <1>0, <2>1 DEF CloseEffect, JournalKept
  <2>3. proc'[p].epoch = proc[p].epoch /\ \A q \in Procs \ {p} : proc'[q] = proc[q]
    BY <1>0, <2>1 DEF CloseEffect, ProcType
  <2>4. QED  BY <2>2, <2>3 DEF OwnStep
<1>2. RetireFinal(p) \/ Stop(p) => OwnStep(p)
  BY OwnGoto DEF RetireFinal, Stop, JournalKept
<1>3. AckStop(p) => OwnStep(p)
  <2>1. SUFFICES ASSUME AckStop(p)  PROVE OwnStep(p)
    OBVIOUS
  <2>2. RowKept /\ NotCommand /\ Apart
    BY <1>0, <2>1 DEF AckStop
  <2>3. Return(p) \/ Goto(p, "cleanup")
    BY <2>1 DEF AckStop
  <2>4. QED  BY <2>2, <2>3, OwnReturn, OwnGoto
<1>4. CleanupEnds(p) => OwnStep(p)
  BY OwnReturn DEF CleanupEnds, OnlyProc, JournalKept
<1>5. LoseExpired(p) => OwnStep(p) \/ RowLeft
  BY FailLeaves, OwnReturn DEF LoseExpired, JournalKept
<1>6. Lookup(p) => OwnStep(p)
  <2>1. SUFFICES ASSUME Lookup(p)  PROVE OwnStep(p)
    OBVIOUS
  <2>2. RowKept /\ NotCommand /\ UNCHANGED effect
    BY <2>1 DEF Lookup, OnlyProc, JournalKept
  <2>3. proc'[p].epoch = proc[p].epoch /\ \A q \in Procs \ {p} : proc'[q] = proc[q]
    BY <1>0, <2>1 DEF Lookup, ProcType
  <2>4. QED  BY <2>2, <2>3 DEF OwnStep
<1>7. ExpiredSuperseded(p) \/ ExpiredAdopted(p) \/ ExpiredAbsent(p) => OwnStep(p)
  <2>1. SUFFICES ASSUME ExpiredSuperseded(p) \/ ExpiredAdopted(p) \/ ExpiredAbsent(p)
                 PROVE  OwnStep(p)
    OBVIOUS
  <2>2. RowKept /\ NotCommand
    BY <2>1 DEF ExpiredSuperseded, ExpiredAdopted, ExpiredAbsent
  <2>3. Apart
    BY <1>0, <2>1 DEF ExpiredSuperseded, ExpiredAdopted, ExpiredAbsent, JournalKept
  <2>4. Return(p) \/ Goto(p, "stop") \/ Goto(p, "activate") \/ Goto(p, "expired")
    BY <2>1 DEF ExpiredSuperseded, ExpiredAdopted, ExpiredAbsent
  <2>5. QED  BY <2>2, <2>3, <2>4, OwnReturn, OwnGoto
<1>8. QED
  BY <1>1, <1>2, <1>3, <1>4, <1>5, <1>6, <1>7 DEF Settling

(* What a process at work on the reserved epoch is, by its point. *)
LEMMA AtWork ==
    ASSUME StartInv, row.state = "reserved", NEW p \in Procs, proc[p].epoch = row.epoch
    PROVE  /\ proc[p].pc \in {"idle", "start", "stop", "stopped"} \union StartPoints \union SweepPoints
           /\ proc[p].pc \in {"stop", "stopped"} => proc[p].op = "sweep"
           /\ proc[p].pc \in (StartPoints \union SweepPoints) => p \in fresh
           /\ proc[p].pc \in StartPoints \ SweepPoints => proc[p].op = "start"
           /\ proc[p].pc \in SweepPoints \ StartPoints => proc[p].op = "sweep"
  BY DEF StartInv, ReservedInv, AtStart, StartPoints, SweepPoints

(* It goes on along the start, or the sweep. *)
LEMMA FineGoes ==
    ASSUME IInv, NEW p \in Procs, RowKept, NotCommand, p \in fresh,
           proc[p].pc \notin Ending, proc'[p].op = proc[p].op,
           \A q \in Procs \ {p} : proc'[q] = proc[q],
           \/ proc'[p].op = "start" /\ proc'[p].pc \in StartPoints
           \/ proc'[p].op = "sweep" /\ proc'[p].pc \in SweepPoints,
           effect'[row.epoch].state = "terminal"
             => effect[row.epoch].state = "terminal" \/ Deciding(p)'
    PROVE  Fine(p)
<1>1. proc'[p].pc # "idle" /\ ~Deciding(p)
  BY DEF StartPoints, SweepPoints, Deciding
<1>2. p \in fresh' /\ Others(p)
  BY <1>1, StaysFresh, OthersStay
<1>3. AtStart(p)'
  BY <1>2 DEF AtStart
<1>4. QED  BY <1>1, <1>2, <1>3 DEF Fine, NotCommand

LEMMA FineGoto ==
    ASSUME IInv, NEW p \in Procs, NEW pc, Goto(p, pc), RowKept, NotCommand, p \in fresh,
           proc[p].epoch = row.epoch, proc[p].pc \notin Ending,
           \/ proc[p].op = "start" /\ pc \in StartPoints
           \/ proc[p].op = "sweep" /\ pc \in SweepPoints,
           effect'[row.epoch].state = "terminal"
             => effect[row.epoch].state = "terminal" \/ pc \in Ending
    PROVE  Fine(p)
<1>1. /\ proc'[p].pc = pc /\ proc'[p].op = proc[p].op /\ proc'[p].epoch = proc[p].epoch
      /\ \A q \in Procs \ {p} : proc'[q] = proc[q]
  BY Moves DEF IInv, TypeOK, Goto
<1>2. Deciding(p)' <=> pc \in Ending
  BY <1>1 DEF Deciding, RowKept
<1>3. QED  BY <1>1, <1>2, FineGoes

LEMMA FineLaunched ==
    ASSUME IInv, NEW p \in Procs, NEW s, Launched(p, s), RowKept, NotCommand, p \in fresh,
           proc[p].pc \notin Ending, proc[p].op = "start",
           effect'[row.epoch].state # "terminal"
    PROVE  Fine(p)
<1>1. proc'[p].pc = "activate" /\ proc'[p].op = proc[p].op
  BY Moves
<1>2. \A q \in Procs \ {p} : proc'[q] = proc[q]
  BY DEF IInv, TypeOK, Launched
<1>3. QED  BY <1>1, <1>2, FineGoes DEF StartPoints

(* A launch of the reserved epoch: nothing says the task moved on, so its  *)
(* epoch ends only with a rejection or a loss that is about to be told.    *)
LEMMA LaunchingFine ==
    ASSUME IInv, StartInv, row.state = "reserved", NEW p \in Procs,
           proc[p].epoch = row.epoch, Launching(p)
    PROVE  Fine(p) \/ RowLeft
<1> DEFINE e == proc[p].epoch
<1>0. effect \in [Epochs -> EffectType] /\ proc \in [Procs -> ProcType] /\ e \in Epochs
  BY RowEpoch DEF IInv, TypeOK
<1>a. \A pc : At(p, pc) /\ pc \in StartPoints \ (SweepPoints \union Ending)
        => p \in fresh /\ proc[p].op = "start" /\ ~Deciding(p) /\ proc[p].pc \notin Ending
  BY AtWork DEF At, Deciding
<1>b. {"reserve", "busy", "call", "reply"} \subseteq StartPoints \ (SweepPoints \union Ending)
  BY DEF StartPoints, SweepPoints, Ending
<1>1. Reserve(p) => Fine(p)
  <2>1. SUFFICES ASSUME Reserve(p)  PROVE Fine(p)
    OBVIOUS
  <2>2. p \in fresh /\ proc[p].op = "start" /\ ~Deciding(p) /\ proc[p].pc \notin Ending
    BY <1>a, <1>b, <2>1 DEF Reserve
  <2>3. RowKept /\ NotCommand
    BY <2>1 DEF Reserve
  <2>4. effect'[e].state = "terminal" => effect[e].state = "terminal"
    BY <1>0, <2>1 DEF Reserve, JournalKept, EffectType
  <2>5. CASE Return(p)
    BY <2>2, <2>3, <2>4, <2>5, FineReturn
  <2>6. CASE Launched(p, e) /\ effect[e].state = "launched" /\ JournalKept
    BY <2>2, <2>3, <2>6, FineLaunched DEF JournalKept
  <2>7. CASE Goto(p, "busy") \/ Goto(p, "call")
    BY <2>2, <2>3, <2>4, <2>7, FineGoto DEF StartPoints
  <2>8. QED  BY <2>1, <2>5, <2>6, <2>7 DEF Reserve
<1>2. BusyRetry(p) => Fine(p)
  BY <1>a, <1>b, FineGoto DEF BusyRetry, OnlyProc, JournalKept, StartPoints
<1>3. BusyGiveUp(p) => Fine(p)
  BY <1>a, <1>b, FineReturn DEF BusyGiveUp, OnlyProc, JournalKept
<1>4. CallAccepted(p) \/ CallRefused(p) => Fine(p)
  <2>1. SUFFICES ASSUME CallAccepted(p) \/ CallRefused(p)  PROVE Fine(p)
    OBVIOUS
  <2>2. PICK reply : proc' = [proc EXCEPT ![p].pc = "reply", ![p].reply = reply]
    BY <2>1 DEF CallAccepted, CallRefused
  <2>3. /\ proc'[p].pc = "reply" /\ proc'[p].op = proc[p].op
        /\ \A q \in Procs \ {p} : proc'[q] = proc[q]
    BY <1>0, <2>2 DEF ProcType
  <2>4. RowKept /\ NotCommand /\ UNCHANGED effect /\ At(p, "call")
    BY <2>1 DEF CallAccepted, CallRefused, OnlyProc, JournalKept
  <2>5. QED  BY <1>a, <1>b, <2>3, <2>4, FineGoes
<1>c. Answer(p, "ok") \/ Answer(p, "rejected") \/ Answer(p, "unknown")
        \/ Answer(p, "refused") \/ Answer(p, "lost")
      => p \in fresh /\ proc[p].op = "start" /\ ~Deciding(p) /\ proc[p].pc \notin Ending
  BY <1>a, <1>b DEF Answer
<1>5. ~ReplySuperseded(p)
  BY <1>c DEF ReplySuperseded, Moved
<1>6. ReplyLaunched(p) => Fine(p)
  <2>1. SUFFICES ASSUME ReplyLaunched(p)  PROVE Fine(p)
    OBVIOUS
  <2>2. /\ p \in fresh /\ proc[p].op = "start" /\ ~Deciding(p) /\ proc[p].pc \notin Ending
        /\ RowKept /\ NotCommand
    BY <1>c, <2>1 DEF ReplyLaunched
  <2>3. CASE Return(p) /\ JournalKept
    BY <2>2, <2>3, FineReturn DEF JournalKept
  <2>4. CASE /\ Launched(p, e)
             /\ effect' = [effect EXCEPT ![e].state = "launched", ![e].ws = native[e].ws]
    <3>1. effect'[e].state = "launched"
      BY <1>0, <2>4 DEF EffectType
    <3>2. QED  BY <2>2, <2>4, <3>1, FineLaunched
  <2>5. QED  BY <2>1, <2>3, <2>4 DEF ReplyLaunched
<1>7. ReplyRejected(p) \/ ReplyUnknown(p) \/ ReplyLost(p) => Fine(p)
  <2>1. SUFFICES ASSUME ReplyRejected(p) \/ ReplyUnknown(p) \/ ReplyLost(p)  PROVE Fine(p)
    OBVIOUS
  <2>2. /\ p \in fresh /\ proc[p].op = "start" /\ ~Deciding(p) /\ proc[p].pc \notin Ending
        /\ RowKept /\ NotCommand
    BY <1>c, <2>1 DEF ReplyRejected, ReplyUnknown, ReplyLost
  <2>3. \/ Return(p) /\ JournalKept
        \/ Goto(p, "rejected") \/ Goto(p, "nativelost")
    BY <2>1, <2>2 DEF ReplyRejected, ReplyUnknown, ReplyLost, Moved
  <2>4. CASE Return(p) /\ JournalKept
    BY <2>2, <2>4, FineReturn DEF JournalKept
  <2>5. CASE Goto(p, "rejected") \/ Goto(p, "nativelost")
    BY <2>2, <2>5, FineGoto DEF StartPoints, Ending
  <2>6. QED  BY <2>3, <2>4, <2>5
<1>8. ReplyRefused(p) => Fine(p)
  BY <1>c, FineReturn DEF ReplyRefused, OnlyProc, JournalKept
<1>9. L!BudgetLeft(row)
  BY DEF StartInv, ReservedInv
<1>10. BlockRejected(p) \/ LoseNative(p) => RowLeft
  BY <1>9, FailLeaves DEF BlockRejected, LoseNative
<1>11. Activate(p) => RowLeft
  BY ActivateLeaves
<1>12. ~Retire(p) /\ ~Transfer(p) /\ ~Forward(p) /\ ~Link(p)
  BY AtWork DEF Retire, Transfer, Forward, Link, At, StartPoints, SweepPoints
<1>13. QED
  BY <1>1, <1>2, <1>3, <1>4, <1>5, <1>6, <1>7, <1>8, <1>10, <1>11, <1>12 DEF Launching

(* A cleanup or a sweep of it: what the sweep finds it may adopt, and an   *)
(* epoch it ends it goes on to tell.                                       *)
LEMMA SettlingFine ==
    ASSUME IInv, StartInv, row.state = "reserved", NEW p \in Procs,
           proc[p].epoch = row.epoch, Settling(p), ~FinishDecide(p)
    PROVE  Fine(p) \/ RowLeft
<1> DEFINE e == proc[p].epoch
<1>0. effect \in [Epochs -> EffectType] /\ proc \in [Procs -> ProcType] /\ e \in Epochs
  BY RowEpoch DEF IInv, TypeOK
<1>1. ~CloseEffect(p) /\ ~RetireFinal(p) /\ ~CleanupEnds(p)
  BY AtWork DEF CloseEffect, RetireFinal, CleanupEnds, At, StartPoints, SweepPoints
<1>2. Stop(p) => Fine(p)
  <2>1. SUFFICES ASSUME Stop(p)  PROVE Fine(p)
    OBVIOUS
  <2>2. proc[p].pc = "stop" /\ Goto(p, "stopped") /\ RowKept /\ NotCommand /\ UNCHANGED effect
    BY <2>1 DEF Stop, At, JournalKept
  <2>3. proc[p].op = "sweep" /\ ~Deciding(p)
    BY <2>2, AtWork DEF Deciding, Ending
  <2>4. proc'[p].pc = "stopped" /\ proc'[p].op = "sweep" /\ Others(p)
    BY <2>2, <2>3, Moves, OthersKept
  <2>5. QED  BY <2>2, <2>3, <2>4 DEF Fine, AtStart, NotCommand
<1>3. AckStop(p) => Fine(p)
  <2>1. SUFFICES ASSUME AckStop(p)  PROVE Fine(p)
    OBVIOUS
  <2>2. proc[p].pc = "stopped" /\ RowKept /\ NotCommand
    BY <2>1 DEF AckStop, At
  <2>3. proc[p].op = "sweep" /\ ~Deciding(p)
    BY <2>2, AtWork DEF Deciding, Ending
  <2>4. effect'[e].state = "terminal" => effect[e].state = "terminal"
    BY <1>0, <2>1 DEF AckStop, EffectType
  <2>5. Return(p)
    BY <2>1, <2>3 DEF AckStop
  <2>6. QED  BY <2>2, <2>3, <2>4, <2>5, FineReturn
<1>a. At(p, "lookup") \/ At(p, "looked")
        => p \in fresh /\ proc[p].op = "sweep" /\ ~Deciding(p) /\ proc[p].pc \notin Ending
  BY AtWork DEF At, Deciding, StartPoints, SweepPoints, Ending
<1>4. Lookup(p) => Fine(p)
  <2>1. SUFFICES ASSUME Lookup(p)  PROVE Fine(p)
    OBVIOUS
  <2>2. p \in fresh /\ proc[p].op = "sweep" /\ proc[p].pc \notin Ending
    BY <1>a, <2>1 DEF Lookup
  <2>3. /\ proc'[p].pc = "looked" /\ proc'[p].op = proc[p].op
        /\ \A q \in Procs \ {p} : proc'[q] = proc[q]
    BY <1>0, <2>1 DEF Lookup, ProcType
  <2>4. RowKept /\ NotCommand /\ UNCHANGED effect
    BY <2>1 DEF Lookup, OnlyProc, JournalKept
  <2>5. QED  BY <2>2, <2>3, <2>4, FineGoes DEF SweepPoints
<1>5. ~ExpiredSuperseded(p)
  BY <1>a DEF ExpiredSuperseded, Looked, Moved
<1>6. ExpiredAdopted(p) \/ ExpiredAbsent(p) => Fine(p)
  <2>1. SUFFICES ASSUME ExpiredAdopted(p) \/ ExpiredAbsent(p)  PROVE Fine(p)
    OBVIOUS
  <2>2. /\ p \in fresh /\ proc[p].op = "sweep" /\ ~Deciding(p) /\ proc[p].pc \notin Ending
        /\ RowKept /\ NotCommand
    BY <1>a, <2>1 DEF ExpiredAdopted, ExpiredAbsent, Looked
  <2>3. CASE Return(p) /\ JournalKept
    BY <2>2, <2>3, FineReturn DEF JournalKept
  <2>4. CASE /\ Goto(p, "activate")
             /\ effect' = [effect EXCEPT ![e].state = "launched", ![e].ws = proc[p].ws]
    <3>1. effect'[e].state = "launched"
      BY <1>0, <2>4 DEF EffectType
    <3>2. QED  BY <2>2, <2>4, <3>1, FineGoto DEF SweepPoints
  <2>5. CASE Goto(p, "expired")
    BY <2>2, <2>5, FineGoto DEF SweepPoints, Ending
  <2>6. QED  BY <2>1, <2>3, <2>4, <2>5 DEF ExpiredAdopted, ExpiredAbsent
<1>7. L!BudgetLeft(row)
  BY DEF StartInv, ReservedInv
<1>8. LoseExpired(p) => RowLeft
  BY <1>7, FailLeaves DEF LoseExpired
<1>9. QED
  BY <1>1, <1>2, <1>3, <1>4, <1>5, <1>6, <1>8 DEF Settling

(* A finish leaves the reservation behind, or returns. *)
LEMMA FinishLeaves ==
    ASSUME IInv, NEW p \in Procs, FinishDecide(p)
    PROVE  /\ row' = row \/ RowLeft
           /\ row.state = "reserved" => Fine(p) \/ RowLeft
<1>1. row \in RowType /\ ~Deciding(p) /\ NotCommand /\ JournalKept
  BY DEF IInv, TypeOK, FinishDecide, At, Deciding, Ending
<1>2. \A s \in {"completed", "cancelled"} : L!Settled(row, s).state = s
  BY <1>1 DEF L!Settled, RowType
<1>3. \/ RowKept
      \/ \E s \in {"completed", "cancelled"} : row' = L!Settled(row, s)
  BY DEF FinishDecide, Write
<1>4. (\E s \in {"completed", "cancelled"} : row' = L!Settled(row, s)) => RowLeft
  BY <1>2 DEF RowLeft
<1>5. row.state = "reserved" => \/ Return(p) /\ RowKept
                                \/ \E s \in {"completed", "cancelled"} : row' = L!Settled(row, s)
  BY DEF FinishDecide, Write, L!CompletePredecessors, L!CancelPredecessors, L!LiveStates
<1>6. Return(p) /\ RowKept => Fine(p)
  BY <1>1, FineReturn DEF JournalKept
<1>7. QED  BY <1>3, <1>4, <1>5, <1>6 DEF RowKept

(* So do the readers of start(), and the opening of the next epoch. *)
LEMMA StartingFine ==
    ASSUME IInv, StartInv, NEW p \in Procs, Starting(p)
    PROVE  /\ row' = row \/ RowLeft
           /\ row.state = "reserved" => Fine(p) \/ RowLeft
<1>0. row \in RowType
  BY DEF IInv, TypeOK
<1>1. ASSUME StartRead(p)
      PROVE  row' = row /\ (row.state = "reserved" => Fine(p))
  <2>1. row' = row /\ ~Deciding(p) /\ NotCommand /\ UNCHANGED effect
    BY <1>1 DEF StartRead, RowKept, RowRead, JournalKept, At, Deciding, Ending
  <2>2. ASSUME row.state = "reserved"  PROVE Fine(p)
    <3>1. Snapshot(p, "start", row, "startIO") /\ RowRead(p)
      BY <1>1, <2>2 DEF StartRead
    <3>2. proc'[p].pc = "startIO" /\ proc'[p].op = "start" /\ Others(p)
      BY <3>1, Moves, OthersKept
    <3>3. p \in fresh'
      BY <3>1, <3>2, StaysFresh
    <3>4. AtStart(p)'
      BY <3>2, <3>3 DEF AtStart, StartPoints
    <3>5. QED  BY <2>1, <3>2, <3>4 DEF Fine, NotCommand
  <2>3. QED  BY <2>1, <2>2
<1>2. ASSUME StartDispatch(p) \/ StartRefused(p)
      PROVE  row' = row /\ (row.state = "reserved" => Fine(p))
  <2>1. RowKept /\ ~Deciding(p) /\ NotCommand /\ UNCHANGED effect
    BY <1>2 DEF StartDispatch, StartRefused, OnlyProc, JournalKept, At, Deciding, Ending
  <2>2. ASSUME row.state = "reserved"  PROVE Fine(p)
    <3>1. CASE Return(p)
      BY <2>1, <3>1, FineReturn
    <3>2. CASE Goto(p, "reserve") /\ proc[p].epoch # row.epoch
      BY <2>1, <3>2, OwnGoto, OwnIsFine
    <3>3. CASE Goto(p, "reserve") /\ proc[p].epoch = row.epoch
      <4>1. proc[p].pc = "startIO"
        BY <1>2 DEF StartDispatch, StartRefused, At
      <4>2. p \in fresh /\ proc[p].op = "start"
        BY <2>2, <3>3, <4>1, AtWork DEF StartPoints, SweepPoints
      <4>3. QED  BY <2>1, <3>3, <4>1, <4>2, FineGoto DEF StartPoints, Ending
    <3>4. QED  BY <1>2, <3>1, <3>2, <3>3 DEF StartDispatch, StartRefused
  <2>3. QED  BY <2>1, <2>2 DEF RowKept
<1>3. ASSUME ReplaceCommit(p)
      PROVE  /\ row' = row \/ RowLeft
             /\ row.state = "reserved" => Fine(p) \/ RowLeft
  <2>1. ~Deciding(p) /\ NotCommand /\ UNCHANGED effect
    BY <1>3 DEF ReplaceCommit, JournalKept, At, Deciding, Ending
  <2>2. Replaceable => Reopened.state = "replacing"
    BY <1>0 DEF Reopened, Replaceable, L!NextEpoch, RowType
  <2>3. RowLeft \/ (Return(p) /\ RowKept)
    BY <1>3, <2>2 DEF ReplaceCommit, Write, RowLeft
  <2>4. Return(p) /\ RowKept => Fine(p)
    BY <2>1, FineReturn
  <2>5. QED  BY <2>3, <2>4 DEF RowKept
<1>4. QED  BY <1>1, <1>2, <1>3 DEF Starting

(* The bridge reroutes and observes what holds a task, or leaves the       *)
(* reservation behind.                                                     *)
LEMMA ReconcilingFine ==
    ASSUME IInv, StartInv, Reconciling
    PROVE  /\ row' = row \/ RowLeft
           /\ row.state = "reserved" => Fine(Bridge) \/ RowLeft
<1>0. row \in RowType /\ Bridge \in Procs /\ NotCommand
  BY BridgeIsProc
  DEF IInv, TypeOK, Reconciling, AutoDispatch, Reroute, ObserveRead, ObserveRefusal,
      ObserveFailure, ObserveNothing
<1>a. row.state = "reserved" => proc[Bridge].epoch # row.epoch \/ proc[Bridge].pc \notin {"autoIO", "observing"}
  BY <1>0, AtWork DEF StartPoints, SweepPoints
<1>1. ASSUME AutoDispatch
      PROVE  row' = row /\ (row.state = "reserved" => Fine(Bridge))
  <2>1. RowKept /\ UNCHANGED effect /\ proc[Bridge].pc = "autoIO"
        /\ (Return(Bridge) \/ Goto(Bridge, "reserve"))
    BY <1>1 DEF AutoDispatch, OnlyProc, JournalKept, At
  <2>2. OwnStep(Bridge)
    BY <1>0, <2>1, OwnReturn, OwnGoto
  <2>3. QED  BY <1>0, <1>a, <2>1, <2>2, OwnIsFine DEF RowKept
<1>2. ASSUME Reroute
      PROVE  /\ row' = row \/ RowLeft
             /\ row.state = "reserved" => Fine(Bridge) \/ RowLeft
  <2>1. UNCHANGED effect /\ ~Deciding(Bridge)
    BY <1>2 DEF Reroute, JournalKept, At, Deciding, Ending
  <2>2. \A c \in BOOLEAN : L!NextEpoch(row, c, TRUE).state = "replacing"
    BY <1>0 DEF L!NextEpoch, RowType
  <2>3. (Return(Bridge) /\ RowKept) \/ RowLeft
    BY <1>2, <2>2 DEF Reroute, Write, RowLeft
  <2>4. Return(Bridge) /\ RowKept => Fine(Bridge)
    BY <1>0, <2>1, FineReturn
  <2>5. QED  BY <2>3, <2>4 DEF RowKept
<1>3. ASSUME ObserveRead
      PROVE  row' = row /\ (row.state = "reserved" => Fine(Bridge))
  <2>1. RowKept /\ UNCHANGED effect /\ ~Deciding(Bridge)
    BY <1>3 DEF ObserveRead, OnlyProc, JournalKept, At, Deciding, Ending
  <2>2. row.state = "reserved" => Return(Bridge)
    BY <1>3 DEF ObserveRead
  <2>3. QED  BY <1>0, <2>1, <2>2, FineReturn DEF RowKept
<1>4. ASSUME ObserveRefusal
      PROVE  row' = row /\ (row.state = "reserved" => Fine(Bridge))
  <2>1. RowKept /\ Return(Bridge) /\ proc[Bridge].pc = "observing"
    BY <1>4 DEF ObserveRefusal, At
  <2>2. \A e \in Epochs \ {proc[Bridge].epoch} : effect'[e].state = effect[e].state
    BY <1>4 DEF ObserveRefusal, JournalKept, IInv, TypeOK
  <2>3. OwnStep(Bridge)
    BY <1>0, <2>1, <2>2, OwnReturn
  <2>4. QED  BY <1>0, <1>a, <2>1, <2>3, OwnIsFine DEF RowKept
<1>5. ASSUME ObserveFailure
      PROVE  /\ row' = row \/ RowLeft
             /\ row.state = "reserved" => RowLeft
  <2>1. Fail("blocked", FALSE)
    BY <1>5 DEF ObserveFailure
  <2>2. row.state = "reserved" => L!BudgetLeft(row)
    BY DEF StartInv, ReservedInv
  <2>3. QED  BY <2>1, <2>2, FailLeaves DEF RowKept
<1>6. ASSUME ObserveNothing
      PROVE  row' = row /\ (row.state = "reserved" => Fine(Bridge))
  <2>1. RowKept /\ UNCHANGED effect /\ ~Deciding(Bridge) /\ Return(Bridge)
    BY <1>6 DEF ObserveNothing, OnlyProc, JournalKept, At, Deciding, Ending
  <2>2. QED  BY <1>0, <2>1, FineReturn DEF RowKept
<1>7. QED  BY <1>1, <1>2, <1>3, <1>4, <1>5, <1>6 DEF Reconciling

(* A tick finds nothing to do in a reserved task. *)
LEMMA TickLeaves ==
    ASSUME IInv, StartInv, TickNext
    PROVE  (row' = row \/ RowLeft) /\ row.state # "reserved"
<1>0. row \in RowType
  BY DEF IInv, TypeOK
<1>1. \A s \in {"blocked", "exhausted"} :
         L!ChargedFailure(row, s, FALSE).state \in {"blocked", "exhausted"}
  BY <1>0 DEF L!ChargedFailure, RowType
<1>2. row' = row \/ RowLeft
  BY <1>1
  DEF TickNext, Resume, Advance, ResumeEnded, ResumeUnfilled, AdvanceExhausts, AdvanceBlocks,
      AdvanceRoutes, Observe, OnlyProc, RowKept, RowRead, Write, RowLeft
<1>3. row.state = "reserved" => row.holder = None
  BY DEF StartInv, ReservedInv
<1>4. row.state # "reserved"
  BY <1>3
  DEF TickNext, Resume, Advance, ResumeEnded, ResumeUnfilled, AdvanceExhausts, AdvanceBlocks,
      AdvanceRoutes, Observe
<1>5. QED  BY <1>2, <1>4

(* A sweep reads the row, or takes up an epoch that is over. *)
LEMMA SweepFine ==
    ASSUME IInv, StartInv, NEW p \in Procs, Sweep(p)
    PROVE  row' = row /\ (row.state = "reserved" => Fine(p))
<1>0. proc \in [Procs -> ProcType]
  BY DEF IInv, TypeOK
<1>1. ASSUME SweepExpired(p)  PROVE row' = row /\ (row.state = "reserved" => Fine(p))
  <2>1. /\ row' = row /\ ~Deciding(p) /\ NotCommand /\ UNCHANGED effect
        /\ Snapshot(p, "sweep", row, "lookup") /\ RowRead(p)
    BY <1>1 DEF SweepExpired, RowRead, JournalKept, At, Deciding, Ending
  <2>2. proc'[p].pc = "lookup" /\ proc'[p].op = "sweep" /\ Others(p)
    BY <2>1, Moves, OthersKept
  <2>3. p \in fresh'
    BY <2>1, <2>2, StaysFresh
  <2>4. AtStart(p)'
    BY <2>2, <2>3 DEF AtStart, SweepPoints
  <2>5. QED  BY <2>1, <2>2, <2>4 DEF Fine, NotCommand
<1>2. ASSUME NEW e \in Epochs, SweepTerminal(p, e)
      PROVE  row' = row /\ (row.state = "reserved" => Fine(p))
  <2>1. RowKept /\ ~Deciding(p) /\ NotCommand /\ UNCHANGED effect
    BY <1>2 DEF SweepTerminal, OnlyProc, JournalKept, At, Deciding, Ending
  <2>2. /\ proc'[p].pc = "stop" /\ proc'[p].op = "sweep"
        /\ \A q \in Procs \ {p} : proc'[q] = proc[q]
    BY <1>0, <1>2 DEF SweepTerminal, Idle
  <2>3. Others(p) /\ AtStart(p)'
    BY <2>1, <2>2, OthersStay DEF AtStart
  <2>4. QED  BY <2>1, <2>3 DEF Fine, NotCommand, RowKept
<1>3. ASSUME NEW e \in Epochs, Cleanup(p, e)
      PROVE  row' = row /\ (row.state = "reserved" => Fine(p))
  <2>1. UNCHANGED <<row, fresh, proc, effect, spent>> /\ ~Deciding(p)
    BY <1>3 DEF Cleanup, JournalKept, NotCommand, At, Deciding, Ending
  <2>2. row.state = "reserved" => AtStart(p)
    BY DEF StartInv, ReservedInv
  <2>3. row.state = "reserved" => AtStart(p)'
    BY <2>1, <2>2 DEF AtStart
  <2>4. QED  BY <2>1, <2>3 DEF Fine, Others
<1>4. QED  BY <1>1, <1>2, <1>3 DEF Sweep

(* A command that is given, a fault: what it spends is no crash, or is one. *)
LEMMA SpentCrashes ==
    ASSUME IInv
    PROVE  /\ \A p : Command(p) => spent'.crashes = spent.crashes
           /\ spent' = [spent EXCEPT !.timeouts = @ + 1] => spent'.crashes = spent.crashes
           /\ spent' = [spent EXCEPT !.crashes = @ + 1] => spent'.crashes # 0
<1>1. spent \in Spent
  BY DEF IInv, TypeOK, Spent
<1>2. QED  BY <1>1, LaunchAssumption DEF LaunchAssumption, Spent, Command

(* A fault takes a process out of its operation. *)
LEMMA FaultsFine ==
    ASSUME IInv, NEW p \in Procs, Faults(p)
    PROVE  row' = row /\ Fine(p)
<1>1. Return(p) /\ RowKept
  BY DEF Faults, Crash, CallTimesOut, StopFails, LookupFails, OnlyProc
<1>2. proc'[p].pc = "idle" /\ Others(p)
  BY <1>1, Moves, OthersKept DEF Idle
<1>3. row.epoch \in Epochs /\ effect \in [Epochs -> EffectType]
  BY RowEpoch DEF IInv, TypeOK
<1>4. effect'[row.epoch].state = effect[row.epoch].state
  BY <1>3 DEF Faults, Crash, CallTimesOut, StopFails, LookupFails, OnlyProc, JournalKept, EffectType
<1>5. \/ spent'.crashes # 0
      \/ spent'.crashes = spent.crashes /\ ~Deciding(p)
  BY SpentCrashes DEF Faults, Crash, CallTimesOut, StopFails, LookupFails, At, Deciding, Ending
<1>6. QED  BY <1>1, <1>2, <1>4, <1>5 DEF Fine, AtStart, RowKept

(* A command that is no start of an absent or a lost task. *)
LEMMA GivenFine ==
    ASSUME IInv, StartInv, NEW p \in Procs, Given(p), ~StartReserve(p), ~StartReissue(p)
    PROVE  /\ row' = row \/ RowLeft
           /\ row.state = "reserved" => Fine(p) \/ RowLeft
<1>0. row \in RowType /\ proc \in [Procs -> ProcType]
  BY DEF IInv, TypeOK
<1>1. ASSUME StartAgain(p)  PROVE row' = row /\ Fine(p)
  <2>1. /\ RowKept /\ UNCHANGED effect /\ ~Deciding(p) /\ Command(p)
        /\ Snapshot(p, "start", row, "start")
    BY <1>1 DEF StartAgain, OnlyProc, JournalKept, Command, At, Deciding, Ending
  <2>2. proc'[p].pc = "start" /\ Others(p)
    BY <2>1, Moves, OthersKept
  <2>3. QED  BY <2>1, <2>2, SpentCrashes DEF Fine, AtStart, RowKept
<1>2. ASSUME ReplaceRead(p)  PROVE row' = row /\ row.state # "reserved"
  BY <1>2 DEF ReplaceRead, RowRead, StartInv, ReservedInv
<1>3. ASSUME Block(p)  PROVE RowLeft
  <2>1. L!Settled(row, "blocked").state = "blocked"
    BY <1>0 DEF L!Settled, RowType
  <2>2. QED  BY <1>3, <2>1 DEF Block, Write, RowLeft
<1>4. ASSUME NEW op \in {"complete", "cancel"}, FinishRead(p, op)
      PROVE  row' = row /\ Fine(p)
  <2>1. RowKept /\ UNCHANGED effect /\ ~Deciding(p) /\ Command(p)
    BY <1>4 DEF FinishRead, OnlyProc, JournalKept, Command, At, Deciding, Ending
  <2>2. proc'[p].epoch = 0 /\ \A q \in Procs \ {p} : proc'[q] = proc[q]
    BY <1>0, <1>4 DEF FinishRead, Idle
  <2>3. AtStart(p)' /\ Others(p)
    BY <2>1, <2>2, RowEpoch, OthersStay DEF AtStart, RowKept
  <2>4. QED  BY <2>1, <2>3, SpentCrashes DEF Fine, RowKept
<1>5. QED  BY <1>1, <1>2, <1>3, <1>4 DEF Given

(* A lost task is reserved again at an epoch nobody has seen. *)
LEMMA ReissueStarts ==
    ASSUME IInv, NEW p \in Procs, StartReissue(p)  PROVE StartInv'
<1> DEFINE d == row.epoch + 1
<1>1. /\ row'.state = "reserved" /\ row'.epoch = d /\ row'.holder = None
      /\ row'.attempts = row.attempts /\ UNCHANGED effect /\ L!BudgetLeft(row)
      /\ L!CanOpenEpoch(row) /\ Snapshot(p, "start", row', "start")
  BY DEF StartReissue, Write, JournalKept
<1>2. d \in Epochs /\ ~(d <= row.epoch)
  BY <1>1, RowEpoch, LaunchAssumption DEF LaunchAssumption, L!CanOpenEpoch, Epochs
<1>3. effect[d].state = "none"
  BY <1>2, IInvParts DEF JournalInv
<1>4. ASSUME NEW q \in Procs  PROVE AtStart(q)'
  <2>1. CASE q = p
    BY <1>1, <2>1, Moves DEF AtStart
  <2>2. CASE q # p
    <3>1. proc'[q] = proc[q] /\ proc[q].epoch <= row.epoch
      BY <1>1, <2>2, IInvParts DEF ProcInv, Snapshot, IInv, TypeOK
    <3>2. QED  BY <1>1, <1>2, <3>1 DEF AtStart
  <2>3. QED  BY <2>1, <2>2
<1>5. L!BudgetLeft(row)'
  BY <1>1 DEF L!BudgetLeft
<1>6. QED  BY <1>1, <1>3, <1>4, <1>5 DEF StartInv, AbsentInv, ReservedInv

(* A task is reserved before anything happened to it. *)
LEMMA ReserveStarts ==
    ASSUME IInv, StartInv, NEW p \in Procs, StartReserve(p)  PROVE StartInv'
<1>1. /\ row' = [row EXCEPT !.state = "reserved"] /\ row.state = "absent" /\ UNCHANGED effect
      /\ Snapshot(p, "start", row, "start") /\ row \in RowType
  BY DEF StartReserve, Write, JournalKept, IInv, TypeOK
<1>2. row.holder = None /\ row.attempts = 0
  BY <1>1, IInvParts DEF RowInv
<1>3. /\ row'.state = "reserved" /\ row'.epoch = row.epoch /\ row'.holder = None
      /\ row'.attempts = 0
  BY <1>1, <1>2 DEF RowType
<1>4. effect'[row'.epoch].state = "none"
  BY <1>1, <1>3, RowEpoch DEF StartInv, AbsentInv
<1>5. ASSUME NEW q \in Procs  PROVE AtStart(q)'
  <2>1. CASE q = p
    BY <1>1, <2>1, Moves DEF AtStart
  <2>2. CASE q # p
    BY <1>1, <2>2 DEF AtStart, Snapshot, At, StartInv, AbsentInv, IInv, TypeOK
  <2>3. QED  BY <2>1, <2>2
<1>6. L!BudgetLeft(row)'
  BY <1>3, LaunchAssumption DEF LaunchAssumption, L!BudgetLeft
<1>7. QED  BY <1>3, <1>4, <1>5, <1>6 DEF StartInv, AbsentInv, ReservedInv

(* Leases that run out and sessions that end change nothing of this. *)
LEMMA SameStart ==
    ASSUME IInv, StartInv, UNCHANGED <<row, fresh, proc, spent>>,
           \A e \in Epochs : effect'[e].state = effect[e].state
    PROVE  StartInv'
<1>1. AbsentInv'
  BY DEF StartInv, AbsentInv, At
<1>2. ASSUME row.state = "reserved", NEW q \in Procs  PROVE AtStart(q)'
  BY <1>2 DEF StartInv, ReservedInv, AtStart
<1>3. ASSUME row.state = "reserved", spent.crashes = 0, effect'[row.epoch].state = "terminal"
      PROVE  \E q \in Procs : Deciding(q)'
  <2>1. effect[row.epoch].state = "terminal"
    BY <1>3, RowEpoch
  <2>2. PICK q \in Procs : Deciding(q)
    BY <1>3, <2>1 DEF StartInv, ReservedInv
  <2>3. Deciding(q)'
    BY <2>2 DEF Deciding
  <2>4. QED  BY <2>3
<1>4. row.state = "reserved" => row.holder = None /\ L!BudgetLeft(row)
  BY DEF StartInv, ReservedInv
<1>5. row.state = "reserved" => row'.holder = None /\ L!BudgetLeft(row)'
  BY <1>4 DEF L!BudgetLeft
<1>6. QED  BY <1>1, <1>2, <1>3, <1>5 DEF StartInv, ReservedInv

LEMMA WorldStarts ==
    ASSUME IInv, StartInv, NEW e \in Epochs, LeaseExpires(e) \/ NativeEnds(e)  PROVE StartInv'
<1>1. effect \in [Epochs -> EffectType]
  BY DEF IInv, TypeOK
<1>2. \A d \in Epochs : effect'[d].state = effect[d].state
  BY <1>1 DEF LeaseExpires, NativeEnds, EffectType
<1>3. UNCHANGED <<row, fresh, proc, spent>>
  BY DEF LeaseExpires, NativeEnds
<1>4. QED  BY <1>2, <1>3, SameStart

(* An operation that goes on has begun. *)
LEMMA ContinueBusy ==
    ASSUME NEW p \in Procs, Continue(p) \/ Faults(p)  PROVE ~At(p, "idle")
<1>1. Launching(p) => ~At(p, "idle")
  BY DEF Launching, Reserve, BusyRetry, BusyGiveUp, CallAccepted, CallRefused,
         ReplySuperseded, ReplyLaunched, ReplyRejected, ReplyUnknown, ReplyRefused, ReplyLost,
         BlockRejected, LoseNative, Activate, Retire, Transfer, Link, Forward, Answer, At
<1>2. Settling(p) => ~At(p, "idle")
  BY DEF Settling, FinishDecide, CloseEffect, RetireFinal, Stop, AckStop, CleanupEnds, Lookup,
         ExpiredSuperseded, ExpiredAdopted, ExpiredAbsent, LoseExpired, Looked, At
<1>3. Starting(p) => ~At(p, "idle")
  BY DEF Starting, StartRead, StartDispatch, StartRefused, ReplaceCommit, At
<1>4. p = Bridge /\ Reconciling => ~At(p, "idle")
  BY DEF Reconciling, AutoDispatch, Reroute, ObserveRead, ObserveRefusal, ObserveFailure,
         ObserveNothing, At
<1>5. Faults(p) => ~At(p, "idle")
  BY DEF Faults, Crash, CallTimesOut, StopFails, LookupFails, At
<1>6. QED  BY <1>1, <1>2, <1>3, <1>4, <1>5 DEF Continue

(* Of a task that was never reserved there is nothing to go on with. *)
LEMMA AbsentStarts ==
    ASSUME IInv, StartInv, row.state = "absent", Next  PROVE StartInv'
<1>1. /\ \A p \in Procs : At(p, "idle")
      /\ row.epoch \in Epochs /\ effect[row.epoch].state = "none" /\ row.holder = None
      /\ \A e \in Epochs : effect[e].state = "none"
  BY RowEpoch, IInvParts DEF StartInv, AbsentInv, RowInv
<1>2. \A p \in Procs : ~Continue(p) /\ ~Faults(p)
  BY <1>1, ContinueBusy
<1>3. ASSUME NEW p \in Procs, Sweep(p)  PROVE StartInv'
  <2>1. PICK e \in Epochs : Cleanup(p, e)
    BY <1>1, <1>3 DEF Sweep, SweepExpired, SweepTerminal
  <2>2. UNCHANGED <<row, fresh, proc, spent, effect>>
    BY <2>1 DEF Cleanup, JournalKept, NotCommand
  <2>3. QED  BY <2>2, SameStart
<1>4. ~TickNext
  BY <1>1
  DEF TickNext, Resume, Advance, ResumeEnded, ResumeUnfilled, AdvanceExhausts, AdvanceBlocks,
      AdvanceRoutes, Observe
<1>5. ASSUME NEW p \in Commands, Given(p)  PROVE StartInv'
  <2>1. p \in Procs
    BY DEF Procs
  <2>2. StartReserve(p)
    BY <1>1, <1>5
    DEF Given, StartAgain, StartReissue, ReplaceRead, Block, FinishRead, L!BlockPredecessors
  <2>3. QED  BY <2>1, <2>2, ReserveStarts
<1>6. QED  BY <1>2, <1>3, <1>4, <1>5, WorldStarts DEF Next

(* What a step does to a task that is not absent, if it does not reserve   *)
(* it anew.                                                                *)
LEMMA ContinueFine ==
    ASSUME IInv, StartInv, NEW p \in Procs, Continue(p)
    PROVE  /\ row' = row \/ RowLeft
           /\ row.state = "reserved" => Fine(p) \/ RowLeft
<1>1. ASSUME Launching(p) \/ Settling(p), ~FinishDecide(p)
      PROVE  /\ row' = row \/ RowLeft
             /\ row.state = "reserved" => Fine(p) \/ RowLeft
  <2>1. OwnStep(p) \/ RowLeft
    BY <1>1, LaunchingOwn, SettlingOwn
  <2>2. proc[p].epoch # row.epoch => Fine(p) \/ RowLeft
    BY <2>1, OwnIsFine
  <2>3. row.state = "reserved" /\ proc[p].epoch = row.epoch => Fine(p) \/ RowLeft
    BY <1>1, LaunchingFine, SettlingFine
  <2>4. QED  BY <2>1, <2>2, <2>3 DEF OwnStep, RowKept
<1>2. QED  BY <1>1, FinishLeaves, StartingFine, ReconcilingFine DEF Continue

LEMMA NextStarts == IInv /\ StartInv /\ [Next]_vars => StartInv'
<1> SUFFICES ASSUME IInv, StartInv, [Next]_vars  PROVE StartInv'
  OBVIOUS
<1>1. ASSUME NEW p \in Procs,
             row' = row \/ RowLeft, row.state = "reserved" => Fine(p) \/ RowLeft,
             row.state # "absent"
      PROVE  StartInv'
  <2>1. CASE row.state = "reserved" /\ row' = row
    BY <1>1, <2>1, FineKeeps, LeftKeeps
  <2>2. CASE row.state # "reserved" \/ row' # row
    <3>1. RowLeft
      BY <1>1, <2>2 DEF RowLeft
    <3>2. QED  BY <3>1, LeftKeeps
  <2>3. QED  BY <2>1, <2>2
<1>2. CASE UNCHANGED vars
  BY <1>2, SameStart DEF vars
<1>3. CASE Next /\ row.state = "absent"
  BY <1>3, AbsentStarts
<1>4. CASE Next /\ row.state # "absent"
  <2>1. ASSUME NEW p \in Procs, Continue(p) \/ Sweep(p) \/ Faults(p)  PROVE StartInv'
    BY <1>1, <1>4, <2>1, ContinueFine, SweepFine, FaultsFine
  <2>2. ASSUME NEW p \in Commands, Given(p)  PROVE StartInv'
    <3>1. p \in Procs /\ ~StartReserve(p)
      BY <1>4 DEF Procs, StartReserve
    <3>2. CASE StartReissue(p)
      BY <3>1, <3>2, ReissueStarts
    <3>3. CASE ~StartReissue(p)
      BY <1>1, <1>4, <2>2, <3>1, <3>3, GivenFine
    <3>4. QED  BY <3>2, <3>3
  <2>3. ASSUME TickNext  PROVE StartInv'
    BY <1>1, <1>4, <2>3, TickLeaves, BridgeIsProc
  <2>4. QED  BY <1>4, <2>1, <2>2, <2>3, WorldStarts DEF Next
<1>5. QED  BY <1>2, <1>3, <1>4

(* sdk.py start(), effects.py expire_reservations: whoever ends the epoch  *)
(* of a reserved task goes on to end the task. So as long as no process    *)
(* died, and whatever timed out or outlived its lease, a reserved task at  *)
(* rest can still be started.                                              *)
THEOREM Startable == Spec => [](spent.crashes = 0 => ReservedCanStart)
<1>1. Init => StartInv
  BY DEF Init, StartInv, AbsentInv, ReservedInv, At, Idle, Unused
<1>2. StartInv => (spent.crashes = 0 => ReservedCanStart)
  BY DEF StartInv, ReservedInv, ReservedCanStart, Quiet, Deciding, Ending, At
<1>3. QED  BY <1>1, <1>2, NextStarts, Invariant, PTL DEF Spec
-----------------------------------------------------------------------------
(* A hand-over comes to its end.  transfer_ownership quarantines the source, *)
(* launches, links, forwards and interrupts, with the fence open for most of *)
(* it, and what it is about is what the row said when it began.  HandInv is  *)
(* what a process may go on to do with that source, Interrupted who still    *)
(* owes the interruption of a session that has a successor.                  *)

(* From the reservation of an epoch to the answer of the executor. *)
LaunchPoints == {"reserve", "busy", "call", "reply"}

(* Where it matters what a process remembers of the session it succeeds. *)
Guarded == LaunchPoints \union {"start", "startIO", "autoIO", "retire", "transfer",
                                "link", "forward"}

(* The source was launched, in an epoch before the one that succeeds it, and *)
(* is quarantined before anything is launched in its place.                  *)
HandInv(r) ==
    /\ r.src # None => native[r.src].state # "none"
    /\ r.pc \in {"start", "startIO"} => r.op = "start"
    /\ r.pc = "autoIO" => r.src = None
    /\ r.pc \in {"retire", "transfer", "link"} => r.src < r.epoch
    /\ r.pc \in {"transfer", "link", "forward"} => r.src \in retired
    /\ r.pc \in LaunchPoints =>
         \/ r.op = "start" \/ r.src = None
         \/ r.src \in retired /\ r.src < r.epoch
    /\ r.pc = "link" => r.sid = r.epoch

(* A replacement that is open is a new epoch. *)
ReplacingInv == row.state = "replacing" => row.holder < row.epoch

RetiredInv == \A d \in retired : native[d].state # "none"

(* Successors come later, and only the quarantined have one. *)
ChainInv == \A d \in Epochs : successor[d] # None => d \in retired /\ d < successor[d]

(* The successor of d receives d's mail, and d works on. *)
Beside(d) == successor[d] \notin retired \union {None} /\ native[d].state = "running"

(* p is about to interrupt d. *)
Interrupts(p, d) == At(p, "forward") /\ proc[p].src = d

Interrupted ==
    spent.crashes = 0 =>
        \A d \in Epochs : Beside(d) => \E p \in Procs : Interrupts(p, d)

HandoverInv ==
    /\ ReplacingInv /\ RetiredInv /\ ChainInv /\ Interrupted
    /\ \A p \in Procs : HandInv(proc[p])

(* No session is forgotten, and only one that never was begins to run. *)
NativeCalm ==
    \A d \in Epochs :
        /\ native[d].state # "none" => native'[d].state # "none"
        /\ native'[d].state = "running" => native[d].state \in {"running", "none"}

(* What a step of p must leave to the others, and do itself. *)
Hands(p) ==
    /\ \A q \in Procs \ {p} : proc'[q] = proc[q]
    /\ HandInv(proc[p])'
    /\ NativeCalm
    /\ retired \subseteq retired'
    /\ \A d \in retired' \ retired : native[d].state # "none"
    /\ \A d \in Epochs : successor'[d] # successor[d] =>
         /\ d \in retired /\ d < successor'[d]
         /\ successor'[d] \in retired \/ Interrupts(p, d)'
    /\ ReplacingInv'
    /\ spent'.crashes = 0 => spent.crashes = 0
    /\ spent'.crashes = 0 /\ At(p, "forward") => native'[proc[p].src].state # "running"

(* What a process that does not move remembers stays true. *)
LEMMA HandStays ==
    ASSUME IInv, NEW q \in Procs, HandInv(proc[q]), proc'[q] = proc[q],
           NativeCalm, retired \subseteq retired'
    PROVE  HandInv(proc[q])'
<1>1. proc[q].src # None => proc[q].src \in Epochs
  <2>1. proc[q].src \in 0..MaxEpoch
    BY DEF IInv, TypeOK, ProcType
  <2>2. QED  BY <2>1, LaunchAssumption DEF LaunchAssumption, None, Epochs
<1>2. proc[q].src # None => native'[proc[q].src].state # "none"
  BY <1>1 DEF HandInv, NativeCalm
<1>3. QED  BY <1>2 DEF HandInv

(* The inductive step, once for all actions. *)
LEMMA HandsKeep ==
    ASSUME IInv, IInv', HandoverInv, NEW p \in Procs, Hands(p)
    PROVE  HandoverInv'
<1>1. ASSUME NEW q \in Procs  PROVE HandInv(proc[q])'
  <2>1. CASE q = p
    BY <2>1 DEF Hands
  <2>2. CASE q # p
    BY <2>2, HandStays DEF Hands, HandoverInv
  <2>3. QED  BY <2>1, <2>2
<1>2. ASSUME NEW d \in retired'  PROVE native'[d].state # "none"
  <2>1. d \in Epochs /\ native[d].state # "none"
    BY <1>2 DEF IInv, TypeOK, Hands, HandoverInv, RetiredInv
  <2>2. QED  BY <2>1 DEF Hands, NativeCalm
<1>3. ASSUME NEW d \in Epochs, successor'[d] # None
      PROVE  d \in retired' /\ d < successor'[d]
  <2>1. CASE successor'[d] = successor[d]
    BY <1>3, <2>1 DEF Hands, HandoverInv, ChainInv
  <2>2. CASE successor'[d] # successor[d]
    BY <2>2 DEF Hands
  <2>3. QED  BY <2>1, <2>2
<1>4. ASSUME spent'.crashes = 0, NEW d \in Epochs, Beside(d)'
      PROVE  \E q \in Procs : Interrupts(q, d)'
  <2>1. successor'[d] # None /\ successor'[d] \notin retired /\ native'[d].state = "running"
    BY <1>4 DEF Hands, Beside
  <2>2. CASE successor'[d] # successor[d]
    BY <2>1, <2>2 DEF Hands
  <2>3. CASE successor'[d] = successor[d]
    <3>1. d \in retired
      BY <2>1, <2>3 DEF HandoverInv, ChainInv
    <3>2. native[d].state = "running"
      BY <2>1, <3>1 DEF Hands, NativeCalm, HandoverInv, RetiredInv
    <3>3. PICK q \in Procs : Interrupts(q, d)
      BY <1>4, <2>1, <2>3, <3>2 DEF Hands, HandoverInv, Interrupted, Beside
    <3>4. q # p
      BY <1>4, <2>1, <3>3 DEF Hands, Interrupts
    <3>5. Interrupts(q, d)'
      BY <3>3, <3>4 DEF Hands, Interrupts, At
    <3>6. QED  BY <3>5
  <2>4. QED  BY <2>2, <2>3
<1>5. QED
  BY <1>1, <1>2, <1>3, <1>4
  DEF Hands, HandoverInv, RetiredInv, ChainInv, Interrupted

-----------------------------------------------------------------------------

(* The session that holds the task was launched. *)
LEMMA HolderLives == IInv /\ row.holder # None => native[row.holder].state # "none"
  BY DEF IInv, RowInv, Known

(* An idle process has no source, and guards nothing. *)
LEMMA IdleHand == HandInv(Idle)'
  BY DEF HandInv, Idle, LaunchPoints, None

(* p goes where its source no longer matters. *)
Off(p) ==
    /\ \A q \in Procs \ {p} : proc'[q] = proc[q]
    /\ proc'[p].pc \notin Guarded
    /\ proc'[p].src \in {None, proc[p].src, row.holder}

(* p goes on with its launch. *)
Onward(p) ==
    /\ \A q \in Procs \ {p} : proc'[q] = proc[q]
    /\ proc[p].pc \in LaunchPoints
    /\ proc'[p].src = proc[p].src /\ proc'[p].op = proc[p].op
    /\ proc'[p].epoch = proc[p].epoch
    /\ \/ proc'[p].pc \in LaunchPoints \union {"activate"}
       \/ /\ proc'[p].pc = "link" /\ proc'[p].sid = proc[p].epoch
          /\ proc[p].op # "start" /\ proc[p].src # None

LEMMA SourceIsEpoch ==
    ASSUME IInv, NEW p \in Procs, proc[p].src # None  PROVE proc[p].src \in Epochs
<1>1. proc[p].src \in 0..MaxEpoch
  BY DEF IInv, TypeOK, ProcType
<1>2. QED  BY <1>1, LaunchAssumption DEF LaunchAssumption, None, Epochs

LEMMA HolderIsEpoch ==
    ASSUME IInv, row.holder # None  PROVE row.holder \in Epochs
<1>1. row.holder \in 0..MaxEpoch
  BY DEF IInv, TypeOK, RowType
<1>2. QED  BY <1>1, LaunchAssumption DEF LaunchAssumption, None, Epochs

LEMMA OffHand ==
    ASSUME IInv, NEW p \in Procs, HandInv(proc[p]), Off(p), NativeCalm
    PROVE  HandInv(proc[p])'
<1>1. proc'[p].src # None => native'[proc'[p].src].state # "none"
  <2>1. CASE proc'[p].src = proc[p].src
    BY <2>1, SourceIsEpoch DEF HandInv, NativeCalm
  <2>2. CASE proc'[p].src = row.holder
    BY <2>2, HolderLives, HolderIsEpoch DEF NativeCalm
  <2>3. QED  BY <2>1, <2>2 DEF Off
<1>2. QED  BY <1>1 DEF Off, HandInv, Guarded, LaunchPoints

LEMMA OnwardHand ==
    ASSUME IInv, NEW p \in Procs, HandInv(proc[p]), Onward(p), NativeCalm,
           retired' = retired
    PROVE  HandInv(proc[p])'
<1>1. proc'[p].src # None => native'[proc'[p].src].state # "none"
  BY SourceIsEpoch DEF HandInv, NativeCalm, Onward
<1>2. \/ proc[p].op = "start" \/ proc[p].src = None
      \/ proc[p].src \in retired /\ proc[p].src < proc[p].epoch
  BY DEF Onward, HandInv
<1>3. QED  BY <1>1, <1>2 DEF Onward, HandInv, LaunchPoints

(* What most actions leave alone. *)
Tame(p) ==
    /\ ~At(p, "forward")
    /\ UNCHANGED <<retired, successor>>
    /\ row' = row \/ row'.state # "replacing"
    /\ NativeCalm
    /\ spent'.crashes = 0 => spent.crashes = 0

LEMMA TameHands ==
    ASSUME IInv, HandoverInv, NEW p \in Procs, Tame(p),
           \A q \in Procs \ {p} : proc'[q] = proc[q], HandInv(proc[p])'
    PROVE  Hands(p)
<1>1. ReplacingInv'
  BY DEF Tame, HandoverInv, ReplacingInv
<1>2. QED  BY <1>1 DEF Tame, Hands

LEMMA TameOff ==
    ASSUME IInv, HandoverInv, NEW p \in Procs, Tame(p), Off(p) \/ Onward(p)
    PROVE  Hands(p)
<1>1. HandInv(proc[p])'
  BY OffHand, OnwardHand DEF HandoverInv, Tame
<1>2. \A q \in Procs \ {p} : proc'[q] = proc[q]
  BY DEF Off, Onward
<1>3. QED  BY <1>1, <1>2, TameHands

LEMMA ReturnOff ==
    ASSUME IInv, NEW p \in Procs, Return(p)  PROVE Off(p)
  BY DEF IInv, TypeOK, Return, Off, Idle, Guarded, LaunchPoints, None

LEMMA GotoOff ==
    ASSUME IInv, NEW p \in Procs, NEW pc, Goto(p, pc), pc \notin Guarded  PROVE Off(p)
<1>1. proc \in [Procs -> ProcType] /\ proc[p] \in ProcType
  BY DEF IInv, TypeOK
<1>2. proc'[p].pc = pc /\ proc'[p].src = proc[p].src
  BY <1>1 DEF Goto, ProcType
<1>3. QED  BY <1>1, <1>2 DEF Off, Goto

LEMMA GotoOnward ==
    ASSUME IInv, NEW p \in Procs, NEW pc, Goto(p, pc),
           proc[p].pc \in LaunchPoints, pc \in LaunchPoints
    PROVE  Onward(p)
<1>1. proc \in [Procs -> ProcType] /\ proc[p] \in ProcType
  BY DEF IInv, TypeOK
<1>2. /\ proc'[p].pc = pc /\ proc'[p].src = proc[p].src
      /\ proc'[p].op = proc[p].op /\ proc'[p].epoch = proc[p].epoch
  BY <1>1 DEF Goto, ProcType
<1>3. QED  BY <1>1, <1>2 DEF Onward, Goto

LEMMA LaunchedOnward ==
    ASSUME IInv, NEW p \in Procs, Launched(p, proc[p].epoch), proc[p].pc \in LaunchPoints
    PROVE  Onward(p)
<1>1. proc \in [Procs -> ProcType] /\ proc[p] \in ProcType
  BY DEF IInv, TypeOK
<1>2. /\ proc'[p].src = proc[p].src /\ proc'[p].sid = proc[p].epoch
      /\ proc'[p].op = proc[p].op /\ proc'[p].epoch = proc[p].epoch
  BY <1>1 DEF Launched, ProcType
<1>3. proc'[p].pc = IF proc[p].src = None \/ proc[p].op = "start" THEN "activate" ELSE "link"
  BY <1>1 DEF Launched, ProcType
<1>4. \A q \in Procs \ {p} : proc'[q] = proc[q]
  BY <1>1 DEF Launched
<1>5. QED  BY <1>2, <1>3, <1>4 DEF Onward

(* Reading the row, p goes where the source does not matter yet. *)
LEMMA SnapshotOff ==
    ASSUME IInv, NEW p \in Procs, NEW op, NEW r, NEW pc, Snapshot(p, op, r, pc),
           r.holder \in {None, row.holder}, pc \notin Guarded
    PROVE  Off(p)
<1>1. proc \in [Procs -> ProcType]
  BY DEF IInv, TypeOK
<1>2. proc'[p].pc = pc /\ proc'[p].src = r.holder
  BY <1>1 DEF Snapshot, Idle
<1>3. QED  BY <1>1, <1>2 DEF Off, Snapshot

LEMMA CalmKept == NativeKept => NativeCalm
  BY DEF NativeKept, NativeCalm

(* A request makes at most the session of its own epoch run. *)
LEMMA CalmCreated ==
    ASSUME IInv, NEW p \in Procs, native' = Created(p) \/ native' = native
    PROVE  NativeCalm
<1>1. native \in [Epochs -> NativeType]
  BY DEF IInv, TypeOK
<1>2. CASE native' = Created(p)
  BY <1>1, <1>2 DEF Created, NativeCalm
<1>3. CASE native' = native
  BY <1>3, CalmKept DEF NativeKept
<1>4. QED  BY <1>2, <1>3

(* A failure that is recorded, and one that is not, opens no epoch. *)
LEMMA FailTame ==
    ASSUME IInv, NEW state \in {"blocked", "lost"}, NEW expired, Fail(state, expired)
    PROVE  row' = row \/ row'.state # "replacing"
<1>1. row \in RowType
  BY DEF IInv, TypeOK
<1>2. L!ChargedFailure(row, state, expired).state # "replacing"
  BY <1>1 DEF L!ChargedFailure, RowType
<1>3. QED  BY <1>2 DEF Fail, Write, RowKept

LEMMA ActivateTame ==
    ASSUME IInv, NEW p \in Procs, Activate(p)
    PROVE  row' = row \/ row'.state # "replacing"
<1>1. row \in RowType
  BY DEF IInv, TypeOK
<1>2. [L!Activated(row, proc[p].sid) EXCEPT !.ws = proc[p].ws].state = "active"
  BY <1>1 DEF L!Activated, RowType
<1>3. QED  BY <1>2 DEF Activate, Write, RowKept

-----------------------------------------------------------------------------

(* The steps of a launch, but for those that hand the source over. *)
LEMMA LaunchingHands ==
    ASSUME IInv, HandoverInv, NEW p \in Procs, Launching(p),
           ~Retire(p), ~Transfer(p), ~Link(p), ~Forward(p)
    PROVE  Hands(p)
<1>0. proc \in [Procs -> ProcType]
  BY DEF IInv, TypeOK
<1>1. Reserve(p) => Off(p) \/ Onward(p)
  <2>1. SUFFICES ASSUME Reserve(p)  PROVE Off(p) \/ Onward(p)
    OBVIOUS
  <2>2. proc[p].pc \in LaunchPoints
    BY <2>1 DEF Reserve, At, LaunchPoints
  <2>3. Return(p) \/ Launched(p, proc[p].epoch) \/ Goto(p, "busy") \/ Goto(p, "call")
    BY <2>1 DEF Reserve
  <2>4. "busy" \in LaunchPoints /\ "call" \in LaunchPoints
    BY DEF LaunchPoints
  <2>5. QED  BY <2>2, <2>3, <2>4, ReturnOff, LaunchedOnward, GotoOnward
<1>2. BusyRetry(p) => Onward(p)
  BY GotoOnward DEF BusyRetry, At, LaunchPoints
<1>3. CallAccepted(p) \/ CallRefused(p) => Onward(p)
  <2>1. SUFFICES ASSUME CallAccepted(p) \/ CallRefused(p)  PROVE Onward(p)
    OBVIOUS
  <2>2. PICK reply : proc' = [proc EXCEPT ![p].pc = "reply", ![p].reply = reply]
    BY <2>1 DEF CallAccepted, CallRefused
  <2>3. /\ proc'[p].pc = "reply" /\ proc'[p].src = proc[p].src
        /\ proc'[p].op = proc[p].op /\ proc'[p].epoch = proc[p].epoch
    BY <1>0, <2>2 DEF ProcType
  <2>4. \A q \in Procs \ {p} : proc'[q] = proc[q]
    BY <1>0, <2>2
  <2>5. proc[p].pc \in LaunchPoints
    BY <2>1 DEF CallAccepted, CallRefused, At, LaunchPoints
  <2>6. QED  BY <2>3, <2>4, <2>5 DEF Onward, LaunchPoints
<1>4. ReplySuperseded(p) => Off(p)
  <2>1. SUFFICES ASSUME ReplySuperseded(p)  PROVE Off(p)
    OBVIOUS
  <2>2. proc' = [proc EXCEPT ![p].pc = "stop", ![p].ws = native[proc[p].epoch].ws]
    BY <2>1 DEF ReplySuperseded
  <2>3. proc'[p].pc = "stop" /\ proc'[p].src = proc[p].src
    BY <1>0, <2>2 DEF ProcType
  <2>4. QED  BY <1>0, <2>2, <2>3 DEF Off, Guarded, LaunchPoints
<1>5. ReplyLaunched(p) => Off(p) \/ Onward(p)
  BY ReturnOff, LaunchedOnward DEF ReplyLaunched, Answer, At, LaunchPoints
<1>6. ReplyRejected(p) \/ ReplyLost(p) => Off(p)
  BY ReturnOff, GotoOff DEF ReplyRejected, ReplyLost, Guarded, LaunchPoints
<1>7. ASSUME \/ BusyGiveUp(p) \/ ReplyUnknown(p) \/ ReplyRefused(p) \/ BlockRejected(p)
             \/ LoseNative(p) \/ Activate(p)
      PROVE  Off(p)
  BY <1>7, ReturnOff
  DEF BusyGiveUp, ReplyUnknown, ReplyRefused, BlockRejected, LoseNative, Activate
<1>8. Off(p) \/ Onward(p)
  BY <1>1, <1>2, <1>3, <1>4, <1>5, <1>6, <1>7 DEF Launching
<1>9. NativeCalm
  <2>1. CASE CallAccepted(p)
    BY <2>1, CalmCreated DEF CallAccepted
  <2>2. CASE ~CallAccepted(p)
    BY <2>2, CalmKept
    DEF Launching, Reserve, BusyRetry, BusyGiveUp, CallRefused, ReplySuperseded,
        ReplyLaunched, ReplyRejected, ReplyUnknown, ReplyRefused, ReplyLost, BlockRejected,
        LoseNative, Activate, OnlyProc
  <2>3. QED  BY <2>1, <2>2
<1>10. row' = row \/ row'.state # "replacing"
  <2>1. BlockRejected(p) \/ LoseNative(p) \/ Activate(p) => row' = row \/ row'.state # "replacing"
    BY FailTame, ActivateTame DEF BlockRejected, LoseNative
  <2>2. QED
    BY <2>1
    DEF Launching, Reserve, BusyRetry, BusyGiveUp, CallAccepted, CallRefused,
        ReplySuperseded, ReplyLaunched, ReplyRejected, ReplyUnknown, ReplyRefused, ReplyLost,
        OnlyProc, RowKept
<1>11. UNCHANGED <<retired, successor>> /\ NotCommand
  BY DEF Launching, Reserve, BusyRetry, BusyGiveUp, CallAccepted, CallRefused,
         ReplySuperseded, ReplyLaunched, ReplyRejected, ReplyUnknown, ReplyRefused, ReplyLost,
         BlockRejected, LoseNative, Activate, OnlyProc, OwnersKept
<1>12. ~At(p, "forward")
  BY DEF Launching, Reserve, BusyRetry, BusyGiveUp, CallAccepted, CallRefused,
         ReplySuperseded, ReplyLaunched, ReplyRejected, ReplyUnknown, ReplyRefused, ReplyLost,
         BlockRejected, LoseNative, Activate, Answer, At
<1>13. QED  BY <1>8, <1>9, <1>10, <1>11, <1>12, TameOff DEF Tame, NotCommand

(* The source is quarantined. *)
LEMMA RetireHands ==
    ASSUME IInv, HandoverInv, NEW p \in Procs, Retire(p)  PROVE Hands(p)
<1>0. proc \in [Procs -> ProcType] /\ HandInv(proc[p]) /\ proc[p].pc = "retire"
  BY DEF IInv, TypeOK, HandoverInv, Retire, At
<1>1. proc[p].src # None /\ native[proc[p].src].state # "none" /\ proc[p].src < proc[p].epoch
  BY <1>0 DEF IInv, ProcInv, Succeeding, HandInv
<1>2. /\ proc'[p].pc = "transfer" /\ proc'[p].src = proc[p].src
      /\ proc'[p].epoch = proc[p].epoch
      /\ \A q \in Procs \ {p} : proc'[q] = proc[q]
  BY <1>0 DEF Retire, Goto, ProcType
<1>3. retired' = retired \union {proc[p].src} /\ native' = native /\ successor' = successor
      /\ row' = row /\ spent' = spent
  BY DEF Retire, NativeKept, RowKept, NotCommand
<1>4. HandInv(proc[p])'
  BY <1>1, <1>2, <1>3 DEF HandInv, LaunchPoints
<1>5. ReplacingInv' /\ NativeCalm
  BY <1>3, CalmKept DEF HandoverInv, ReplacingInv, NativeKept
<1>6. QED  BY <1>0, <1>1, <1>2, <1>3, <1>4, <1>5 DEF Hands, At

(* So it is when a successor is launched, or a recorded one is taken. *)
LEMMA TransferHands ==
    ASSUME IInv, HandoverInv, NEW p \in Procs, Transfer(p)  PROVE Hands(p)
<1>0. proc \in [Procs -> ProcType] /\ HandInv(proc[p]) /\ proc[p].pc = "transfer"
  BY DEF IInv, TypeOK, HandoverInv, Transfer, At
<1>1. proc[p].src \in retired /\ proc[p].src < proc[p].epoch
  BY <1>0 DEF HandInv
<1>2. Tame(p)
  BY <1>0, CalmKept
  DEF Transfer, OnlyProc, RowKept, OwnersKept, NotCommand, Tame, At
<1>3. Return(p) => Hands(p)
  BY <1>2, ReturnOff, TameOff
<1>4. ASSUME proc'[p].pc \in {"reserve", "forward"}, proc'[p].src = proc[p].src,
             proc'[p].epoch = proc[p].epoch, \A q \in Procs \ {p} : proc'[q] = proc[q]
      PROVE  Hands(p)
  <2>1. retired' = retired /\ native' = native
    BY DEF Transfer, OnlyProc, OwnersKept, NativeKept
  <2>2. HandInv(proc[p])'
    BY <1>0, <1>1, <1>4, <2>1 DEF HandInv, LaunchPoints
  <2>3. QED  BY <1>2, <1>4, <2>2, TameHands
<1>5. CASE Goto(p, "reserve")
  BY <1>0, <1>4, <1>5 DEF Goto, ProcType
<1>6. CASE proc' = [proc EXCEPT ![p].sid = successor[proc[p].src], ![p].pc = "forward"]
  BY <1>0, <1>4, <1>6 DEF ProcType
<1>7. QED  BY <1>3, <1>5, <1>6 DEF Transfer

(* The one step that records a successor: p goes on to interrupt the       *)
(* source, or the successor is itself quarantined already.                 *)
LEMMA LinkHands ==
    ASSUME IInv, HandoverInv, NEW p \in Procs, Link(p)  PROVE Hands(p)
<1> DEFINE src == proc[p].src
           sid == proc[p].sid
<1>0. /\ proc \in [Procs -> ProcType] /\ successor \in [Epochs -> 0..MaxEpoch]
      /\ HandInv(proc[p]) /\ proc[p].pc = "link"
  BY DEF IInv, TypeOK, HandoverInv, Link, At
<1>1. src \in retired /\ src < sid /\ native[src].state # "none" /\ src # None
  BY <1>0 DEF HandInv, IInv, ProcInv, Succeeding
<1>2. /\ UNCHANGED <<row, native, retired, spent>>
      /\ ReplacingInv' /\ NativeCalm
  BY CalmKept DEF Link, RowKept, NativeKept, NotCommand, HandoverInv, ReplacingInv
<1>3. Return(p) \/ Goto(p, "forward")
  BY DEF Link
<1>4. \A q \in Procs \ {p} : proc'[q] = proc[q]
  BY <1>0, <1>3 DEF Return, Goto
<1>5. Goto(p, "forward") => proc'[p].pc = "forward" /\ proc'[p].src = src
  BY <1>0 DEF Goto, ProcType
<1>6. HandInv(proc[p])'
  <2>1. CASE Return(p)
    BY <1>0, <2>1, IdleHand DEF Return, HandInv, Idle, LaunchPoints, None
  <2>2. CASE Goto(p, "forward")
    BY <1>1, <1>2, <1>5, <2>2 DEF HandInv, LaunchPoints
  <2>3. QED  BY <1>3, <2>1, <2>2
<1>7. ASSUME NEW d \in Epochs, successor'[d] # successor[d]
      PROVE  /\ d \in retired /\ d < successor'[d]
             /\ successor'[d] \in retired \/ Interrupts(p, d)'
  <2>1. successor' = [successor EXCEPT ![src] = sid]
        /\ (sid \in retired \/ Goto(p, "forward"))
    BY <1>7 DEF Link
  <2>2. d = src /\ successor'[d] = sid
    BY <1>0, <1>7, <2>1
  <2>3. QED  BY <1>1, <1>5, <2>1, <2>2 DEF Interrupts, At
<1>8. ~At(p, "forward")
  BY <1>0 DEF At
<1>9. QED  BY <1>2, <1>4, <1>6, <1>7, <1>8 DEF Hands

(* The one step that leaves a hand-over behind: the source is stopped. *)
LEMMA ForwardHands ==
    ASSUME IInv, HandoverInv, NEW p \in Procs, Forward(p)  PROVE Hands(p)
<1>0. /\ proc \in [Procs -> ProcType] /\ native \in [Epochs -> NativeType]
      /\ proc[p].pc = "forward" /\ proc[p].src \in Epochs
  BY SourceIsEpoch DEF IInv, TypeOK, ProcInv, Succeeding, Forward, At
<1>1. NativeCalm /\ native'[proc[p].src].state # "running"
  BY <1>0 DEF Forward, NativeCalm, NativeType
<1>2. Off(p)
  BY GotoOff DEF Forward, Guarded, LaunchPoints
<1>3. HandInv(proc[p])'
  BY <1>1, <1>2, OffHand DEF HandoverInv
<1>4. UNCHANGED <<row, retired, successor, spent>>
  BY DEF Forward, RowKept, OwnersKept, NotCommand
<1>5. ReplacingInv'
  BY <1>4 DEF HandoverInv, ReplacingInv
<1>6. QED  BY <1>1, <1>2, <1>3, <1>4, <1>5 DEF Hands, Off

-----------------------------------------------------------------------------

(* The holder of a finished task is quarantined. *)
LEMMA RetireFinalHands ==
    ASSUME IInv, HandoverInv, NEW p \in Procs, RetireFinal(p)  PROVE Hands(p)
<1>0. proc[p].pc = "retireFinal" /\ HandInv(proc[p])
  BY DEF HandoverInv, RetireFinal, At
<1>1. native[proc[p].src].state # "none"
  BY <1>0 DEF IInv, ProcInv, Succeeding, HandInv
<1>2. retired' = retired \union {proc[p].src} /\ UNCHANGED <<row, native, successor, spent>>
  BY DEF RetireFinal, NativeKept, RowKept, NotCommand
<1>3. NativeCalm /\ ReplacingInv'
  BY <1>2, CalmKept DEF HandoverInv, ReplacingInv, NativeKept
<1>4. Off(p)
  BY GotoOff DEF RetireFinal, Guarded, LaunchPoints
<1>5. HandInv(proc[p])'
  BY <1>0, <1>3, <1>4, OffHand
<1>6. QED  BY <1>0, <1>1, <1>2, <1>3, <1>4, <1>5 DEF Hands, Off, At

(* The steps of a finish, of a stop and of an expiry sweep. *)
LEMMA SettlingHands ==
    ASSUME IInv, HandoverInv, NEW p \in Procs, Settling(p), ~RetireFinal(p)  PROVE Hands(p)
<1>0. proc \in [Procs -> ProcType] /\ row \in RowType /\ native \in [Epochs -> NativeType]
  BY DEF IInv, TypeOK
<1>1. FinishDecide(p) => Off(p)
  BY ReturnOff, SnapshotOff DEF FinishDecide, Guarded, LaunchPoints
<1>2. CloseEffect(p) => Off(p)
  <2>1. SUFFICES ASSUME CloseEffect(p)  PROVE Off(p)
    OBVIOUS
  <2>2. PICK ws : proc' = [proc EXCEPT ![p].ws = ws,
                               ![p].pc = IF proc[p].src # None THEN "retireFinal"
                                         ELSE IF ws # None THEN "stop" ELSE "stopped"]
    BY <2>1 DEF CloseEffect
  <2>3. /\ proc'[p].pc \in {"retireFinal", "stop", "stopped"}
        /\ proc'[p].src = proc[p].src
    BY <1>0, <2>2 DEF ProcType
  <2>4. \A q \in Procs \ {p} : proc'[q] = proc[q]
    BY <1>0, <2>2
  <2>5. QED  BY <2>3, <2>4 DEF Off, Guarded, LaunchPoints
<1>3. Stop(p) \/ AckStop(p) \/ CleanupEnds(p) => Off(p)
  BY ReturnOff, GotoOff DEF Stop, AckStop, CleanupEnds, Guarded, LaunchPoints
<1>4. Lookup(p) => Off(p)
  <2>1. SUFFICES ASSUME Lookup(p)  PROVE Off(p)
    OBVIOUS
  <2>2. PICK sid, ws : proc' = [proc EXCEPT ![p].pc = "looked", ![p].sid = sid, ![p].ws = ws]
    BY <2>1 DEF Lookup
  <2>3. proc'[p].pc = "looked" /\ proc'[p].src = proc[p].src
    BY <1>0, <2>2 DEF ProcType
  <2>4. \A q \in Procs \ {p} : proc'[q] = proc[q]
    BY <1>0, <2>2
  <2>5. QED  BY <2>3, <2>4 DEF Off, Guarded, LaunchPoints
<1>5. ExpiredSuperseded(p) \/ ExpiredAdopted(p) \/ ExpiredAbsent(p) \/ LoseExpired(p) => Off(p)
  BY ReturnOff, GotoOff
  DEF ExpiredSuperseded, ExpiredAdopted, ExpiredAbsent, LoseExpired, Guarded, LaunchPoints
<1>6. Off(p)
  BY <1>1, <1>2, <1>3, <1>4, <1>5 DEF Settling
<1>7. NativeCalm
  <2>1. CASE Stop(p)
    BY <1>0, <2>1 DEF Stop, NativeCalm, NativeType
  <2>2. CASE ~Stop(p)
    BY <2>2, CalmKept
    DEF Settling, FinishDecide, CloseEffect, AckStop, CleanupEnds, Lookup,
        ExpiredSuperseded, ExpiredAdopted, ExpiredAbsent, LoseExpired, OnlyProc
  <2>3. QED  BY <2>1, <2>2
<1>8. row' = row \/ row'.state # "replacing"
  <2>1. CASE LoseExpired(p)
    BY <2>1, FailTame DEF LoseExpired
  <2>2. CASE FinishDecide(p)
    <3>1. \A s \in {"cancelled", "completed"} : L!Settled(row, s).state = s
      BY <1>0 DEF L!Settled, RowType
    <3>2. QED  BY <2>2, <3>1 DEF FinishDecide, Write, RowKept
  <2>3. CASE ~LoseExpired(p) /\ ~FinishDecide(p)
    BY <2>3
    DEF Settling, RetireFinal, CloseEffect, Stop, AckStop, CleanupEnds, Lookup,
        ExpiredSuperseded, ExpiredAdopted, ExpiredAbsent, OnlyProc, RowKept
  <2>4. QED  BY <2>1, <2>2, <2>3
<1>9. UNCHANGED <<retired, successor>> /\ NotCommand
  BY DEF Settling, FinishDecide, CloseEffect, Stop, AckStop, CleanupEnds, Lookup,
         ExpiredSuperseded, ExpiredAdopted, ExpiredAbsent, LoseExpired, OnlyProc, OwnersKept
<1>10. ~At(p, "forward")
  BY DEF Settling, FinishDecide, CloseEffect, Stop, AckStop, CleanupEnds, Lookup,
         ExpiredSuperseded, ExpiredAdopted, ExpiredAbsent, LoseExpired, Looked, At
<1>11. QED  BY <1>6, <1>7, <1>8, <1>9, <1>10, TameOff DEF Tame, NotCommand

-----------------------------------------------------------------------------

(* What a snapshot of r, at pc, remembers. *)
LEMMA SnapshotHand ==
    ASSUME IInv, NEW p \in Procs, NEW op, NEW r, NEW pc, Snapshot(p, op, r, pc),
           r.holder \in {None, row.holder}, NativeKept,
           pc \in {"start", "startIO"} => op = "start",
           pc = "autoIO" => r.holder = None,
           pc = "retire" => r.holder < r.epoch,
           pc \notin Guarded \ {"start", "startIO", "autoIO", "retire"}
    PROVE  HandInv(proc[p])' /\ \A q \in Procs \ {p} : proc'[q] = proc[q]
<1>1. proc \in [Procs -> ProcType]
  BY DEF IInv, TypeOK
<1>2. /\ proc'[p].pc = pc /\ proc'[p].src = r.holder /\ proc'[p].op = op
      /\ proc'[p].epoch = r.epoch
  BY <1>1 DEF Snapshot, Idle
<1>3. r.holder # None => native'[r.holder].state # "none"
  BY HolderLives DEF NativeKept
<1>4. HandInv(proc[p])'
  BY <1>2, <1>3 DEF HandInv, Guarded, LaunchPoints
<1>5. QED  BY <1>1, <1>4 DEF Snapshot

(* A new epoch is later than any the holder can be of. *)
LEMMA NextHolder ==
    ASSUME IInv, NEW c \in BOOLEAN, NEW rec \in BOOLEAN
    PROVE  LET r == L!NextEpoch(row, c, rec) IN r.holder = row.holder /\ r.holder < r.epoch
<1>1. row \in RowType
  BY DEF IInv, TypeOK
<1>2. row.holder \in Nat /\ row.epoch \in Nat /\ row.holder <= row.epoch
  BY <1>1, LaunchAssumption
  DEF LaunchAssumption, IInv, RowInv, Known, RowType, Epochs, None
<1>3. L!NextEpoch(row, c, rec).holder = row.holder /\ L!NextEpoch(row, c, rec).epoch = row.epoch + 1
  BY <1>1 DEF L!NextEpoch, RowType
<1>4. QED  BY <1>2, <1>3

LEMMA ReplaceCommitHands ==
    ASSUME IInv, HandoverInv, NEW p \in Procs, ReplaceCommit(p)  PROVE Hands(p)
<1>1. Reopened.holder = row.holder /\ (Reopened.state = "replacing" => Reopened.holder < Reopened.epoch)
  <2>1. CASE row.state = "replacing" /\ ~row.recovery
    BY <2>1 DEF Reopened, HandoverInv, ReplacingInv
  <2>2. CASE ~(row.state = "replacing" /\ ~row.recovery)
    <3>1. Reopened = L!NextEpoch(row, row.state = "replacing", FALSE)
      BY <2>2 DEF Reopened
    <3>2. QED  BY <3>1, NextHolder
  <2>3. QED  BY <2>1, <2>2
<1>2. Reopened.state = "replacing"
  <2>1. row \in RowType
    BY DEF IInv, TypeOK
  <2>2. L!NextEpoch(row, row.state = "replacing", FALSE).state = "replacing"
    BY <2>1 DEF L!NextEpoch, RowType
  <2>3. QED  BY <2>2 DEF Reopened
<1>3. /\ ~At(p, "forward") /\ UNCHANGED <<retired, successor, native, spent>>
      /\ NativeKept /\ NativeCalm
  BY CalmKept DEF ReplaceCommit, At, OwnersKept, NativeKept, NotCommand
<1>4. CASE Snapshot(p, "replace", Reopened, "retire") /\ row' = Reopened
  <2>1. HandInv(proc[p])' /\ \A q \in Procs \ {p} : proc'[q] = proc[q]
    BY <1>1, <1>2, <1>3, <1>4, SnapshotHand DEF Guarded, LaunchPoints
  <2>2. ReplacingInv'
    BY <1>1, <1>4 DEF ReplacingInv
  <2>3. QED  BY <1>3, <2>1, <2>2 DEF Hands
<1>5. CASE Return(p) /\ RowKept
  <2>1. Tame(p)
    BY <1>3, <1>5 DEF Tame, RowKept
  <2>2. QED  BY <1>5, <2>1, ReturnOff, TameOff
<1>6. QED  BY <1>4, <1>5 DEF ReplaceCommit, Write

(* A dispatch that did not find the task moved on reserves. *)
LEMMA DispatchHands ==
    ASSUME IInv, HandoverInv, NEW p \in Procs, Tame(p), NativeKept,
           proc[p].pc \in {"startIO", "autoIO"}, Goto(p, "reserve")
    PROVE  Hands(p)
<1>1. proc \in [Procs -> ProcType] /\ HandInv(proc[p])
  BY DEF IInv, TypeOK, HandoverInv
<1>2. /\ proc'[p].pc = "reserve" /\ proc'[p].src = proc[p].src /\ proc'[p].op = proc[p].op
      /\ \A q \in Procs \ {p} : proc'[q] = proc[q]
  BY <1>1 DEF Goto, ProcType
<1>3. proc[p].op = "start" \/ proc[p].src = None
  BY <1>1 DEF HandInv
<1>4. HandInv(proc[p])'
  BY <1>1, <1>2, <1>3 DEF HandInv, LaunchPoints, NativeKept
<1>5. QED  BY <1>2, <1>4, TameHands

LEMMA StartingHands ==
    ASSUME IInv, HandoverInv, NEW p \in Procs, Starting(p)  PROVE Hands(p)
<1>1. ASSUME StartRead(p)  PROVE Hands(p)
  <2>1. Tame(p) /\ NativeKept
    BY <1>1, CalmKept DEF StartRead, At, OwnersKept, RowKept, RowRead, NotCommand, Tame
  <2>2. CASE Return(p)
    BY <2>1, <2>2, ReturnOff, TameOff
  <2>3. CASE Snapshot(p, "start", row, "startIO")
    BY <2>1, <2>3, SnapshotHand, TameHands DEF Guarded, LaunchPoints
  <2>4. QED  BY <1>1, <2>2, <2>3 DEF StartRead
<1>2. ASSUME StartDispatch(p) \/ StartRefused(p)  PROVE Hands(p)
  <2>1. Tame(p) /\ NativeKept /\ proc[p].pc = "startIO"
    BY <1>2, CalmKept
    DEF StartDispatch, StartRefused, At, OnlyProc, OwnersKept, RowKept, NotCommand, Tame
  <2>2. Return(p) \/ Goto(p, "reserve")
    BY <1>2 DEF StartDispatch, StartRefused
  <2>3. QED  BY <2>1, <2>2, ReturnOff, TameOff, DispatchHands
<1>3. QED  BY <1>1, <1>2, ReplaceCommitHands DEF Starting

(* How _launch_prepared goes on does not depend on more than the holder. *)
LEMMA PreparedHands ==
    ASSUME IInv, HandoverInv, NEW r, Snapshot(Bridge, "auto", r, Prepared(r)),
           r.holder = row.holder, r.holder < r.epoch, ReplacingInv',
           At(Bridge, "idle") \/ At(Bridge, "route"),
           UNCHANGED <<retired, successor, native, spent>>
    PROVE  Hands(Bridge)
<1>1. NativeKept /\ NativeCalm /\ ~At(Bridge, "forward") /\ Bridge \in Procs
  BY CalmKept, BridgeIsProc DEF NativeKept, At
<1>2. /\ Prepared(r) = "autoIO" => r.holder = None
      /\ Prepared(r) \in {"autoIO", "retire"}
  BY DEF Prepared
<1>3. /\ HandInv(proc[Bridge])'
      /\ \A q \in Procs \ {Bridge} : proc'[q] = proc[q]
  BY <1>1, <1>2, SnapshotHand DEF Guarded, LaunchPoints
<1>4. QED  BY <1>1, <1>3 DEF Hands

(* The reconciler, between its reads. *)
LEMMA ReconcilingHands ==
    ASSUME IInv, HandoverInv, Reconciling  PROVE Hands(Bridge)
<1>0. Bridge \in Procs /\ proc \in [Procs -> ProcType]
  BY BridgeIsProc DEF IInv, TypeOK
<1>1. /\ NativeKept /\ NativeCalm /\ ~At(Bridge, "forward")
      /\ UNCHANGED <<retired, successor, native, spent>>
  BY CalmKept
  DEF Reconciling, AutoDispatch, Reroute, ObserveRead, ObserveRefusal, ObserveFailure,
      ObserveNothing, OnlyProc, OwnersKept, NativeKept, NotCommand, At
<1>2. ASSUME AutoDispatch  PROVE Hands(Bridge)
  <2>1. Tame(Bridge) /\ proc[Bridge].pc = "autoIO"
    BY <1>1, <1>2 DEF AutoDispatch, OnlyProc, RowKept, Tame, At
  <2>2. Return(Bridge) \/ Goto(Bridge, "reserve")
    BY <1>2 DEF AutoDispatch
  <2>3. QED  BY <1>0, <1>1, <2>1, <2>2, ReturnOff, TameOff, DispatchHands
<1>3. ASSUME Reroute  PROVE Hands(Bridge)
  <2>1. CASE Return(Bridge) /\ RowKept
    <3>1. Tame(Bridge)
      BY <1>1, <2>1 DEF RowKept, Tame
    <3>2. QED  BY <1>0, <2>1, <3>1, ReturnOff, TameOff
  <2>2. CASE ~(Return(Bridge) /\ RowKept)
    <3>1. PICK r : /\ r = L!NextEpoch(row, row.state = "active", TRUE)
                   /\ Snapshot(Bridge, "auto", r, Prepared(r)) /\ row' = r
      BY <1>3, <2>2 DEF Reroute, Write
    <3>2. r.holder = row.holder /\ r.holder < r.epoch
      BY <3>1, NextHolder
    <3>3. ReplacingInv'
      BY <3>1, <3>2 DEF ReplacingInv
    <3>4. At(Bridge, "route")
      BY <1>3 DEF Reroute
    <3>5. QED  BY <1>1, <3>1, <3>2, <3>3, <3>4, PreparedHands
  <2>3. QED  BY <2>1, <2>2
<1>4. ASSUME ObserveRead  PROVE Hands(Bridge)
  <2>1. Tame(Bridge)
    BY <1>1, <1>4 DEF ObserveRead, OnlyProc, RowKept, Tame
  <2>2. CASE Return(Bridge)
    BY <1>0, <2>1, <2>2, ReturnOff, TameOff
  <2>3. CASE proc' = [proc EXCEPT ![Bridge].pc = "observing", ![Bridge].epoch = row.epoch]
    <3>1. proc'[Bridge].pc = "observing" /\ proc'[Bridge].src = proc[Bridge].src
      BY <1>0, <2>3 DEF ProcType
    <3>2. Off(Bridge)
      BY <1>0, <2>3, <3>1 DEF Off, Guarded, LaunchPoints
    <3>3. QED  BY <1>0, <2>1, <3>2, TameOff
  <2>4. QED  BY <1>4, <2>2, <2>3 DEF ObserveRead
<1>5. ASSUME ObserveRefusal \/ ObserveFailure \/ ObserveNothing  PROVE Hands(Bridge)
  <2>1. row' = row \/ row'.state # "replacing"
    BY <1>5, FailTame DEF ObserveRefusal, ObserveFailure, ObserveNothing, OnlyProc, RowKept
  <2>2. Tame(Bridge)
    BY <1>1, <2>1 DEF Tame
  <2>3. Return(Bridge)
    BY <1>5 DEF ObserveRefusal, ObserveFailure, ObserveNothing
  <2>4. QED  BY <1>0, <2>2, <2>3, ReturnOff, TameOff
<1>6. QED  BY <1>2, <1>3, <1>4, <1>5 DEF Reconciling

(* The stages of a tick. *)
LEMMA TickHands ==
    ASSUME IInv, HandoverInv, TickNext  PROVE Hands(Bridge)
<1>0. Bridge \in Procs /\ proc \in [Procs -> ProcType] /\ row \in RowType
  BY BridgeIsProc DEF IInv, TypeOK
<1>1. /\ NativeKept /\ NativeCalm /\ At(Bridge, "idle")
      /\ UNCHANGED <<retired, successor, native, spent>>
  BY CalmKept
  DEF TickNext, Resume, Advance, ResumeEnded, ResumeUnfilled, AdvanceExhausts,
      AdvanceBlocks, AdvanceRoutes, Observe, Tick, OnlyProc, OwnersKept, NativeKept,
      NotCommand
<1>2. ASSUME row' = row \/ row'.state # "replacing"  PROVE Tame(Bridge)
  BY <1>1, <1>2 DEF Tame, At
<1>3. \A s \in {"blocked", "exhausted"} : L!ChargedFailure(row, s, FALSE).state # "replacing"
  BY <1>0 DEF L!ChargedFailure, RowType
<1>4. ASSUME ResumeUnfilled  PROVE Hands(Bridge)
  <2>1. row.holder < row.epoch /\ row' = row
    BY <1>4 DEF ResumeUnfilled, RowRead, HandoverInv, ReplacingInv
  <2>2. ReplacingInv'
    BY <2>1 DEF ReplacingInv
  <2>3. Snapshot(Bridge, "auto", row, Prepared(row))
    BY <1>4 DEF ResumeUnfilled
  <2>4. QED  BY <1>1, <2>1, <2>2, <2>3, PreparedHands
<1>5. ASSUME AdvanceRoutes  PROVE Hands(Bridge)
  <2>1. Tame(Bridge)
    BY <1>2, <1>5 DEF AdvanceRoutes, RowRead
  <2>2. Off(Bridge)
    BY <1>0, <1>5, SnapshotOff DEF AdvanceRoutes, Guarded, LaunchPoints
  <2>3. QED  BY <1>0, <2>1, <2>2, TameOff
<1>6. ASSUME ResumeEnded \/ AdvanceBlocks  PROVE Hands(Bridge)
  <2>1. Tame(Bridge) /\ proc' = proc
    BY <1>2, <1>3, <1>6 DEF ResumeEnded, AdvanceBlocks, Write
  <2>2. Off(Bridge)
    BY <1>1, <2>1 DEF Off, At, Guarded, LaunchPoints
  <2>3. QED  BY <1>0, <2>1, <2>2, TameOff
<1>7. ASSUME AdvanceExhausts  PROVE Hands(Bridge)
  <2>1. Tame(Bridge)
    BY <1>2, <1>3, <1>7 DEF AdvanceExhausts, Write
  <2>2. Off(Bridge)
    BY <1>0, <1>7 DEF AdvanceExhausts, Off, Idle, Guarded, LaunchPoints
  <2>3. QED  BY <1>0, <2>1, <2>2, TameOff
<1>8. ASSUME Observe  PROVE Hands(Bridge)
  <2>1. Tame(Bridge)
    BY <1>2, <1>8 DEF Observe, OnlyProc, RowKept
  <2>2. Off(Bridge)
    BY <1>0, <1>8 DEF Observe, Off, Idle, Guarded, LaunchPoints, None
  <2>3. QED  BY <1>0, <2>1, <2>2, TameOff
<1>9. QED  BY <1>4, <1>5, <1>6, <1>7, <1>8 DEF TickNext, Resume, Advance

LEMMA SweepHands ==
    ASSUME IInv, HandoverInv, NEW p \in Procs, Sweep(p)  PROVE Hands(p)
<1>0. proc \in [Procs -> ProcType] /\ native \in [Epochs -> NativeType]
  BY DEF IInv, TypeOK
<1>1. ASSUME SweepExpired(p)  PROVE Hands(p)
  <2>1. Tame(p)
    BY <1>1, CalmKept DEF SweepExpired, At, RowRead, OwnersKept, NotCommand, Tame
  <2>2. Off(p)
    BY <1>1, SnapshotOff DEF SweepExpired, Guarded, LaunchPoints
  <2>3. QED  BY <2>1, <2>2, TameOff
<1>2. ASSUME NEW e \in Epochs, SweepTerminal(p, e)  PROVE Hands(p)
  <2>1. Tame(p)
    BY <1>2, CalmKept DEF SweepTerminal, OnlyProc, At, RowKept, OwnersKept, NotCommand, Tame
  <2>2. Off(p)
    BY <1>0, <1>2 DEF SweepTerminal, Off, Idle, Guarded, LaunchPoints, None
  <2>3. QED  BY <2>1, <2>2, TameOff
<1>3. ASSUME NEW e \in Epochs, Cleanup(p, e)  PROVE Hands(p)
  <2>1. NativeCalm
    BY <1>0, <1>3 DEF Cleanup, NativeCalm, NativeType
  <2>2. Tame(p)
    BY <1>3, <2>1 DEF Cleanup, At, NotCommand, Tame
  <2>3. Off(p)
    BY <1>3 DEF Cleanup, At, Off, Guarded, LaunchPoints
  <2>4. QED  BY <2>2, <2>3, TameOff
<1>4. QED  BY <1>1, <1>2, <1>3 DEF Sweep

LEMMA GivenHands ==
    ASSUME IInv, HandoverInv, NEW p \in Procs, Given(p)  PROVE Hands(p)
<1>0. /\ proc \in [Procs -> ProcType] /\ row \in RowType
      /\ NativeKept /\ NativeCalm /\ UNCHANGED <<retired, successor, native>>
      /\ At(p, "idle") /\ Command(p)
  BY CalmKept
  DEF IInv, TypeOK, Given, StartReserve, StartAgain, StartReissue, ReplaceRead, Block,
      FinishRead, Command, OnlyProc, OwnersKept, NativeKept
<1>1. spent'.crashes = spent.crashes
  BY <1>0, SpentCrashes
<1>2. row' = row \/ row'.state # "replacing"
  <2>1. StartReserve(p) \/ StartReissue(p) => row'.state = "reserved"
    BY <1>0 DEF StartReserve, StartReissue, Write, RowType
  <2>2. Block(p) => row'.state = "blocked"
    BY <1>0 DEF Block, Write, L!Settled, RowType
  <2>3. QED
    BY <2>1, <2>2 DEF Given, StartAgain, ReplaceRead, FinishRead, OnlyProc, RowKept, RowRead
<1>3. Tame(p)
  BY <1>0, <1>1, <1>2 DEF Tame, At
<1>4. ASSUME StartReserve(p) \/ StartAgain(p) \/ StartReissue(p)  PROVE Hands(p)
  <2>1. PICK r : Snapshot(p, "start", r, "start") /\ r.holder \in {None, row.holder}
    <3>1. CASE StartReserve(p) \/ StartAgain(p)
      BY <3>1 DEF StartReserve, StartAgain
    <3>2. CASE StartReissue(p)
      <4>1. row'.holder = None /\ Snapshot(p, "start", row', "start")
        BY <3>2 DEF StartReissue, Write
      <4>2. QED  BY <4>1
    <3>3. QED  BY <1>4, <3>1, <3>2
  <2>2. HandInv(proc[p])' /\ \A q \in Procs \ {p} : proc'[q] = proc[q]
    BY <1>0, <2>1, SnapshotHand DEF Guarded, LaunchPoints
  <2>3. QED  BY <1>3, <2>2, TameHands
<1>5. ASSUME ReplaceRead(p)  PROVE Hands(p)
  <2>1. Off(p)
    BY <1>5, SnapshotOff DEF ReplaceRead, Guarded, LaunchPoints
  <2>2. QED  BY <1>3, <2>1, TameOff
<1>6. ASSUME Block(p)  PROVE Hands(p)
  <2>1. Off(p)
    BY <1>0, <1>6 DEF Block, At, Off, Guarded, LaunchPoints
  <2>2. QED  BY <1>3, <2>1, TameOff
<1>7. ASSUME NEW op \in {"complete", "cancel"}, FinishRead(p, op)  PROVE Hands(p)
  <2>1. Off(p)
    BY <1>0, <1>7 DEF FinishRead, Idle, Off, Guarded, LaunchPoints, None
  <2>2. QED  BY <1>3, <2>1, TameOff
<1>8. QED  BY <1>4, <1>5, <1>6, <1>7 DEF Given

(* Only where nobody has died yet is a process owed to interrupt. *)
LEMMA FaultsHands ==
    ASSUME IInv, HandoverInv, NEW p \in Procs, Faults(p)  PROVE Hands(p)
<1>1. Return(p) /\ row' = row /\ UNCHANGED <<retired, successor>>
  BY DEF Faults, Crash, CallTimesOut, StopFails, LookupFails, OnlyProc, RowKept, OwnersKept
<1>2. NativeCalm
  BY CalmKept, CalmCreated
  DEF Faults, Crash, CallTimesOut, StopFails, LookupFails, OnlyProc
<1>3. HandInv(proc[p])' /\ \A q \in Procs \ {p} : proc'[q] = proc[q]
  BY <1>1, <1>2, ReturnOff, OffHand DEF Off, HandoverInv
<1>4. ReplacingInv'
  BY <1>1 DEF HandoverInv, ReplacingInv
<1>5. \/ spent'.crashes # 0
      \/ spent'.crashes = spent.crashes /\ ~At(p, "forward")
  BY SpentCrashes DEF Faults, Crash, CallTimesOut, StopFails, LookupFails, At
<1>6. QED  BY <1>1, <1>2, <1>3, <1>4, <1>5 DEF Hands

(* The world moves no process. *)
LEMMA WorldHands ==
    ASSUME IInv, HandoverInv, NativeCalm,
           UNCHANGED <<row, proc, retired, successor, spent>>
    PROVE  HandoverInv'
<1>1. \A q \in Procs : HandInv(proc[q])'
  BY HandStays DEF HandoverInv
<1>2. RetiredInv'
  BY DEF HandoverInv, RetiredInv, NativeCalm, IInv, TypeOK
<1>3. ASSUME spent.crashes = 0, NEW d \in Epochs, Beside(d)'
      PROVE  \E q \in Procs : Interrupts(q, d)'
  <2>1. Beside(d)
    BY <1>3 DEF Beside, NativeCalm, HandoverInv, RetiredInv, ChainInv
  <2>2. PICK q \in Procs : Interrupts(q, d)
    BY <1>3, <2>1 DEF HandoverInv, Interrupted
  <2>3. Interrupts(q, d)'
    BY <2>2 DEF Interrupts, At
  <2>4. QED  BY <2>3
<1>4. QED  BY <1>1, <1>2, <1>3 DEF HandoverInv, ReplacingInv, ChainInv, Interrupted

LEMMA NextHands == IInv /\ IInv' /\ HandoverInv /\ [Next]_vars => HandoverInv'
<1> SUFFICES ASSUME IInv, IInv', HandoverInv, [Next]_vars  PROVE HandoverInv'
  OBVIOUS
<1>1. ASSUME NEW p \in Procs, Continue(p)  PROVE HandoverInv'
  <2>1. Launching(p) => Hands(p)
    BY LaunchingHands, RetireHands, TransferHands, LinkHands, ForwardHands
  <2>2. Settling(p) => Hands(p)
    BY SettlingHands, RetireFinalHands
  <2>3. Hands(p)
    BY <1>1, <2>1, <2>2, StartingHands, ReconcilingHands DEF Continue
  <2>4. QED  BY <2>3, HandsKeep
<1>2. ASSUME NEW p \in Procs, Sweep(p) \/ Faults(p)  PROVE HandoverInv'
  BY <1>2, SweepHands, FaultsHands, HandsKeep
<1>3. ASSUME NEW p \in Commands, Given(p)  PROVE HandoverInv'
  BY <1>3, GivenHands, HandsKeep DEF Procs
<1>4. ASSUME TickNext  PROVE HandoverInv'
  BY <1>4, TickHands, BridgeIsProc, HandsKeep
<1>5. ASSUME NEW e \in Epochs, LeaseExpires(e) \/ NativeEnds(e)  PROVE HandoverInv'
  <2>1. NativeCalm
    <3>1. native \in [Epochs -> NativeType]
      BY DEF IInv, TypeOK
    <3>2. CASE LeaseExpires(e)
      BY <3>2 DEF LeaseExpires, NativeCalm
    <3>3. CASE NativeEnds(e)
      BY <3>1, <3>3 DEF NativeEnds, NativeCalm, NativeType
    <3>4. QED  BY <1>5, <3>2, <3>3
  <2>2. QED  BY <1>5, <2>1, WorldHands DEF LeaseExpires, NativeEnds, OwnersKept
<1>6. CASE UNCHANGED vars
  BY <1>6, CalmKept, WorldHands DEF vars, NativeKept
<1>7. QED  BY <1>1, <1>2, <1>3, <1>4, <1>5, <1>6 DEF Next

(* succession.py transfer_ownership: whoever records a successor is about  *)
(* to interrupt the source.  So the chain of successors never turns back,  *)
(* and, as long as no process died, nobody works on beside a successor     *)
(* that receives its mail.                                                 *)
THEOREM Succession ==
    Spec => [](/\ ChainInv
               /\ spent.crashes = 0 => SucceededStops)
<1>1. Init => HandoverInv
  BY DEF Init, HandoverInv, ReplacingInv, RetiredInv, ChainInv, Interrupted, Beside,
         HandInv, Idle, LaunchPoints, None
<1>2. HandoverInv => ChainInv /\ (spent.crashes = 0 => SucceededStops)
  BY DEF HandoverInv, ChainInv, Interrupted, Beside, Interrupts, SucceededStops, Quiet, At
<1>3. IInv /\ HandoverInv /\ [Next]_vars => HandoverInv'
  BY NextHands, NextIInv
<1>4. QED  BY <1>1, <1>2, <1>3, Invariant, PTL DEF Spec

-----------------------------------------------------------------------------
(* Where a session works.  A workspace is named by the epoch that created   *)
(* it, and what a process is to launch, activate or stop has one: the       *)
(* executor's, and the journal says the same of what it has as launched.    *)

(* p knows the workspace it launches into, adopts or hands over to. *)
PlaceKnown(r) ==
    /\ r.pc \in Holding \union {"retire", "transfer"} => r.ws # None
    /\ r.pc \in {"reserve", "busy", "call"} => r.src = None \/ r.op = "start" \/ r.ws # None
    /\ r.pc = "looked" /\ r.sid # None => r.ws = native[r.epoch].ws

Placing == Holding \union {"retire", "transfer", "reserve", "busy", "call", "looked"}

RowPlaced == row.holder # None => row.ws # None

PlaceInv ==
    /\ RowPlaced
    /\ \A e \in Epochs : native[e].state # "none" => native[e].ws # None
    /\ \A e \in Epochs : effect[e].state = "launched" => effect[e].ws = native[e].ws
    /\ \A p \in Procs : PlaceKnown(proc[p])

(* No session moves to another workspace. *)
NativeStays ==
    \A e \in Epochs :
        /\ native[e].state # "none" => native'[e].state # "none" /\ native'[e].ws = native[e].ws
        /\ native[e].state = "none" /\ native'[e].state # "none" => native'[e].ws # None

(* What the journal has as launched, it has where the executor has it. *)
JournalPlaced ==
    \A e \in Epochs : effect'[e].state = "launched"
        => native[e].state # "none" /\ effect'[e].ws = native[e].ws

(* What a step of p must leave to the others, and do itself. *)
Places(p) ==
    /\ \A q \in Procs \ {p} : proc'[q] = proc[q]
    /\ PlaceKnown(proc[p])'
    /\ RowPlaced' /\ NativeStays /\ JournalPlaced

LEMMA PlaceStays ==
    ASSUME IInv, NEW q \in Procs, PlaceKnown(proc[q]), proc'[q] = proc[q], NativeStays
    PROVE  PlaceKnown(proc[q])'
<1>1. ASSUME proc[q].pc = "looked", proc[q].sid # None
      PROVE  native'[proc[q].epoch].ws = native[proc[q].epoch].ws
  <2>1. proc[q].epoch \in 0..MaxEpoch /\ proc[q].epoch # 0
    BY <1>1 DEF IInv, TypeOK, ProcType, ProcInv
  <2>2. proc[q].epoch \in Epochs /\ native[proc[q].epoch].state # "none"
    BY <1>1, <2>1, LaunchAssumption DEF LaunchAssumption, Epochs, IInv, ProcInv
  <2>3. QED  BY <2>2 DEF NativeStays
<1>2. QED  BY <1>1 DEF PlaceKnown

(* The inductive step, once for all actions. *)
LEMMA PlacesKeep ==
    ASSUME IInv, PlaceInv, NEW p \in Procs, Places(p)  PROVE PlaceInv'
<1>1. ASSUME NEW q \in Procs  PROVE PlaceKnown(proc[q])'
  BY PlaceStays DEF Places, PlaceInv
<1>2. ASSUME NEW e \in Epochs
      PROVE  /\ native'[e].state # "none" => native'[e].ws # None
             /\ effect'[e].state = "launched" => effect'[e].ws = native'[e].ws
  BY DEF Places, PlaceInv, NativeStays, JournalPlaced
<1>3. QED  BY <1>1, <1>2 DEF Places, PlaceInv

-----------------------------------------------------------------------------

(* What most actions leave alone. *)
LEMMA NativePlaced == NativeKept => NativeStays
  BY DEF NativeKept, NativeStays

(* No epoch becomes launched. *)
LEMMA JournalCalm ==
    ASSUME IInv, PlaceInv,
           \A e \in Epochs : effect'[e].state = "launched"
               => effect[e].state = "launched" /\ effect'[e].ws = effect[e].ws
    PROVE  JournalPlaced
  BY IInvParts DEF JournalPlaced, PlaceInv, JournalInv, Known

LEMMA JournalSame == IInv /\ PlaceInv /\ UNCHANGED effect => JournalPlaced
  BY JournalCalm

(* What the end of an epoch leaves in the journal. *)
LEMMA Terminates ==
    ASSUME IInv, NEW e \in Epochs, NEW ws, NEW outcome,
           effect' = [effect EXCEPT ![e] = Terminal(@, ws, outcome)]
    PROVE  /\ effect'[e].state = "terminal" /\ effect'[e].ws = ws
           /\ \A d \in Epochs \ {e} : effect'[d] = effect[d]
  BY DEF IInv, TypeOK, EffectType, Terminal

LEMMA JournalEnds ==
    ASSUME IInv, PlaceInv, NEW e \in Epochs, NEW ws, NEW outcome,
           effect' = [effect EXCEPT ![e] = Terminal(@, ws, outcome)]
    PROVE  JournalPlaced
  BY Terminates, JournalCalm

(* p goes where it needs no workspace. *)
LEMMA PlacesAway ==
    ASSUME IInv, PlaceInv, NEW p \in Procs, proc'[p].pc \notin Placing,
           \A q \in Procs \ {p} : proc'[q] = proc[q],
           RowPlaced', NativeStays, JournalPlaced
    PROVE  Places(p)
  BY DEF Places, PlaceKnown, Placing

LEMMA PlacesReturn ==
    ASSUME IInv, PlaceInv, NEW p \in Procs, Return(p), RowPlaced', NativeStays, JournalPlaced
    PROVE  Places(p)
<1>1. proc'[p].pc = "idle"
  BY Moves DEF Idle
<1>2. \A q \in Procs \ {p} : proc'[q] = proc[q]
  BY DEF IInv, TypeOK, Return
<1>3. QED  BY <1>1, <1>2, PlacesAway DEF Placing, Holding

LEMMA PlacesGoto ==
    ASSUME IInv, PlaceInv, NEW p \in Procs, NEW pc, Goto(p, pc), pc \notin Placing,
           RowPlaced', NativeStays, JournalPlaced
    PROVE  Places(p)
<1>1. proc'[p].pc = pc
  BY Moves
<1>2. \A q \in Procs \ {p} : proc'[q] = proc[q]
  BY DEF IInv, TypeOK, Goto
<1>3. QED  BY <1>1, <1>2, PlacesAway

(* p goes on with the workspace it knows. *)
LEMMA PlacesOn ==
    ASSUME IInv, PlaceInv, NEW p \in Procs, NEW pc, Goto(p, pc),
           \/ pc \in Holding /\ (proc[p].pc \in Holding \/ proc[p].ws # None)
           \/ pc \in {"reserve", "busy", "call"}
                /\ (proc[p].pc \in {"reserve", "busy", "call"} \/ proc[p].src = None
                    \/ proc[p].op = "start" \/ proc[p].ws # None)
           \/ pc = "transfer" /\ proc[p].pc = "retire",
           RowPlaced', NativeStays, JournalPlaced
    PROVE  Places(p)
<1>1. proc \in [Procs -> ProcType] /\ proc[p] \in ProcType
  BY DEF IInv, TypeOK
<1>2. /\ proc'[p].pc = pc /\ proc'[p].src = proc[p].src
      /\ proc'[p].op = proc[p].op /\ proc'[p].ws = proc[p].ws
  BY <1>1 DEF Goto, ProcType
<1>3. \A q \in Procs \ {p} : proc'[q] = proc[q]
  BY <1>1 DEF Goto
<1>4. PlaceKnown(proc[p])
  BY DEF PlaceInv
<1>5. PlaceKnown(proc[p])'
  BY <1>2, <1>4 DEF PlaceKnown, Holding
<1>6. QED  BY <1>3, <1>5 DEF Places

(* What it reads of the row says where the holder works. *)
LEMMA PlacesRead ==
    ASSUME IInv, PlaceInv, NEW p \in Procs, NEW op, NEW r, NEW pc, Snapshot(p, op, r, pc),
           pc # "looked", r.ws # None \/ pc \notin Placing,
           RowPlaced', NativeStays, JournalPlaced
    PROVE  Places(p)
<1>1. proc \in [Procs -> ProcType]
  BY DEF IInv, TypeOK
<1>2. proc'[p].pc = pc /\ proc'[p].ws = r.ws
  BY <1>1 DEF Snapshot, Idle
<1>3. \A q \in Procs \ {p} : proc'[q] = proc[q]
  BY <1>1 DEF Snapshot
<1>4. PlaceKnown(proc[p])'
  BY <1>2 DEF PlaceKnown, Placing
<1>5. QED  BY <1>3, <1>4 DEF Places

(* The session sid is launched, and works somewhere. *)
LEMMA PlacesLaunched ==
    ASSUME IInv, PlaceInv, NEW p \in Procs, NEW e \in Epochs, Launched(p, e),
           native[e].state # "none", effect'[e].ws = native[e].ws,
           RowPlaced', NativeStays, JournalPlaced
    PROVE  Places(p)
<1>1. proc \in [Procs -> ProcType] /\ proc[p] \in ProcType
  BY DEF IInv, TypeOK
<1>2. proc'[p].pc \in {"activate", "link"} /\ proc'[p].ws = native[e].ws
  BY <1>1 DEF Launched, ProcType
<1>3. \A q \in Procs \ {p} : proc'[q] = proc[q]
  BY <1>1 DEF Launched
<1>4. native[e].ws # None
  BY DEF PlaceInv
<1>5. PlaceKnown(proc[p])'
  BY <1>2, <1>4 DEF PlaceKnown
<1>6. QED  BY <1>3, <1>5 DEF Places

(* Rows: none of the writes takes the workspace from a holder. *)
LEMMA RowStillPlaced == PlaceInv /\ UNCHANGED row => RowPlaced'
  BY DEF PlaceInv, RowPlaced

LEMMA SettledPlaced ==
    ASSUME IInv, PlaceInv, NEW state, row' = L!Settled(row, state)  PROVE RowPlaced'
<1>1. row'.holder = row.holder /\ row'.ws = row.ws
  BY DEF L!Settled, IInv, TypeOK, RowType
<1>2. QED  BY <1>1 DEF PlaceInv, RowPlaced

LEMMA ChargedPlaced ==
    ASSUME IInv, PlaceInv, NEW state, NEW expired, row' = L!ChargedFailure(row, state, expired)
    PROVE  RowPlaced'
<1>1. row'.holder = row.holder /\ row'.ws = row.ws
  BY DEF L!ChargedFailure, IInv, TypeOK, RowType
<1>2. QED  BY <1>1 DEF PlaceInv, RowPlaced

LEMMA FailPlaced ==
    ASSUME IInv, PlaceInv, NEW state, NEW expired, Fail(state, expired)  PROVE RowPlaced'
  BY ChargedPlaced, RowStillPlaced DEF Fail, Write, RowKept

LEMMA NextPlaced ==
    ASSUME IInv, PlaceInv, NEW charge, NEW recovery
    PROVE  LET r == L!NextEpoch(row, charge, recovery) IN
           r.holder = row.holder /\ r.ws = row.ws /\ (r.holder # None => r.ws # None)
<1>1. /\ L!NextEpoch(row, charge, recovery).holder = row.holder
      /\ L!NextEpoch(row, charge, recovery).ws = row.ws
  BY DEF L!NextEpoch, IInv, TypeOK, RowType
<1>2. QED  BY <1>1 DEF PlaceInv, RowPlaced

-----------------------------------------------------------------------------

(* The steps of a launch. *)
LEMMA ReservePlaces ==
    ASSUME IInv, PlaceInv, NEW p \in Procs, Reserve(p)  PROVE Places(p)
<1> DEFINE e == proc[p].epoch
<1>0. effect \in [Epochs -> EffectType] /\ e \in Epochs
  BY HasEpoch DEF IInv, TypeOK, Reserve, At
<1>1. RowPlaced' /\ NativeStays
  BY RowStillPlaced, NativePlaced DEF Reserve, RowKept
<1>2. JournalPlaced
  <2>1. CASE UNCHANGED effect
    BY <2>1, JournalSame
  <2>2. CASE effect' = [effect EXCEPT ![e].state = "reserved", ![e].live = TRUE,
                                      ![e].bridge = (p = Bridge)]
    <3>1. \A d \in Epochs : effect'[d].state = "launched"
             => effect[d].state = "launched" /\ effect'[d].ws = effect[d].ws
      BY <1>0, <2>2 DEF EffectType
    <3>2. QED  BY <3>1, JournalCalm
  <2>3. QED  BY <2>1, <2>2 DEF Reserve, JournalKept
<1>3. CASE Return(p)
  BY <1>1, <1>2, <1>3, PlacesReturn
<1>4. CASE Goto(p, "busy") \/ Goto(p, "call")
  <2>1. proc[p].pc = "reserve"
    BY DEF Reserve, At
  <2>2. QED  BY <1>1, <1>2, <1>4, <2>1, PlacesOn
<1>5. CASE effect[e].state = "launched" /\ JournalKept /\ Launched(p, e)
  <2>1. native[e].state # "none" /\ effect'[e].ws = native[e].ws
    BY <1>0, <1>5, IInvParts DEF JournalKept, PlaceInv, JournalInv, Known
  <2>2. QED  BY <1>0, <1>1, <1>2, <1>5, <2>1, PlacesLaunched
<1>6. QED  BY <1>3, <1>4, <1>5 DEF Reserve

(* The session of a launch is created where the launch says. *)
LEMMA CreatedPlaced ==
    ASSUME IInv, PlaceInv, NEW p \in Procs, proc[p].pc = "call", native' = Created(p)
    PROVE  NativeStays
<1>1. native \in [Epochs -> NativeType] /\ proc[p].epoch \in Epochs
  BY HasEpoch DEF IInv, TypeOK
<1>2. Workspace(p) # None
  <2>1. proc[p].epoch # None
    BY <1>1, LaunchAssumption DEF Epochs, None
  <2>2. QED  BY <2>1 DEF PlaceInv, PlaceKnown, Workspace
<1>3. QED  BY <1>1, <1>2 DEF Created, NativeStays

LEMMA CallPlaces ==
    ASSUME IInv, PlaceInv, NEW p \in Procs, CallAccepted(p) \/ CallRefused(p)  PROVE Places(p)
<1> DEFINE e == proc[p].epoch
<1>0. proc \in [Procs -> ProcType] /\ native \in [Epochs -> NativeType] /\ e \in Epochs
  BY HasEpoch DEF IInv, TypeOK, CallAccepted, CallRefused, At
<1>1. PICK reply : proc' = [proc EXCEPT ![p].pc = "reply", ![p].reply = reply]
  BY DEF CallAccepted, CallRefused
<1>2. proc'[p].pc = "reply" /\ \A q \in Procs \ {p} : proc'[q] = proc[q]
  BY <1>0, <1>1 DEF ProcType
<1>3. RowPlaced' /\ JournalPlaced
  BY RowStillPlaced, JournalSame DEF CallAccepted, CallRefused, OnlyProc, RowKept, JournalKept
<1>4. NativeStays
  <2>1. CASE CallRefused(p)
    BY <2>1, NativePlaced DEF CallRefused, OnlyProc
  <2>2. CASE CallAccepted(p)
    BY <2>2, CreatedPlaced DEF CallAccepted, At
  <2>3. QED  BY <2>1, <2>2
<1>5. QED  BY <1>2, <1>3, <1>4, PlacesAway DEF Placing, Holding

LEMMA ReplyPlaces ==
    ASSUME IInv, PlaceInv, NEW p \in Procs,
           \/ ReplySuperseded(p) \/ ReplyLaunched(p) \/ ReplyRejected(p)
           \/ ReplyUnknown(p) \/ ReplyRefused(p) \/ ReplyLost(p)
    PROVE  Places(p)
<1> DEFINE e == proc[p].epoch
<1>0. /\ proc \in [Procs -> ProcType] /\ effect \in [Epochs -> EffectType] /\ e \in Epochs
      /\ proc[p].reply = "ok" => native[e].state # "none"
  BY HasEpoch
  DEF IInv, TypeOK, ProcInv, ReplySuperseded, ReplyLaunched, ReplyRejected, ReplyUnknown,
      ReplyRefused, ReplyLost, Answer, At
<1>1. RowPlaced' /\ NativeStays
  BY RowStillPlaced, NativePlaced
  DEF ReplySuperseded, ReplyLaunched, ReplyRejected, ReplyUnknown, ReplyRefused, ReplyLost,
      OnlyProc, RowKept
<1>2. ASSUME NEW ws, NEW outcome, effect' = [effect EXCEPT ![e] = Terminal(@, ws, outcome)]
      PROVE  JournalPlaced
  BY <1>0, <1>2, JournalEnds
<1>3. ASSUME ReplySuperseded(p)  PROVE Places(p)
  <2>1. JournalPlaced
    BY <1>2, <1>3 DEF ReplySuperseded, Superseded
  <2>2. proc'[p].pc = "stop" /\ \A q \in Procs \ {p} : proc'[q] = proc[q]
    BY <1>0, <1>3 DEF ReplySuperseded, ProcType
  <2>3. QED  BY <1>1, <2>1, <2>2, PlacesAway DEF Placing, Holding
<1>4. ASSUME ReplyLaunched(p)  PROVE Places(p)
  <2>1. CASE Return(p) /\ JournalKept
    BY <1>1, <2>1, JournalSame, PlacesReturn DEF JournalKept
  <2>2. CASE /\ effect' = [effect EXCEPT ![e].state = "launched", ![e].ws = native[e].ws]
             /\ Launched(p, e)
    <3>1. native[e].state # "none"
      BY <1>0, <1>4 DEF ReplyLaunched, Answer
    <3>2. /\ effect'[e].ws = native[e].ws
          /\ \A d \in Epochs \ {e} : effect'[d] = effect[d]
      BY <1>0, <2>2 DEF EffectType
    <3>3. JournalPlaced
      BY <3>1, <3>2, IInvParts DEF JournalPlaced, PlaceInv, JournalInv, Known
    <3>4. QED  BY <1>0, <1>1, <2>2, <3>1, <3>2, <3>3, PlacesLaunched
  <2>3. QED  BY <1>4, <2>1, <2>2 DEF ReplyLaunched
<1>5. ASSUME ReplyRejected(p) \/ ReplyUnknown(p) \/ ReplyLost(p) \/ ReplyRefused(p)
      PROVE  Places(p)
  <2>1. JournalPlaced
    BY <1>2, <1>5, JournalSame
    DEF ReplyRejected, ReplyUnknown, ReplyLost, ReplyRefused, OnlyProc, JournalKept
  <2>2. Return(p) \/ Goto(p, "rejected") \/ Goto(p, "nativelost")
    BY <1>5 DEF ReplyRejected, ReplyUnknown, ReplyLost, ReplyRefused
  <2>3. QED  BY <1>1, <2>1, <2>2, PlacesReturn, PlacesGoto DEF Placing, Holding
<1>6. QED  BY <1>3, <1>4, <1>5

(* A hand-over. *)
LEMMA TransferPlaces ==
    ASSUME IInv, PlaceInv, NEW p \in Procs, Retire(p) \/ Transfer(p) \/ Link(p) \/ Forward(p)
    PROVE  Places(p)
<1>0. /\ proc \in [Procs -> ProcType] /\ native \in [Epochs -> NativeType]
      /\ PlaceKnown(proc[p])
  BY DEF IInv, TypeOK, PlaceInv
<1>1. RowPlaced' /\ JournalPlaced
  BY RowStillPlaced, JournalSame
  DEF Retire, Transfer, Link, Forward, OnlyProc, RowKept, JournalKept
<1>2. NativeStays
  <2>1. CASE Forward(p)
    BY <1>0, <2>1 DEF Forward, NativeStays, NativeType
  <2>2. CASE ~Forward(p)
    BY <2>2, NativePlaced DEF Retire, Transfer, Link, OnlyProc
  <2>3. QED  BY <2>1, <2>2
<1>3. CASE Return(p)
  BY <1>1, <1>2, <1>3, PlacesReturn
<1>4. CASE Goto(p, "transfer") /\ At(p, "retire")
  BY <1>1, <1>2, <1>4, PlacesOn DEF At
<1>5. CASE \/ Goto(p, "forward") /\ At(p, "link")
           \/ Goto(p, "handover") /\ At(p, "forward")
  BY <1>1, <1>2, <1>5, PlacesOn DEF At, Holding
<1>6. CASE Goto(p, "reserve") /\ At(p, "transfer")
  <2>1. proc[p].ws # None
    BY <1>0, <1>6 DEF PlaceKnown, At
  <2>2. QED  BY <1>1, <1>2, <1>6, <2>1, PlacesOn
<1>7. CASE /\ proc' = [proc EXCEPT ![p].sid = successor[proc[p].src], ![p].pc = "forward"]
           /\ At(p, "transfer")
  <2>1. proc'[p].pc = "forward" /\ proc'[p].ws = proc[p].ws
    BY <1>0, <1>7 DEF ProcType
  <2>2. \A q \in Procs \ {p} : proc'[q] = proc[q]
    BY <1>0, <1>7
  <2>3. PlaceKnown(proc[p])'
    BY <1>0, <1>7, <2>1 DEF PlaceKnown, At
  <2>4. QED  BY <1>1, <1>2, <2>2, <2>3 DEF Places
<1>8. Link(p) => At(p, "link") /\ (Return(p) \/ Goto(p, "forward"))
  BY DEF Link
<1>9. Retire(p) \/ Forward(p) => Places(p)
  BY <1>4, <1>5 DEF Retire, Forward
<1>10. Transfer(p) => Places(p)
  BY <1>3, <1>6, <1>7 DEF Transfer
<1>11. QED  BY <1>3, <1>5, <1>8, <1>9, <1>10

LEMMA ActivatePlaces ==
    ASSUME IInv, PlaceInv, NEW p \in Procs, Activate(p)  PROVE Places(p)
<1>1. NativeStays /\ JournalPlaced /\ Return(p)
  BY NativePlaced, JournalSame DEF Activate, JournalKept
<1>2. RowPlaced'
  <2>1. CASE UNCHANGED row
    BY <2>1, RowStillPlaced
  <2>2. CASE row' = [L!Activated(row, proc[p].sid) EXCEPT !.ws = proc[p].ws]
    <3>1. row'.ws = proc[p].ws
      BY <2>2 DEF L!Activated, IInv, TypeOK, RowType
    <3>2. PlaceKnown(proc[p]) /\ proc[p].pc \in Holding
      BY DEF PlaceInv, Activate, At, Holding
    <3>3. QED  BY <3>1, <3>2 DEF PlaceKnown, RowPlaced
  <2>3. QED  BY <2>1, <2>2 DEF Activate, Write, RowKept
<1>3. QED  BY <1>1, <1>2, PlacesReturn

LEMMA LaunchingPlaces ==
    ASSUME IInv, PlaceInv, NEW p \in Procs, Launching(p)  PROVE Places(p)
<1>1. ASSUME BusyRetry(p) \/ BusyGiveUp(p)  PROVE Places(p)
  <2>1. RowPlaced' /\ NativeStays /\ JournalPlaced
    BY <1>1, RowStillPlaced, NativePlaced, JournalSame
    DEF BusyRetry, BusyGiveUp, OnlyProc, RowKept, JournalKept
  <2>2. Return(p) \/ (Goto(p, "reserve") /\ proc[p].pc = "busy")
    BY <1>1 DEF BusyRetry, BusyGiveUp, At
  <2>3. QED  BY <2>1, <2>2, PlacesOn, PlacesReturn
<1>2. ASSUME BlockRejected(p) \/ LoseNative(p)  PROVE Places(p)
  BY <1>2, FailPlaced, NativePlaced, JournalSame, PlacesReturn
  DEF BlockRejected, LoseNative, JournalKept
<1>3. QED
  BY <1>1, <1>2, ReservePlaces, CallPlaces, ReplyPlaces, TransferPlaces, ActivatePlaces
  DEF Launching

(* The steps of a finish, a stop and a sweep. *)
LEMMA SettlingPlaces ==
    ASSUME IInv, PlaceInv, NEW p \in Procs, Settling(p)  PROVE Places(p)
<1> DEFINE e == proc[p].epoch
<1>0. /\ proc \in [Procs -> ProcType] /\ effect \in [Epochs -> EffectType]
      /\ native \in [Epochs -> NativeType]
  BY DEF IInv, TypeOK
<1>a. ASSUME NEW ws, NEW outcome, e \in Epochs,
             effect' = [effect EXCEPT ![e] = Terminal(@, ws, outcome)]
      PROVE  JournalPlaced
  BY <1>a, JournalEnds
<1>1. ASSUME FinishDecide(p)  PROVE Places(p)
  <2>1. NativeStays /\ JournalPlaced
    BY <1>1, NativePlaced, JournalSame DEF FinishDecide, JournalKept
  <2>2. RowPlaced'
    BY <1>1, SettledPlaced, RowStillPlaced DEF FinishDecide, Write, RowKept
  <2>3. Return(p) \/ Snapshot(p, proc[p].op, row, "closeEffect")
    BY <1>1 DEF FinishDecide
  <2>4. QED  BY <2>1, <2>2, <2>3, PlacesReturn, PlacesRead DEF Placing, Holding
<1>2. ASSUME CloseEffect(p)  PROVE Places(p)
  <2>1. e \in Epochs /\ RowPlaced' /\ NativeStays
    BY <1>2, HasEpoch, RowStillPlaced, NativePlaced DEF CloseEffect, At, RowKept
  <2>2. JournalPlaced
    BY <1>2, <1>a, <2>1, JournalSame DEF CloseEffect, JournalKept
  <2>3. /\ proc'[p].pc \in {"retireFinal", "stop", "stopped"}
        /\ \A q \in Procs \ {p} : proc'[q] = proc[q]
    BY <1>0, <1>2 DEF CloseEffect, ProcType
  <2>4. QED  BY <2>1, <2>2, <2>3, PlacesAway DEF Placing, Holding
<1>3. ASSUME RetireFinal(p) \/ CleanupEnds(p)  PROVE Places(p)
  <2>1. RowPlaced' /\ NativeStays /\ JournalPlaced
    BY <1>3, RowStillPlaced, NativePlaced, JournalSame
    DEF RetireFinal, CleanupEnds, OnlyProc, RowKept, JournalKept
  <2>2. Return(p) \/ Goto(p, "stop") \/ Goto(p, "stopped")
    BY <1>3 DEF RetireFinal, CleanupEnds
  <2>3. QED  BY <2>1, <2>2, PlacesReturn, PlacesGoto DEF Placing, Holding
<1>4. ASSUME Stop(p)  PROVE Places(p)
  <2>1. NativeStays
    BY <1>0, <1>4 DEF Stop, NativeStays, NativeType
  <2>2. RowPlaced' /\ JournalPlaced /\ Goto(p, "stopped")
    BY <1>4, RowStillPlaced, JournalSame DEF Stop, RowKept, JournalKept
  <2>3. QED  BY <2>1, <2>2, PlacesGoto DEF Placing, Holding
<1>5. ASSUME AckStop(p)  PROVE Places(p)
  <2>1. RowPlaced' /\ NativeStays /\ e \in Epochs
    BY <1>5, HasEpoch, RowStillPlaced, NativePlaced DEF AckStop, At, RowKept
  <2>2. \A d \in Epochs : effect'[d].state = "launched"
          => effect[d].state = "launched" /\ effect'[d].ws = effect[d].ws
    BY <1>0, <1>5, <2>1 DEF AckStop, EffectType
  <2>3. Return(p) \/ Goto(p, "cleanup")
    BY <1>5 DEF AckStop
  <2>4. QED
    BY <2>1, <2>2, <2>3, JournalCalm, PlacesReturn, PlacesGoto DEF Placing, Holding
<1>6. ASSUME Lookup(p)  PROVE Places(p)
  <2>1. RowPlaced' /\ NativeStays /\ JournalPlaced
    BY <1>6, RowStillPlaced, NativePlaced, JournalSame
    DEF Lookup, OnlyProc, RowKept, JournalKept
  <2>2. /\ proc'[p].pc = "looked" /\ proc'[p].ws = native[e].ws /\ proc'[p].epoch = e
        /\ \A q \in Procs \ {p} : proc'[q] = proc[q]
    BY <1>0, <1>6 DEF Lookup, ProcType
  <2>3. native' = native
    BY <1>6 DEF Lookup, OnlyProc, NativeKept
  <2>4. PlaceKnown(proc[p])'
    BY <2>2, <2>3 DEF PlaceKnown, Holding
  <2>5. QED  BY <2>1, <2>2, <2>4 DEF Places
<1>7. ASSUME ExpiredSuperseded(p) \/ ExpiredAbsent(p)  PROVE Places(p)
  <2>1. e \in Epochs /\ RowPlaced' /\ NativeStays
    BY <1>7, HasEpoch, RowStillPlaced, NativePlaced
    DEF ExpiredSuperseded, ExpiredAbsent, Looked, At, RowKept
  <2>2. JournalPlaced
    BY <1>7, <1>a, <2>1, JournalSame
    DEF ExpiredSuperseded, ExpiredAbsent, Superseded, JournalKept
  <2>3. Return(p) \/ Goto(p, "stop") \/ Goto(p, "expired")
    BY <1>7 DEF ExpiredSuperseded, ExpiredAbsent
  <2>4. QED  BY <2>1, <2>2, <2>3, PlacesReturn, PlacesGoto DEF Placing, Holding
<1>8. ASSUME ExpiredAdopted(p)  PROVE Places(p)
  <2>1. RowPlaced' /\ NativeStays
    BY <1>8, RowStillPlaced, NativePlaced DEF ExpiredAdopted, RowKept
  <2>2. /\ e \in Epochs /\ native[e].state # "none"
        /\ proc[p].ws = native[e].ws /\ proc[p].ws # None
    BY <1>8, HasEpoch DEF ExpiredAdopted, Looked, At, IInv, ProcInv, PlaceInv, PlaceKnown
  <2>3. CASE Return(p) /\ JournalKept
    BY <2>1, <2>3, JournalSame, PlacesReturn DEF JournalKept
  <2>4. CASE /\ effect' = [effect EXCEPT ![e].state = "launched", ![e].ws = proc[p].ws]
             /\ Goto(p, "activate")
    <3>1. /\ effect'[e].ws = native[e].ws
          /\ \A d \in Epochs \ {e} : effect'[d] = effect[d]
      BY <1>0, <2>2, <2>4 DEF EffectType
    <3>2. JournalPlaced
      BY <2>2, <3>1, IInvParts DEF JournalPlaced, PlaceInv, JournalInv, Known
    <3>3. QED  BY <2>1, <2>2, <2>4, <3>2, PlacesOn DEF Holding
  <2>5. QED  BY <1>8, <2>3, <2>4 DEF ExpiredAdopted
<1>9. ASSUME LoseExpired(p)  PROVE Places(p)
  BY <1>9, FailPlaced, NativePlaced, JournalSame, PlacesReturn DEF LoseExpired, JournalKept
<1>10. QED
  BY <1>1, <1>2, <1>3, <1>4, <1>5, <1>6, <1>7, <1>8, <1>9 DEF Settling

(* A dispatch creates a workspace. *)
LEMMA DispatchPlaces ==
    ASSUME IInv, PlaceInv, HandoverInv, NEW p \in Procs, Goto(p, "reserve"),
           proc[p].pc \in {"startIO", "autoIO"}, RowPlaced', NativeStays, JournalPlaced
    PROVE  Places(p)
<1>1. proc[p].op = "start" \/ proc[p].src = None
  BY DEF HandoverInv, HandInv
<1>2. QED  BY <1>1, PlacesOn

LEMMA ReplaceCommitPlaces ==
    ASSUME IInv, IInv', PlaceInv, NEW p \in Procs, ReplaceCommit(p)  PROVE Places(p)
<1>1. NativeStays /\ JournalPlaced
  BY NativePlaced, JournalSame DEF ReplaceCommit, JournalKept
<1>2. CASE Return(p) /\ RowKept
  BY <1>1, <1>2, RowStillPlaced, PlacesReturn DEF RowKept
<1>3. CASE Snapshot(p, "replace", Reopened, "retire") /\ row' = Reopened
  <2>1. Reopened.holder = row.holder /\ Reopened.ws = row.ws
    BY NextPlaced DEF Reopened
  <2>2. proc'[p].src = Reopened.holder /\ proc'[p].pc = "retire"
    BY <1>3 DEF Snapshot, Idle, IInv, TypeOK
  <2>3. Reopened.holder # None
    BY <2>2 DEF IInv, ProcInv, Succeeding
  <2>4. Reopened.ws # None /\ RowPlaced'
    BY <1>3, <2>1, <2>3 DEF PlaceInv, RowPlaced
  <2>5. QED  BY <1>1, <1>3, <2>4, PlacesRead
<1>4. QED  BY <1>2, <1>3 DEF ReplaceCommit, Write

LEMMA StartingPlaces ==
    ASSUME IInv, IInv', PlaceInv, HandoverInv, NEW p \in Procs, Starting(p)
    PROVE  Places(p)
<1>1. ASSUME StartRead(p)  PROVE Places(p)
  <2>1. RowPlaced' /\ NativeStays /\ JournalPlaced
    BY <1>1, RowStillPlaced, NativePlaced, JournalSame
    DEF StartRead, RowRead, RowKept, JournalKept
  <2>2. Return(p) \/ Snapshot(p, "start", row, "startIO")
    BY <1>1 DEF StartRead
  <2>3. QED  BY <2>1, <2>2, PlacesReturn, PlacesRead DEF Placing, Holding
<1>2. ASSUME StartDispatch(p) \/ StartRefused(p)  PROVE Places(p)
  <2>1. RowPlaced' /\ NativeStays /\ JournalPlaced /\ proc[p].pc = "startIO"
    BY <1>2, RowStillPlaced, NativePlaced, JournalSame
    DEF StartDispatch, StartRefused, At, OnlyProc, RowKept, JournalKept
  <2>2. Return(p) \/ Goto(p, "reserve")
    BY <1>2 DEF StartDispatch, StartRefused
  <2>3. QED  BY <2>1, <2>2, PlacesReturn, DispatchPlaces
<1>3. QED  BY <1>1, <1>2, ReplaceCommitPlaces DEF Starting

(* A replacement is launched where the holder works, if there is one. *)
LEMMA PreparedPlaces ==
    ASSUME IInv, PlaceInv, NEW r, Snapshot(Bridge, "auto", r, Prepared(r)),
           r.holder # None => r.ws # None, RowPlaced', NativeStays, JournalPlaced
    PROVE  Places(Bridge)
<1>1. Prepared(r) = "autoIO" \/ (Prepared(r) = "retire" /\ r.holder # None)
  BY DEF Prepared
<1>2. Prepared(r) # "looked" /\ (r.ws # None \/ Prepared(r) \notin Placing)
  BY <1>1 DEF Placing, Holding
<1>3. QED  BY <1>2, BridgeIsProc, PlacesRead

LEMMA ReconcilingPlaces ==
    ASSUME IInv, PlaceInv, HandoverInv, Reconciling  PROVE Places(Bridge)
<1>0. Bridge \in Procs /\ proc \in [Procs -> ProcType] /\ NativeStays
  BY BridgeIsProc, NativePlaced
  DEF IInv, TypeOK, Reconciling, AutoDispatch, Reroute, ObserveRead, ObserveRefusal,
      ObserveFailure, ObserveNothing, OnlyProc
<1>1. ASSUME AutoDispatch  PROVE Places(Bridge)
  <2>1. RowPlaced' /\ JournalPlaced /\ proc[Bridge].pc = "autoIO"
    BY <1>1, RowStillPlaced, JournalSame DEF AutoDispatch, OnlyProc, RowKept, JournalKept, At
  <2>2. Return(Bridge) \/ Goto(Bridge, "reserve")
    BY <1>1 DEF AutoDispatch
  <2>3. QED  BY <1>0, <2>1, <2>2, PlacesReturn, DispatchPlaces
<1>2. ASSUME Reroute  PROVE Places(Bridge)
  <2>1. JournalPlaced
    BY <1>2, JournalSame DEF Reroute, JournalKept
  <2>2. CASE Return(Bridge) /\ RowKept
    BY <1>0, <2>1, <2>2, RowStillPlaced, PlacesReturn DEF RowKept
  <2>3. CASE ~(Return(Bridge) /\ RowKept)
    <3>1. PICK r : /\ r = L!NextEpoch(row, row.state = "active", TRUE)
                   /\ Snapshot(Bridge, "auto", r, Prepared(r)) /\ row' = r
      BY <1>2, <2>3 DEF Reroute, Write
    <3>2. r.holder # None => r.ws # None
      <4>1. row \in RowType /\ RowPlaced
        BY DEF IInv, TypeOK, PlaceInv
      <4>2. r.holder = row.holder /\ r.ws = row.ws
        BY <3>1, <4>1 DEF L!NextEpoch, RowType
      <4>3. QED  BY <4>1, <4>2 DEF RowPlaced
    <3>3. RowPlaced'
      BY <3>1, <3>2 DEF RowPlaced
    <3>4. QED  BY <1>0, <2>1, <3>1, <3>2, <3>3, PreparedPlaces
  <2>4. QED  BY <2>2, <2>3
<1>3. ASSUME ObserveRead  PROVE Places(Bridge)
  <2>1. RowPlaced' /\ JournalPlaced
    BY <1>3, RowStillPlaced, JournalSame DEF ObserveRead, OnlyProc, RowKept, JournalKept
  <2>2. CASE Return(Bridge)
    BY <1>0, <2>1, <2>2, PlacesReturn
  <2>3. CASE proc' = [proc EXCEPT ![Bridge].pc = "observing", ![Bridge].epoch = row.epoch]
    <3>1. /\ proc'[Bridge].pc = "observing"
          /\ \A q \in Procs \ {Bridge} : proc'[q] = proc[q]
      BY <1>0, <2>3 DEF ProcType
    <3>2. QED  BY <1>0, <2>1, <3>1, PlacesAway DEF Placing, Holding
  <2>4. QED  BY <1>3, <2>2, <2>3 DEF ObserveRead
<1>4. ASSUME ObserveRefusal  PROVE Places(Bridge)
  <2>1. proc[Bridge].epoch \in Epochs /\ RowPlaced' /\ Return(Bridge)
    BY <1>0, <1>4, HasEpoch, RowStillPlaced DEF ObserveRefusal, At, RowKept
  <2>2. JournalPlaced
    BY <1>4, <2>1, JournalEnds, JournalSame DEF ObserveRefusal, JournalKept
  <2>3. QED  BY <1>0, <2>1, <2>2, PlacesReturn
<1>5. ASSUME ObserveFailure \/ ObserveNothing  PROVE Places(Bridge)
  <2>1. RowPlaced' /\ JournalPlaced /\ Return(Bridge)
    BY <1>5, FailPlaced, RowStillPlaced, JournalSame
    DEF ObserveFailure, ObserveNothing, OnlyProc, RowKept, JournalKept
  <2>2. QED  BY <1>0, <2>1, PlacesReturn
<1>6. QED  BY <1>1, <1>2, <1>3, <1>4, <1>5 DEF Reconciling

LEMMA TickPlaces ==
    ASSUME IInv, PlaceInv, TickNext  PROVE Places(Bridge)
<1>0. /\ Bridge \in Procs /\ proc \in [Procs -> ProcType]
      /\ NativeStays /\ JournalPlaced /\ At(Bridge, "idle")
  BY BridgeIsProc, NativePlaced, JournalSame
  DEF IInv, TypeOK, TickNext, Resume, Advance, ResumeEnded, ResumeUnfilled, AdvanceExhausts,
      AdvanceBlocks, AdvanceRoutes, Observe, Tick, OnlyProc, JournalKept
<1>1. RowPlaced'
  BY ChargedPlaced, RowStillPlaced
  DEF TickNext, Resume, Advance, ResumeEnded, ResumeUnfilled, AdvanceExhausts, AdvanceBlocks,
      AdvanceRoutes, Observe, OnlyProc, Write, RowKept, RowRead
<1>2. ASSUME UNCHANGED proc  PROVE Places(Bridge)
  BY <1>0, <1>1, <1>2, PlacesAway DEF At, Placing, Holding
<1>3. ASSUME NEW x, proc' = [proc EXCEPT ![Bridge] = x], x.pc \in {"retireFinal", "observe"}
      PROVE  Places(Bridge)
  <2>1. proc'[Bridge] = x /\ \A q \in Procs \ {Bridge} : proc'[q] = proc[q]
    BY <1>0, <1>3
  <2>2. QED  BY <1>0, <1>1, <1>3, <2>1, PlacesAway DEF Placing, Holding
<1>4. ResumeUnfilled => Places(Bridge)
  BY <1>0, <1>1, PreparedPlaces DEF ResumeUnfilled, PlaceInv, RowPlaced
<1>5. AdvanceRoutes => Places(Bridge)
  BY <1>0, <1>1, PlacesRead DEF AdvanceRoutes, Placing, Holding
<1>6. ResumeEnded \/ AdvanceBlocks => Places(Bridge)
  BY <1>2 DEF ResumeEnded, AdvanceBlocks
<1>7. AdvanceExhausts \/ Observe => Places(Bridge)
  BY <1>3 DEF AdvanceExhausts, Observe, Idle
<1>8. QED  BY <1>4, <1>5, <1>6, <1>7 DEF TickNext, Resume, Advance

LEMMA SweepPlaces ==
    ASSUME IInv, PlaceInv, NEW p \in Procs, Sweep(p)  PROVE Places(p)
<1>0. proc \in [Procs -> ProcType] /\ native \in [Epochs -> NativeType]
  BY DEF IInv, TypeOK
<1>1. ASSUME SweepExpired(p)  PROVE Places(p)
  BY <1>1, RowStillPlaced, NativePlaced, JournalSame, PlacesRead
  DEF SweepExpired, RowRead, JournalKept, Placing, Holding
<1>2. ASSUME NEW e \in Epochs, SweepTerminal(p, e)  PROVE Places(p)
  <2>1. RowPlaced' /\ NativeStays /\ JournalPlaced
    BY <1>2, RowStillPlaced, NativePlaced, JournalSame
    DEF SweepTerminal, OnlyProc, RowKept, JournalKept
  <2>2. proc'[p].pc = "stop" /\ \A q \in Procs \ {p} : proc'[q] = proc[q]
    BY <1>0, <1>2 DEF SweepTerminal, Idle
  <2>3. QED  BY <2>1, <2>2, PlacesAway DEF Placing, Holding
<1>3. ASSUME NEW e \in Epochs, Cleanup(p, e)  PROVE Places(p)
  <2>1. NativeStays
    BY <1>0, <1>3 DEF Cleanup, NativeStays, NativeType
  <2>2. RowPlaced' /\ JournalPlaced /\ proc' = proc /\ proc[p].pc \in {"idle", "cleanup"}
    BY <1>3, RowStillPlaced, JournalSame DEF Cleanup, JournalKept, At
  <2>3. QED  BY <2>1, <2>2, PlacesAway DEF Placing, Holding
<1>4. QED  BY <1>1, <1>2, <1>3 DEF Sweep

LEMMA GivenPlaces ==
    ASSUME IInv, PlaceInv, NEW p \in Procs, Given(p)  PROVE Places(p)
<1>0. /\ proc \in [Procs -> ProcType] /\ row \in RowType
      /\ NativeStays /\ JournalPlaced /\ At(p, "idle")
  BY NativePlaced, JournalSame
  DEF IInv, TypeOK, Given, StartReserve, StartAgain, StartReissue, ReplaceRead, Block,
      FinishRead, Command, OnlyProc, JournalKept
<1>1. RowPlaced'
  <2>1. StartReserve(p) => row'.holder = row.holder /\ row'.ws = row.ws
    BY <1>0 DEF StartReserve, Write, RowType
  <2>2. StartReissue(p) => row'.holder = None
    BY DEF StartReissue, Write
  <2>3. QED
    BY <2>1, <2>2, SettledPlaced, RowStillPlaced
    DEF Given, StartAgain, ReplaceRead, Block, FinishRead, OnlyProc, Write, RowKept, RowRead,
        PlaceInv, RowPlaced
<1>2. /\ StartReserve(p) \/ StartAgain(p) => Snapshot(p, "start", row, "start")
      /\ StartReissue(p) => Snapshot(p, "start", row', "start")
      /\ ReplaceRead(p) => Snapshot(p, "replace", row, "replace")
  BY DEF StartReserve, StartAgain, StartReissue, ReplaceRead
<1>3. Block(p) => Places(p)
  BY <1>0, <1>1, PlacesAway DEF Block, At, Placing, Holding
<1>4. ASSUME NEW op \in {"complete", "cancel"}, FinishRead(p, op)  PROVE Places(p)
  <2>1. proc'[p].pc = "finish" /\ \A q \in Procs \ {p} : proc'[q] = proc[q]
    BY <1>0, <1>4 DEF FinishRead, Idle
  <2>2. QED  BY <1>0, <1>1, <2>1, PlacesAway DEF Placing, Holding
<1>5. "start" \notin Placing /\ "replace" \notin Placing
  BY DEF Placing, Holding
<1>6. \A op, r, pc : Snapshot(p, op, r, pc) /\ pc \notin Placing => Places(p)
  BY <1>0, <1>1, PlacesRead DEF Placing
<1>7. QED  BY <1>2, <1>3, <1>4, <1>5, <1>6 DEF Given

LEMMA FaultsPlaces ==
    ASSUME IInv, PlaceInv, NEW p \in Procs, Faults(p)  PROVE Places(p)
<1>0. effect \in [Epochs -> EffectType] /\ native \in [Epochs -> NativeType]
  BY DEF IInv, TypeOK
<1>1. Return(p) /\ RowPlaced'
  BY RowStillPlaced DEF Faults, Crash, CallTimesOut, StopFails, LookupFails, OnlyProc, RowKept
<1>2. JournalPlaced
  <2>1. Crash(p) => \A d \in Epochs : effect'[d].state = "launched"
                      => effect[d].state = "launched" /\ effect'[d].ws = effect[d].ws
    BY <1>0 DEF Crash, EffectType
  <2>2. QED
    BY <2>1, JournalCalm, JournalSame
    DEF Faults, CallTimesOut, StopFails, LookupFails, OnlyProc, JournalKept
<1>3. NativeStays
  <2>1. CASE CallTimesOut(p) /\ native' = Created(p)
    BY <1>0, <2>1, CreatedPlaced DEF CallTimesOut, At
  <2>2. CASE native' = native
    BY <2>2, NativePlaced DEF NativeKept
  <2>3. QED
    BY <2>1, <2>2 DEF Faults, Crash, CallTimesOut, StopFails, LookupFails, OnlyProc, NativeKept
<1>4. QED  BY <1>1, <1>2, <1>3, PlacesReturn

LEMMA NextPlaces == IInv /\ IInv' /\ HandoverInv /\ PlaceInv /\ [Next]_vars => PlaceInv'
<1> SUFFICES ASSUME IInv, IInv', HandoverInv, PlaceInv, [Next]_vars  PROVE PlaceInv'
  OBVIOUS
<1>1. ASSUME NEW p \in Procs, Continue(p) \/ Sweep(p) \/ Faults(p)  PROVE PlaceInv'
  BY <1>1, LaunchingPlaces, SettlingPlaces, StartingPlaces, ReconcilingPlaces, SweepPlaces,
     FaultsPlaces, PlacesKeep DEF Continue
<1>2. ASSUME NEW p \in Commands, Given(p)  PROVE PlaceInv'
  BY <1>2, GivenPlaces, PlacesKeep DEF Procs
<1>3. ASSUME TickNext  PROVE PlaceInv'
  BY <1>3, TickPlaces, BridgeIsProc, PlacesKeep
<1>4. ASSUME NativeStays, JournalPlaced, UNCHANGED <<row, proc>>  PROVE PlaceInv'
  <2>1. \A q \in Procs : PlaceKnown(proc[q])'
    BY <1>4, PlaceStays DEF PlaceInv
  <2>2. QED  BY <1>4, <2>1 DEF PlaceInv, RowPlaced, NativeStays, JournalPlaced
<1>5. ASSUME NEW e \in Epochs, LeaseExpires(e) \/ NativeEnds(e)  PROVE PlaceInv'
  <2>0. effect \in [Epochs -> EffectType] /\ native \in [Epochs -> NativeType]
    BY DEF IInv, TypeOK
  <2>1. NativeStays
    BY <1>5, <2>0 DEF LeaseExpires, NativeEnds, NativeStays, NativeType
  <2>2. \A d \in Epochs : effect'[d].state = "launched"
          => effect[d].state = "launched" /\ effect'[d].ws = effect[d].ws
    BY <1>5, <2>0 DEF LeaseExpires, NativeEnds, EffectType
  <2>3. QED  BY <1>4, <1>5, <2>1, <2>2, JournalCalm DEF LeaseExpires, NativeEnds
<1>6. CASE UNCHANGED vars
  BY <1>4, <1>6, NativePlaced, JournalSame DEF vars, NativeKept
<1>7. QED  BY <1>1, <1>2, <1>3, <1>5, <1>6 DEF Next

-----------------------------------------------------------------------------
(* The journal has every session that runs.  A session begins to run behind  *)
(* the journal's back: between the request that creates it and the write     *)
(* that records it the fence is open, and the epoch may be taken over, ended *)
(* or finished with its task.  RecordInv follows a session through that gap. *)
(* As long as nobody dies, no answer is lost and no lease runs out under a   *)
(* launch, it runs as launched, or marked for the sweep of its workspace, or *)
(* somebody still owes the record: a launcher with the answer in hand, or a  *)
(* process about to stop the workspace.                                      *)

(* Where a launcher waits for the executor, or has its answer. *)
Asked == {"call", "reply"}

(* Where a current snapshot says that the task's epoch is to be filled. *)
Going == LaunchPoints \union {"startIO", "autoIO", "retire", "transfer"}

Opening == {"absent", "reserved", "replacing"}

Asks(p, e) == proc[p].pc \in Asked /\ proc[p].epoch = e

(* A reconcile pass will stop the session's workspace. *)
Marked(e) == effect[e].state = "terminal" /\ effect[e].ws = native[e].ws

(* p will record the session, or stop the workspace it works in. *)
Answers(p, e) ==
    /\ At(p, "reply") /\ proc[p].reply = "ok" /\ proc[p].epoch = e
    /\ p \notin fresh \/ Open(e)

Stops(p, e) == At(p, "stop") /\ proc[p].ws = native[e].ws

Owed(e) == \E p \in Procs : Answers(p, e) \/ Stops(p, e)

(* One process holds the fence, and one is asked for an epoch. *)
Mutex == \A p, q \in Procs : proc[p].pc \in Fenced /\ proc[q].pc \in Fenced => p = q

AskedOnce == \A p, q \in Procs : \A e \in Epochs : Asks(p, e) /\ Asks(q, e) => p = q

(* Whoever finished the task goes on to end its epoch. *)
FinishedInv ==
    Finished /\ Open(row.epoch)
        => \E p \in Procs : At(p, "closeEffect") /\ proc[p].epoch = row.epoch

RunningInv ==
    \A e \in Epochs : native[e].state = "running"
        => effect[e].state = "launched" \/ Marked(e) \/ Owed(e)

(* What p read is the row's, and the row asks for what p is doing. *)
GoingInv(p) == p \in fresh /\ proc[p].pc \in Going => row.state \in {"reserved", "replacing"}

(* Nobody reserves an epoch of which the journal knows nothing, unless what *)
(* it read is current.                                                      *)
ReservingInv(p) ==
    /\ At(p, "reserve") => p \in fresh \/ effect[proc[p].epoch].state # "none"
    /\ At(p, "busy") => effect[proc[p].epoch].state # "none"

(* The reservation is the launcher's own while it waits, and if no session  *)
(* was created yet, its epoch does not end under it.                        *)
AskedInv(p) ==
    proc[p].pc \in Asked =>
        LET x == effect[proc[p].epoch] IN
        /\ x.state # "none"
        /\ x.state = "reserved" => x.live /\ (x.bridge <=> p = Bridge)
        /\ p \in fresh /\ native[proc[p].epoch].state = "none" => Open(proc[p].epoch)

(* The epoch is over, or was never entered and the task is finished. *)
Over(e) == effect[e].state = "terminal"
             \/ (effect[e].state = "none" /\ Finished /\ e = row.epoch)

EndingInv(p) ==
    /\ At(p, "closeEffect") => Finished /\ proc[p].epoch = row.epoch
    /\ proc[p].pc \in {"stop", "stopped", "retireFinal"} => Over(proc[p].epoch)

(* What was stopped and runs again was launched since. *)
StoppedInv(p) ==
    LET e == proc[p].epoch IN
    /\ At(p, "stopped")
    /\ native[e].state = "running" /\ native[e].ws = proc[p].ws
    /\ effect[e].state = "terminal"
    => Owed(e)

(* An observed task is not waiting to be launched, unless at a later epoch. *)
ObservingInv(p) ==
    At(p, "observing") => proc[p].epoch < row.epoch \/ row.state \notin Opening

OwnInv(p) == /\ GoingInv(p) /\ ReservingInv(p) /\ AskedInv(p)
             /\ EndingInv(p) /\ StoppedInv(p) /\ ObservingInv(p)

RecordInv == /\ Mutex /\ AskedOnce /\ FinishedInv /\ RunningInv
             /\ \A p \in Procs : OwnInv(p)

-----------------------------------------------------------------------------
(* What a step of p does, and must leave to the others. *)

RowStays(p) ==
    /\ row' = row
    /\ fresh \ {p} \subseteq fresh' /\ fresh' \subseteq fresh \union {p}

(* The row is written under the fence, and a finished one is not. *)
RowWritten(p) ==
    /\ fresh' \subseteq {p}
    /\ proc[p].pc \in Fenced \/ FenceFree
    /\ ~Finished
    /\ row.epoch <= row'.epoch
    /\ row'.state \in Opening => row.state \in Opening \/ row.epoch < row'.epoch
    /\ Finished' => At(p, "closeEffect")' /\ proc'[p].epoch = row'.epoch

Reserves(p, e) ==
    /\ effect[e].state \in {"none", "reserved"}
    /\ effect'[e].state = "reserved" /\ effect'[e].live
    /\ effect'[e].bridge <=> p = Bridge
    /\ effect[e].state = "none" => ~Finished
    /\ \A q \in Procs \ {p} : ~Asks(q, e)

Launches(e) == Open(e) /\ effect'[e].state = "launched"

(* An epoch ends under nobody who waits for its first answer, or its        *)
(* session is stopped at once.                                              *)
Ends(p, e) ==
    /\ Open(e)
    /\ effect'[e].state = "terminal"
    /\ effect[e].state = "launched" => effect'[e].ws = native[e].ws
    /\ \/ \A q \in fresh \ {p} : ~Asks(q, e)
       \/ Stops(p, e)' /\ native[e].state # "none"

Remarks(e) == effect[e].state = "terminal" /\ effect'[e].state = "terminal"

JournalWritten(p, e) ==
    /\ e \in Epochs
    /\ \A d \in Epochs \ {e} : effect'[d] = effect[d]
    /\ Reserves(p, e) \/ Launches(e) \/ Ends(p, e) \/ Remarks(e)

(* A session that begins to run is p's, and p has the answer. *)
Runs(p) ==
    \A d \in Epochs : native'[d].state = "running"
        => native[d].state = "running" \/ (native[d].state = "none" /\ Answers(p, d)')

(* What p owes it goes on owing, or does. *)
Pays(p) ==
    \A d \in Epochs : native[d].state = "running" /\ native'[d].state = "running" =>
        /\ Answers(p, d) \/ Stops(p, d) => Owed(d)' \/ effect'[d].state = "launched"
        /\ Marked(d) => Marked(d)' \/ Owed(d)

Tracks(p) ==
    /\ \A q \in Procs \ {p} : proc'[q] = proc[q]
    /\ OwnInv(p)'
    /\ RowStays(p) \/ RowWritten(p)
    /\ UNCHANGED effect \/ \E e \in Epochs : JournalWritten(p, e)
    /\ NativeStays /\ Runs(p) /\ Pays(p)
    /\ proc'[p].pc \in Fenced => proc[p].pc \in Fenced \/ FenceFree
    /\ \A e \in Epochs : Asks(p, e)' => Asks(p, e) \/ \A q \in Procs \ {p} : ~Asks(q, e)
    /\ At(p, "closeEffect") => ~Open(row.epoch)'

(* Nobody else is under the fence while the row is written. *)
LEMMA WritesAlone ==
    ASSUME Mutex, NEW p \in Procs, NEW q \in Procs \ {p}, RowWritten(p)
    PROVE  proc[q].pc \notin Fenced
  BY DEF Mutex, RowWritten, FenceFree

(* How the journal's row of one epoch may change. *)
LEMMA JournalMoves ==
    ASSUME NEW p \in Procs, Tracks(p), NEW d \in Epochs
    PROVE  /\ effect[d].state # "none" => effect'[d].state # "none"
           /\ effect[d].state = "terminal" => effect'[d].state = "terminal"
           /\ effect'[d].state = "terminal" => effect[d].state # "none"
           /\ Finished /\ effect[d].state = "none" => effect'[d].state = "none"
           /\ Open(d)' => Open(d) \/ (effect[d].state = "none" /\ ~Finished)
           /\ Open(d) => Open(d)' \/ Ends(p, d)
           /\ effect[d].state = "launched" => effect'[d] = effect[d]
                \/ effect'[d].state = "launched" \/ Ends(p, d)
<1>1. CASE effect'[d] = effect[d]
  BY <1>1 DEF Open
<1>2. CASE effect'[d] # effect[d]
  <2>1. JournalWritten(p, d)
    BY <1>2 DEF Tracks, JournalWritten
  <2>2. CASE Reserves(p, d)
    BY <2>2 DEF Reserves, Open
  <2>3. CASE Launches(d)
    BY <2>3 DEF Launches, Open
  <2>4. CASE Ends(p, d)
    BY <2>4 DEF Ends, Open
  <2>5. CASE Remarks(d)
    BY <2>5 DEF Remarks, Open
  <2>6. QED  BY <2>1, <2>2, <2>3, <2>4, <2>5 DEF JournalWritten
<1>3. QED  BY <1>1, <1>2

(* A finished task stays as it is. *)
LEMMA FinishedStays ==
    ASSUME NEW p \in Procs, Tracks(p), Finished
    PROVE  Finished' /\ row' = row
  BY DEF Tracks, RowStays, RowWritten, Finished

(* What is owed stays owed, until it is paid. *)
LEMMA OwedStays ==
    ASSUME IInv, NEW p \in Procs, Tracks(p), NEW d \in Epochs, Owed(d),
           native'[d].state = "running", native[d].state = "running"
    PROVE  Owed(d)' \/ effect'[d].state = "launched"
<1>1. PICK q \in Procs : Answers(q, d) \/ Stops(q, d)
  BY DEF Owed
<1>2. CASE q = p
  BY <1>1, <1>2 DEF Tracks, Pays
<1>3. CASE q # p
  <2>1. proc'[q] = proc[q]
    BY <1>3 DEF Tracks
  <2>2. CASE Stops(q, d)
    <3>1. Stops(q, d)'
      BY <2>1, <2>2 DEF Stops, At, Tracks, NativeStays
    <3>2. QED  BY <3>1 DEF Owed
  <2>3. CASE Answers(q, d)
    <3>1. At(q, "reply")' /\ proc'[q].reply = "ok" /\ proc'[q].epoch = d
      BY <2>1, <2>3 DEF Answers, At
    <3>2. CASE q \notin fresh'
      BY <3>1, <3>2 DEF Answers, Owed
    <3>3. CASE q \in fresh'
      <4>1. q \in fresh /\ Open(d)
        BY <1>3, <2>3, <3>3 DEF Tracks, RowStays, RowWritten, Answers
      <4>2. CASE Open(d)'
        BY <3>1, <4>2 DEF Answers, Owed
      <4>3. CASE ~Open(d)'
        <5>1. Ends(p, d) /\ Asks(q, d)
          BY <2>3, <4>1, <4>3, JournalMoves DEF Answers, At, Asks, Asked
        <5>2. Stops(p, d)'
          BY <1>3, <4>1, <5>1 DEF Ends
        <5>3. QED  BY <5>2 DEF Owed
      <4>4. QED  BY <4>2, <4>3
    <3>4. QED  BY <3>2, <3>3
  <2>4. QED  BY <1>1, <2>2, <2>3
<1>4. QED  BY <1>2, <1>3

(* The invariant of a process that does not move. *)
LEMMA OwnStays ==
    ASSUME IInv, IInv', RecordInv, NEW p \in Procs, NEW q \in Procs \ {p}, Tracks(p)
    PROVE  OwnInv(q)'
<1>0. PICK e :
      /\ e = proc[q].epoch /\ proc'[q] = proc[q] /\ OwnInv(q) /\ q \in Procs
      /\ q \in fresh' => q \in fresh /\ row' = row
      /\ proc[q].pc \in Fenced => row' = row /\ (q \in fresh => q \in fresh')
  BY WritesAlone DEF Tracks, RecordInv, RowStays, RowWritten
<1>1. proc[q].pc \notin {"idle", "finish", "observe"} => e \in Epochs /\ e <= row.epoch
  BY <1>0, HasEpoch
<1>2. GoingInv(q)'
  BY <1>0 DEF OwnInv, GoingInv
<1>3. ReservingInv(q)'
  BY <1>0, <1>1, JournalMoves DEF OwnInv, ReservingInv, At, Fenced
<1>4. AskedInv(q)'
  <2>1. SUFFICES ASSUME proc[q].pc \in Asked  PROVE AskedInv(q)'
    BY <1>0 DEF AskedInv
  <2>2. e \in Epochs /\ AskedInv(q) /\ Asks(q, e)
    BY <1>0, <1>1, <2>1 DEF OwnInv, Asks, Asked
  <2>3. effect'[e].state # "none"
    BY <1>0, <2>1, <2>2, JournalMoves DEF AskedInv
  <2>4. effect'[e].state = "reserved" => effect'[e].live /\ (effect'[e].bridge <=> q = Bridge)
    <3>1. CASE effect'[e] = effect[e]
      BY <1>0, <2>1, <2>2, <3>1 DEF AskedInv
    <3>2. CASE effect'[e] # effect[e]
      <4>1. JournalWritten(p, e)
        BY <1>0, <3>2, <2>2 DEF Tracks, JournalWritten
      <4>2. ~Reserves(p, e)
        BY <1>0, <2>2 DEF Reserves
      <4>3. QED  BY <1>0, <4>1, <4>2 DEF JournalWritten, Launches, Ends, Remarks
    <3>3. QED  BY <1>0, <3>1, <3>2
  <2>5. ASSUME q \in fresh', native'[e].state = "none"  PROVE Open(e)'
    <3>1. q \in fresh /\ native[e].state = "none"
      BY <1>0, <2>2, <2>5 DEF Tracks, NativeStays
    <3>2. Open(e)
      BY <1>0, <2>1, <2>2, <3>1 DEF AskedInv
    <3>3. ~Ends(p, e)
      BY <1>0, <2>2, <3>1 DEF Ends
    <3>4. QED  BY <1>0, <2>2, <3>2, <3>3, JournalMoves
  <2>6. QED  BY <1>0, <2>3, <2>4, <2>5 DEF AskedInv, Open
<1>5. EndingInv(q)'
  <2>1. At(q, "closeEffect")' => Finished' /\ proc'[q].epoch = row'.epoch
    BY <1>0 DEF OwnInv, EndingInv, At, Fenced, Finished
  <2>2. ASSUME proc[q].pc \in {"stop", "stopped", "retireFinal"}  PROVE Over(e)'
    <3>1. e \in Epochs /\ Over(e)
      BY <1>0, <1>1, <2>2 DEF OwnInv, EndingInv
    <3>2. QED  BY <1>0, <3>1, JournalMoves, FinishedStays DEF Over
  <2>3. QED  BY <1>0, <2>1, <2>2 DEF EndingInv
<1>6. StoppedInv(q)'
  <2>1. SUFFICES ASSUME At(q, "stopped"), native'[e].state = "running",
                        native'[e].ws = proc[q].ws, effect'[e].state = "terminal"
                 PROVE  Owed(e)'
    BY <1>0 DEF StoppedInv, At
  <2>2. e \in Epochs /\ Over(e)
    BY <1>0, <1>1, <2>1 DEF OwnInv, EndingInv, At
  <2>3. effect[e].state = "terminal"
    BY <1>0, <2>1, <2>2, JournalMoves DEF Over
  <2>4. CASE native[e].state = "running"
    <3>1. native'[e].ws = native[e].ws
      BY <1>0, <2>2, <2>4 DEF Tracks, NativeStays
    <3>2. Owed(e)
      BY <1>0, <2>1, <2>3, <2>4, <3>1 DEF OwnInv, StoppedInv
    <3>3. QED  BY <1>0, <2>1, <2>2, <2>4, <3>2, OwedStays
  <2>5. CASE native[e].state # "running"
    BY <1>0, <2>1, <2>2, <2>5 DEF Tracks, Runs, Owed
  <2>6. QED  BY <1>0, <2>4, <2>5
<1>7. ObservingInv(q)'
  <2>1. CASE row' = row
    BY <1>0, <2>1 DEF OwnInv, ObservingInv, At
  <2>2. CASE row' # row /\ At(q, "observing")
    <3>1. RowWritten(p)
      BY <1>0, <2>2 DEF Tracks, RowStays
    <3>2. e \in Nat /\ row.epoch \in Nat /\ e <= row.epoch
      BY <1>0, <1>1, <2>2, RowEpoch, LaunchAssumption DEF LaunchAssumption, At, Epochs
    <3>3. row'.epoch \in Nat
      <4>1. row' \in RowType
        BY <1>0 DEF IInv, TypeOK
      <4>2. row'.epoch \in Epochs
        BY <4>1 DEF RowType
      <4>3. QED  BY <4>2 DEF Epochs
    <3>4. QED  BY <1>0, <2>2, <3>1, <3>2, <3>3 DEF OwnInv, ObservingInv, RowWritten, At
  <2>3. QED  BY <1>0, <2>1, <2>2 DEF ObservingInv, At
<1>8. QED  BY <1>2, <1>3, <1>4, <1>5, <1>6, <1>7 DEF OwnInv

(* The fence and the requests: nobody steps in. *)
LEMMA AloneStays ==
    ASSUME RecordInv, NEW p \in Procs, Tracks(p)  PROVE Mutex' /\ AskedOnce'
<1>1. Mutex'
  <2>1. \A a \in Procs \ {p} : proc'[a] = proc[a]
    BY DEF Tracks
  <2>2. ASSUME NEW a \in Procs \ {p}, proc'[p].pc \in Fenced, proc[a].pc \in Fenced
        PROVE  FALSE
    BY <2>2 DEF Tracks, RecordInv, Mutex, FenceFree
  <2>3. \A a, b \in Procs \ {p} : proc[a].pc \in Fenced /\ proc[b].pc \in Fenced => a = b
    BY DEF RecordInv, Mutex
  <2>4. QED  BY <2>1, <2>2, <2>3 DEF Mutex
<1>2. AskedOnce'
  <2>1. \A a \in Procs \ {p} : \A e : Asks(a, e)' <=> Asks(a, e)
    BY DEF Tracks, Asks
  <2>2. ASSUME NEW a \in Procs \ {p}, NEW e \in Epochs, Asks(p, e)', Asks(a, e)
        PROVE  FALSE
    BY <2>2 DEF Tracks, RecordInv, AskedOnce
  <2>3. \A a, b \in Procs \ {p} : \A e \in Epochs : Asks(a, e) /\ Asks(b, e) => a = b
    BY DEF RecordInv, AskedOnce
  <2>4. QED  BY <2>1, <2>2, <2>3 DEF AskedOnce
<1>3. QED  BY <1>1, <1>2

(* A finished task's epoch ends, or is about to. *)
LEMMA FinishedKeeps ==
    ASSUME IInv, RecordInv, NEW p \in Procs, Tracks(p)  PROVE FinishedInv'
<1>1. SUFFICES ASSUME Finished', Open(row.epoch)'
               PROVE  \E q \in Procs : At(q, "closeEffect")' /\ proc'[q].epoch = row'.epoch
  BY DEF FinishedInv, At
<1>2. CASE Finished
  <2>1. row' = row
    BY <1>2, FinishedStays
  <2>2. PICK d : d = row.epoch /\ d \in Epochs
    BY RowEpoch
  <2>3. Open(d)'
    BY <1>1, <2>1, <2>2 DEF Open
  <2>4. Open(d)
    BY <1>2, <2>2, <2>3, JournalMoves
  <2>5. PICK q \in Procs : At(q, "closeEffect") /\ proc[q].epoch = row.epoch
    BY <1>2, <2>2, <2>4 DEF RecordInv, FinishedInv, Open
  <2>6. q # p
    BY <1>1, <2>5 DEF Tracks
  <2>7. proc'[q] = proc[q]
    BY <2>6 DEF Tracks
  <2>8. QED  BY <2>1, <2>5, <2>7 DEF At
<1>3. CASE ~Finished
  <2>1. row' # row
    BY <1>1, <1>3 DEF Finished
  <2>2. RowWritten(p)
    BY <2>1 DEF Tracks, RowStays
  <2>3. QED  BY <1>1, <2>2 DEF RowWritten
<1>4. QED  BY <1>2, <1>3

(* A session that runs is recorded, or about to be. *)
LEMMA RunningKeeps ==
    ASSUME IInv, RecordInv, NEW p \in Procs, Tracks(p)  PROVE RunningInv'
<1>1. SUFFICES ASSUME NEW e \in Epochs, native'[e].state = "running"
               PROVE  effect'[e].state = "launched" \/ Marked(e)' \/ Owed(e)'
  BY DEF RunningInv
<1>2. CASE native[e].state # "running"
  BY <1>1, <1>2 DEF Tracks, Runs, Owed
<1>3. CASE native[e].state = "running"
  <2>1. native'[e].ws = native[e].ws
    BY <1>3 DEF Tracks, NativeStays
  <2>2. CASE Owed(e)
    BY <1>1, <1>3, <2>2, OwedStays
  <2>3. CASE Marked(e)
    BY <1>1, <1>3, <2>2, <2>3 DEF Tracks, Pays
  <2>4. CASE effect[e].state = "launched"
    <3>1. effect'[e] = effect[e] \/ effect'[e].state = "launched" \/ Ends(p, e)
      BY <2>4, JournalMoves
    <3>2. Ends(p, e) => Marked(e)'
      BY <2>1, <2>4 DEF Ends, Marked
    <3>3. QED  BY <2>4, <3>1, <3>2
  <2>5. QED  BY <1>3, <2>2, <2>3, <2>4 DEF RecordInv, RunningInv
<1>4. QED  BY <1>2, <1>3

(* The inductive step, once for all actions of a process. *)
LEMMA TracksKeep ==
    ASSUME IInv, IInv', RecordInv, NEW p \in Procs, Tracks(p)  PROVE RecordInv'
<1>1. ASSUME NEW q \in Procs  PROVE OwnInv(q)'
  BY OwnStays DEF Tracks
<1>2. QED  BY <1>1, AloneStays, FinishedKeeps, RunningKeeps DEF RecordInv

-----------------------------------------------------------------------------

(* Where a process has nothing to answer for. *)
Plain(p) == /\ ~At(p, "stop") /\ ~At(p, "closeEffect")
            /\ ~(At(p, "reply") /\ proc[p].reply = "ok")

Demanding == Going \union {"closeEffect", "stop", "stopped", "retireFinal", "observing"}

(* A step of p moves nobody else. *)
LEMMA OthersRest ==
    ASSUME IInv, NEW p \in Procs,
           \/ Return(p)
           \/ \E pc : Goto(p, pc)
           \/ \E op, r, pc : Snapshot(p, op, r, pc)
           \/ \E e : Launched(p, e)
    PROVE  \A q \in Procs \ {p} : proc'[q] = proc[q]
  BY DEF IInv, TypeOK, Return, Goto, Snapshot, Launched

LEMMA OwnAway == ASSUME NEW p, proc'[p].pc \notin Demanding  PROVE OwnInv(p)'
  BY DEF Demanding, Going, LaunchPoints, Asked, OwnInv, GoingInv, ReservingInv, AskedInv,
         EndingInv, StoppedInv, ObservingInv, At

(* On its way to a launch a process keeps what it knows. *)
LEMMA OwnGoing ==
    ASSUME NEW p \in Procs, GoingInv(p)', ReservingInv(p)', AskedInv(p)',
           proc'[p].pc \in Going
    PROVE  OwnInv(p)'
  BY DEF Going, LaunchPoints, OwnInv, EndingInv, StoppedInv, ObservingInv, At

LEMMA RowKeptStays ==
    ASSUME IInv, NEW p \in Procs, RowKept \/ RowRead(p),
           \A q \in Procs \ {p} : proc'[q] = proc[q]
    PROVE  RowStays(p)
<1>1. fresh \ {p} \subseteq fresh'
  BY OthersStay DEF Others, IInv, TypeOK
<1>2. QED  BY <1>1 DEF RowStays, RowKept, RowRead, Running

(* The sessions: none begins to run. *)
LEMMA NativeRuns ==
    ASSUME NEW p, \A d \in Epochs : native'[d].state = "running" => native[d].state = "running"
    PROVE  Runs(p)
  BY DEF Runs

LEMMA NativeKeptRuns == ASSUME NEW p, NativeKept  PROVE NativeStays /\ Runs(p)
  BY NativePlaced DEF NativeKept, Runs

(* A process with nothing to answer for pays if it leaves the marks. *)
LEMMA PlainPays ==
    ASSUME NEW p \in Procs, Plain(p), NativeStays,
           \A d \in Epochs : effect[d].state = "terminal" => effect'[d] = effect[d]
    PROVE  Pays(p)
  BY DEF Plain, Pays, NativeStays, Answers, Stops, Marked

(* A step of a process with nothing to answer for, to such a place. *)
LEMMA TracksPlain ==
    ASSUME NEW p \in Procs, Plain(p), \A q \in Procs \ {p} : proc'[q] = proc[q],
           proc'[p].pc \notin Demanding,
           proc'[p].pc \in Fenced => proc[p].pc \in Fenced \/ FenceFree,
           RowStays(p) \/ RowWritten(p),
           UNCHANGED effect \/ \E e \in Epochs : JournalWritten(p, e),
           \A d \in Epochs : effect[d].state = "terminal" => effect'[d] = effect[d],
           NativeStays, Runs(p)
    PROVE  Tracks(p)
<1>1. OwnInv(p)' /\ Pays(p)
  BY OwnAway, PlainPays
<1>2. \A e \in Epochs : ~Asks(p, e)'
  BY DEF Asks, Asked, Demanding, Going, LaunchPoints
<1>3. ~At(p, "closeEffect")
  BY DEF Plain
<1>4. QED  BY <1>1, <1>2, <1>3 DEF Tracks

(* ... that writes nothing. *)
LEMMA TracksQuiet ==
    ASSUME IInv, NEW p \in Procs, Plain(p), \A q \in Procs \ {p} : proc'[q] = proc[q],
           proc'[p].pc \notin Demanding,
           proc'[p].pc \in Fenced => proc[p].pc \in Fenced \/ FenceFree,
           RowKept \/ RowRead(p), JournalKept, NativeKept
    PROVE  Tracks(p)
<1>1. RowStays(p) /\ NativeStays /\ Runs(p)
  BY RowKeptStays, NativeKeptRuns
<1>2. QED  BY <1>1, TracksPlain DEF JournalKept

(* ... that returns. *)
LEMMA TracksReturn ==
    ASSUME IInv, NEW p \in Procs, Plain(p), Return(p), RowKept, JournalKept, NativeKept
    PROVE  Tracks(p)
<1>1. proc'[p].pc = "idle" /\ \A q \in Procs \ {p} : proc'[q] = proc[q]
  BY Moves DEF Idle, IInv, TypeOK, Return
<1>2. "idle" \notin Demanding /\ "idle" \notin Fenced
  BY DEF Demanding, Going, LaunchPoints, Fenced
<1>3. QED  BY <1>1, <1>2, TracksQuiet

(* ... that goes on. *)
LEMMA TracksGoto ==
    ASSUME IInv, NEW p \in Procs, NEW pc, Plain(p), Goto(p, pc), pc \notin Demanding,
           pc \in Fenced => proc[p].pc \in Fenced \/ FenceFree,
           RowKept, JournalKept, NativeKept
    PROVE  Tracks(p)
<1>1. proc'[p].pc = pc /\ \A q \in Procs \ {p} : proc'[q] = proc[q]
  BY Moves DEF IInv, TypeOK, Goto
<1>2. QED  BY <1>1, TracksQuiet

(* On its way to a launch, before it asks and after it was answered. *)
LEMMA TracksGoing ==
    ASSUME IInv, RecordInv, NEW p \in Procs, NEW pc, Plain(p), Goto(p, pc),
           pc \in {"busy", "reserve", "transfer"}, proc[p].pc \in Going,
           pc = "reserve" => p \in fresh \/ effect[proc[p].epoch].state # "none",
           pc = "busy" => effect[proc[p].epoch].state # "none",
           pc \in Fenced => proc[p].pc \in Fenced \/ FenceFree,
           RowKept, JournalKept, NativeKept
    PROVE  Tracks(p)
<1>1. /\ proc'[p].pc = pc /\ proc'[p].epoch = proc[p].epoch
      /\ \A q \in Procs \ {p} : proc'[q] = proc[q]
  BY Moves DEF IInv, TypeOK, Goto
<1>2. RowStays(p) /\ NativeStays /\ Runs(p) /\ Pays(p)
  BY <1>1, RowKeptStays, NativeKeptRuns, PlainPays DEF JournalKept
<1>3. row' = row /\ (p \in fresh' <=> p \in fresh) /\ effect' = effect
  BY <1>1 DEF RowKept, Running, JournalKept
<1>4. GoingInv(p)'
  BY <1>1, <1>3 DEF RecordInv, OwnInv, GoingInv
<1>5. ReservingInv(p)' /\ AskedInv(p)'
  BY <1>1, <1>3 DEF ReservingInv, AskedInv, Asked, At
<1>6. OwnInv(p)'
  BY <1>1, <1>4, <1>5, OwnGoing DEF Going, LaunchPoints
<1>7. \A e \in Epochs : ~Asks(p, e)'
  BY <1>1 DEF Asks, Asked
<1>8. ~At(p, "closeEffect")
  BY DEF Plain
<1>9. QED  BY <1>1, <1>2, <1>3, <1>6, <1>7, <1>8 DEF Tracks

-----------------------------------------------------------------------------

(* The writes of a row that is neither finished nor opened. *)
LEMMA RowEnds ==
    ASSUME NEW p \in Procs, fresh' \subseteq {p}, proc[p].pc \in Fenced \/ FenceFree, IInv,
           ~Finished, row'.epoch = row.epoch,
           row'.state \notin Opening \union {"completed", "cancelled"}
    PROVE  RowWritten(p)
<1>1. row.epoch <= row'.epoch
  BY RowEpoch
<1>2. QED  BY <1>1 DEF RowWritten, Finished

LEMMA ChargedEnds ==
    ASSUME IInv, NEW state \in {"blocked", "lost", "exhausted"}, NEW expired,
           row' = L!ChargedFailure(row, state, expired)
    PROVE  row'.epoch = row.epoch /\ row'.state \notin Opening \union {"completed", "cancelled"}
<1>1. row \in RowType
  BY DEF IInv, TypeOK
<1>2. row'.epoch = row.epoch /\ row'.state \in {"exhausted", state}
  BY <1>1 DEF L!ChargedFailure, RowType
<1>3. QED  BY <1>2 DEF Opening

LEMMA FailTracks ==
    ASSUME IInv, NEW p \in Procs, Plain(p), Return(p), proc[p].pc \in Fenced \/ FenceFree,
           NEW state \in {"blocked", "lost"}, NEW expired, Fail(state, expired),
           JournalKept, NativeKept
    PROVE  Tracks(p)
<1>1. proc'[p].pc = "idle" /\ \A q \in Procs \ {p} : proc'[q] = proc[q]
  BY Moves DEF Idle, IInv, TypeOK, Return
<1>2. "idle" \notin Demanding /\ "idle" \notin Fenced
  BY DEF Demanding, Going, LaunchPoints, Fenced
<1>3. CASE RowKept
  BY <1>3, TracksReturn
<1>4. CASE ~RowKept
  <2>1. /\ row.state \in L!BlockPredecessors
        /\ row' = L!ChargedFailure(row, state, expired) /\ fresh' = {}
    BY <1>4 DEF Fail, Write
  <2>2. ~Finished
    BY <2>1 DEF Finished, L!BlockPredecessors
  <2>3. RowWritten(p)
    BY <2>1, <2>2, ChargedEnds, RowEnds
  <2>4. NativeStays /\ Runs(p) /\ UNCHANGED effect
    BY NativeKeptRuns DEF JournalKept
  <2>5. QED  BY <1>1, <1>2, <2>3, <2>4, TracksPlain
<1>5. QED  BY <1>3, <1>4

LEMMA ActivateTracks ==
    ASSUME IInv, NEW p \in Procs, Activate(p)  PROVE Tracks(p)
<1>0. /\ Plain(p) /\ Return(p) /\ JournalKept /\ NativeKept
      /\ proc[p].pc \in Fenced \/ FenceFree
  BY DEF Plain, At, Activate, Fenced
<1>1. proc'[p].pc = "idle" /\ \A q \in Procs \ {p} : proc'[q] = proc[q]
  BY <1>0, Moves DEF Idle, IInv, TypeOK, Return
<1>2. "idle" \notin Demanding /\ "idle" \notin Fenced
  BY DEF Demanding, Going, LaunchPoints, Fenced
<1>3. CASE RowKept
  BY <1>0, <1>3, TracksReturn
<1>4. CASE ~RowKept
  <2>1. /\ row.state \in L!ActivatePredecessors /\ fresh' = {}
        /\ row' = [L!Activated(row, proc[p].sid) EXCEPT !.ws = proc[p].ws]
    BY <1>4 DEF Activate, Write
  <2>2. ~Finished
    BY <2>1 DEF Finished, L!ActivatePredecessors
  <2>3. row'.epoch = row.epoch /\ row'.state = "active"
    BY <2>1 DEF L!Activated, IInv, TypeOK, RowType
  <2>4. RowWritten(p)
    BY <1>0, <2>1, <2>2, <2>3, RowEnds DEF Opening
  <2>5. NativeStays /\ Runs(p) /\ UNCHANGED effect
    BY <1>0, NativeKeptRuns DEF JournalKept
  <2>6. QED  BY <1>0, <1>1, <1>2, <2>4, <2>5, TracksPlain
<1>5. QED  BY <1>3, <1>4

LEMMA ReserveTracks ==
    ASSUME IInv, RecordInv, NEW p \in Procs, Reserve(p)  PROVE Tracks(p)
<1>0. PICK e : e = proc[p].epoch /\ e \in Epochs
  BY HasEpoch DEF Reserve, At
<1>1. /\ At(p, "reserve") /\ Plain(p) /\ proc[p].pc \in Fenced /\ proc[p].pc \in Going
      /\ RowKept /\ NativeKept
  BY DEF Reserve, Plain, At, Fenced, Going, LaunchPoints
<1>2. CASE Return(p) /\ JournalKept
  BY <1>1, <1>2, TracksReturn
<1>3. CASE Launched(p, e) /\ JournalKept
  <2>1. proc'[p].pc \in {"activate", "link"} /\ \A q \in Procs \ {p} : proc'[q] = proc[q]
    BY <1>3, Moves DEF IInv, TypeOK, Launched
  <2>2. proc'[p].pc \notin Demanding
    BY <2>1 DEF Demanding, Going, LaunchPoints
  <2>3. QED  BY <1>1, <1>3, <2>1, <2>2, TracksQuiet
<1>4. CASE Goto(p, "busy") /\ JournalKept /\ effect[e].state = "reserved"
  BY <1>0, <1>1, <1>4, TracksGoing
<1>5. CASE /\ \/ effect[e].state = "none"
              \/ /\ effect[e].state = "reserved"
                 /\ effect[e].live => effect[e].bridge /\ p = Bridge
           /\ effect' = [effect EXCEPT ![e].state = "reserved", ![e].live = TRUE,
                                       ![e].bridge = (p = Bridge)]
           /\ Goto(p, "call")
  <2>1. /\ proc'[p].pc = "call" /\ proc'[p].epoch = e
        /\ \A q \in Procs \ {p} : proc'[q] = proc[q]
    BY <1>0, <1>5, Moves DEF IInv, TypeOK, Goto
  <2>2. /\ effect'[e].state = "reserved" /\ effect'[e].live /\ (effect'[e].bridge <=> p = Bridge)
        /\ \A d \in Epochs \ {e} : effect'[d] = effect[d]
    BY <1>0, <1>5 DEF IInv, TypeOK, EffectType
  <2>3. GoingInv(p) /\ ReservingInv(p)
    BY DEF RecordInv, OwnInv
  <2>4. effect[e].state = "none" => ~Finished
    BY <1>0, <1>1, <2>3 DEF GoingInv, ReservingInv, Finished
  <2>5. ASSUME NEW q \in Procs \ {p}, Asks(q, e)  PROVE FALSE
    <3>1. /\ effect[e].state # "none"
          /\ effect[e].state = "reserved" => effect[e].live /\ (effect[e].bridge <=> q = Bridge)
      BY <2>5 DEF Asks, RecordInv, OwnInv, AskedInv
    <3>2. QED  BY <1>5, <3>1
  <2>6. JournalWritten(p, e)
    BY <1>0, <1>5, <2>2, <2>4, <2>5 DEF JournalWritten, Reserves
  <2>7. RowStays(p) /\ NativeStays /\ Runs(p)
    BY <1>1, <2>1, RowKeptStays, NativeKeptRuns
  <2>8. Pays(p)
    BY <1>1, <1>5, <2>2, <2>7, PlainPays
  <2>9. row' = row /\ (p \in fresh' <=> p \in fresh)
    BY <1>1, <2>1 DEF RowKept, Running
  <2>10. GoingInv(p)'
    BY <1>1, <2>3, <2>9 DEF GoingInv
  <2>11. ReservingInv(p)' /\ AskedInv(p)'
    BY <2>1, <2>2 DEF ReservingInv, AskedInv, Open, At
  <2>12. OwnInv(p)'
    BY <2>1, <2>10, <2>11, OwnGoing DEF Going, LaunchPoints
  <2>13. \A d \in Epochs : Asks(p, d)' => d = e
    BY <2>1 DEF Asks
  <2>14. ~At(p, "closeEffect")
    BY <1>1 DEF Plain
  <2>15. QED
    BY <1>0, <1>1, <2>1, <2>5, <2>6, <2>7, <2>8, <2>12, <2>13, <2>14 DEF Tracks
<1>6. QED  BY <1>0, <1>2, <1>3, <1>4, <1>5 DEF Reserve

LEMMA CallTracks ==
    ASSUME IInv, RecordInv, PlaceInv, NEW p \in Procs, CallAccepted(p) \/ CallRefused(p)
    PROVE  Tracks(p)
<1>0. PICK e : e = proc[p].epoch /\ e \in Epochs
  BY HasEpoch DEF CallAccepted, CallRefused, At
<1>1. /\ At(p, "call") /\ Plain(p) /\ RowKept /\ effect' = effect
  BY DEF CallAccepted, CallRefused, OnlyProc, JournalKept, Plain, At
<1>2. PICK reply : proc' = [proc EXCEPT ![p].pc = "reply", ![p].reply = reply]
  BY DEF CallAccepted, CallRefused
<1>3. /\ proc'[p].pc = "reply" /\ proc'[p].reply = reply /\ proc'[p].epoch = e
      /\ \A q \in Procs \ {p} : proc'[q] = proc[q]
  BY <1>0, <1>2 DEF IInv, TypeOK, ProcType
<1>4. NativeStays
  <2>1. CASE CallRefused(p)
    BY <2>1, NativePlaced DEF CallRefused, OnlyProc
  <2>2. CASE CallAccepted(p)
    BY <2>2, CreatedPlaced DEF CallAccepted, At
  <2>3. QED  BY <2>1, <2>2
<1>5. row' = row /\ (p \in fresh' <=> p \in fresh) /\ RowStays(p)
  BY <1>1, <1>3, RowKeptStays DEF RowKept, Running
<1>6. GoingInv(p) /\ AskedInv(p)
  BY DEF RecordInv, OwnInv
<1>7. GoingInv(p)' /\ ReservingInv(p)'
  BY <1>1, <1>3, <1>5, <1>6 DEF GoingInv, ReservingInv, Going, LaunchPoints, At
<1>8. AskedInv(p)'
  BY <1>0, <1>1, <1>3, <1>4, <1>5, <1>6 DEF AskedInv, Asked, At, Open, NativeStays
<1>9. OwnInv(p)'
  BY <1>3, <1>7, <1>8, OwnGoing DEF Going, LaunchPoints
<1>10. Runs(p)
  <2>1. SUFFICES ASSUME NEW d \in Epochs,
                        native'[d].state = "running", native[d].state # "running"
                 PROVE  native[d].state = "none" /\ Answers(p, d)'
    BY DEF Runs
  <2>2. CallAccepted(p) /\ native' = Created(p)
    BY <2>1 DEF CallAccepted, CallRefused, OnlyProc, NativeKept
  <2>3. d = e /\ native[e].state = "none"
    BY <1>0, <2>1, <2>2 DEF Created, IInv, TypeOK
  <2>4. proc'[p].reply = "ok"
    <3>1. PICK r \in {"ok", "lost"} :
             /\ r = "lost" => native[e].state \in {"lost", "stopped"}
             /\ proc' = [proc EXCEPT ![p].pc = "reply", ![p].reply = r]
      BY <1>0, <2>2 DEF CallAccepted
    <3>2. proc'[p].reply = r
      BY <3>1 DEF IInv, TypeOK, ProcType
    <3>3. QED  BY <2>3, <3>1, <3>2
  <2>5. p \in fresh => Open(e)
    BY <1>0, <1>1, <1>6, <2>3 DEF AskedInv, Asked, At
  <2>6. QED  BY <1>1, <1>3, <1>5, <2>3, <2>4, <2>5 DEF Answers, At, Open
<1>11. Pays(p)
  BY <1>1, <1>4, PlainPays
<1>12. \A d \in Epochs : Asks(p, d)' => Asks(p, d)
  BY <1>0, <1>1, <1>3 DEF Asks, Asked, At
<1>13. proc'[p].pc \notin Fenced /\ ~At(p, "closeEffect")
  BY <1>1, <1>3 DEF Fenced, Plain
<1>14. QED
  BY <1>1, <1>3, <1>4, <1>5, <1>9, <1>10, <1>11, <1>12, <1>13 DEF Tracks

(* An end of p's own epoch, when nobody else is asked for it. *)
LEMMA EndWrites ==
    ASSUME IInv, PlaceInv, RecordInv, NEW p \in Procs, NEW e \in Epochs, Open(e),
           NEW outcome, effect' = [effect EXCEPT ![e] = Terminal(@, @.ws, outcome)],
           \A q \in fresh \ {p} : ~Asks(q, e)
    PROVE  /\ JournalWritten(p, e)
           /\ \A d \in Epochs : effect[d].state = "terminal" => effect'[d] = effect[d]
<1>1. /\ effect'[e].state = "terminal" /\ effect'[e].ws = effect[e].ws
      /\ \A d \in Epochs \ {e} : effect'[d] = effect[d]
  BY DEF IInv, TypeOK, EffectType, Terminal
<1>2. effect[e].state = "launched" => effect[e].ws = native[e].ws
  BY DEF PlaceInv
<1>3. Ends(p, e)
  BY <1>1, <1>2 DEF Ends
<1>4. QED  BY <1>1, <1>3 DEF JournalWritten, Open

(* The launch that fails ends the epoch, whatever became of the task. *)
LEMMA FailedTracks ==
    ASSUME IInv, PlaceInv, RecordInv, NEW p \in Procs,
           ReplyRejected(p) \/ ReplyUnknown(p) \/ ReplyLost(p) \/ ReplyRefused(p)
    PROVE  Tracks(p)
<1>0. PICK e : e = proc[p].epoch /\ e \in Epochs
  BY HasEpoch DEF ReplyRejected, ReplyUnknown, ReplyLost, ReplyRefused, Answer, At
<1>1. Plain(p) /\ FenceFree /\ RowKept /\ NativeKept /\ Asks(p, e)
  BY <1>0 DEF ReplyRejected, ReplyUnknown, ReplyLost, ReplyRefused, OnlyProc, Answer, Plain,
              At, Asks, Asked
<1>2. Return(p) \/ Goto(p, "rejected") \/ Goto(p, "nativelost")
  BY DEF ReplyRejected, ReplyUnknown, ReplyLost, ReplyRefused
<1>3. /\ proc'[p].pc \in {"idle", "rejected", "nativelost"}
      /\ \A q \in Procs \ {p} : proc'[q] = proc[q]
  <2>1. proc'[p].pc \in {"idle", "rejected", "nativelost"}
    BY <1>2, Moves DEF Idle
  <2>2. proc \in [Procs -> ProcType]
    BY DEF IInv, TypeOK
  <2>3. \A q \in Procs \ {p} : proc'[q] = proc[q]
    BY <1>2, <2>2 DEF Return, Goto
  <2>4. QED  BY <2>1, <2>3
<1>4. proc'[p].pc \notin Demanding
  BY <1>3 DEF Demanding, Going, LaunchPoints
<1>5. CASE JournalKept
  BY <1>1, <1>3, <1>4, <1>5, TracksQuiet
<1>6. CASE ~JournalKept
  <2>1. PICK outcome : /\ Open(e)
                       /\ effect' = [effect EXCEPT ![e] = Terminal(@, @.ws, outcome)]
    BY <1>0, <1>6
    DEF ReplyRejected, ReplyUnknown, ReplyLost, ReplyRefused, OnlyProc, JournalKept
  <2>2. \A q \in fresh \ {p} : ~Asks(q, e)
    BY <1>0, <1>1 DEF RecordInv, AskedOnce, IInv, TypeOK
  <2>3. RowStays(p) /\ NativeStays /\ Runs(p)
    BY <1>1, <1>3, RowKeptStays, NativeKeptRuns
  <2>4. QED  BY <1>0, <1>1, <1>3, <1>4, <2>1, <2>2, <2>3, EndWrites, TracksPlain
<1>7. QED  BY <1>5, <1>6

(* What was created for a task that moved on is marked, and stopped. *)
LEMMA SupersededTracks ==
    ASSUME IInv, RecordInv, NEW p \in Procs, ReplySuperseded(p)  PROVE Tracks(p)
<1>0. PICK e : e = proc[p].epoch /\ e \in Epochs
  BY HasEpoch DEF ReplySuperseded, Answer, At
<1>1. /\ At(p, "reply") /\ proc[p].reply = "ok" /\ FenceFree /\ RowKept /\ NativeKept
      /\ effect' = [effect EXCEPT ![e] = Terminal(@, native[e].ws, "other")]
      /\ proc' = [proc EXCEPT ![p].pc = "stop", ![p].ws = native[e].ws]
  BY <1>0 DEF ReplySuperseded, Answer, Superseded
<1>2. /\ proc'[p].pc = "stop" /\ proc'[p].ws = native[e].ws /\ proc'[p].epoch = e
      /\ \A q \in Procs \ {p} : proc'[q] = proc[q]
  BY <1>0, <1>1 DEF IInv, TypeOK, ProcType
<1>3. /\ effect'[e].state = "terminal" /\ effect'[e].ws = native[e].ws
      /\ \A d \in Epochs \ {e} : effect'[d] = effect[d]
  BY <1>0, <1>1, Terminates
<1>4. Stops(p, e)' /\ native' = native
  BY <1>1, <1>2 DEF Stops, At, NativeKept
<1>5. native[e].state # "none"
  BY <1>0, <1>1 DEF IInv, ProcInv, At
<1>6. effect[e].state \in {"reserved", "launched", "terminal"}
  <2>1. effect[e].state # "none"
    BY <1>0, <1>1 DEF RecordInv, OwnInv, AskedInv, Asked, At
  <2>2. QED  BY <1>0, <2>1 DEF IInv, TypeOK, EffectType
<1>7. JournalWritten(p, e)
  BY <1>0, <1>3, <1>4, <1>5, <1>6 DEF JournalWritten, Ends, Remarks, Open
<1>8. RowStays(p) /\ NativeStays /\ Runs(p)
  BY <1>1, <1>2, RowKeptStays, NativeKeptRuns
<1>9. Pays(p)
  <2>1. ASSUME NEW d \in Epochs, Answers(p, d) \/ Stops(p, d)  PROVE Owed(d)'
    BY <1>0, <1>1, <1>4, <2>1 DEF Answers, Stops, At, Owed
  <2>2. ASSUME NEW d \in Epochs, Marked(d)  PROVE Marked(d)'
    BY <1>3, <1>4, <2>2 DEF Marked
  <2>3. QED  BY <2>1, <2>2 DEF Pays
<1>10. OwnInv(p)'
  BY <1>2, <1>3 DEF OwnInv, GoingInv, ReservingInv, AskedInv, EndingInv, StoppedInv,
                    ObservingInv, Going, LaunchPoints, Asked, Over, At
<1>11. \A d \in Epochs : ~Asks(p, d)'
  BY <1>2 DEF Asks, Asked
<1>12. proc'[p].pc \notin Fenced /\ ~At(p, "closeEffect")
  BY <1>1, <1>2 DEF Fenced, At
<1>13. QED
  BY <1>0, <1>2, <1>7, <1>8, <1>9, <1>10, <1>11, <1>12 DEF Tracks

(* The answer is recorded, if the epoch is still open. *)
LEMMA LaunchedTracks ==
    ASSUME IInv, NEW p \in Procs, ReplyLaunched(p)  PROVE Tracks(p)
<1>0. PICK e : e = proc[p].epoch /\ e \in Epochs
  BY HasEpoch DEF ReplyLaunched, Answer, At
<1>1. /\ At(p, "reply") /\ FenceFree /\ p \in fresh /\ RowKept /\ NativeKept
  BY DEF ReplyLaunched, Answer, Moved
<1>2. \/ /\ Open(e) /\ Launched(p, e)
         /\ effect' = [effect EXCEPT ![e].state = "launched", ![e].ws = native[e].ws]
      \/ ~Open(e) /\ Return(p) /\ effect' = effect
  <2>1. CASE Open(e)
    BY <1>0, <2>1 DEF ReplyLaunched
  <2>2. CASE ~Open(e)
    BY <1>0, <2>2 DEF ReplyLaunched, JournalKept
  <2>3. QED  BY <2>1, <2>2
<1>3. /\ proc'[p].pc \in {"activate", "link", "idle"}
      /\ \A q \in Procs \ {p} : proc'[q] = proc[q]
  BY <1>2, Moves, OthersRest DEF Idle
<1>4. OwnInv(p)' /\ \A d \in Epochs : ~Asks(p, d)'
  BY <1>3, OwnAway DEF Demanding, Going, LaunchPoints, Asks, Asked
<1>5. RowStays(p) /\ NativeStays /\ Runs(p)
  BY <1>1, <1>3, RowKeptStays, NativeKeptRuns
<1>6. ASSUME Open(e)
      PROVE  /\ effect'[e].state = "launched"
             /\ \A d \in Epochs \ {e} : effect'[d] = effect[d]
  BY <1>0, <1>2, <1>6 DEF IInv, TypeOK, EffectType
<1>7. UNCHANGED effect \/ JournalWritten(p, e)
  BY <1>0, <1>2, <1>6 DEF JournalWritten, Launches
<1>8. Pays(p)
  <2>1. ASSUME NEW d \in Epochs, Answers(p, d) \/ Stops(p, d)
        PROVE  effect'[d].state = "launched"
    BY <1>0, <1>1, <1>6, <2>1 DEF Answers, Stops, At
  <2>2. ASSUME NEW d \in Epochs, Marked(d)  PROVE Marked(d)'
    <3>1. effect'[d] = effect[d]
      BY <1>2, <1>6, <2>2 DEF Marked, Open
    <3>2. QED  BY <1>1, <2>2, <3>1 DEF Marked, NativeKept
  <2>3. QED  BY <2>1, <2>2 DEF Pays
<1>9. ~At(p, "closeEffect")
  BY <1>1 DEF At
<1>10. QED
  BY <1>0, <1>1, <1>3, <1>4, <1>5, <1>7, <1>8, <1>9 DEF Tracks

LEMMA HandingTracks ==
    ASSUME IInv, RecordInv, NEW p \in Procs,
           Retire(p) \/ Transfer(p) \/ Link(p) \/ Forward(p)
    PROVE  Tracks(p)
<1>1. Plain(p) /\ RowKept /\ JournalKept
  BY DEF Retire, Transfer, Link, Forward, OnlyProc, Plain, At
<1>2. ASSUME Retire(p)  PROVE Tracks(p)
  <2>1. proc[p].pc \in Going /\ Goto(p, "transfer") /\ NativeKept
    BY <1>2 DEF Retire, At, Going
  <2>2. "transfer" \notin Fenced
    BY DEF Fenced
  <2>3. QED  BY <1>1, <2>1, <2>2, TracksGoing
<1>3. ASSUME Transfer(p)  PROVE Tracks(p)
  <2>1. proc[p].pc \in Going /\ FenceFree /\ NativeKept
    BY <1>3 DEF Transfer, At, Going, OnlyProc
  <2>2. CASE Return(p)
    BY <1>1, <2>1, <2>2, TracksReturn
  <2>3. CASE Goto(p, "reserve") /\ p \in fresh
    BY <1>1, <2>1, <2>3, TracksGoing
  <2>4. CASE proc' = [proc EXCEPT ![p].sid = successor[proc[p].src], ![p].pc = "forward"]
    <3>1. proc'[p].pc = "forward" /\ \A q \in Procs \ {p} : proc'[q] = proc[q]
      BY <2>4 DEF IInv, TypeOK, ProcType
    <3>2. "forward" \notin Demanding /\ "forward" \notin Fenced
      BY DEF Demanding, Going, LaunchPoints, Fenced
    <3>3. QED  BY <1>1, <2>1, <3>1, <3>2, TracksQuiet
  <2>5. QED  BY <1>3, <2>2, <2>3, <2>4 DEF Transfer, Moved
<1>4. ASSUME Link(p)  PROVE Tracks(p)
  <2>1. (Return(p) \/ Goto(p, "forward")) /\ NativeKept
    BY <1>4 DEF Link
  <2>2. "forward" \notin Demanding /\ "forward" \notin Fenced
    BY DEF Demanding, Going, LaunchPoints, Fenced
  <2>3. QED  BY <1>1, <2>1, <2>2, TracksReturn, TracksGoto
<1>5. ASSUME Forward(p)  PROVE Tracks(p)
  <2>1. /\ proc'[p].pc = "handover" /\ \A q \in Procs \ {p} : proc'[q] = proc[q]
    BY <1>5, Moves DEF Forward, IInv, TypeOK, Goto
  <2>2. "handover" \notin Demanding /\ "handover" \notin Fenced
    BY DEF Demanding, Going, LaunchPoints, Fenced
  <2>3. NativeStays /\ Runs(p)
    BY <1>5 DEF Forward, NativeStays, Runs, IInv, TypeOK, NativeType
  <2>4. RowStays(p)
    BY <1>1, <2>1, RowKeptStays
  <2>5. QED  BY <1>1, <2>1, <2>2, <2>3, <2>4, TracksPlain DEF JournalKept
<1>6. QED  BY <1>2, <1>3, <1>4, <1>5

LEMMA LaunchingTracks ==
    ASSUME IInv, PlaceInv, RecordInv, NEW p \in Procs, Launching(p)  PROVE Tracks(p)
<1>1. BusyGiveUp(p) => Tracks(p)
  BY TracksReturn DEF BusyGiveUp, OnlyProc, Plain, At
<1>2. ASSUME BusyRetry(p)  PROVE Tracks(p)
  <2>1. effect[proc[p].epoch].state # "none"
    BY <1>2 DEF BusyRetry, At, RecordInv, OwnInv, ReservingInv
  <2>2. Plain(p) /\ proc[p].pc \in Going
    BY <1>2 DEF BusyRetry, Plain, At, Going, LaunchPoints
  <2>3. QED  BY <1>2, <2>1, <2>2, TracksGoing DEF BusyRetry, OnlyProc
<1>3. ASSUME BlockRejected(p) \/ LoseNative(p)  PROVE Tracks(p)
  <2>1. Plain(p) /\ proc[p].pc \in Fenced
    BY <1>3 DEF BlockRejected, LoseNative, Plain, At, Fenced
  <2>2. QED  BY <1>3, <2>1, FailTracks DEF BlockRejected, LoseNative
<1>4. QED
  BY <1>1, <1>2, <1>3, ReserveTracks, CallTracks, FailedTracks, SupersededTracks,
     LaunchedTracks, HandingTracks, ActivateTracks
  DEF Launching

(* A session is stopped where something that runs has no other mark. *)
LEMMA FinishTracks ==
    ASSUME IInv, NEW p \in Procs, FinishDecide(p)  PROVE Tracks(p)
<1> DEFINE state == FinalState(proc[p].op)
           legal == row.state \in IF proc[p].op = "cancel" THEN L!CancelPredecessors
                                                            ELSE L!CompletePredecessors
<1>1. Plain(p) /\ FenceFree /\ JournalKept /\ NativeKept
  BY DEF FinishDecide, Plain, At
<1>2. CASE Return(p) /\ RowKept
  BY <1>1, <1>2, TracksReturn
<1>3. CASE ~(Return(p) /\ RowKept)
  <2>1. /\ legal \/ row.state = state
        /\ Snapshot(p, proc[p].op, row, "closeEffect")
        /\ IF legal THEN Write(L!Settled(row, state), {}) ELSE RowKept
    <3>1. /\ IF legal \/ row.state = state
               THEN Snapshot(p, proc[p].op, row, "closeEffect") ELSE Return(p)
          /\ IF legal THEN Write(L!Settled(row, state), {}) ELSE RowKept
      BY DEF FinishDecide, FinalState
    <3>2. QED  BY <1>3, <3>1
  <2>2. /\ proc'[p].pc = "closeEffect" /\ proc'[p].epoch = row.epoch
        /\ \A q \in Procs \ {p} : proc'[q] = proc[q]
    BY <2>1, Moves, OthersRest
  <2>3. state \in {"completed", "cancelled"}
    BY DEF FinalState
  <2>4. Finished' /\ row'.epoch = row.epoch /\ (RowStays(p) \/ RowWritten(p))
    <3>1. CASE legal
      <4>1. row' = L!Settled(row, state) /\ fresh' = {}
        BY <2>1, <3>1 DEF Write
      <4>2. row'.epoch = row.epoch /\ row'.state = state
        BY <4>1 DEF L!Settled, IInv, TypeOK, RowType
      <4>3. ~Finished
        BY <3>1 DEF Finished, L!CancelPredecessors, L!CompletePredecessors, L!LiveStates
      <4>4. row.epoch <= row'.epoch /\ row'.state \notin Opening
        BY <2>3, <4>2, RowEpoch DEF Opening
      <4>5. QED  BY <1>1, <2>2, <2>3, <4>1, <4>2, <4>3, <4>4 DEF RowWritten, Finished, At
    <3>2. CASE ~legal
      <4>1. RowKept /\ row.state = state
        BY <2>1, <3>2
      <4>2. RowStays(p)
        BY <2>2, <4>1, RowKeptStays
      <4>3. QED  BY <2>3, <4>1, <4>2 DEF RowKept, Finished
    <3>3. QED  BY <3>1, <3>2
  <2>5. OwnInv(p)'
    BY <2>2, <2>4 DEF OwnInv, GoingInv, ReservingInv, AskedInv, EndingInv, StoppedInv,
                      ObservingInv, Going, LaunchPoints, Asked, At
  <2>6. NativeStays /\ Runs(p) /\ UNCHANGED effect
    BY <1>1, NativeKeptRuns DEF JournalKept
  <2>7. Pays(p)
    BY <1>1, <2>6, PlainPays
  <2>8. \A e \in Epochs : ~Asks(p, e)'
    BY <2>2 DEF Asks, Asked
  <2>9. ~At(p, "closeEffect")
    BY <1>1 DEF Plain
  <2>10. QED  BY <1>1, <2>2, <2>4, <2>5, <2>6, <2>7, <2>8, <2>9 DEF Tracks
<1>4. QED  BY <1>2, <1>3

(* A finished task's epoch is ended, and nobody is about to launch it. *)
LEMMA CloseTracks ==
    ASSUME IInv, PlaceInv, RecordInv, NEW p \in Procs, CloseEffect(p)  PROVE Tracks(p)
<1>0. PICK e : e = proc[p].epoch /\ e \in Epochs
  BY HasEpoch DEF CloseEffect, At
<1>1. /\ At(p, "closeEffect") /\ RowKept /\ NativeKept /\ Finished /\ e = row.epoch
  BY <1>0 DEF CloseEffect, RecordInv, OwnInv, EndingInv
<1>a. PICK ws :
        proc' = [proc EXCEPT ![p].ws = ws,
                             ![p].pc = IF proc[p].src # None THEN "retireFinal"
                                       ELSE IF ws # None THEN "stop" ELSE "stopped"]
  BY Zenon DEF CloseEffect
<1> DEFINE pc == IF proc[p].src # None THEN "retireFinal"
                 ELSE IF ws # None THEN "stop" ELSE "stopped"
<1>2. /\ proc' = [proc EXCEPT ![p].ws = ws, ![p].pc = pc]
      /\ pc \in {"retireFinal", "stop", "stopped"} /\ (pc = "stopped" => ws = None)
  BY <1>a
<1> HIDE DEF pc
<1>3. /\ proc'[p].pc = pc /\ proc'[p].ws = ws /\ proc'[p].epoch = e
      /\ \A q \in Procs \ {p} : proc'[q] = proc[q]
  BY <1>0, <1>2 DEF IInv, TypeOK, ProcType
<1>4. row' = row /\ native' = native /\ RowStays(p) /\ NativeStays /\ Runs(p)
  BY <1>1, <1>3, RowKeptStays, NativeKeptRuns DEF RowKept, NativeKept
<1>5. /\ UNCHANGED effect \/ JournalWritten(p, e)
      /\ \A d \in Epochs : effect[d].state = "terminal" => effect'[d] = effect[d]
      /\ Over(e)' /\ ~Open(e)'
  <2>1. CASE ~Open(e)
    <3>1. effect' = effect
      BY <1>0, <2>1 DEF CloseEffect, JournalKept
    <3>2. effect[e].state \in {"none", "terminal"}
      BY <1>0, <2>1 DEF Open, IInv, TypeOK, EffectType
    <3>3. QED  BY <1>1, <1>4, <2>1, <3>1, <3>2 DEF Over, Open, Finished
  <2>2. CASE Open(e)
    <3>1. effect' = [effect EXCEPT ![e] = Terminal(@, @.ws, "other")]
      BY <1>0, <2>2 DEF CloseEffect, IInv, TypeOK
    <3>2. ASSUME NEW q \in fresh \ {p}, Asks(q, e)  PROVE FALSE
      <4>1. q \in Procs /\ GoingInv(q)
        BY DEF RecordInv, OwnInv, IInv, TypeOK
      <4>2. row.state \in {"reserved", "replacing"}
        BY <3>2, <4>1 DEF GoingInv, Going, LaunchPoints, Asks, Asked
      <4>3. QED  BY <1>1, <4>2 DEF Finished
    <3>3. /\ JournalWritten(p, e)
          /\ \A d \in Epochs : effect[d].state = "terminal" => effect'[d] = effect[d]
      BY <1>0, <2>2, <3>1, <3>2, EndWrites
    <3>4. effect'[e].state = "terminal"
      BY <1>0, <3>1, Terminates
    <3>5. QED  BY <3>3, <3>4 DEF Over, Open
  <2>3. QED  BY <2>1, <2>2
<1>6. Pays(p)
  BY <1>1, <1>4, <1>5 DEF Pays, Answers, Stops, Marked, At
<1>7. StoppedInv(p)'
  <2>1. native[e].state # "none" => native[e].ws # None
    BY <1>0 DEF PlaceInv
  <2>2. QED  BY <1>2, <1>3, <1>4, <2>1 DEF StoppedInv, At
<1>8. EndingInv(p)'
  BY <1>2, <1>3, <1>5 DEF EndingInv, Over, At
<1>9. OwnInv(p)'
  BY <1>2, <1>3, <1>7, <1>8 DEF OwnInv, GoingInv, ReservingInv, AskedInv, ObservingInv,
                                Going, LaunchPoints, Asked, At
<1>10. \A d \in Epochs : ~Asks(p, d)'
  BY <1>2, <1>3 DEF Asks, Asked
<1>11. proc[p].pc \in Fenced
  BY <1>1 DEF Fenced, At
<1>12. ~Open(row.epoch)'
  BY <1>1, <1>4, <1>5 DEF Open
<1>13. QED
  BY <1>0, <1>3, <1>4, <1>5, <1>6, <1>9, <1>10, <1>11, <1>12 DEF Tracks

(* The end of an epoch goes on to the stop of its workspace. *)
LEMMA EndedTracks ==
    ASSUME IInv, PlaceInv, RecordInv, NEW p \in Procs, RetireFinal(p) \/ Stop(p)
    PROVE  Tracks(p)
<1>0. PICK e : e = proc[p].epoch /\ e \in Epochs
  BY HasEpoch DEF RetireFinal, Stop, At
<1>1. /\ proc[p].pc \in {"retireFinal", "stop"} /\ RowKept /\ effect' = effect /\ Over(e)
      /\ Goto(p, "stop") \/ Goto(p, "stopped")
  BY <1>0 DEF RetireFinal, Stop, At, JournalKept, RecordInv, OwnInv, EndingInv
<1>2. /\ proc'[p].pc \in {"stop", "stopped"} /\ proc'[p].epoch = e /\ proc'[p].ws = proc[p].ws
      /\ \A q \in Procs \ {p} : proc'[q] = proc[q]
  BY <1>0, <1>1 DEF IInv, TypeOK, ProcType, Goto
<1>3. /\ \A d \in Epochs : native'[d].ws = native[d].ws
                            /\ (native'[d].state = "running" => native[d].state = "running")
      /\ NativeStays
      /\ Stop(p) => \A d \in Epochs : native'[d].state = "running" => native[d].ws # proc[p].ws
  <2>0. native \in [Epochs -> NativeType]
    BY DEF IInv, TypeOK
  <2>1. CASE RetireFinal(p) /\ ~Stop(p)
    BY <2>0, <2>1 DEF RetireFinal, NativeKept, NativeStays
  <2>2. CASE Stop(p)
    BY <2>0, <2>2 DEF Stop, NativeStays, NativeType
  <2>3. QED  BY <2>1, <2>2
<1>4. row' = row /\ RowStays(p) /\ Runs(p)
  BY <1>1, <1>2, <1>3, RowKeptStays, NativeRuns DEF RowKept
<1>5. Pays(p)
  <2>1. ASSUME NEW d \in Epochs, native'[d].state = "running"
        PROVE  ~Answers(p, d) /\ ~Stops(p, d)
    BY <1>1, <1>3, <2>1 DEF Answers, Stops, At, RetireFinal
  <2>2. QED  BY <1>1, <1>3, <2>1 DEF Pays, Marked
<1>6. Over(e)'
  BY <1>1, <1>4 DEF Over, Finished
<1>7. StoppedInv(p)'
  <2>1. ASSUME At(p, "stopped")', native'[e].state = "running", native'[e].ws = proc'[p].ws
        PROVE  FALSE
    <3>1. native[e].ws = proc[p].ws /\ native[e].state = "running"
      BY <1>0, <1>2, <1>3, <2>1
    <3>2. ~Stop(p)
      BY <1>0, <1>3, <2>1, <3>1
    <3>3. proc[p].ws = None
      BY <2>1, <3>2, <1>2, Moves DEF RetireFinal, At
    <3>4. QED  BY <1>0, <3>1, <3>3 DEF PlaceInv
  <2>2. QED  BY <1>2, <2>1 DEF StoppedInv
<1>8. OwnInv(p)'
  BY <1>2, <1>6, <1>7 DEF OwnInv, GoingInv, ReservingInv, AskedInv, EndingInv, ObservingInv,
                          Going, LaunchPoints, Asked, Over, At
<1>9. \A d \in Epochs : ~Asks(p, d)'
  BY <1>2 DEF Asks, Asked
<1>10. proc'[p].pc \notin Fenced /\ ~At(p, "closeEffect")
  BY <1>1, <1>2 DEF Fenced, At
<1>11. QED
  BY <1>1, <1>2, <1>3, <1>4, <1>5, <1>8, <1>9, <1>10 DEF Tracks

(* The mark is taken back, unless the session runs and somebody has it. *)
LEMMA AckTracks ==
    ASSUME IInv, RecordInv, NEW p \in Procs, AckStop(p)  PROVE Tracks(p)
<1>0. PICK e : e = proc[p].epoch /\ e \in Epochs
  BY HasEpoch DEF AckStop, At
<1>1. At(p, "stopped") /\ RowKept /\ NativeKept /\ (Return(p) \/ Goto(p, "cleanup"))
  BY DEF AckStop
<1>2. /\ proc'[p].pc \in {"idle", "cleanup"} /\ \A q \in Procs \ {p} : proc'[q] = proc[q]
  BY <1>1, Moves, OthersRest DEF Idle
<1>3. OwnInv(p)' /\ (\A d \in Epochs : ~Asks(p, d)') /\ proc'[p].pc \notin Fenced
  BY <1>2, OwnAway DEF Demanding, Going, LaunchPoints, Asks, Asked, Fenced
<1>4. RowStays(p) /\ NativeStays /\ Runs(p) /\ native' = native
  BY <1>1, <1>2, RowKeptStays, NativeKeptRuns DEF NativeKept
<1>5. CASE UNCHANGED effect
  <2>1. Plain(p)
    BY <1>1 DEF Plain, At
  <2>2. QED  BY <1>2, <1>3, <1>4, <1>5, <2>1, PlainPays DEF Tracks, Plain
<1>6. CASE ~UNCHANGED effect
  <2>1. /\ effect[e].state = "terminal" /\ effect[e].ws = proc[p].ws
        /\ effect' = [effect EXCEPT ![e].ws = None]
    BY <1>0, <1>6 DEF AckStop
  <2>2. /\ effect'[e].state = "terminal" /\ \A d \in Epochs \ {e} : effect'[d] = effect[d]
    BY <1>0, <2>1 DEF IInv, TypeOK, EffectType
  <2>3. JournalWritten(p, e)
    BY <1>0, <2>1, <2>2 DEF JournalWritten, Remarks
  <2>4. ASSUME NEW d \in Epochs, native[d].state = "running", Marked(d)
        PROVE  Marked(d)' \/ Owed(d)
    <3>1. CASE d = e
      BY <1>0, <1>1, <2>1, <2>4, <3>1 DEF RecordInv, OwnInv, StoppedInv, Marked
    <3>2. CASE d # e
      BY <1>4, <2>2, <2>4, <3>2 DEF Marked
    <3>3. QED  BY <3>1, <3>2
  <2>5. Pays(p)
    BY <1>1, <2>4 DEF Pays, Answers, Stops, At
  <2>6. ~At(p, "closeEffect")
    BY <1>1 DEF At
  <2>7. QED  BY <1>0, <1>2, <1>3, <1>4, <2>3, <2>5, <2>6 DEF Tracks
<1>7. QED  BY <1>5, <1>6

(* What a sweep finds is marked and stopped, adopted, or ended. *)
LEMMA ExpiredTracks ==
    ASSUME IInv, PlaceInv, RecordInv, NEW p \in Procs,
           ExpiredSuperseded(p) \/ ExpiredAdopted(p) \/ ExpiredAbsent(p)
    PROVE  Tracks(p)
<1>0. PICK e : e = proc[p].epoch /\ e \in Epochs
  BY HasEpoch DEF ExpiredSuperseded, ExpiredAdopted, ExpiredAbsent, Looked, At
<1> DEFINE Adopts == /\ ExpiredAdopted(p) /\ Open(e) /\ Goto(p, "activate")
                     /\ effect' = [effect EXCEPT ![e].state = "launched", ![e].ws = proc[p].ws]
           Loses  == /\ ExpiredAbsent(p) /\ effect[e].state = "reserved" /\ ~effect[e].live
                     /\ Goto(p, "expired")
                      /\ effect' = [effect EXCEPT ![e] = Terminal(@, @.ws, "other")]
           Marks  == /\ ExpiredSuperseded(p) /\ Open(e) /\ Goto(p, "stop")
                     /\ effect' = [effect EXCEPT ![e] = Terminal(@, proc[p].ws, "other")]
<1>1. At(p, "looked") /\ Plain(p) /\ FenceFree /\ RowKept /\ NativeKept
  BY DEF ExpiredSuperseded, ExpiredAdopted, ExpiredAbsent, Looked, Plain, At
<1>2. CASE Return(p) /\ JournalKept
  BY <1>1, <1>2, TracksReturn
<1>3. CASE Adopts
  <2>1. /\ effect'[e].state = "launched" /\ \A d \in Epochs \ {e} : effect'[d] = effect[d]
    BY <1>0, <1>3 DEF IInv, TypeOK, EffectType
  <2>2. /\ JournalWritten(p, e)
        /\ \A d \in Epochs : effect[d].state = "terminal" => effect'[d] = effect[d]
    BY <1>0, <1>3, <2>1 DEF JournalWritten, Launches, Open
  <2>3. proc'[p].pc = "activate" /\ \A q \in Procs \ {p} : proc'[q] = proc[q]
    BY <1>3, Moves, OthersRest
  <2>4. proc'[p].pc \notin Demanding
    BY <2>3 DEF Demanding, Going, LaunchPoints
  <2>5. RowStays(p) /\ NativeStays /\ Runs(p)
    BY <1>1, <2>3, RowKeptStays, NativeKeptRuns
  <2>6. QED  BY <1>0, <1>1, <2>2, <2>3, <2>4, <2>5, TracksPlain
<1>4. CASE Loses
  <2>1. \A q \in fresh \ {p} : ~Asks(q, e)
    BY <1>4 DEF RecordInv, OwnInv, AskedInv, Asks, IInv, TypeOK
  <2>2. /\ JournalWritten(p, e)
        /\ \A d \in Epochs : effect[d].state = "terminal" => effect'[d] = effect[d]
    BY <1>0, <1>4, <2>1, EndWrites DEF Open
  <2>3. proc'[p].pc = "expired" /\ \A q \in Procs \ {p} : proc'[q] = proc[q]
    BY <1>4, Moves, OthersRest
  <2>4. proc'[p].pc \notin Demanding
    BY <2>3 DEF Demanding, Going, LaunchPoints
  <2>5. RowStays(p) /\ NativeStays /\ Runs(p)
    BY <1>1, <2>3, RowKeptStays, NativeKeptRuns
  <2>6. QED  BY <1>0, <1>1, <2>2, <2>3, <2>4, <2>5, TracksPlain
<1>5. CASE Marks
  <2>1. proc[p].sid # None
    BY <1>5 DEF ExpiredSuperseded
  <2>2. native[e].state # "none" /\ proc[p].ws = native[e].ws
    BY <1>0, <1>1, <2>1 DEF IInv, ProcInv, PlaceInv, PlaceKnown, At
  <2>3. /\ effect'[e].state = "terminal" /\ effect'[e].ws = native[e].ws
        /\ \A d \in Epochs \ {e} : effect'[d] = effect[d]
    BY <1>0, <1>5, <2>2, Terminates
  <2>4. /\ proc'[p].pc = "stop" /\ proc'[p].epoch = e
        /\ \A q \in Procs \ {p} : proc'[q] = proc[q]
    BY <1>0, <1>5, Moves, OthersRest
  <2>5. proc'[p].ws = proc[p].ws
    BY <1>5 DEF Goto, IInv, TypeOK, ProcType
  <2>6. Stops(p, e)'
    BY <1>1, <2>2, <2>4, <2>5 DEF Stops, At, NativeKept
  <2>7. /\ JournalWritten(p, e)
        /\ \A d \in Epochs : effect[d].state = "terminal" => effect'[d] = effect[d]
    BY <1>0, <1>5, <2>2, <2>3, <2>6 DEF JournalWritten, Ends, Open
  <2>8. RowStays(p) /\ NativeStays /\ Runs(p)
    BY <1>1, <2>4, RowKeptStays, NativeKeptRuns
  <2>9. OwnInv(p)'
    BY <2>3, <2>4 DEF OwnInv, GoingInv, ReservingInv, AskedInv, EndingInv, StoppedInv,
                      ObservingInv, Going, LaunchPoints, Asked, Over, At
  <2>10. Pays(p)
    BY <1>1, <2>7, <2>8, PlainPays
  <2>11. \A d \in Epochs : ~Asks(p, d)'
    BY <2>4 DEF Asks, Asked
  <2>12. proc'[p].pc \notin Fenced /\ ~At(p, "closeEffect")
    BY <1>1, <2>4 DEF Fenced, Plain
  <2>13. QED
    BY <1>0, <2>4, <2>7, <2>8, <2>9, <2>10, <2>11, <2>12 DEF Tracks
<1>6. ExpiredSuperseded(p) => (Return(p) /\ JournalKept) \/ Marks
  BY <1>0 DEF ExpiredSuperseded, Superseded
<1>7. ExpiredAdopted(p) => (Return(p) /\ JournalKept) \/ Adopts
  BY <1>0 DEF ExpiredAdopted
<1>8. ExpiredAbsent(p) => (Return(p) /\ JournalKept) \/ Loses
  BY <1>0 DEF ExpiredAbsent
<1>9. QED  BY <1>2, <1>3, <1>4, <1>5, <1>6, <1>7, <1>8

LEMMA SettlingTracks ==
    ASSUME IInv, PlaceInv, RecordInv, NEW p \in Procs, Settling(p)  PROVE Tracks(p)
<1>1. CleanupEnds(p) => Tracks(p)
  BY TracksReturn DEF CleanupEnds, OnlyProc, Plain, At
<1>2. ASSUME Lookup(p)  PROVE Tracks(p)
  <2>1. /\ proc'[p].pc = "looked" /\ \A q \in Procs \ {p} : proc'[q] = proc[q]
    BY <1>2 DEF Lookup, IInv, TypeOK, ProcType
  <2>2. "looked" \notin Demanding /\ "looked" \notin Fenced /\ Plain(p)
    BY <1>2 DEF Demanding, Going, LaunchPoints, Fenced, Lookup, Plain, At
  <2>3. QED  BY <1>2, <2>1, <2>2, TracksQuiet DEF Lookup, OnlyProc
<1>3. ASSUME LoseExpired(p)  PROVE Tracks(p)
  <2>1. Plain(p) /\ proc[p].pc \in Fenced
    BY <1>3 DEF LoseExpired, Plain, At, Fenced
  <2>2. QED  BY <1>3, <2>1, FailTracks DEF LoseExpired
<1>4. QED
  BY <1>1, <1>2, <1>3, FinishTracks, CloseTracks, EndedTracks, AckTracks, ExpiredTracks
  DEF Settling

(* The row is opened, or read where it is open, for a launch. *)
LEMMA OpenTracks ==
    ASSUME IInv, NEW p \in Procs, NEW op, NEW r, NEW pc, Plain(p), Snapshot(p, op, r, pc),
           pc \in {"startIO", "autoIO", "retire"},
           pc \in Fenced => proc[p].pc \in Fenced \/ FenceFree,
           RowStays(p) \/ RowWritten(p), row'.state \in {"reserved", "replacing"},
           JournalKept, NativeKept
    PROVE  Tracks(p)
<1>1. proc'[p].pc = pc /\ \A q \in Procs \ {p} : proc'[q] = proc[q]
  BY Moves, OthersRest
<1>2. NativeStays /\ Runs(p) /\ Pays(p)
  BY NativeKeptRuns, PlainPays DEF JournalKept
<1>3. OwnInv(p)'
  BY <1>1 DEF OwnInv, GoingInv, ReservingInv, AskedInv, EndingInv, StoppedInv, ObservingInv,
              Asked, At
<1>4. \A e \in Epochs : ~Asks(p, e)'
  BY <1>1 DEF Asks, Asked
<1>5. ~At(p, "closeEffect")
  BY DEF Plain
<1>6. QED  BY <1>1, <1>2, <1>3, <1>4, <1>5 DEF Tracks, JournalKept

LEMMA StartingTracks ==
    ASSUME IInv, RecordInv, NEW p \in Procs, Starting(p)  PROVE Tracks(p)
<1>0. Plain(p) /\ JournalKept /\ NativeKept
  BY DEF Starting, StartRead, StartDispatch, StartRefused, ReplaceCommit, OnlyProc, Plain, At
<1>1. ASSUME StartRead(p)  PROVE Tracks(p)
  <2>1. CASE Return(p) /\ RowKept
    BY <1>0, <2>1, TracksReturn
  <2>2. CASE Snapshot(p, "start", row, "startIO") /\ RowRead(p) /\ row.state = "reserved"
    <3>1. RowStays(p) /\ row' = row
      BY <2>2, OthersRest, RowKeptStays DEF RowRead
    <3>2. FenceFree
      BY <1>1 DEF StartRead
    <3>3. QED  BY <1>0, <2>2, <3>1, <3>2, OpenTracks
  <2>3. QED  BY <1>1, <2>1, <2>2 DEF StartRead
<1>2. ASSUME StartDispatch(p)  PROVE Tracks(p)
  <2>1. proc[p].pc \in Going /\ FenceFree /\ RowKept
    BY <1>2 DEF StartDispatch, OnlyProc, Going, At
  <2>2. Return(p) \/ (Goto(p, "reserve") /\ p \in fresh)
    BY <1>2 DEF StartDispatch, Moved
  <2>3. QED  BY <1>0, <2>1, <2>2, TracksReturn, TracksGoing
<1>3. ASSUME StartRefused(p)  PROVE Tracks(p)
  BY <1>0, <1>3, TracksReturn DEF StartRefused, OnlyProc
<1>4. ASSUME ReplaceCommit(p)  PROVE Tracks(p)
  <2>1. CASE Return(p) /\ RowKept
    BY <1>0, <2>1, TracksReturn
  <2>2. CASE Snapshot(p, "replace", Reopened, "retire") /\ Replaceable /\ Write(Reopened, {p})
    <3>1. row' = Reopened /\ fresh' = {p} /\ FenceFree
      BY <1>4, <2>2 DEF Write, ReplaceCommit
    <3>2. /\ row'.state = "replacing"
          /\ row'.epoch = row.epoch + 1 \/ (row'.epoch = row.epoch /\ row.state = "replacing")
      BY <3>1 DEF Reopened, L!NextEpoch, IInv, TypeOK, RowType
    <3>3. ~Finished
      BY <2>2 DEF Finished, Replaceable, L!ReplacePredecessors
    <3>4. RowWritten(p)
      BY <3>1, <3>2, <3>3, RowEpoch DEF RowWritten, Finished, Opening
    <3>5. QED  BY <1>0, <2>2, <3>1, <3>2, <3>4, OpenTracks
  <2>3. QED  BY <1>4, <2>1, <2>2 DEF ReplaceCommit
<1>5. QED  BY <1>1, <1>2, <1>3, <1>4 DEF Starting

LEMMA ReconcilingTracks ==
    ASSUME IInv, PlaceInv, RecordInv, Reconciling  PROVE Tracks(Bridge)
<1>0. /\ Bridge \in Procs /\ Plain(Bridge) /\ NativeKept
  BY BridgeIsProc
  DEF Reconciling, AutoDispatch, Reroute, ObserveRead, ObserveRefusal, ObserveFailure,
      ObserveNothing, OnlyProc, Plain, At
<1>1. ASSUME AutoDispatch  PROVE Tracks(Bridge)
  <2>1. proc[Bridge].pc \in Going /\ FenceFree /\ RowKept /\ JournalKept
    BY <1>1 DEF AutoDispatch, OnlyProc, Going, At
  <2>2. Return(Bridge) \/ (Goto(Bridge, "reserve") /\ Bridge \in fresh)
    BY <1>1 DEF AutoDispatch, Moved
  <2>3. QED  BY <1>0, <2>1, <2>2, TracksReturn, TracksGoing
<1>2. ASSUME Reroute  PROVE Tracks(Bridge)
  <2>0. FenceFree /\ JournalKept /\ At(Bridge, "route")
    BY <1>2 DEF Reroute
  <2>1. CASE Return(Bridge) /\ RowKept
    BY <1>0, <2>0, <2>1, TracksReturn
  <2>2. CASE ~(Return(Bridge) /\ RowKept)
    <3>1. PICK r : /\ r = L!NextEpoch(row, row.state = "active", TRUE)
                   /\ Snapshot(Bridge, "auto", r, Prepared(r)) /\ row' = r
                   /\ fresh' = {Bridge} /\ Bridge \in fresh
      BY <1>2, <2>2 DEF Reroute, Write, Moved
    <3>2. row'.state = "replacing" /\ row'.epoch = row.epoch + 1
      BY <3>1 DEF L!NextEpoch, IInv, TypeOK, RowType
    <3>3. ~Finished
      BY <2>0, <3>1 DEF IInv, SnapshotInv, Finished, At
    <3>4. RowWritten(Bridge)
      <4>1. fresh' \subseteq {Bridge} /\ FenceFree /\ ~Finished'
        BY <2>0, <3>1, <3>2 DEF Finished
      <4>2. row.epoch <= row'.epoch /\ row.epoch < row'.epoch
        BY <3>2, RowEpoch
      <4>3. QED  BY <3>3, <4>1, <4>2 DEF RowWritten
    <3>5. Prepared(r) \in {"retire", "autoIO"}
      BY DEF Prepared
    <3>6. QED  BY <1>0, <2>0, <3>1, <3>2, <3>4, <3>5, OpenTracks
  <2>3. QED  BY <2>1, <2>2
<1>3. ASSUME ObserveRead  PROVE Tracks(Bridge)
  <2>1. FenceFree /\ RowKept /\ JournalKept
    BY <1>3 DEF ObserveRead, OnlyProc
  <2>2. CASE Return(Bridge)
    BY <1>0, <2>1, <2>2, TracksReturn
  <2>3. CASE /\ row.state = "active"
             /\ proc' = [proc EXCEPT ![Bridge].pc = "observing", ![Bridge].epoch = row.epoch]
    <3>1. /\ proc'[Bridge].pc = "observing"
          /\ \A q \in Procs \ {Bridge} : proc'[q] = proc[q]
      BY <1>0, <2>3 DEF IInv, TypeOK, ProcType
    <3>2. row' = row /\ RowStays(Bridge) /\ NativeStays /\ Runs(Bridge)
      BY <1>0, <2>1, <3>1, RowKeptStays, NativeKeptRuns DEF RowKept
    <3>3. OwnInv(Bridge)'
      BY <2>3, <3>1, <3>2 DEF OwnInv, GoingInv, ReservingInv, AskedInv, EndingInv, StoppedInv,
                              ObservingInv, Opening, Going, LaunchPoints, Asked, At
    <3>4. Pays(Bridge) /\ ~At(Bridge, "closeEffect")
      BY <1>0, <2>1, <3>2, PlainPays DEF JournalKept, Plain
    <3>5. \A e \in Epochs : ~Asks(Bridge, e)'
      BY <3>1 DEF Asks, Asked
    <3>6. proc'[Bridge].pc \notin Fenced
      BY <3>1 DEF Fenced
    <3>7. QED  BY <1>0, <2>1, <3>1, <3>2, <3>3, <3>4, <3>5, <3>6 DEF Tracks, JournalKept
  <2>4. QED  BY <1>3, <2>2, <2>3 DEF ObserveRead
<1>4. ASSUME ObserveRefusal  PROVE Tracks(Bridge)
  <2>0. PICK e : e = proc[Bridge].epoch /\ e \in Epochs
    BY <1>0, <1>4, HasEpoch DEF ObserveRefusal, At
  <2>1. At(Bridge, "observing") /\ Return(Bridge) /\ RowKept
    BY <1>4 DEF ObserveRefusal
  <2>2. CASE JournalKept
    BY <1>0, <2>1, <2>2, TracksReturn
  <2>3. CASE Open(e) /\ effect' = [effect EXCEPT ![e] = Terminal(@, @.ws, "provider")]
    <3>1. ASSUME NEW q \in fresh \ {Bridge}, Asks(q, e)  PROVE FALSE
      <4>1. q \in Procs /\ GoingInv(q) /\ e = row.epoch
        BY <3>1 DEF RecordInv, OwnInv, IInv, TypeOK, SnapshotInv, Asks
      <4>2. row.state \in Opening
        BY <3>1, <4>1 DEF GoingInv, Going, LaunchPoints, Asks, Asked, Opening
      <4>3. e < row.epoch
        BY <1>0, <2>0, <2>1, <4>2 DEF RecordInv, OwnInv, ObservingInv
      <4>4. QED  BY <4>1, <4>3, RowEpoch
    <3>2. /\ JournalWritten(Bridge, e)
          /\ \A d \in Epochs : effect[d].state = "terminal" => effect'[d] = effect[d]
      BY <1>0, <2>0, <2>3, <3>1, EndWrites
    <3>3. proc'[Bridge].pc = "idle" /\ \A q \in Procs \ {Bridge} : proc'[q] = proc[q]
      BY <1>0, <2>1, Moves, OthersRest DEF Idle
    <3>4. "idle" \notin Demanding /\ "idle" \notin Fenced
      BY DEF Demanding, Going, LaunchPoints, Fenced
    <3>5. RowStays(Bridge) /\ NativeStays /\ Runs(Bridge)
      BY <1>0, <2>1, <3>3, RowKeptStays, NativeKeptRuns
    <3>6. QED  BY <1>0, <2>0, <3>2, <3>3, <3>4, <3>5, TracksPlain
  <2>4. QED  BY <1>4, <2>0, <2>2, <2>3 DEF ObserveRefusal
<1>5. ObserveFailure => Tracks(Bridge)
  BY <1>0, FailTracks DEF ObserveFailure
<1>6. ObserveNothing => Tracks(Bridge)
  BY <1>0, TracksReturn DEF ObserveNothing, OnlyProc
<1>7. QED  BY <1>1, <1>2, <1>3, <1>4, <1>5, <1>6 DEF Reconciling

(* A write by a process that stays where it is, with nothing under way. *)
LEMMA WriteTracks ==
    ASSUME IInv, NEW p \in Procs, At(p, "idle"), UNCHANGED proc, RowWritten(p),
           JournalKept, NativeKept
    PROVE  Tracks(p)
<1>1. Plain(p) /\ NativeStays /\ Runs(p)
  BY NativeKeptRuns DEF Plain, At
<1>2. "idle" \notin Demanding /\ "idle" \notin Fenced
  BY DEF Demanding, Going, LaunchPoints, Fenced
<1>3. QED  BY <1>1, <1>2, TracksPlain DEF JournalKept, At

LEMMA TickTracks ==
    ASSUME IInv, RecordInv, TickNext  PROVE Tracks(Bridge)
<1>0. /\ Bridge \in Procs /\ Plain(Bridge) /\ At(Bridge, "idle") /\ JournalKept /\ NativeKept
  BY BridgeIsProc
  DEF TickNext, Resume, Advance, ResumeEnded, ResumeUnfilled, AdvanceExhausts, AdvanceBlocks,
      AdvanceRoutes, Observe, Tick, OnlyProc, Plain, At
<1>1. ASSUME ResumeEnded \/ AdvanceBlocks \/ AdvanceExhausts  PROVE RowWritten(Bridge)
  <2>1. PICK state \in {"blocked", "exhausted"} :
            row' = L!ChargedFailure(row, state, FALSE)
    BY <1>1 DEF ResumeEnded, AdvanceBlocks, AdvanceExhausts, Write
  <2>2. fresh' = {} /\ FenceFree /\ ~Finished
    BY <1>1 DEF ResumeEnded, AdvanceBlocks, AdvanceExhausts, Write, Tick, Finished
  <2>3. QED  BY <1>0, <2>1, <2>2, ChargedEnds, RowEnds
<1>2. ResumeEnded \/ AdvanceBlocks => Tracks(Bridge)
  BY <1>0, <1>1, WriteTracks DEF ResumeEnded, AdvanceBlocks
<1>3. ASSUME AdvanceExhausts  PROVE Tracks(Bridge)
  <2>1. /\ proc'[Bridge].pc = "retireFinal" /\ proc'[Bridge].epoch = row.epoch
        /\ \A q \in Procs \ {Bridge} : proc'[q] = proc[q]
    BY <1>0, <1>3 DEF AdvanceExhausts, IInv, TypeOK, Idle
  <2>2. effect[row.epoch].state = "terminal" /\ effect' = effect /\ FenceFree
    BY <1>3 DEF AdvanceExhausts, ProviderOutcome, Tick, JournalKept
  <2>3. OwnInv(Bridge)'
    BY <2>1, <2>2 DEF OwnInv, GoingInv, ReservingInv, AskedInv, EndingInv, StoppedInv,
                      ObservingInv, Going, LaunchPoints, Asked, Over, At
  <2>4. NativeStays /\ Runs(Bridge) /\ Pays(Bridge)
    BY <1>0, <2>2, NativeKeptRuns, PlainPays
  <2>5. (\A e \in Epochs : ~Asks(Bridge, e)') /\ ~At(Bridge, "closeEffect")
    BY <1>0, <2>1 DEF Asks, Asked, Plain
  <2>6. QED  BY <1>0, <1>1, <1>3, <2>1, <2>2, <2>3, <2>4, <2>5 DEF Tracks
<1>4. ASSUME ResumeUnfilled  PROVE Tracks(Bridge)
  <2>1. /\ Snapshot(Bridge, "auto", row, Prepared(row)) /\ RowRead(Bridge)
        /\ row.state = "replacing" /\ FenceFree
    BY <1>4 DEF ResumeUnfilled, Tick
  <2>2. Prepared(row) \in {"retire", "autoIO"}
    BY DEF Prepared
  <2>3. RowStays(Bridge) /\ row' = row
    BY <1>0, <2>1, OthersRest, RowKeptStays DEF RowRead
  <2>4. QED  BY <1>0, <2>1, <2>2, <2>3, OpenTracks
<1>5. ASSUME AdvanceRoutes  PROVE Tracks(Bridge)
  <2>1. proc'[Bridge].pc = "route" /\ \A q \in Procs \ {Bridge} : proc'[q] = proc[q]
    BY <1>0, <1>5, Moves, OthersRest DEF AdvanceRoutes
  <2>2. "route" \notin Demanding /\ "route" \notin Fenced
    BY DEF Demanding, Going, LaunchPoints, Fenced
  <2>3. QED  BY <1>0, <1>5, <2>1, <2>2, TracksQuiet DEF AdvanceRoutes
<1>6. ASSUME Observe  PROVE Tracks(Bridge)
  <2>1. proc'[Bridge].pc = "observe" /\ \A q \in Procs \ {Bridge} : proc'[q] = proc[q]
    BY <1>0, <1>6 DEF Observe, IInv, TypeOK, Idle
  <2>2. "observe" \notin Demanding /\ "observe" \notin Fenced
    BY DEF Demanding, Going, LaunchPoints, Fenced
  <2>3. QED  BY <1>0, <1>6, <2>1, <2>2, TracksQuiet DEF Observe, OnlyProc
<1>7. QED  BY <1>2, <1>3, <1>4, <1>5, <1>6 DEF TickNext, Resume, Advance

LEMMA SweepTracks ==
    ASSUME IInv, RecordInv, NEW p \in Procs, Sweep(p)  PROVE Tracks(p)
<1>1. ASSUME SweepExpired(p)  PROVE Tracks(p)
  <2>1. proc'[p].pc = "lookup" /\ \A q \in Procs \ {p} : proc'[q] = proc[q]
    BY <1>1, Moves, OthersRest DEF SweepExpired
  <2>2. "lookup" \notin Demanding /\ "lookup" \notin Fenced /\ Plain(p)
    BY <1>1 DEF Demanding, Going, LaunchPoints, Fenced, SweepExpired, Plain, At
  <2>3. QED  BY <1>1, <2>1, <2>2, TracksQuiet DEF SweepExpired
<1>2. ASSUME NEW e \in Epochs, SweepTerminal(p, e)  PROVE Tracks(p)
  <2>1. /\ proc'[p].pc = "stop" /\ proc'[p].epoch = e
        /\ \A q \in Procs \ {p} : proc'[q] = proc[q]
    BY <1>2 DEF SweepTerminal, IInv, TypeOK, Idle
  <2>2. /\ effect' = effect /\ effect[e].state = "terminal" /\ At(p, "idle") /\ RowKept
        /\ NativeKept
    BY <1>2 DEF SweepTerminal, OnlyProc, JournalKept
  <2>3. OwnInv(p)'
    BY <2>1, <2>2 DEF OwnInv, GoingInv, ReservingInv, AskedInv, EndingInv, StoppedInv,
                      ObservingInv, Going, LaunchPoints, Asked, Over, At
  <2>4. Plain(p) /\ RowStays(p) /\ NativeStays /\ Runs(p)
    BY <2>1, <2>2, RowKeptStays, NativeKeptRuns DEF Plain, At
  <2>5. Pays(p) /\ ~At(p, "closeEffect")
    BY <2>2, <2>4, PlainPays DEF Plain
  <2>6. (\A d \in Epochs : ~Asks(p, d)') /\ proc'[p].pc \notin Fenced
    BY <2>1 DEF Asks, Asked, Fenced
  <2>7. QED  BY <2>1, <2>2, <2>3, <2>4, <2>5, <2>6 DEF Tracks
<1>3. ASSUME NEW e \in Epochs, Cleanup(p, e)  PROVE Tracks(p)
  <2>1. /\ proc' = proc /\ row' = row /\ fresh' = fresh /\ effect' = effect
        /\ proc[p].pc \in {"idle", "cleanup"}
    BY <1>3 DEF Cleanup, JournalKept, At
  <2>2. NativeStays /\ Runs(p)
    BY <1>3 DEF Cleanup, NativeStays, Runs, IInv, TypeOK, NativeType
  <2>3. proc[p].pc \notin Demanding /\ proc[p].pc \notin Fenced /\ Plain(p) /\ RowStays(p)
    BY <2>1 DEF Demanding, Going, LaunchPoints, Fenced, Plain, At, RowStays
  <2>4. QED  BY <2>1, <2>2, <2>3, TracksPlain
<1>4. QED  BY <1>1, <1>2, <1>3 DEF Sweep

LEMMA GivenTracks ==
    ASSUME IInv, StartInv, NEW p \in Procs, Given(p)  PROVE Tracks(p)
<1>0. /\ Plain(p) /\ At(p, "idle") /\ JournalKept /\ NativeKept
  BY DEF Given, StartReserve, StartAgain, StartReissue, ReplaceRead, Block, FinishRead, Command,
         OnlyProc, Plain, At
<1>1. "start" \notin Demanding \union Fenced /\ "replace" \notin Demanding \union Fenced
  BY DEF Demanding, Going, LaunchPoints, Fenced
<1>2. ASSUME NEW op, NEW r, NEW pc, Snapshot(p, op, r, pc), pc \notin Demanding \union Fenced,
             RowKept \/ RowRead(p) \/ RowWritten(p)
      PROVE  Tracks(p)
  <2>1. proc'[p].pc = pc /\ \A q \in Procs \ {p} : proc'[q] = proc[q]
    BY <1>2, Moves, OthersRest
  <2>2. NativeStays /\ Runs(p) /\ (RowStays(p) \/ RowWritten(p))
    BY <1>0, <1>2, <2>1, RowKeptStays, NativeKeptRuns
  <2>3. QED  BY <1>0, <1>2, <2>1, <2>2, TracksPlain DEF JournalKept
<1>3. ASSUME StartReserve(p)  PROVE Tracks(p)
  <2>1. /\ row.state = "absent" /\ row' = [row EXCEPT !.state = "reserved"] /\ fresh' = {}
        /\ Snapshot(p, "start", row, "start")
    BY <1>3 DEF StartReserve, Write
  <2>2. row'.epoch = row.epoch /\ row'.state = "reserved" /\ row.epoch <= row'.epoch
    BY <2>1, RowEpoch DEF IInv, TypeOK, RowType
  <2>3. FenceFree
    BY <2>1 DEF StartInv, AbsentInv, FenceFree, Fenced, At
  <2>4. RowWritten(p)
    BY <2>1, <2>2, <2>3 DEF RowWritten, Finished, Opening
  <2>5. QED  BY <1>1, <1>2, <2>1, <2>4
<1>4. ASSUME StartReissue(p)  PROVE Tracks(p)
  <2>1. /\ row.state = "lost" /\ row'.epoch = row.epoch + 1 /\ row'.state = "reserved"
        /\ fresh' = {} /\ FenceFree /\ Snapshot(p, "start", row', "start")
    BY <1>4 DEF StartReissue, Write
  <2>2. RowWritten(p)
    BY <2>1, RowEpoch DEF RowWritten, Finished
  <2>3. QED  BY <1>1, <1>2, <2>1, <2>2
<1>5. StartAgain(p) \/ ReplaceRead(p) => Tracks(p)
  BY <1>1, <1>2 DEF StartAgain, ReplaceRead, OnlyProc
<1>6. ASSUME Block(p)  PROVE Tracks(p)
  <2>1. /\ row.state \in L!BlockPredecessors /\ row' = L!Settled(row, "blocked")
        /\ fresh' = {} /\ FenceFree /\ UNCHANGED proc
    BY <1>6 DEF Block, Write
  <2>2. row'.epoch = row.epoch /\ row'.state = "blocked"
    BY <2>1 DEF L!Settled, IInv, TypeOK, RowType
  <2>3. ~Finished
    BY <2>1 DEF Finished, L!BlockPredecessors
  <2>4. RowWritten(p)
    BY <2>1, <2>2, <2>3, RowEnds DEF Opening
  <2>5. QED  BY <1>0, <2>1, <2>4, WriteTracks
<1>7. ASSUME NEW op \in {"complete", "cancel"}, FinishRead(p, op)  PROVE Tracks(p)
  <2>1. proc'[p].pc = "finish" /\ \A q \in Procs \ {p} : proc'[q] = proc[q]
    BY <1>7 DEF FinishRead, IInv, TypeOK, Idle
  <2>2. "finish" \notin Demanding /\ "finish" \notin Fenced
    BY DEF Demanding, Going, LaunchPoints, Fenced
  <2>3. QED  BY <1>0, <1>7, <2>1, <2>2, TracksQuiet DEF FinishRead, OnlyProc
<1>8. QED  BY <1>3, <1>4, <1>5, <1>6, <1>7 DEF Given

(* The world moves no process: a session ends, or a lease that nobody who   *)
(* waits for the executor relies on.                                        *)
LEMMA WorldRecords ==
    ASSUME IInv, RecordInv, UNCHANGED <<row, proc, fresh>>,
           \A d \in Epochs : effect'[d].state = effect[d].state /\ effect'[d].ws = effect[d].ws,
           \A d \in Epochs : effect'[d] = effect[d] \/ \A q \in Procs : ~Asks(q, d),
           NativeStays,
           \A d \in Epochs : native'[d].state = "running" => native[d].state = "running"
    PROVE  RecordInv'
<1>1. ASSUME NEW d \in Epochs
      PROVE  /\ Open(d)' <=> Open(d)
             /\ Over(d)' <=> Over(d)
             /\ \A q \in Procs : Asks(q, d)' <=> Asks(q, d)
  BY DEF Open, Over, Finished, Asks
<1>2. ASSUME NEW d \in Epochs, native'[d].state = "running"
      PROVE  /\ native[d].state = "running" /\ native'[d].ws = native[d].ws
             /\ Marked(d) => Marked(d)'
             /\ Owed(d) => Owed(d)'
  <2>1. native[d].state = "running" /\ native'[d].ws = native[d].ws
    BY <1>2 DEF NativeStays
  <2>2. \A q \in Procs : (Answers(q, d) => Answers(q, d)') /\ (Stops(q, d) => Stops(q, d)')
    BY <1>1, <2>1 DEF Answers, Stops, At
  <2>3. QED  BY <2>1, <2>2 DEF Owed, Marked
<1>3. Mutex' /\ AskedOnce'
  BY <1>1 DEF RecordInv, Mutex, AskedOnce
<1>4. FinishedInv'
  <2>1. Open(row.epoch)' <=> Open(row.epoch)
    BY RowEpoch DEF Open
  <2>2. QED  BY <2>1 DEF RecordInv, FinishedInv, Finished, At
<1>5. RunningInv'
  BY <1>2 DEF RecordInv, RunningInv
<1>6. ASSUME NEW q \in Procs  PROVE OwnInv(q)'
  <2>0. OwnInv(q) /\ proc' = proc
    BY DEF RecordInv
  <2>1. proc[q].pc \notin {"idle", "finish", "observe"} => proc[q].epoch \in Epochs
    BY HasEpoch
  <2>2. GoingInv(q)' /\ ReservingInv(q)' /\ ObservingInv(q)'
    BY <2>0, <2>1 DEF OwnInv, GoingInv, ReservingInv, ObservingInv, At
  <2>3. AskedInv(q)'
    <3>1. ASSUME proc[q].pc \in Asked
          PROVE  /\ proc[q].epoch \in Epochs /\ effect'[proc[q].epoch] = effect[proc[q].epoch]
                 /\ native'[proc[q].epoch].state = "none" => native[proc[q].epoch].state = "none"
      <4>1. proc[q].epoch \in Epochs /\ Asks(q, proc[q].epoch)
        BY <2>1, <3>1 DEF Asks, Asked
      <4>2. QED  BY <4>1 DEF NativeStays
    <3>2. QED  BY <2>0, <3>1 DEF OwnInv, AskedInv, Open
  <2>4. EndingInv(q)'
    BY <2>0, <2>1 DEF OwnInv, EndingInv, Over, Finished, At
  <2>5. StoppedInv(q)'
    <3>1. SUFFICES ASSUME NEW e, e = proc[q].epoch, At(q, "stopped"),
                          native'[e].state = "running", native'[e].ws = proc[q].ws,
                          effect'[e].state = "terminal"
                   PROVE  Owed(e)'
      BY <2>0 DEF StoppedInv, At
    <3>2. e \in Epochs
      BY <2>1, <3>1 DEF At
    <3>3. Owed(e)
      BY <1>2, <2>0, <3>1, <3>2 DEF OwnInv, StoppedInv
    <3>4. QED  BY <1>2, <3>1, <3>2, <3>3
  <2>6. QED  BY <2>2, <2>3, <2>4, <2>5 DEF OwnInv
<1>7. QED  BY <1>3, <1>4, <1>5, <1>6 DEF RecordInv

(* Whoever dies, or gets no answer, disturbs; nobody makes up for it. *)
LEMMA Calm ==
    ASSUME IInv, Undisturbed'
    PROVE  /\ NotCommand => Undisturbed
           /\ \A p : Command(p) => Undisturbed
           /\ \A p : ~Faults(p)
<1>1. spent \in Spent /\ LeaseOutlivesLaunch
  BY DEF IInv, TypeOK, Spent, Undisturbed
<1>2. spent'.crashes = 0 /\ spent'.timeouts = 0
  BY DEF Undisturbed
<1>3. spent' # [spent EXCEPT !.timeouts = @ + 1] /\ spent' # [spent EXCEPT !.crashes = @ + 1]
  BY <1>1, <1>2, LaunchAssumption DEF LaunchAssumption, Spent
<1>4. \A p : Command(p) => spent'.crashes = spent.crashes /\ spent'.timeouts = spent.timeouts
  BY <1>1 DEF Command, Spent
<1>5. QED
  BY <1>1, <1>2, <1>3, <1>4
  DEF Undisturbed, NotCommand, Faults, Crash, CallTimesOut, StopFails, LookupFails

LEMMA ContinueCalm ==
    ASSUME NEW p \in Procs, Continue(p) \/ Sweep(p)  PROVE NotCommand
<1>1. Launching(p) => NotCommand
  BY DEF Launching, Reserve, BusyRetry, BusyGiveUp, CallAccepted, CallRefused,
         ReplySuperseded, ReplyLaunched, ReplyRejected, ReplyUnknown, ReplyRefused, ReplyLost,
         BlockRejected, LoseNative, Activate, Retire, Transfer, Link, Forward
<1>2. Settling(p) => NotCommand
  BY DEF Settling, FinishDecide, CloseEffect, RetireFinal, Stop, AckStop, CleanupEnds, Lookup,
         ExpiredSuperseded, ExpiredAdopted, ExpiredAbsent, LoseExpired
<1>3. Starting(p) => NotCommand
  BY DEF Starting, StartRead, StartDispatch, StartRefused, ReplaceCommit
<1>4. Reconciling => NotCommand
  BY DEF Reconciling, AutoDispatch, Reroute, ObserveRead, ObserveRefusal, ObserveFailure,
         ObserveNothing
<1>5. Sweep(p) => NotCommand
  BY DEF Sweep, SweepExpired, SweepTerminal, Cleanup
<1>6. QED  BY <1>1, <1>2, <1>3, <1>4, <1>5 DEF Continue

LEMMA TickCalm == TickNext => NotCommand
  BY DEF TickNext, Resume, Advance, ResumeEnded, ResumeUnfilled, AdvanceExhausts, AdvanceBlocks,
         AdvanceRoutes, Observe

LEMMA GivenCalm == ASSUME NEW p, Given(p)  PROVE Command(p)
  BY DEF Given, StartReserve, StartAgain, StartReissue, ReplaceRead, Block, FinishRead

(* As long as nothing disturbs. *)
Recorded == Undisturbed => RecordInv

LEMMA NextRecords ==
    IInv /\ IInv' /\ StartInv /\ PlaceInv /\ Recorded /\ [Next]_vars => Recorded'
<1> SUFFICES ASSUME IInv, IInv', StartInv, PlaceInv, Recorded, [Next]_vars, Undisturbed'
             PROVE  RecordInv'
  BY DEF Recorded
<1>1. ASSUME NEW p \in Procs, Continue(p) \/ Sweep(p)  PROVE RecordInv'
  <2>1. RecordInv
    BY <1>1, ContinueCalm, Calm DEF Recorded
  <2>2. Tracks(p)
    BY <1>1, <2>1, LaunchingTracks, SettlingTracks, StartingTracks, ReconcilingTracks,
       SweepTracks DEF Continue
  <2>3. QED  BY <2>1, <2>2, TracksKeep
<1>2. ASSUME NEW p \in Commands, Given(p)  PROVE RecordInv'
  <2>1. RecordInv /\ p \in Procs
    BY <1>2, GivenCalm, Calm DEF Recorded, Procs
  <2>2. QED  BY <1>2, <2>1, GivenTracks, TracksKeep
<1>3. ASSUME TickNext  PROVE RecordInv'
  <2>1. RecordInv
    BY <1>3, TickCalm, Calm DEF Recorded
  <2>2. QED  BY <1>3, <2>1, TickTracks, BridgeIsProc, TracksKeep
<1>4. ASSUME NEW e \in Epochs, LeaseExpires(e) \/ NativeEnds(e)  PROVE RecordInv'
  <2>0. effect \in [Epochs -> EffectType] /\ native \in [Epochs -> NativeType]
    BY DEF IInv, TypeOK
  <2>1. RecordInv /\ UNCHANGED <<row, proc, fresh>>
    BY <1>4 DEF LeaseExpires, NativeEnds, Undisturbed, Recorded
  <2>2. \A d \in Epochs : effect'[d].state = effect[d].state /\ effect'[d].ws = effect[d].ws
    BY <1>4, <2>0 DEF LeaseExpires, NativeEnds, EffectType
  <2>3. \A d \in Epochs : effect'[d] = effect[d] \/ \A q \in Procs : ~Asks(q, d)
    BY <1>4, <2>0 DEF LeaseExpires, NativeEnds, Undisturbed, Asks, Asked
  <2>4. /\ NativeStays
        /\ \A d \in Epochs : native'[d].state = "running" => native[d].state = "running"
    BY <1>4, <2>0 DEF LeaseExpires, NativeEnds, NativeStays, NativeType
  <2>5. QED  BY <2>1, <2>2, <2>3, <2>4, WorldRecords
<1>5. CASE UNCHANGED vars
  <2>1. RecordInv
    BY <1>5 DEF vars, Undisturbed, Recorded
  <2>2. NativeStays
    BY <1>5 DEF vars, NativeStays
  <2>3. QED  BY <1>5, <2>1, <2>2, WorldRecords DEF vars
<1>6. \A p \in Procs : ~Faults(p)
  BY Calm
<1>7. QED  BY <1>1, <1>2, <1>3, <1>4, <1>5, <1>6 DEF Next

(* sdk.py _journaled_launch, succession.py: what a launch creates for a     *)
(* task that moved on is recorded and stopped through the journal, by the   *)
(* launcher or by whoever finds the reservation first.  So as long as       *)
(* nobody dies, no answer is lost and no lease runs out under a launch,     *)
(* the journal of a task at rest has every session that runs, and none of a *)
(* finished epoch without the mark by which it will be stopped.             *)
THEOREM Reaped == Spec => []NoOrphan
<1>1. Init => PlaceInv /\ HandoverInv /\ StartInv /\ Recorded
  <2>1. ASSUME Init  PROVE PlaceInv
    BY <2>1 DEF Init, PlaceInv, RowPlaced, PlaceKnown, Holding, Idle, Unused
  <2>2. ASSUME Init  PROVE HandoverInv
    BY <2>2 DEF Init, HandoverInv, ReplacingInv, RetiredInv, ChainInv, Interrupted, Beside,
                HandInv, Idle, LaunchPoints, None
  <2>3. ASSUME Init  PROVE StartInv
    BY <2>3 DEF Init, StartInv, AbsentInv, ReservedInv, At, Idle, Unused
  <2>4. ASSUME Init  PROVE RecordInv
    <3>1. \A p \in Procs : proc[p].pc = "idle"
      BY <2>4 DEF Init, Idle
    <3>2. \A p \in Procs : OwnInv(p)
      BY <3>1 DEF OwnInv, GoingInv, ReservingInv, AskedInv, EndingInv, StoppedInv, ObservingInv,
                  Going, LaunchPoints, Asked, At
    <3>3. Mutex /\ AskedOnce
      BY <3>1 DEF Mutex, AskedOnce, Asks, Asked, Fenced
    <3>4. FinishedInv /\ RunningInv
      BY <2>4 DEF Init, FinishedInv, RunningInv, Finished
    <3>5. QED  BY <3>2, <3>3, <3>4 DEF RecordInv
  <2>5. QED  BY <2>1, <2>2, <2>3, <2>4 DEF Recorded
<1>2. IInv /\ PlaceInv /\ Recorded => NoOrphan
  <2>1. SUFFICES ASSUME IInv, PlaceInv, RecordInv, Quiet,
                        NEW e \in Epochs, native[e].state = "running"
                 PROVE  \/ effect[e].state = "launched" /\ ~(Finished /\ e = row.epoch)
                        \/ effect[e].state = "terminal" /\ effect[e].ws = native[e].ws
                             /\ effect[e].ws # None
    BY DEF NoOrphan, Recorded
  <2>2. ~Owed(e)
    BY <2>1 DEF Owed, Answers, Stops, Quiet, At
  <2>3. effect[e].state = "launched" \/ Marked(e)
    BY <2>1, <2>2 DEF RecordInv, RunningInv
  <2>4. native[e].ws # None
    BY <2>1 DEF PlaceInv
  <2>5. Finished => ~Open(row.epoch)
    BY <2>1 DEF RecordInv, FinishedInv, Quiet, At
  <2>6. QED  BY <2>3, <2>4, <2>5 DEF Marked, Open
<1>3. /\ IInv /\ [Next]_vars => IInv'
      /\ IInv /\ StartInv /\ [Next]_vars => StartInv'
      /\ IInv /\ IInv' /\ HandoverInv /\ [Next]_vars => HandoverInv'
      /\ IInv /\ IInv' /\ HandoverInv /\ PlaceInv /\ [Next]_vars => PlaceInv'
      /\ IInv /\ IInv' /\ StartInv /\ PlaceInv /\ Recorded /\ [Next]_vars => Recorded'
  BY NextIInv, NextStarts, NextHands, NextPlaces, NextRecords
<1>4. QED  BY <1>1, <1>2, <1>3, Invariant, PTL DEF Spec
=============================================================================
