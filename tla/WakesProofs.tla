---------------------------- MODULE WakesProofs ----------------------------
(***************************************************************************)
(* Safety of the wake outbox for any number of children, pumps, rows and   *)
(* sessions of the manager.                                                *)
(*                                                                         *)
(* None of the three properties is inductive.  That a message never says   *)
(* two things rests on where a body may still be on its way: while a row   *)
(* is open, what it persisted is what every message of it and every pump   *)
(* about to send it carries; once it is closed no pump persists for it, so *)
(* those that are late agree with the messages that are there (PumpInv,    *)
(* SendersAgree).  That the watermark was told rests on the order of       *)
(* Persist and Settle: a body is read after its row was inserted, and a    *)
(* pump settles only what some session has.  That no event is told twice   *)
(* for a predicate rests on the watermark: a new row is inserted past it,  *)
(* and every delivered one lies behind it.                                 *)
(***************************************************************************)
EXTENDS Wakes, FiniteSetTheorems, WellFoundedInduction, TLAPS

(* A row that is still to be delivered, and one that was or is to be. *)
IsOpen(w) == w.state \in {"pending", "claimed"}
IsTold(w) == w.state \in {"pending", "claimed", "delivered"}

(* A handover leaves a session to hand over to. *)
ParentInv == parent.state \in {"retired", "handover"} => parent.holder < MaxHolder

(* A row w of the manager's events up to n. *)
RowInv(w, n) ==
    /\ w.seq <= n
    /\ w.payload # None => IsOpen(w) /\ w.payload >= 1 + w.seq
    /\ w.state = "delivered" => w.seq <= woken

(* Two rows that tell the same tell different events, and one at most is    *)
(* still to be delivered.                                                   *)
Apart(v, w) ==
    IsTold(v) /\ IsTold(w) /\ v.key = w.key
      => ~(IsOpen(v) /\ IsOpen(w)) /\ v.seq # w.seq

(* Of a row that is still open, a session has what the row persisted. *)
MessageInv(w, m) == IsOpen(w[m.wake]) => w[m.wake].payload = m.body

(* What a pump with the record r may still do harm with. *)
PumpInv(w, r) ==
    /\ r.pc \in {"resolve", "persist", "send", "settle"} => r.at \in WakeIds
    /\ r.pc = "persist" => r.body >= 1 + w[r.at].seq /\ r.session # 0
    /\ r.pc = "send" =>
         /\ r.body # None /\ r.session # 0
         /\ IsOpen(w[r.at]) => w[r.at].payload = r.body
         /\ \A m \in inbox : m.wake = r.at => m.body = r.body
    /\ r.pc = "settle" => \E m \in inbox : m.wake = r.at

(* Two pumps that send for one row send the same. *)
SendersAgree ==
    \A p, q \in Pumps :
        pump[p].pc = "send" /\ pump[q].pc = "send" /\ pump[p].at = pump[q].at
          => pump[p].body = pump[q].body

(* The table w of rows, when n events have happened. *)
Table(w, n) ==
    /\ w \in [WakeIds -> WakeType]
    /\ \A i \in WakeIds : RowInv(w[i], n)
    /\ \A i, j \in WakeIds : i # j => Apart(w[i], w[j])
    /\ \A m \in inbox : MessageInv(w, m)
    /\ \A p \in Pumps : PumpInv(w, pump[p])

IInv == /\ TypeOK
        /\ woken <= seq
        /\ ParentInv
        /\ Table(wake, seq)
        /\ SendersAgree
        /\ FrozenPayload
        /\ WatermarkTold

-----------------------------------------------------------------------------
(* Arming: a row id that is free stands for a new row. *)

(* A set of row ids that is not empty has a first one. *)
LEMMA LeastOfNat ==
    ASSUME NEW S, S \subseteq Nat, S # {}
    PROVE  \E i \in S : \A j \in S : i <= j
<1> DEFINE R == {ss \in Nat \X Nat : ss[1] < ss[2]}
<1>1. IsWellFoundedOn(R, Nat)
  BY NatLessThanWellFounded, Zenon DEF OpToRel
<1>2. \A x, y \in Nat : y < x => <<y, x>> \in R
  OBVIOUS
<1> HIDE DEF R
<1>3. PICK x \in S : \A y \in S : ~ (<<y, x>> \in R)
  BY <1>1, WFMin
<1>4. ASSUME NEW y \in S  PROVE x <= y
  <2>1. x \in Nat /\ y \in Nat
    OBVIOUS
  <2>2. ~ (y < x)
    BY <1>2, <1>3, <2>1
  <2>3. QED  BY <2>1, <2>2
<1>5. QED  BY <1>4

(* Of two row ids at hand, one is left when the other is taken. *)
LEMMA OneIsLeft ==
    ASSUME NEW S, Cardinality(S) >= 2, NEW x
    PROVE  S \ {x} # {}
<1>1. S # {} /\ S # {x}
  <2>1. Cardinality({}) = 0 /\ Cardinality({x}) = 1
    BY FS_EmptySet, FS_Singleton
  <2>2. QED  BY <2>1
<1>2. SUFFICES ASSUME S \ {x} = {}  PROVE FALSE
  OBVIOUS
<1>3. \A y \in S : y = x
  BY <1>2
<1>4. S = {x}
  BY <1>1, <1>3, Zenon
<1>5. QED  BY <1>1, <1>4

(* The record that is inserted. *)
NewRow(key, n) == [NoWake EXCEPT !.state = "pending", !.key = key, !.seq = n]

(* Inserted takes a free id, and nothing else of the table changes. *)
LEMMA InsertedRow ==
    ASSUME NEW w \in [WakeIds -> WakeType], NEW key, NEW n, Free(w) # {}
    PROVE  \E i \in Free(w) : Inserted(w, key, n) = [w EXCEPT ![i] = NewRow(key, n)]
<1>1. Free(w) \subseteq Nat
  BY WakesAssumption DEF WakesAssumption, Free
<1>2. \E i \in Free(w) : \A j \in Free(w) : i <= j
  BY <1>1, LeastOfNat
<1>3. PICK i : i = CHOOSE k \in Free(w) : \A j \in Free(w) : k <= j
  OBVIOUS
<1>4. i \in Free(w)
  BY <1>2, <1>3
<1>5. QED  BY <1>3, <1>4 DEF Inserted, NewRow

(* It is open, and nothing was persisted for it. *)
LEMMA NewRecord ==
    ASSUME NEW key \in Keys, NEW n \in 0..MaxEvents
    PROVE  LET w == NewRow(key, n) IN
           /\ w \in WakeType /\ w.state = "pending" /\ w.key = key /\ w.seq = n
           /\ w.payload = None
<1>1. PICK w \in WakeType : w = NoWake
  <2>1. <<>> \in Keys \union {<<>>}
    OBVIOUS
  <2>2. 0 \in 0..MaxEvents /\ 0 \in 0..(MaxEvents + 1)
    BY WakesAssumption DEF WakesAssumption
  <2>3. PICK k \in Keys \union {<<>>} : k = <<>>
    BY <2>1
  <2>4. [ state |-> "none", key |-> k, seq |-> 0, token |-> None,
          live |-> FALSE, payload |-> None ] \in WakeType
    BY <2>2 DEF WakeType, None
  <2>5. QED  BY <2>3, <2>4 DEF NoWake
<1>2. w.payload = None
  BY <1>1 DEF NoWake
<1>3. QED  BY <1>1, <1>2 DEF WakeType, NewRow

(* A row whose incident is not told, or whose events lie past those that    *)
(* are, can be inserted.                                                    *)
LEMMA InsertKeeps ==
    ASSUME TypeOK, NEW w, NEW n \in 0..MaxEvents, Table(w, n), Free(w) # {},
           NEW key \in Keys, NEW s \in 0..n,
           \A j \in WakeIds : IsTold(w[j]) /\ w[j].key = key => ~IsOpen(w[j]) /\ w[j].seq # s
    PROVE  /\ Table(Inserted(w, key, s), n)
           /\ \E i \in Free(w) : Free(Inserted(w, key, s)) = Free(w) \ {i}
<1>0. w \in [WakeIds -> WakeType] /\ s \in 0..MaxEvents
  <2>1. s \in 0..MaxEvents
    BY WakesAssumption DEF WakesAssumption
  <2>2. w \in [WakeIds -> WakeType]
    BY DEF Table
  <2>3. QED  BY <2>1, <2>2
<1>1. PICK i \in Free(w) :
         Inserted(w, key, s) = [w EXCEPT ![i] = NewRow(key, s)]
  BY <1>0, InsertedRow
<1>2. PICK r : r = NewRow(key, s)
  OBVIOUS
<1>3. PICK v : v = [w EXCEPT ![i] = r]
  OBVIOUS
<1>4. /\ r \in WakeType /\ r.state = "pending" /\ r.key = key /\ r.seq = s
      /\ r.payload = None
  BY <1>0, <1>2, NewRecord
<1>5. /\ i \in WakeIds /\ w[i].state \in {"none", "resolved"}
      /\ \A p \in Pumps : i # pump[p].at
      /\ \A m \in inbox \union listed : m.wake # i
  BY DEF Free
<1>6. v \in [WakeIds -> WakeType] /\ v[i] = r /\ \A j \in WakeIds \ {i} : v[j] = w[j]
  BY <1>0, <1>3, <1>4, <1>5
<1>7. Table(v, n)
  <2>1. \A j \in WakeIds : RowInv(v[j], n)
    <3>1. RowInv(r, n)
      BY <1>4 DEF RowInv
    <3>2. QED  BY <1>6, <3>1 DEF Table
  <2>2. ASSUME NEW j \in WakeIds, NEW k \in WakeIds, j # k  PROVE Apart(v[j], v[k])
    <3>1. CASE j = i
      BY <1>4, <1>6, <2>2, <3>1 DEF Apart
    <3>2. CASE k = i
      BY <1>4, <1>6, <2>2, <3>2 DEF Apart
    <3>3. CASE j # i /\ k # i
      BY <1>6, <2>2, <3>3 DEF Table
    <3>4. QED  BY <3>1, <3>2, <3>3
  <2>3. ASSUME NEW m \in inbox  PROVE MessageInv(v, m)
    <3>1. m.wake \in WakeIds \ {i}
      BY <1>5 DEF TypeOK, Message
    <3>2. QED  BY <1>6, <3>1 DEF Table, MessageInv
  <2>4. ASSUME NEW p \in Pumps  PROVE PumpInv(v, pump[p])
    <3>1. PumpInv(w, pump[p]) /\ pump[p].at # i
      BY <1>5 DEF Table
    <3>2. QED  BY <1>6, <3>1 DEF PumpInv
  <2>5. QED  BY <1>6, <2>1, <2>2, <2>3, <2>4 DEF Table
<1>8. Free(v) = Free(w) \ {i}
  BY <1>4, <1>5, <1>6 DEF Free
<1>9. QED  BY <1>1, <1>2, <1>3, <1>7, <1>8

(* record_wakes inserts past the watermark, and what was delivered lies     *)
(* behind it.                                                               *)
LEMMA RecordKeeps ==
    ASSUME TypeOK, NEW w, NEW rows, NEW n \in 0..MaxEvents, Table(w, n), Free(w) # {}
    PROVE  /\ Table(record_wakes(w, rows, n), n)
           /\ \E i : Free(w) \ {i} \subseteq Free(record_wakes(w, rows, n))
<1> DEFINE due == {q \in satisfied_predicates(rows) : n > woken /\ ~Unconsumed(w, Key(q))}
<1>1. CASE due = {}
  BY <1>1 DEF record_wakes
<1>2. CASE due # {}
  <2>1. PICK q : q \in due /\ record_wakes(w, rows, n) = Inserted(w, Key(q), n)
    <3>1. PICK q : q = CHOOSE d \in due : TRUE
      OBVIOUS
    <3>2. q \in due
      BY <1>2, <3>1
    <3>3. QED  BY <1>2, <3>1, <3>2 DEF record_wakes
  <2>2. q \in Cohort /\ n > woken /\ ~Unconsumed(w, Key(q))
    BY <2>1 DEF satisfied_predicates
  <2>3. Key(q) \in Keys /\ n \in 0..n
    BY <2>2, WakesAssumption DEF WakesAssumption, Keys
  <2>4. ASSUME NEW j \in WakeIds, IsTold(w[j]), w[j].key = Key(q)
        PROVE  ~IsOpen(w[j]) /\ w[j].seq # n
    <3>1. ~IsOpen(w[j])
      BY <2>2, <2>4 DEF Unconsumed, IsOpen
    <3>2. w[j].seq <= woken
      BY <2>4, <3>1 DEF Table, RowInv, IsOpen, IsTold
    <3>3. w[j].seq \in Nat /\ woken \in Nat
      BY WakesAssumption DEF WakesAssumption, Table, WakeType, TypeOK
    <3>4. QED  BY <2>2, <3>1, <3>2, <3>3
  <2>5. QED  BY <2>1, <2>3, <2>4, InsertKeeps
<1>3. QED  BY <1>1, <1>2

(* A liveness wake is inserted only if its incident was never told. *)
LEMMA ArmLostKeeps ==
    ASSUME TypeOK, NEW w, NEW n \in 0..MaxEvents, Table(w, n), Free(w) # {},
           NEW key \in Keys
    PROVE  Table(arm_lost(w, key), n)
<1>1. CASE Told(w, key)
  BY <1>1 DEF arm_lost
<1>2. CASE ~Told(w, key)
  <2>1. \A j \in WakeIds : ~(IsTold(w[j]) /\ w[j].key = key)
    BY <1>2 DEF Told, IsTold
  <2>2. 0 \in 0..n
    BY WakesAssumption DEF WakesAssumption
  <2>3. QED  BY <1>2, <2>1, <2>2, InsertKeeps DEF arm_lost
<1>3. QED  BY <1>1, <1>2

(* More events leave the table as it is. *)
LEMMA MoreEvents ==
    ASSUME TypeOK, NEW w, NEW n \in 0..MaxEvents, NEW k \in 0..MaxEvents, n <= k, Table(w, n)
    PROVE  Table(w, k)
<1>1. \A i \in WakeIds : w[i].seq \in Nat /\ n \in Nat /\ k \in Nat
  BY WakesAssumption DEF WakesAssumption, Table, WakeType
<1>2. QED  BY <1>1 DEF Table, RowInv

-----------------------------------------------------------------------------
(* The steps of the children, which may arm. *)

(* A step that leaves the manager and the pumps alone. *)
LEMMA ArmStep ==
    ASSUME IInv, ParentKept, PumpsKept, UNCHANGED woken,
           child' \in [Children -> ChildType], seq' \in 0..MaxEvents, seq <= seq',
           Table(wake', seq')
    PROVE  IInv'
<1>1. Table(wake, seq)'
  BY DEF Table, RowInv, Apart, MessageInv, PumpInv, IsOpen, IsTold, PumpsKept
<1>2. TypeOK'
  <2>1. wake' \in [WakeIds -> WakeType]
    BY DEF Table
  <2>2. QED  BY <2>1 DEF IInv, TypeOK, ParentKept, PumpsKept
<1>3. woken' <= seq'
  <2>1. woken \in Nat /\ seq \in Nat /\ seq' \in Nat
    BY WakesAssumption DEF WakesAssumption, IInv, TypeOK
  <2>2. QED  BY <2>1 DEF IInv
<1>4. ParentInv' /\ SendersAgree' /\ FrozenPayload' /\ WatermarkTold'
  BY DEF IInv, ParentInv, SendersAgree, FrozenPayload, WatermarkTold, ParentKept, PumpsKept
<1>5. QED  BY <1>1, <1>2, <1>3, <1>4 DEF IInv

(* A child's step that arms nothing. *)
LEMMA ChildKeeps ==
    ASSUME IInv, NEW c \in Children, Spawn(c) \/ Expire(c) \/ Reopen(c)
    PROVE  IInv'
<1>1. child \in [Children -> ChildType] /\ seq \in 0..MaxEvents
  BY DEF IInv, TypeOK
<1>2. child' \in [Children -> ChildType]
  <2>1. CASE Spawn(c) \/ Expire(c)
    BY <1>1, <2>1 DEF Spawn, Expire, ChildType
  <2>2. CASE Reopen(c)
    <3>1. child[c].epoch + 1 \in 1..MaxEpoch
      BY <1>1, <2>2, WakesAssumption DEF WakesAssumption, Reopen, ChildType
    <3>2. QED  BY <1>1, <2>2, <3>1 DEF Reopen, ChildType
  <2>3. QED  BY <2>1, <2>2
<1>3. seq' = seq /\ wake' = wake /\ seq <= seq'
  BY <1>1, WakesAssumption DEF WakesAssumption, Spawn, Expire, Reopen
<1>4. QED  BY <1>1, <1>2, <1>3, ArmStep DEF IInv, Spawn, Expire, Reopen

(* The child's finish, its event, and the wakes it satisfies. *)
LEMMA FinishKeeps ==
    ASSUME IInv, NEW c \in Children, NEW state \in {"blocked", "finished", "lost"},
           FinishWithWake(c, state)
    PROVE  IInv'
<1>1. /\ child \in [Children -> ChildType] /\ seq \in 0..MaxEvents
      /\ seq + 1 \in 0..MaxEvents /\ seq <= seq + 1 /\ seq' = seq + 1
  BY WakesAssumption DEF WakesAssumption, IInv, TypeOK, FinishWithWake
<1>2. child' \in [Children -> ChildType]
  BY <1>1 DEF FinishWithWake, ChildType
<1>3. Cardinality(Free(wake)) >= 2 /\ Free(wake) # {}
  BY FS_EmptySet DEF FinishWithWake, Room
<1>4. PICK w : w = record_wakes(wake, child', seq + 1)
  OBVIOUS
<1>5. Table(wake, seq + 1)
  BY <1>1, MoreEvents DEF IInv
<1>6. Table(w, seq + 1) /\ \E i : Free(wake) \ {i} \subseteq Free(w)
  BY <1>1, <1>3, <1>4, <1>5, RecordKeeps DEF IInv
<1>7. Free(w) # {}
  BY <1>3, <1>6, OneIsLeft
<1>8. LostKey(c, child[c].epoch) \in Keys
  <2>1. child[c].epoch \in 1..MaxEpoch
    BY <1>1 DEF ChildType
  <2>2. QED  BY <2>1 DEF Keys
<1>9. Table(arm_lost(w, LostKey(c, child[c].epoch)), seq + 1)
  BY <1>1, <1>6, <1>7, <1>8, ArmLostKeeps DEF IInv
<1>10. wake' = IF state = "lost" THEN arm_lost(w, LostKey(c, child[c].epoch)) ELSE w
  BY <1>4 DEF FinishWithWake
<1>11. Table(wake', seq')
  BY <1>1, <1>6, <1>9, <1>10
<1>12. QED  BY <1>1, <1>2, <1>11, ArmStep DEF FinishWithWake

(* The reconcile stage arms what a finish missed. *)
LEMMA RearmKeeps == IInv /\ Rearm => IInv'
<1>1. SUFFICES ASSUME IInv, Rearm  PROVE IInv'
  OBVIOUS
<1>2. seq \in 0..MaxEvents /\ seq <= seq /\ Free(wake) # {}
  BY <1>1, FS_EmptySet, WakesAssumption DEF WakesAssumption, IInv, TypeOK, Rearm, Room
<1>3. Table(wake', seq')
  BY <1>1, <1>2, RecordKeeps DEF IInv, Rearm
<1>4. QED  BY <1>1, <1>2, <1>3, ArmStep DEF IInv, TypeOK, Rearm

-----------------------------------------------------------------------------
(* The manager's own task. *)

(* A step of it that queues nothing. *)
LEMMA ParentStep ==
    ASSUME IInv, UNCHANGED <<child, seq, woken, wake>>, PumpsKept,
           parent' \in ParentType, ParentInv', retired' \subseteq 1..MaxHolder,
           listed' \subseteq inbox
    PROVE  IInv'
<1>1. TypeOK' /\ woken' <= seq' /\ SendersAgree' /\ FrozenPayload' /\ WatermarkTold'
  BY DEF IInv, TypeOK, SendersAgree, FrozenPayload, WatermarkTold, PumpsKept
<1>2. Table(wake, seq)'
  BY DEF IInv, Table, RowInv, Apart, MessageInv, PumpInv, IsOpen, IsTold, PumpsKept
<1>3. QED  BY <1>1, <1>2 DEF IInv

(* The source is retired, its commands are listed, or its task ends. *)
LEMMA ManagerKeeps == IInv /\ (Retire \/ List \/ End) => IInv'
<1>1. SUFFICES ASSUME IInv, Retire \/ List \/ End  PROVE IInv'
  OBVIOUS
<1>2. parent \in ParentType /\ parent.holder \in 1..MaxHolder /\ retired \subseteq 1..MaxHolder
  BY <1>1 DEF IInv, TypeOK, ParentType
<1>3. parent' \in ParentType /\ ParentInv'
  BY <1>1, <1>2 DEF Retire, List, End, ParentType, ParentInv, IInv
<1>4. retired' \subseteq 1..MaxHolder /\ listed' \subseteq inbox
  BY <1>1, <1>2 DEF Retire, List, End, IInv, TypeOK
<1>5. QED  BY <1>1, <1>3, <1>4, ParentStep DEF Retire, List, End

(* The successor gets the listed commands, under their keys and as they are. *)
LEMMA HandOverKeeps == IInv /\ HandOver => IInv'
<1>1. SUFFICES ASSUME IInv, HandOver  PROVE IInv'
  OBVIOUS
<1>2. /\ parent \in ParentType /\ parent.holder + 1 \in 1..MaxHolder
      /\ inbox \subseteq Message /\ listed \subseteq inbox
  BY <1>1, WakesAssumption
  DEF WakesAssumption, IInv, TypeOK, ParentType, ParentInv, HandOver
<1>3. /\ parent' = [state |-> "live", holder |-> parent.holder + 1]
      /\ parent' \in ParentType /\ parent'.state = "live"
  BY <1>1, <1>2 DEF HandOver, ParentType
<1>4. ASSUME NEW m \in inbox'
      PROVE  m \in Message /\ \E n \in inbox : m.wake = n.wake /\ m.body = n.body
  <2>1. CASE m \in inbox
    BY <1>2, <2>1
  <2>2. CASE \E n \in listed : m = [n EXCEPT !.to = parent.holder + 1]
    BY <1>2, <2>2 DEF Message
  <2>3. QED  BY <1>1, <1>4, <2>1, <2>2 DEF HandOver
<1>5. inbox \subseteq inbox'
  BY <1>1 DEF HandOver
<1>6. TypeOK'
  BY <1>1, <1>2, <1>3, <1>4 DEF IInv, TypeOK, HandOver
<1>7. FrozenPayload' /\ WatermarkTold' /\ SendersAgree' /\ woken' <= seq' /\ ParentInv'
  BY <1>1, <1>3, <1>4, <1>5
  DEF IInv, FrozenPayload, WatermarkTold, SendersAgree, ParentInv, HandOver
<1>8. Table(wake, seq)'
  <2>1. \A m \in inbox' : MessageInv(wake, m)'
    BY <1>1, <1>4 DEF IInv, Table, MessageInv, IsOpen, HandOver
  <2>2. ASSUME NEW p \in Pumps  PROVE PumpInv(wake, pump[p])'
    <3>1. PumpInv(wake, pump[p]) /\ wake' = wake /\ pump' = pump
      BY <1>1 DEF IInv, Table, HandOver
    <3>2. QED  BY <1>4, <1>5, <3>1 DEF PumpInv, IsOpen
  <2>3. QED
    BY <1>1, <2>1, <2>2 DEF IInv, Table, RowInv, Apart, IsOpen, IsTold, HandOver
<1>9. QED  BY <1>6, <1>7, <1>8 DEF IInv

-----------------------------------------------------------------------------
(* Delivery: every row is kept, closed, or given the body it never had. *)

(* What a step of a pump may do to a row v, leaving w. *)
RowMove(v, w) ==
    /\ w.seq <= v.seq
    /\ IsTold(w) => IsTold(v) /\ w.key = v.key /\ w.seq = v.seq
    /\ IsOpen(w) => IsOpen(v) /\ (w.payload = v.payload \/ v.payload = None)

(* The pump with the record b queues what it sends, if anything. *)
Queues(b) ==
    /\ inbox \subseteq inbox'
    /\ \A m \in inbox' \ inbox : m \in Message /\ b.pc = "send" /\ m.wake = b.at /\ m.body = b.body

(* A row that is not touched moves. *)
LEMMA RowStays ==
    ASSUME NEW v \in WakeType
    PROVE  RowMove(v, v)
<1>1. v.seq \in Nat
  BY WakesAssumption DEF WakesAssumption, WakeType
<1>2. QED  BY <1>1 DEF RowMove

(* A pump that is not at work keeps what it holds, while another moves the  *)
(* rows and queues a message.                                               *)
LEMMA PumpKeeps ==
    ASSUME IInv, wake' \in [WakeIds -> WakeType],
           \A i \in WakeIds : RowMove(wake[i], wake'[i]),
           NEW p \in Pumps, Queues(pump[p]), NEW q \in Pumps, pump'[q] = pump[q]
    PROVE  PumpInv(wake, pump[q])'
<1> DEFINE r == pump[q]
<1>1. /\ PumpInv(wake, r) /\ r \in PumpType
      /\ wake \in [WakeIds -> WakeType]
  BY DEF IInv, TypeOK, Table
<1>2. CASE r.pc \in {"idle", "next", "resolve"}
  BY <1>1, <1>2 DEF PumpInv
<1>3. CASE r.pc = "persist"
  <2>1. /\ r.at \in WakeIds /\ r.body >= 1 + wake[r.at].seq /\ r.session # 0
        /\ wake'[r.at].seq <= wake[r.at].seq
    BY <1>1, <1>3 DEF PumpInv, RowMove
  <2>2. wake[r.at].seq \in Nat /\ wake'[r.at].seq \in Nat /\ r.body \in Nat
    BY <1>1, <2>1, WakesAssumption DEF WakesAssumption, WakeType, PumpType
  <2>3. r.body >= 1 + wake'[r.at].seq
    BY <2>1, <2>2
  <2>4. QED  BY <1>3, <2>1, <2>3 DEF PumpInv
<1>4. CASE r.pc = "send"
  <2>1. /\ r.at \in WakeIds /\ r.body # None /\ r.session # 0
        /\ IsOpen(wake[r.at]) => wake[r.at].payload = r.body
        /\ \A m \in inbox : m.wake = r.at => m.body = r.body
    BY <1>1, <1>4 DEF PumpInv
  <2>2. RowMove(wake[r.at], wake'[r.at])
    BY <2>1
  <2>3. IsOpen(wake'[r.at]) => wake'[r.at].payload = r.body
    BY <2>1, <2>2 DEF RowMove
  <2>4. ASSUME NEW m \in inbox', m.wake = r.at  PROVE m.body = r.body
    <3>1. CASE m \in inbox
      BY <2>1, <2>4, <3>1
    <3>2. CASE m \notin inbox
      <4>1. pump[p].pc = "send" /\ m.wake = pump[p].at /\ m.body = pump[p].body
        BY <3>2 DEF Queues
      <4>2. QED  BY <1>4, <2>4, <4>1 DEF IInv, SendersAgree
    <3>3. QED  BY <3>1, <3>2
  <2>5. QED  BY <1>4, <2>1, <2>3, <2>4 DEF PumpInv, IsOpen
<1>5. CASE r.pc = "settle"
  BY <1>1, <1>5 DEF PumpInv, Queues
<1>6. QED  BY <1>1, <1>2, <1>3, <1>4, <1>5 DEF PumpType

(* A step of the pump p, which leaves it with the record r. *)
LEMMA DeliveryStep ==
    ASSUME IInv, RowsKept, NEW p \in Pumps, NEW r \in PumpType,
           pump' = [pump EXCEPT ![p] = r],
           wake' \in [WakeIds -> WakeType],
           \A i \in WakeIds : RowMove(wake[i], wake'[i]) /\ RowInv(wake[i], seq)',
           Queues(pump[p]),
           PumpInv(wake, r)',
           r.pc = "send" =>
               \A q \in Pumps \ {p} : pump[q].pc = "send" /\ pump[q].at = r.at
                                        => pump[q].body = r.body,
           woken' \in 0..MaxEvents, woken' <= seq, WatermarkTold',
           faults' \in 0..MaxFaults
    PROVE  IInv'
<1>1. /\ wake \in [WakeIds -> WakeType] /\ pump \in [Pumps -> PumpType]
      /\ inbox \subseteq Message /\ listed \subseteq inbox
  BY DEF IInv, TypeOK
<1>2. pump'[p] = r /\ \A q \in Pumps \ {p} : pump'[q] = pump[q]
  BY <1>1
<1>3. TypeOK'
  <2>1. inbox' \subseteq Message /\ listed' \subseteq inbox'
    BY <1>1 DEF Queues, RowsKept, ParentKept
  <2>2. pump' \in [Pumps -> PumpType]
    BY <1>1
  <2>3. QED  BY <2>1, <2>2 DEF IInv, TypeOK, RowsKept, ParentKept
<1>4. woken' <= seq' /\ ParentInv'
  BY DEF IInv, ParentInv, RowsKept, ParentKept
<1>5. SendersAgree'
  BY <1>1, <1>2 DEF IInv, SendersAgree
<1>6. FrozenPayload'
  <2>1. ASSUME NEW m \in inbox, NEW n \in inbox', m.wake = n.wake  PROVE m.body = n.body
    <3>1. CASE n \in inbox
      BY <2>1, <3>1 DEF IInv, FrozenPayload
    <3>2. CASE n \notin inbox
      <4>1. pump[p].pc = "send" /\ n.wake = pump[p].at /\ n.body = pump[p].body
        BY <3>2 DEF Queues
      <4>2. PumpInv(wake, pump[p])
        BY DEF IInv, Table
      <4>3. QED  BY <2>1, <4>1, <4>2 DEF PumpInv
    <3>3. QED  BY <3>1, <3>2
  <2>2. \A m, n \in inbox' : m \notin inbox /\ n \notin inbox => m.body = n.body
    BY DEF Queues
  <2>3. QED  BY <2>1, <2>2 DEF FrozenPayload
<1>7. Table(wake, seq)'
  <2>1. \A i \in WakeIds : RowInv(wake[i], seq)'
    OBVIOUS
  <2>2. ASSUME NEW i \in WakeIds, NEW j \in WakeIds, i # j  PROVE Apart(wake'[i], wake'[j])
    <3>1. Apart(wake[i], wake[j])
      BY <2>2 DEF IInv, Table
    <3>2. RowMove(wake[i], wake'[i]) /\ RowMove(wake[j], wake'[j])
      OBVIOUS
    <3>3. QED  BY <3>1, <3>2 DEF Apart, RowMove
  <2>3. ASSUME NEW m \in inbox'  PROVE MessageInv(wake', m)
    <3>1. CASE m \in inbox
      <4>1. MessageInv(wake, m) /\ m.wake \in WakeIds /\ m.body # None
        BY <1>1, <3>1 DEF IInv, Table, Message, None
      <4>2. RowMove(wake[m.wake], wake'[m.wake])
        BY <4>1
      <4>3. QED  BY <4>1, <4>2 DEF MessageInv, RowMove
    <3>2. CASE m \notin inbox
      <4>1. pump[p].pc = "send" /\ m.wake = pump[p].at /\ m.body = pump[p].body
        BY <3>2 DEF Queues
      <4>2. PumpInv(wake, pump[p])
        BY DEF IInv, Table
      <4>3. /\ m.wake \in WakeIds /\ m.body # None
            /\ IsOpen(wake[m.wake]) => wake[m.wake].payload = m.body
        BY <4>1, <4>2 DEF PumpInv
      <4>4. RowMove(wake[m.wake], wake'[m.wake])
        BY <4>3
      <4>5. QED  BY <4>3, <4>4 DEF MessageInv, RowMove
    <3>3. QED  BY <3>1, <3>2
  <2>4. ASSUME NEW q \in Pumps  PROVE PumpInv(wake, pump[q])'
    <3>1. CASE q = p
      BY <1>2, <3>1
    <3>2. CASE q # p
      BY <1>2, <3>2, PumpKeeps
    <3>3. QED  BY <3>1, <3>2
  <2>5. QED
    BY <2>1, <2>2, <2>3, <2>4 DEF Table, Apart, MessageInv, IsOpen, IsTold
<1>8. QED  BY <1>3, <1>4, <1>5, <1>6, <1>7 DEF IInv

(* A pump that goes on to its next claim, or ends, is well formed. *)
LEMMA DoneRecord ==
    ASSUME TypeOK, NEW p \in Pumps
    PROVE  Done(p) \in PumpType /\ Done(p).pc \in {"idle", "next"}
<1>1. PICK d \in PumpType : d = Idle
  <2>1. 0 \in 0..MaxHolder /\ 0 \in 0..(MaxEvents + 1)
    BY WakesAssumption DEF WakesAssumption
  <2>2. QED  BY <2>1 DEF Idle, PumpType, None
<1>2. pump[p].todo \in SUBSET WakeIds
  BY DEF TypeOK, PumpType
<1>3. PICK pc \in {"idle", "next"} : pc = IF pump[p].todo = {} THEN "idle" ELSE "next"
  OBVIOUS
<1>4. Done(p) = [d EXCEPT !.pc = pc, !.todo = pump[p].todo]
  BY <1>1, <1>3 DEF Done
<1>5. QED  BY <1>2, <1>3, <1>4 DEF PumpType

(* One row at most is changed. *)
LEMMA OneRow ==
    ASSUME IInv, NEW i \in WakeIds, NEW v \in WakeType, wake' = [wake EXCEPT ![i] = v],
           RowMove(wake[i], v), woken <= woken', UNCHANGED seq, woken' \in 0..MaxEvents,
           v.seq <= seq, v.payload # None => IsOpen(v) /\ v.payload >= 1 + v.seq,
           v.state = "delivered" => v.seq <= woken'
    PROVE  /\ wake' \in [WakeIds -> WakeType]
           /\ \A j \in WakeIds : RowMove(wake[j], wake'[j]) /\ RowInv(wake[j], seq)'
<1>1. /\ wake \in [WakeIds -> WakeType] /\ woken \in Nat /\ woken' \in Nat
      /\ \A j \in WakeIds : wake[j].seq \in Nat
  BY WakesAssumption DEF WakesAssumption, IInv, TypeOK, WakeType
<1>2. /\ wake' \in [WakeIds -> WakeType] /\ wake'[i] = v
      /\ \A j \in WakeIds \ {i} : wake'[j] = wake[j]
  BY <1>1
<1>3. ASSUME NEW j \in WakeIds  PROVE RowMove(wake[j], wake'[j]) /\ RowInv(wake[j], seq)'
  <2>1. CASE j = i
    BY <1>2, <2>1 DEF RowInv, IsOpen
  <2>2. CASE j # i
    <3>1. RowInv(wake[j], seq) /\ RowMove(wake[j], wake[j]) /\ wake'[j] = wake[j]
      BY <1>1, <1>2, <2>2, RowStays DEF IInv, Table
    <3>2. QED  BY <1>1, <3>1 DEF RowInv, IsOpen
  <2>3. QED  BY <2>1, <2>2
<1>4. QED  BY <1>2, <1>3

(* No row is changed. *)
LEMMA NoRow ==
    ASSUME IInv, UNCHANGED <<wake, seq, woken>>
    PROVE  /\ wake' \in [WakeIds -> WakeType]
           /\ \A j \in WakeIds : RowMove(wake[j], wake'[j]) /\ RowInv(wake[j], seq)'
<1>1. wake \in [WakeIds -> WakeType] /\ \A j \in WakeIds : RowInv(wake[j], seq)
  BY DEF IInv, TypeOK, Table
<1>2. \A j \in WakeIds : RowMove(wake[j], wake[j])
  BY <1>1, RowStays
<1>3. QED  BY <1>1, <1>2 DEF RowInv, IsOpen

(* What every step of a pump that queues and settles nothing leaves alone. *)
LEMMA QuietStep ==
    ASSUME IInv, UNCHANGED <<woken, inbox, faults>>, NEW p \in Pumps
    PROVE  /\ Queues(pump[p]) /\ WatermarkTold' /\ woken' <= seq /\ woken <= woken'
           /\ woken' \in 0..MaxEvents /\ faults' \in 0..MaxFaults
<1>1. woken \in Nat
  BY WakesAssumption DEF WakesAssumption, IInv, TypeOK
<1>2. QED  BY <1>1 DEF Queues, IInv, TypeOK, WatermarkTold

(* The rows that are claimed stay as open as they were, with their bodies. *)
LEMMA ClaimKeeps == ASSUME IInv, NEW p \in Pumps, Claim(p)  PROVE IInv'
<1>1. PICK rows \in SUBSET WakeIds :
         rows = Claimable
  BY DEF Claimable
<1>2. /\ UNCHANGED <<woken, inbox, faults>> /\ RowsKept
      /\ wake' = [i \in WakeIds |->
                    IF i \in rows
                    THEN [wake[i] EXCEPT !.state = "claimed", !.token = p, !.live = TRUE]
                    ELSE wake[i]]
      /\ pump' = [pump EXCEPT ![p] = [Idle EXCEPT !.pc = "next", !.todo = rows]]
  BY <1>1 DEF Claim, Claimed
<1>3. PICK r \in PumpType : r = [Idle EXCEPT !.pc = "next", !.todo = rows] /\ r.pc = "next"
  <2>1. 0 \in 0..MaxHolder /\ 0 \in 0..(MaxEvents + 1)
    BY WakesAssumption DEF WakesAssumption
  <2>2. PICK d \in PumpType : d = Idle
    BY <2>1 DEF Idle, PumpType, None
  <2>3. PICK r : r = [d EXCEPT !.pc = "next", !.todo = rows]
    OBVIOUS
  <2>4. r \in PumpType /\ r.pc = "next"
    BY <2>2, <2>3 DEF PumpType
  <2>5. QED  BY <2>2, <2>3, <2>4
<1>4. wake \in [WakeIds -> WakeType]
  BY DEF IInv, TypeOK
<1>5. ASSUME NEW i \in WakeIds
      PROVE  wake'[i] \in WakeType /\ RowMove(wake[i], wake'[i]) /\ RowInv(wake[i], seq)'
  <2>1. RowInv(wake[i], seq) /\ wake[i] \in WakeType /\ wake[i].seq \in Nat
    BY <1>4, WakesAssumption DEF WakesAssumption, IInv, Table, WakeType
  <2>2. CASE i \in rows
    <3>1. wake'[i] = [wake[i] EXCEPT !.state = "claimed", !.token = p, !.live = TRUE]
      BY <1>2, <2>2
    <3>2. /\ wake'[i] \in WakeType /\ wake'[i].state = "claimed"
          /\ wake'[i].key = wake[i].key /\ wake'[i].seq = wake[i].seq
          /\ wake'[i].payload = wake[i].payload
      BY <2>1, <3>1 DEF WakeType
    <3>3. IsOpen(wake[i])
      BY <1>1, <2>2 DEF Claimable, IsOpen
    <3>4. RowMove(wake[i], wake'[i])
      BY <2>1, <3>2, <3>3 DEF RowMove, IsOpen, IsTold
    <3>5. RowInv(wake[i], seq)'
      BY <1>2, <2>1, <3>2, <3>3 DEF RowInv, IsOpen, RowsKept
    <3>6. QED  BY <3>2, <3>4, <3>5
  <2>3. CASE i \notin rows
    <3>1. wake'[i] = wake[i]
      BY <1>2, <2>3
    <3>2. RowMove(wake[i], wake[i])
      BY <2>1, RowStays
    <3>3. QED  BY <1>2, <2>1, <3>1, <3>2 DEF RowInv, IsOpen, RowsKept
  <2>4. QED  BY <2>2, <2>3
<1>6. wake' \in [WakeIds -> WakeType]
  BY <1>2, <1>5
<1>7. PumpInv(wake, r)' /\ r.pc # "send"
  BY <1>3 DEF PumpInv
<1>8. pump' = [pump EXCEPT ![p] = r]
  BY <1>2, <1>3
<1>9. QED  BY <1>2, <1>5, <1>6, <1>7, <1>8, QuietStep, DeliveryStep

(* The body is read after the row was inserted. *)
LEMMA CheckKeeps == ASSUME IInv, NEW p \in Pumps, Check(p)  PROVE IInv'
<1>1. PICK i \in pump[p].todo :
         pump' = [pump EXCEPT ![p] =
           LET at == [pump[p] EXCEPT !.todo = @ \ {i}, !.at = i] IN
           IF parent.state = "ended" \/ parent.holder \in retired
           THEN [at EXCEPT !.pc = "resolve"]
           ELSE [at EXCEPT !.pc = "persist", !.session = parent.holder, !.body = 1 + seq]]
  BY DEF Check
<1>2. UNCHANGED <<woken, inbox, faults, wake>> /\ RowsKept
  BY DEF Check
<1>3. /\ pump[p] \in PumpType /\ i \in WakeIds /\ parent.holder \in 1..MaxHolder
      /\ wake \in [WakeIds -> WakeType] /\ seq \in 0..MaxEvents /\ RowInv(wake[i], seq)
  BY DEF IInv, TypeOK, Table, PumpType, ParentType
<1>4. PICK at \in PumpType : at = [pump[p] EXCEPT !.todo = @ \ {i}, !.at = i]
  BY <1>3 DEF PumpType
<1>5. at.at = i
  BY <1>3, <1>4 DEF PumpType
<1>6. 1 + seq \in 0..(MaxEvents + 1) /\ parent.holder \in 0..MaxHolder
  BY <1>3, WakesAssumption DEF WakesAssumption
<1>7. PICK r : r = IF parent.state = "ended" \/ parent.holder \in retired
           THEN [at EXCEPT !.pc = "resolve"]
           ELSE [at EXCEPT !.pc = "persist", !.session = parent.holder, !.body = 1 + seq]
  OBVIOUS
<1>8. /\ r \in PumpType /\ r.at = i /\ r.pc \in {"resolve", "persist"}
      /\ r.pc = "persist" => r.session = parent.holder /\ r.body = 1 + seq
  BY <1>4, <1>5, <1>6, <1>7 DEF PumpType
<1>9. PumpInv(wake, r)' /\ r.pc # "send"
  <2>1. wake[i].seq \in Nat /\ seq \in Nat /\ wake[i].seq <= seq /\ parent.holder # 0
    BY <1>3, WakesAssumption DEF WakesAssumption, WakeType, RowInv
  <2>2. 1 + seq >= 1 + wake[i].seq
    BY <2>1
  <2>3. QED  BY <1>2, <1>3, <1>8, <2>1, <2>2 DEF PumpInv
<1>10. pump' = [pump EXCEPT ![p] = r]
  BY <1>1, <1>4, <1>7
<1>11. UNCHANGED seq
  BY <1>2 DEF RowsKept
<1>12. QED
  BY <1>2, <1>8, <1>9, <1>10, <1>11, NoRow, QuietStep, DeliveryStep

(* The wake is suppressed; the row keeps nothing that could be sent. *)
LEMMA ResolveKeeps == ASSUME IInv, NEW p \in Pumps, Resolve(p)  PROVE IInv'
<1>1. PICK i, d : i = pump[p].at /\ d = Done(p)
  OBVIOUS
<1>2. i \in WakeIds /\ wake \in [WakeIds -> WakeType]
  BY <1>1 DEF Resolve, IInv, TypeOK, Table, PumpInv
<1>3. /\ UNCHANGED <<woken, inbox, faults, seq>> /\ RowsKept
      /\ pump' = [pump EXCEPT ![p] = d]
      /\ wake' = IF Owns(p) THEN [wake EXCEPT ![i] = [NoWake EXCEPT !.state = "resolved"]]
                            ELSE wake
  BY <1>1 DEF Resolve, RowsKept
<1>4. d \in PumpType /\ d.pc \in {"idle", "next"}
  BY <1>1, DoneRecord DEF IInv
<1>5. PumpInv(wake, d)' /\ d.pc # "send"
  BY <1>4 DEF PumpInv
<1>6. PICK v \in WakeType : /\ v = [NoWake EXCEPT !.state = "resolved"]
                            /\ v.state = "resolved" /\ v.seq = 0 /\ v.payload = None
  <2>1. PICK k \in Keys \union {<<>>} : k = <<>>
    OBVIOUS
  <2>2. 0 \in 0..MaxEvents /\ 0 \in 0..(MaxEvents + 1)
    BY WakesAssumption DEF WakesAssumption
  <2>3. PICK w : w = [ state |-> "none", key |-> k, seq |-> 0, token |-> None,
                       live |-> FALSE, payload |-> None ]
    OBVIOUS
  <2>4. w \in WakeType /\ w.seq = 0 /\ w.payload = None
    BY <2>2, <2>3 DEF WakeType, None
  <2>5. NoWake = w
    BY <2>1, <2>3 DEF NoWake
  <2>6. PICK v : v = [w EXCEPT !.state = "resolved"]
    OBVIOUS
  <2>7. v \in WakeType /\ v.state = "resolved" /\ v.seq = 0 /\ v.payload = None
    BY <2>4, <2>6 DEF WakeType
  <2>8. QED  BY <2>5, <2>6, <2>7
<1>7. /\ wake' \in [WakeIds -> WakeType]
      /\ \A j \in WakeIds : RowMove(wake[j], wake'[j]) /\ RowInv(wake[j], seq)'
  <2>1. CASE Owns(p)
    <3>1. wake' = [wake EXCEPT ![i] = v]
      BY <1>3, <1>6, <2>1
    <3>2. wake[i].seq \in Nat /\ seq \in Nat
      BY <1>2, WakesAssumption DEF WakesAssumption, WakeType, IInv, TypeOK
    <3>3. RowMove(wake[i], v) /\ v.seq <= seq
      BY <1>6, <3>2 DEF RowMove, IsOpen, IsTold
    <3>4. QED  BY <1>2, <1>3, <1>6, <3>1, <3>3, QuietStep, OneRow
  <2>2. CASE ~Owns(p)
    BY <1>3, <2>2, NoRow
  <2>3. QED  BY <2>1, <2>2
<1>8. QED  BY <1>3, <1>4, <1>5, <1>7, QuietStep, DeliveryStep

(* A row has its body once, before anybody sends: of a row without one there *)
(* is no message yet and no pump about to send.                             *)
LEMMA PersistKeeps == ASSUME IInv, NEW p \in Pumps, Persist(p)  PROVE IInv'
<1>1. PICK i, b : /\ i = pump[p].at
                  /\ b = IF pump[p].at # None /\ wake[pump[p].at].payload # None
                         THEN wake[pump[p].at].payload ELSE pump[p].body
  OBVIOUS
<1>2. /\ i \in WakeIds /\ i # None /\ wake \in [WakeIds -> WakeType]
      /\ wake[i] \in WakeType /\ wake[i].seq \in Nat
      /\ pump[p] \in PumpType /\ pump[p].pc = "persist"
      /\ pump[p].body >= 1 + wake[i].seq /\ pump[p].session # 0
      /\ RowInv(wake[i], seq)
  BY <1>1, WakesAssumption
  DEF WakesAssumption, WakeType, Persist, Persisted, IInv, TypeOK, Table, PumpInv, None
<1>3. UNCHANGED <<woken, inbox, faults, seq>> /\ RowsKept
  BY DEF Persist, Persisted, RowsKept
<1>4. b \in 0..(MaxEvents + 1) /\ b >= 1 + wake[i].seq
      /\ (wake[i].payload # None => b = wake[i].payload)
  <2>1. wake[i].payload \in 0..(MaxEvents + 1) /\ pump[p].body \in 0..(MaxEvents + 1)
    BY <1>2 DEF WakeType, PumpType
  <2>2. QED  BY <1>1, <1>2, <2>1 DEF RowInv
<1>5. CASE Owns(p)
  <2>1. /\ wake' = [wake EXCEPT ![i].payload = b]
        /\ pump' = [pump EXCEPT ![p].pc = "send", ![p].body = b]
    BY <1>1, <1>5 DEF Persist, Persisted
  <2>2. wake[i].state = "claimed"
    BY <1>1, <1>5 DEF Owns
  <2>3. PICK v : v = [wake[i] EXCEPT !.payload = b]
    OBVIOUS
  <2>4. /\ v \in WakeType /\ v.payload = b /\ v.state = "claimed"
        /\ v.key = wake[i].key /\ v.seq = wake[i].seq
    BY <1>2, <1>4, <2>2, <2>3 DEF WakeType
  <2>5. PICK r : r = [pump[p] EXCEPT !.pc = "send", !.body = b]
    OBVIOUS
  <2>6. r \in PumpType /\ r.pc = "send" /\ r.body = b /\ r.at = i /\ r.session # 0
    BY <1>1, <1>2, <1>4, <2>5 DEF PumpType
  <2>7. wake' = [wake EXCEPT ![i] = v] /\ wake'[i] = v
    BY <1>2, <2>1, <2>3
  <2>8. pump' = [pump EXCEPT ![p] = r]
    <3>1. pump \in [Pumps -> PumpType]
      BY DEF IInv, TypeOK
    <3>2. QED  BY <2>1, <2>5, <3>1
  <2>9. b # None /\ b \in Nat /\ seq \in Nat /\ wake[i].seq <= seq
    BY <1>2, <1>4, WakesAssumption DEF WakesAssumption, None, RowInv, IInv, TypeOK
  <2>10. RowMove(wake[i], v)
    BY <1>2, <1>4, <2>2, <2>4 DEF RowMove, IsOpen, IsTold
  <2>11. /\ wake' \in [WakeIds -> WakeType]
         /\ \A j \in WakeIds : RowMove(wake[j], wake'[j]) /\ RowInv(wake[j], seq)'
    <3>1. v.seq <= seq /\ (v.payload # None => IsOpen(v) /\ v.payload >= 1 + v.seq)
      BY <1>4, <2>4, <2>9 DEF IsOpen
    <3>2. v.state # "delivered"
      BY <2>4
    <3>3. QED  BY <1>2, <1>3, <2>4, <2>7, <2>10, <3>1, <3>2, QuietStep, OneRow
  <2>12. ASSUME NEW m \in inbox, m.wake = i  PROVE m.body = b
    <3>1. wake[i].payload = m.body /\ m.body # None
      BY <2>2, <2>12 DEF IInv, TypeOK, Table, MessageInv, IsOpen, Message, None
    <3>2. QED  BY <1>4, <3>1
  <2>13. ASSUME NEW q \in Pumps, pump[q].pc = "send", pump[q].at = i
         PROVE  pump[q].body = b
    <3>1. wake[i].payload = pump[q].body /\ pump[q].body # None
      BY <2>2, <2>13 DEF IInv, Table, PumpInv, IsOpen
    <3>2. QED  BY <1>4, <3>1
  <2>14. PumpInv(wake, r)'
    BY <1>2, <1>3, <2>4, <2>6, <2>7, <2>9, <2>12 DEF PumpInv
  <2>15. QED
    BY <1>3, <2>6, <2>8, <2>11, <2>13, <2>14, QuietStep, DeliveryStep
<1>6. CASE ~Owns(p)
  <2>1. UNCHANGED wake /\ pump' = [pump EXCEPT ![p] = Done(p)]
    BY <1>6 DEF Persist, Persisted
  <2>2. PICK d : d = Done(p)
    OBVIOUS
  <2>3. d \in PumpType /\ d.pc \in {"idle", "next"}
    BY <2>2, DoneRecord DEF IInv
  <2>4. PumpInv(wake, d)' /\ d.pc # "send"
    BY <2>3 DEF PumpInv
  <2>5. QED  BY <1>3, <2>1, <2>2, <2>3, <2>4, NoRow, QuietStep, DeliveryStep
<1>7. QED  BY <1>5, <1>6

(* What is queued is the body of a pump that sends, under the row's id. *)
LEMMA EnqueuedQueues ==
    ASSUME IInv, NEW p \in Pumps, pump[p].pc = "send", inbox' \in {inbox, Enqueued(p)},
           UNCHANGED woken
    PROVE  /\ Queues(pump[p]) /\ WatermarkTold'
           /\ inbox' = Enqueued(p) => \E m \in inbox' : m.wake = pump[p].at
<1>1. PICK m : m = [to |-> pump[p].session, wake |-> pump[p].at, body |-> pump[p].body]
  OBVIOUS
<1>2. /\ pump[p].at \in WakeIds /\ pump[p].session \in 1..MaxHolder
      /\ pump[p].body \in 1..(MaxEvents + 1)
  BY WakesAssumption DEF WakesAssumption, IInv, TypeOK, Table, PumpInv, PumpType, None
<1>3. m \in Message /\ m.wake = pump[p].at /\ m.body = pump[p].body
  BY <1>1, <1>2 DEF Message
<1>4. Enqueued(p) = inbox \/ Enqueued(p) = inbox \union {m}
  BY <1>1 DEF Enqueued
<1>5. Queues(pump[p])
  BY <1>3, <1>4 DEF Queues
<1>6. WatermarkTold'
  BY <1>5 DEF IInv, WatermarkTold, Queues
<1>7. \E n \in Enqueued(p) : n.wake = pump[p].at
  <2>1. CASE \E n \in inbox : n.to = pump[p].session /\ n.wake = pump[p].at
    BY <2>1 DEF Enqueued
  <2>2. CASE ~ \E n \in inbox : n.to = pump[p].session /\ n.wake = pump[p].at
    <3>1. Enqueued(p) = inbox \union {m}
      BY <1>1, <2>2 DEF Enqueued
    <3>2. QED  BY <1>3, <3>1
  <2>3. QED  BY <2>1, <2>2
<1>8. QED  BY <1>5, <1>6, <1>7

(* The pump goes on to settle what some session now has. *)
LEMMA SendKeeps == ASSUME IInv, NEW p \in Pumps, Send(p)  PROVE IInv'
<1>1. /\ pump[p].pc = "send" /\ inbox' = Enqueued(p)
      /\ pump' = [pump EXCEPT ![p].pc = "settle", ![p].session = 0, ![p].body = None]
      /\ UNCHANGED <<woken, wake, faults, seq>> /\ RowsKept
  BY DEF Send, RowsKept
<1>2. Queues(pump[p]) /\ WatermarkTold' /\ \E m \in inbox' : m.wake = pump[p].at
  BY <1>1, EnqueuedQueues
<1>3. /\ pump \in [Pumps -> PumpType] /\ pump[p] \in PumpType /\ pump[p].at \in WakeIds
      /\ 0 \in 0..MaxHolder /\ 0 \in 0..(MaxEvents + 1)
  BY <1>1, WakesAssumption DEF WakesAssumption, IInv, TypeOK, Table, PumpInv
<1>4. PICK r : r = [pump[p] EXCEPT !.pc = "settle", !.session = 0, !.body = None]
  OBVIOUS
<1>5. r \in PumpType /\ r.pc = "settle" /\ r.at = pump[p].at
  BY <1>3, <1>4 DEF PumpType, None
<1>6. pump' = [pump EXCEPT ![p] = r]
  BY <1>1, <1>3, <1>4
<1>7. PumpInv(wake, r)' /\ r.pc # "send"
  BY <1>2, <1>3, <1>5 DEF PumpInv
<1>8. woken' <= seq /\ woken' \in 0..MaxEvents /\ faults' \in 0..MaxFaults
  BY <1>1 DEF IInv, TypeOK
<1>9. QED  BY <1>1, <1>2, <1>5, <1>6, <1>7, <1>8, NoRow, DeliveryStep

(* The request fails before or after it had its effect. *)
LEMMA SendFailsKeeps == ASSUME IInv, NEW p \in Pumps, SendFails(p)  PROVE IInv'
<1>1. PICK d : d = Done(p)
  OBVIOUS
<1>2. /\ pump[p].pc = "send" /\ inbox' \in {inbox, Enqueued(p)}
      /\ pump' = [pump EXCEPT ![p] = d]
      /\ UNCHANGED <<woken, wake, seq>> /\ RowsKept
      /\ faults' \in 0..MaxFaults
  BY <1>1, WakesAssumption DEF WakesAssumption, SendFails, RowsKept, IInv, TypeOK
<1>3. d \in PumpType /\ d.pc \in {"idle", "next"}
  BY <1>1, DoneRecord DEF IInv
<1>4. PumpInv(wake, d)' /\ d.pc # "send"
  BY <1>3 DEF PumpInv
<1>5. woken' <= seq /\ woken' \in 0..MaxEvents
  BY <1>2 DEF IInv, TypeOK
<1>6. QED  BY <1>2, <1>3, <1>4, <1>5, EnqueuedQueues, NoRow, DeliveryStep

(* The watermark reaches the row's event, which the body of the message that *)
(* was sent includes.                                                       *)
LEMMA SettleKeeps == ASSUME IInv, NEW p \in Pumps, Settle(p)  PROVE IInv'
<1>1. PICK i, d : i = pump[p].at /\ d = Done(p)
  OBVIOUS
<1>2. /\ i \in WakeIds /\ wake \in [WakeIds -> WakeType] /\ wake[i] \in WakeType
      /\ RowInv(wake[i], seq) /\ \E m \in inbox : m.wake = i
      /\ wake[i].seq \in 0..MaxEvents /\ woken \in 0..MaxEvents /\ woken <= seq
  BY <1>1 DEF Settle, IInv, TypeOK, Table, PumpInv, WakeType
<1>3. /\ UNCHANGED <<inbox, faults, seq>> /\ RowsKept /\ pump' = [pump EXCEPT ![p] = d]
  BY <1>1 DEF Settle, RowsKept
<1>4. d \in PumpType /\ d.pc \in {"idle", "next"}
  BY <1>1, DoneRecord DEF IInv
<1>5. PumpInv(wake, d)' /\ d.pc # "send"
  BY <1>4 DEF PumpInv
<1>6. Queues(pump[p]) /\ faults' \in 0..MaxFaults
  BY <1>3 DEF Queues, IInv, TypeOK
<1>7. CASE Owns(p)
  <2>1. /\ wake' = [wake EXCEPT ![i] =
                       [@ EXCEPT !.state = "delivered", !.token = None, !.live = FALSE,
                                 !.payload = None]]
        /\ woken' = IF wake[i].seq > woken THEN wake[i].seq ELSE woken
    BY <1>1, <1>7 DEF Settle
  <2>2. wake[i].state = "claimed"
    BY <1>1, <1>7 DEF Owns
  <2>3. PICK v : v = [wake[i] EXCEPT !.state = "delivered", !.token = None, !.live = FALSE,
                                     !.payload = None]
    OBVIOUS
  <2>4. /\ v \in WakeType /\ v.state = "delivered" /\ v.key = wake[i].key
        /\ v.seq = wake[i].seq /\ v.payload = None
    <3>1. 0 \in 0..(MaxEvents + 1)
      BY WakesAssumption DEF WakesAssumption
    <3>2. QED  BY <1>2, <2>3, <3>1 DEF WakeType, None
  <2>5. wake' = [wake EXCEPT ![i] = v]
    BY <1>2, <2>1, <2>3
  <2>6. wake[i].seq \in Nat /\ woken \in Nat /\ seq \in Nat /\ wake[i].seq <= seq
    BY <1>2, WakesAssumption DEF WakesAssumption, RowInv, IInv, TypeOK
  <2>7. woken' \in 0..MaxEvents /\ woken <= woken' /\ woken' <= seq /\ v.seq <= woken'
    BY <1>2, <2>1, <2>4, <2>6
  <2>8. RowMove(wake[i], v)
    BY <2>2, <2>4, <2>6 DEF RowMove, IsOpen, IsTold
  <2>9. /\ wake' \in [WakeIds -> WakeType]
        /\ \A j \in WakeIds : RowMove(wake[j], wake'[j]) /\ RowInv(wake[j], seq)'
    BY <1>2, <1>3, <2>4, <2>5, <2>6, <2>7, <2>8, OneRow
  <2>10. WatermarkTold'
    <3>1. CASE wake[i].seq > woken
      <4>1. PICK m \in inbox : m.wake = i
        BY <1>2
      <4>2. m.body = wake[i].payload /\ m.body # None
        BY <2>2, <4>1 DEF IInv, TypeOK, Table, MessageInv, IsOpen, Message, None
      <4>3. m.body >= 1 + wake[i].seq /\ woken' = wake[i].seq
        BY <1>2, <2>1, <3>1, <4>2 DEF RowInv
      <4>4. QED  BY <1>3, <4>1, <4>3 DEF WatermarkTold
    <3>2. CASE ~(wake[i].seq > woken)
      BY <1>3, <2>1, <3>2 DEF IInv, WatermarkTold
    <3>3. QED  BY <3>1, <3>2
  <2>11. QED  BY <1>3, <1>4, <1>5, <1>6, <2>7, <2>9, <2>10, DeliveryStep
<1>8. CASE ~Owns(p)
  <2>1. UNCHANGED <<wake, woken>>
    BY <1>8 DEF Settle
  <2>2. QED  BY <1>3, <1>4, <1>5, <2>1, NoRow, QuietStep, DeliveryStep
<1>9. QED  BY <1>7, <1>8

(* A pump that dies promises nothing. *)
LEMMA CrashKeeps == ASSUME IInv, NEW p \in Pumps, CrashPump(p)  PROVE IInv'
<1>1. /\ UNCHANGED <<woken, inbox, wake, seq>> /\ RowsKept
      /\ pump' = [pump EXCEPT ![p] = Idle] /\ faults' \in 0..MaxFaults
  BY WakesAssumption DEF WakesAssumption, CrashPump, RowsKept, IInv, TypeOK
<1>2. PICK d : d = Idle
  OBVIOUS
<1>3. d \in PumpType /\ d.pc = "idle"
  <2>1. 0 \in 0..MaxHolder /\ 0 \in 0..(MaxEvents + 1)
    BY WakesAssumption DEF WakesAssumption
  <2>2. QED  BY <1>2, <2>1 DEF Idle, PumpType, None
<1>4. PumpInv(wake, d)' /\ d.pc # "send"
  BY <1>3 DEF PumpInv
<1>5. Queues(pump[p]) /\ WatermarkTold' /\ woken' <= seq /\ woken' \in 0..MaxEvents
  BY <1>1 DEF Queues, IInv, TypeOK, WatermarkTold
<1>6. QED  BY <1>1, <1>2, <1>3, <1>4, <1>5, NoRow, DeliveryStep

(* A claim outlives its lease; the row stays open and keeps its body. *)
LEMMA ExpireKeeps == ASSUME IInv, NEW i \in WakeIds, ClaimExpires(i)  PROVE IInv'
<1>1. /\ UNCHANGED <<woken, pump, inbox, seq>> /\ RowsKept
      /\ wake[i].state = "claimed" /\ wake' = [wake EXCEPT ![i].live = FALSE]
      /\ faults' \in 0..MaxFaults
  BY WakesAssumption DEF WakesAssumption, ClaimExpires, RowsKept, IInv, TypeOK
<1>2. /\ wake \in [WakeIds -> WakeType] /\ wake[i] \in WakeType /\ wake[i].seq \in Nat
      /\ RowInv(wake[i], seq) /\ pump \in [Pumps -> PumpType] /\ woken \in 0..MaxEvents
      /\ woken \in Nat /\ woken <= seq
  BY WakesAssumption DEF WakesAssumption, IInv, TypeOK, Table, WakeType
<1>3. PICK v : v = [wake[i] EXCEPT !.live = FALSE]
  OBVIOUS
<1>4. /\ v \in WakeType /\ v.state = "claimed" /\ v.key = wake[i].key
      /\ v.seq = wake[i].seq /\ v.payload = wake[i].payload
  BY <1>1, <1>2, <1>3 DEF WakeType
<1>5. wake' = [wake EXCEPT ![i] = v]
  BY <1>1, <1>2, <1>3
<1>6. RowMove(wake[i], v)
  BY <1>1, <1>2, <1>4 DEF RowMove, IsOpen, IsTold
<1>7. /\ wake' \in [WakeIds -> WakeType]
      /\ \A j \in WakeIds : RowMove(wake[j], wake'[j]) /\ RowInv(wake[j], seq)'
  <2>1. v.seq <= seq /\ (v.payload # None => IsOpen(v) /\ v.payload >= 1 + v.seq)
    BY <1>2, <1>4 DEF RowInv, IsOpen
  <2>2. woken <= woken' /\ woken' \in 0..MaxEvents /\ v.state # "delivered"
    BY <1>1, <1>2, <1>4
  <2>3. QED  BY <1>1, <1>4, <1>5, <1>6, <2>1, <2>2, OneRow
<1>8. PICK b \in Pumps : b = Bridge
  BY WakesAssumption DEF WakesAssumption
<1>9. PICK r : r = pump[b]
  OBVIOUS
<1>10. r \in PumpType /\ pump' = [pump EXCEPT ![b] = r] /\ pump'[b] = pump[b]
  BY <1>1, <1>2, <1>9
<1>11. Queues(pump[b]) /\ WatermarkTold' /\ woken' <= seq /\ woken' \in 0..MaxEvents
  BY <1>1, <1>2 DEF Queues, IInv, WatermarkTold
<1>12. PumpInv(wake, pump[b])'
  BY <1>7, <1>10, <1>11, PumpKeeps
<1>13. PumpInv(wake, r)'
  BY <1>9, <1>10, <1>12 DEF PumpInv
<1>14. r.pc = "send" => \A q \in Pumps \ {b} : pump[q].pc = "send" /\ pump[q].at = r.at
                                                   => pump[q].body = r.body
  BY <1>9 DEF IInv, SendersAgree
<1>15. QED  BY <1>1, <1>7, <1>10, <1>11, <1>13, <1>14, DeliveryStep

-----------------------------------------------------------------------------
(* The invariant. *)

(* Nothing was told yet. *)
LEMMA InitIInv == Init => IInv
<1>1. SUFFICES ASSUME Init  PROVE IInv
  OBVIOUS
<1>2. /\ 0 \in 0..MaxEvents /\ 0 \in 0..(MaxEvents + 1) /\ 0 \in 0..MaxHolder
      /\ 0 \in 0..MaxFaults /\ 1 \in 1..MaxHolder /\ 1 \in 1..MaxEpoch
  BY WakesAssumption DEF WakesAssumption
<1>3. NoWake \in WakeType /\ NoWake.state = "none" /\ NoWake.seq = 0 /\ NoWake.payload = None
  <2>1. PICK k \in Keys \union {<<>>} : k = <<>>
    OBVIOUS
  <2>2. PICK w : w = [ state |-> "none", key |-> k, seq |-> 0, token |-> None,
                       live |-> FALSE, payload |-> None ]
    OBVIOUS
  <2>3. w \in WakeType /\ w.state = "none" /\ w.seq = 0 /\ w.payload = None
    BY <1>2, <2>2 DEF WakeType, None
  <2>4. QED  BY <2>1, <2>2, <2>3 DEF NoWake
<1>4. Idle \in PumpType /\ Idle.pc = "idle"
  BY <1>2 DEF Idle, PumpType, None
<1>5. /\ wake \in [WakeIds -> WakeType] /\ \A i \in WakeIds : wake[i] = NoWake
      /\ pump \in [Pumps -> PumpType] /\ \A p \in Pumps : pump[p] = Idle
  BY <1>1, <1>3, <1>4 DEF Init
<1>6. child \in [Children -> ChildType] /\ parent \in ParentType
  BY <1>1, <1>2 DEF Init, ChildType, ParentType
<1>7. TypeOK
  BY <1>1, <1>2, <1>5, <1>6 DEF Init, TypeOK
<1>8. Table(wake, seq)
  BY <1>1, <1>3, <1>4, <1>5
  DEF Init, Table, RowInv, Apart, MessageInv, PumpInv, IsOpen, IsTold
<1>9. woken <= seq /\ ParentInv /\ SendersAgree /\ FrozenPayload /\ WatermarkTold
  BY <1>1, <1>4, <1>5 DEF Init, ParentInv, SendersAgree, FrozenPayload, WatermarkTold
<1>10. QED  BY <1>7, <1>8, <1>9 DEF IInv

(* Every step keeps the invariant. *)
LEMMA NextIInv == IInv /\ [Next]_vars => IInv'
<1>1. SUFFICES ASSUME IInv, [Next]_vars  PROVE IInv'
  OBVIOUS
<1>2. ASSUME NEW c \in Children,
             \/ Spawn(c) \/ Expire(c) \/ Reopen(c)
             \/ \E state \in {"blocked", "finished", "lost"} : FinishWithWake(c, state)
      PROVE  IInv'
  BY <1>1, <1>2, ChildKeeps, FinishKeeps
<1>3. CASE Rearm
  BY <1>1, <1>3, RearmKeeps
<1>4. CASE Retire \/ List \/ HandOver \/ End
  BY <1>1, <1>4, ManagerKeeps, HandOverKeeps
<1>5. ASSUME NEW p \in Pumps, Claim(p) \/ Step(p) \/ SendFails(p) \/ CrashPump(p)
      PROVE  IInv'
  BY <1>1, <1>5, ClaimKeeps, CheckKeeps, ResolveKeeps, PersistKeeps, SendKeeps, SettleKeeps,
     SendFailsKeeps, CrashKeeps DEF Step
<1>6. ASSUME NEW i \in WakeIds, ClaimExpires(i)  PROVE IInv'
  BY <1>1, <1>6, ExpireKeeps
<1>7. CASE UNCHANGED vars
  BY <1>1, <1>7
  DEF vars, IInv, TypeOK, ParentInv, Table, RowInv, Apart, MessageInv, PumpInv, IsOpen, IsTold,
      SendersAgree, FrozenPayload, WatermarkTold
<1>8. QED  BY <1>1, <1>2, <1>3, <1>4, <1>5, <1>6, <1>7 DEF Next

(* The rows, the messages and the pumps agree on what is still to be told:  *)
(* the inductive invariant of the outbox.                                   *)
THEOREM Invariant == Spec => []IInv
  BY InitIInv, NextIInv, PTL DEF Spec

(* Wake rows, watermarks, inboxes and pumps stay well formed. *)
THEOREM TypeCorrect == Spec => []TypeOK
<1>1. IInv => TypeOK
  BY DEF IInv
<1>2. QED  BY Invariant, <1>1, PTL

(* _settle advances the watermark only to what a queued message includes,   *)
(* whichever pump sent it and to whichever session of the manager.          *)
THEOREM Watermark == Spec => []WatermarkTold
<1>1. IInv => WatermarkTold
  BY DEF IInv
<1>2. QED  BY Invariant, <1>1, PTL

(* _persist_payload and the token together: however many pumps work on a    *)
(* wake, and after any number of retries, it renders one cohort only.       *)
THEOREM Frozen == Spec => []FrozenPayload
<1>1. IInv => FrozenPayload
  BY DEF IInv
<1>2. QED  BY Invariant, <1>1, PTL

(* record_wakes looks at the watermark, so that one event is not delivered  *)
(* twice for one predicate.                                                 *)
THEOREM ToldOnce == Spec => []NoDoubleTell
<1>1. IInv => NoDoubleTell
  BY DEF IInv, Table, Apart, IsTold, NoDoubleTell
<1>2. QED  BY Invariant, <1>1, PTL
=============================================================================
