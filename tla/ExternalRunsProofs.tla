------------------------- MODULE ExternalRunsProofs -------------------------
(***************************************************************************)
(* Safety of the inbox and of the external runs, for any number of         *)
(* managers, messages, runs and roots, any return addresses and any bound  *)
(* on the faults.                                                          *)
(*                                                                         *)
(* The invariant has two halves.  WordInv is about messages: which ones a  *)
(* process at each point of its operation can be at work on, and what it   *)
(* has established by then.  No two processes are at work on a policy's    *)
(* signal, so a signal that is acknowledged is not also parked; a notice   *)
(* is closed only after the manager has it, or after its return address    *)
(* was found to lead back to the child.  RunsInv is about subscriptions:   *)
(* what was read of a row is still the row unless its version grew, so a   *)
(* compare-and-swap that succeeds moves the row that the reconciler has    *)
(* seen, and an outcome, once recorded, is carried from version to version.*)
(*                                                                         *)
(* Chain and LiveSuccessor follow the links with a recursive function.     *)
(* That such functions exist, and that what one finds lies on the other,   *)
(* is shown by a least counterexample (LeastOfNat, Climb).                 *)
(***************************************************************************)
EXTENDS ExternalRuns, FiniteSetTheorems, WellFoundedInduction, TLAPS

(* A set of naturals that is not empty has a first one. *)
LEMMA LeastOfNat ==
    ASSUME NEW S, S \subseteq Nat, S # {}
    PROVE  \E i \in S : \A j \in S : i <= j
<1> DEFINE Smaller == {ss \in Nat \X Nat : ss[1] < ss[2]}
<1>1. IsWellFoundedOn(Smaller, Nat)
  BY NatLessThanWellFounded, Zenon DEF OpToRel
<1>2. \A x, y \in Nat : y < x => <<y, x>> \in Smaller
  OBVIOUS
<1> HIDE DEF Smaller
<1>3. PICK x \in S : \A y \in S : ~ (<<y, x>> \in Smaller)
  BY <1>1, WFMin
<1>4. ASSUME NEW y \in S  PROVE x <= y
  <2>1. x \in Nat /\ y \in Nat
    OBVIOUS
  <2>2. ~ (y < x)
    BY <1>2, <1>3, <2>1
  <2>3. QED  BY <2>1, <2>2
<1>5. QED  BY <1>4

(* What holds of 0 and is handed on holds up to n. *)
LEMMA Climb ==
    ASSUME NEW c \in Nat, NEW S, 0 \in S, \A n \in 1..c : n - 1 \in S => n \in S
    PROVE  \A n \in 0..c : n \in S
<1>1. SUFFICES ASSUME (0..c) \ S # {}  PROVE FALSE
  OBVIOUS
<1>2. (0..c) \ S \subseteq Nat
  OBVIOUS
<1>3. PICK i \in (0..c) \ S : \A j \in (0..c) \ S : i <= j
  BY <1>1, <1>2, LeastOfNat
<1>4. i \in 1..c /\ i - 1 \in 0..c /\ ~(i <= i - 1)
  BY <1>3
<1>5. QED  BY <1>3, <1>4

(* The first c steps of iterating h from a. *)
Iterates(h, a, c, f) == f = [n \in 0..c |-> IF n = 0 THEN a ELSE h[f[n - 1]]]

(* A function can be iterated any number of times. *)
LEMMA IteratesExist ==
    ASSUME NEW D, NEW h \in [D -> D], NEW a \in D, NEW c \in Nat
    PROVE  \E f \in [0..c -> D] : Iterates(h, a, c, f)
<1> DEFINE S == {n \in Nat : \E f \in [0..n -> D] : Iterates(h, a, n, f)}
<1>1. 0 \in S
  <2>1. [n \in 0..0 |-> a] \in [0..0 -> D]
    OBVIOUS
  <2>2. Iterates(h, a, 0, [n \in 0..0 |-> a])
    BY DEF Iterates
  <2>3. QED  BY <2>1, <2>2
<1>2. ASSUME NEW n \in 1..c, n - 1 \in S  PROVE n \in S
  <2>1. PICK f \in [0..(n - 1) -> D] : Iterates(h, a, n - 1, f)
    BY <1>2
  <2>2. PICK g : g = [k \in 0..n |-> IF k = n THEN h[f[n - 1]] ELSE f[k]]
    OBVIOUS
  <2>3. g \in [0..n -> D] /\ \A k \in 0..(n - 1) : g[k] = f[k]
    BY <2>1, <2>2
  <2>4. ASSUME NEW k \in 0..n  PROVE g[k] = IF k = 0 THEN a ELSE h[g[k - 1]]
    <3>1. CASE k = n
      <4>1. n # 0 /\ n - 1 \in 0..(n - 1)
        OBVIOUS
      <4>2. QED  BY <2>2, <2>3, <3>1, <4>1
    <3>2. CASE k # n
      <4>1. k \in 0..(n - 1) /\ (k # 0 => k - 1 \in 0..(n - 1))
        BY <3>2
      <4>2. f[k] = IF k = 0 THEN a ELSE h[f[k - 1]]
        BY <2>1, <4>1 DEF Iterates
      <4>3. QED  BY <2>3, <4>1, <4>2
    <3>3. QED  BY <3>1, <3>2
  <2>5. Iterates(h, a, n, g)
    BY <2>3, <2>4 DEF Iterates
  <2>6. QED  BY <2>3, <2>5
<1> HIDE DEF S
<1>3. c \in S
  BY <1>1, <1>2, Climb
<1>4. QED  BY <1>3 DEF S

(* There are finitely many sessions. *)
LEMMA Size == Cardinality(Sessions) \in Nat
<1>1. IsFiniteSet(Managers \union {Child})
  BY InboxAssumption, FS_AddElement DEF InboxAssumption
<1>2. QED  BY <1>1, FS_CardinalityType DEF Sessions

(* Chain and LiveSuccessor, of any links. *)
ChainOf(o, s) ==
    LET reach[n \in 0..Cardinality(Sessions)] ==
            IF n = 0 THEN {s}
            ELSE reach[n - 1] \union ({o[t] : t \in reach[n - 1]} \intersect Sessions)
    IN  reach[Cardinality(Sessions)]

(* The same for the session at the end of the links. *)
LastOf(o, s) ==
    LET follow[n \in 0..Cardinality(Sessions)] ==
            IF n = 0 THEN s
            ELSE LET at == follow[n - 1] IN IF o[at] \in Sessions THEN o[at] ELSE at
    IN  follow[Cardinality(Sessions)]

(* What f[n] says is reached within n links, step by step. *)
Reaches(o, s, f) ==
    /\ f[0] = {s}
    /\ \A n \in 1..Cardinality(Sessions) :
          f[n] = f[n - 1] \union ({o[t] : t \in f[n - 1]} \intersect Sessions)
    /\ \A n \in 0..Cardinality(Sessions) : f[n] \subseteq Sessions

(* Where f[n] says n links lead, step by step. *)
Follows(o, s, f) ==
    /\ f[0] = s
    /\ \A n \in 1..Cardinality(Sessions) :
          f[n] = IF o[f[n - 1]] \in Sessions THEN o[f[n - 1]] ELSE f[n - 1]
    /\ \A n \in 0..Cardinality(Sessions) : f[n] \in Sessions

(* Chain is what following the links one step at a time reaches ... *)
LEMMA ChainIterates ==
    ASSUME NEW o, NEW s \in Sessions
    PROVE  \E f : Reaches(o, s, f) /\ ChainOf(o, s) = f[Cardinality(Sessions)]
<1> DEFINE c == Cardinality(Sessions)
           E(f) == f = [n \in 0..c |->
                          IF n = 0 THEN {s}
                          ELSE f[n - 1] \union ({o[t] : t \in f[n - 1]} \intersect Sessions)]
           reach == CHOOSE f : E(f)
<1>1. ChainOf(o, s) = reach[c]
  BY DEF ChainOf
<1>2. PICK h : h = [X \in SUBSET Sessions |-> X \union ({o[t] : t \in X} \intersect Sessions)]
  OBVIOUS
<1>3. c \in Nat /\ h \in [SUBSET Sessions -> SUBSET Sessions] /\ {s} \in SUBSET Sessions
  BY <1>2, Size
<1>4. PICK f \in [0..c -> SUBSET Sessions] : Iterates(h, {s}, c, f)
  BY <1>3, IteratesExist
<1>5. \A X \in SUBSET Sessions : h[X] = X \union ({o[t] : t \in X} \intersect Sessions)
  BY <1>2
<1>6. E(f)
  <2>1. \A n \in 0..c : n # 0 => f[n - 1] \in SUBSET Sessions
    BY <1>3
  <2>2. f = [n \in 0..c |-> IF n = 0 THEN {s} ELSE h[f[n - 1]]]
    BY <1>4 DEF Iterates
  <2>3. \A n \in 0..c : f[n] = IF n = 0 THEN {s} ELSE h[f[n - 1]]
    BY <2>2
  <2>4. QED  BY <1>5, <2>1, <2>2, <2>3
<1>7. E(reach)
  BY <1>6, Zenon
<1> HIDE DEF reach
<1>8. PICK g : g = reach
  OBVIOUS
<1>9. E(g)
  BY <1>7, <1>8
<1>10. /\ g[0] = {s}
       /\ \A n \in 1..c : g[n] = g[n - 1] \union ({o[t] : t \in g[n - 1]} \intersect Sessions)
  <2>1. 0 \in 0..c /\ \A n \in 1..c : n \in 0..c /\ n # 0
    BY <1>3
  <2>2. QED  BY <1>9, <2>1
<1>11. \A n \in 0..c : g[n] \subseteq Sessions
  <2>1. PICK S : S = {n \in 0..c : g[n] \subseteq Sessions}
    OBVIOUS
  <2>2. 0 \in S /\ \A n \in 1..c : n - 1 \in S => n \in S
    BY <1>3, <1>10, <2>1
  <2>3. \A n \in 0..c : n \in S
    BY <1>3, <2>2, Climb
  <2>4. QED  BY <2>1, <2>3
<1>12. Reaches(o, s, g)
  BY <1>10, <1>11 DEF Reaches
<1>13. QED  BY <1>1, <1>8, <1>12

(* ... and LiveSuccessor is where it ends. *)
LEMMA LastIterates ==
    ASSUME NEW o, NEW s \in Sessions
    PROVE  \E f : Follows(o, s, f) /\ LastOf(o, s) = f[Cardinality(Sessions)]
<1> DEFINE c == Cardinality(Sessions)
           E(f) == f = [n \in 0..c |->
                          IF n = 0 THEN s
                          ELSE IF o[f[n - 1]] \in Sessions THEN o[f[n - 1]] ELSE f[n - 1]]
           follow == CHOOSE f : E(f)
<1>1. LastOf(o, s) = follow[c]
  BY DEF LastOf
<1>2. PICK h : h = [x \in Sessions |-> IF o[x] \in Sessions THEN o[x] ELSE x]
  OBVIOUS
<1>3. c \in Nat /\ h \in [Sessions -> Sessions]
  BY <1>2, Size
<1>4. PICK f \in [0..c -> Sessions] : Iterates(h, s, c, f)
  BY <1>3, IteratesExist
<1>5. \A x \in Sessions : h[x] = IF o[x] \in Sessions THEN o[x] ELSE x
  BY <1>2
<1>6. E(f)
  <2>1. \A n \in 0..c : n # 0 => f[n - 1] \in Sessions
    BY <1>3
  <2>2. f = [n \in 0..c |-> IF n = 0 THEN s ELSE h[f[n - 1]]]
    BY <1>4 DEF Iterates
  <2>3. \A n \in 0..c : n # 0 =>
           h[f[n - 1]] = IF o[f[n - 1]] \in Sessions THEN o[f[n - 1]] ELSE f[n - 1]
    BY <1>5, <2>1
  <2>4. QED  BY ONLY <2>2, <2>3
<1>7. E(follow)
  BY <1>6, Zenon
<1> HIDE DEF follow
<1>8. PICK g : g = follow
  OBVIOUS
<1>9. E(g)
  BY <1>7, <1>8
<1>10. /\ g[0] = s
       /\ \A n \in 1..c : g[n] = IF o[g[n - 1]] \in Sessions THEN o[g[n - 1]] ELSE g[n - 1]
  <2>1. 0 \in 0..c /\ \A n \in 1..c : n \in 0..c /\ n # 0
    BY <1>3
  <2>2. \A n \in 0..c :
           g[n] = IF n = 0 THEN s
                  ELSE IF o[g[n - 1]] \in Sessions THEN o[g[n - 1]] ELSE g[n - 1]
    BY <1>9
  <2>3. QED  BY <2>1, <2>2
<1>11. \A n \in 0..c : g[n] \in Sessions
  <2>1. PICK S : S = {n \in 0..c : g[n] \in Sessions}
    OBVIOUS
  <2>2. 0 \in S /\ \A n \in 1..c : n - 1 \in S => n \in S
    BY <1>3, <1>10, <2>1
  <2>3. \A n \in 0..c : n \in S
    BY <1>3, <2>2, Climb
  <2>4. QED  BY <2>1, <2>3
<1>12. Follows(o, s, g)
  BY <1>10, <1>11 DEF Follows
<1>13. QED  BY <1>1, <1>8, <1>12

(* The live successor of a session is a session on its chain. *)
LEMMA LastInChain ==
    ASSUME NEW o, NEW s \in Sessions
    PROVE  LastOf(o, s) \in Sessions /\ LastOf(o, s) \in ChainOf(o, s)
<1>1. PICK c : c = Cardinality(Sessions) /\ c \in Nat
  BY Size
<1>2. PICK f : Reaches(o, s, f) /\ ChainOf(o, s) = f[c]
  BY <1>1, ChainIterates
<1>3. PICK g : Follows(o, s, g) /\ LastOf(o, s) = g[c]
  BY <1>1, LastIterates
<1>4. PICK S : S = {n \in 0..c : g[n] \in f[n]}
  OBVIOUS
<1>5. 0 \in S /\ \A n \in 1..c : n - 1 \in S => n \in S
  BY <1>1, <1>2, <1>3, <1>4 DEF Reaches, Follows
<1>6. c \in S
  BY <1>1, <1>5, Climb
<1>7. QED  BY <1>1, <1>2, <1>3, <1>4, <1>6 DEF Follows

(* More links lead through more sessions. *)
LEMMA ChainGrows ==
    ASSUME NEW o, NEW u, NEW s \in Sessions,
           \A t \in Sessions : o[t] \in Sessions => u[t] = o[t]
    PROVE  s \in ChainOf(o, s) /\ ChainOf(o, s) \subseteq ChainOf(u, s)
<1>1. PICK c : c = Cardinality(Sessions) /\ c \in Nat
  BY Size
<1>2. PICK f : Reaches(o, s, f) /\ ChainOf(o, s) = f[c]
  BY <1>1, ChainIterates
<1>3. PICK g : Reaches(u, s, g) /\ ChainOf(u, s) = g[c]
  BY <1>1, ChainIterates
<1>4. PICK S : S = {n \in 0..c : s \in f[n] /\ f[n] \subseteq g[n]}
  OBVIOUS
<1>5. 0 \in S
  BY <1>1, <1>2, <1>3, <1>4 DEF Reaches
<1>6. ASSUME NEW n \in 1..c, n - 1 \in S  PROVE n \in S
  <2>1. /\ f[n] = f[n - 1] \union ({o[t] : t \in f[n - 1]} \intersect Sessions)
        /\ g[n] = g[n - 1] \union ({u[t] : t \in g[n - 1]} \intersect Sessions)
        /\ f[n - 1] \subseteq Sessions /\ s \in f[n - 1] /\ f[n - 1] \subseteq g[n - 1]
    BY <1>1, <1>2, <1>3, <1>4, <1>6 DEF Reaches
  <2>2. QED  BY <1>1, <1>4, <2>1
<1>7. c \in S
  BY <1>1, <1>5, <1>6, Climb
<1>8. QED  BY <1>2, <1>3, <1>4, <1>7

(* What the code asks of the owners of a moment, in those terms. *)
LEMMA ChainsOfOwners ==
    ASSUME NEW s
    PROVE  /\ Chain(s) = ChainOf(owner, s) /\ Chain(s)' = ChainOf(owner', s)
           /\ LiveSuccessor(s) = IF owner[LastOf(owner, s)] = "live" THEN LastOf(owner, s)
                                                                   ELSE None
  BY DEF Chain, ChainOf, LiveSuccessor, LastOf

-----------------------------------------------------------------------------
(* What holds between the processes and the records. *)

(* Every program point. *)
Points == {"idle", "look", "park", "send", "ack", "satisfy", "ask", "resolve", "wait",
           "notify", "close", "reject", "drop", "requeue", "told", "read", "probe",
           "lose", "preserve", "begin", "mark"}

(* The points of delivering a report, of delivering a notice, and of reconciling. *)
Escalating  == {"look", "park", "send", "ack"}
Noticing    == {"resolve", "wait", "notify", "close", "reject", "drop", "requeue"}
Reconciling == {"read", "probe", "lose", "preserve", "begin", "mark"}

(* The links of its return address lead a message back to the child. *)
LeadsBack(k) == ParentOf[k] \in Sessions /\ Child \in ChainOf(owner, ParentOf[k])

(* Which messages a process may be at work on, and what it has established. *)
ProcInv(p) ==
    LET r == proc[p] IN
    /\ r.pc = "idle" => r.key = None
    /\ r.pc \in Escalating => r.key \in Reports \union Policies \union Runs
    /\ r.pc = "satisfy" => r.key \in Reports
    /\ r.pc = "ask" => r.key \in Orders
    /\ r.pc \in Noticing => r.key \in Lifecycle
    /\ r.pc \in Reconciling => r.key \in Runs
    /\ r.pc \in {"send", "ack", "notify", "close"} => r.to \in Managers
    /\ r.pc \in {"ack", "close"} => <<r.to, r.key>> \in queue
    /\ r.pc = "resolve" => ParentOf[r.key] \in Sessions
    /\ r.pc \in {"reject", "drop"} => LeadsBack(r.key)
    /\ r.pc = "mark" => ack[r.key] # None
    /\ r.key \in Policies => p = Bridge /\ ack[r.key] = None /\ parked[r.key] = "none"

(* What is acknowledged is in the queue it was delivered to. *)
AckInv == \A k \in Keys : ack[k] # None => <<ack[k], k>> \in queue

(* A notice is closed once a manager has it, or if no manager is above the child. *)
Closed(k) == (\E s \in Managers : <<s, k>> \in queue) \/ LeadsBack(k)
(* What is closed is closed for a reason. *)
ClosedInv == \A k \in Lifecycle : parked[k] = "resolved" => Closed(k)

(* The inbox and the processes: the part of the invariant about messages. *)
WordInv == /\ TypeOK
           /\ \A p \in Procs : ProcInv(p)
           /\ AckInv
           /\ ClosedInv
           /\ SignalOnce

(* The records that no process is at a point of. *)
Typed ==
    /\ archived \subseteq Managers
    /\ queue \subseteq Sessions \X (Keys \union Orders)
    /\ ack \in [Keys -> Managers \union {None}]
    /\ parked \in [Keys -> {"none", "parked", "resolved"}]
    /\ order \in [Orders -> {"none", "open", "reported", "acked"}]
    /\ policy \in [on : SUBSET Policies, holds : SUBSET Policies]
    /\ command \in [ state : {"pending", "claimed", "done", "cancelled"},
                     execution : {"none", "running", "ended"} ]
    /\ memory \in [told : SUBSET Lifecycle, requeued : BOOLEAN]
    /\ faults \in 0..MaxFaults

(* What a step of p may do to the messages: its own only. *)
Writes(p) ==
    /\ queue \subseteq queue'
    /\ owner' = owner
    /\ \A k \in Keys : k # proc[p].key => ack'[k] = ack[k] /\ parked'[k] = parked[k]
    /\ \A k \in Keys : ack[k] # None => ack'[k] = ack[k]

(* The message of a run stays with its process. *)
KeysKept ==
    /\ \A q \in Procs :
          /\ proc'[q].key \in Runs => proc'[q].key = proc[q].key
          /\ proc'[q].pc \in {"begin", "preserve"} => proc'[q] = proc[q]
    /\ \A k \in Keys : ack[k] # None => ack'[k] # None

(* A process keeps what it has established while another one moves. *)
LEMMA OthersKeep ==
    ASSUME WordInv, NEW p \in Procs, NEW q \in Procs, q # p, proc'[q] = proc[q], Writes(p)
    PROVE  ProcInv(q)'
<1>1. ProcInv(q) /\ ProcInv(p) /\ Policies \subseteq Keys /\ Runs \subseteq Keys
  BY DEF WordInv, Keys
<1>2. ASSUME proc[q].key \in Policies
      PROVE  q = Bridge /\ ack'[proc[q].key] = None /\ parked'[proc[q].key] = "none"
  <2>1. proc[p].key \notin Policies
    BY <1>1, <1>2 DEF ProcInv
  <2>2. QED  BY <1>1, <1>2, <2>1 DEF ProcInv, Writes
<1>3. proc[q].pc = "mark" => ack'[proc[q].key] # None
  BY <1>1 DEF ProcInv, Writes, Reconciling
<1>4. QED  BY <1>1, <1>2, <1>3 DEF ProcInv, Writes, LeadsBack, Escalating, Noticing, Reconciling

(* A step of p, which leaves it with the record r. *)
LEMMA Moved ==
    ASSUME WordInv, NEW p \in Procs, NEW r \in ProcType, proc' = [proc EXCEPT ![p] = r],
           Writes(p), Typed', ProcInv(p)',
           \A k \in Keys : k = proc[p].key =>
              /\ ack'[k] # None => <<ack'[k], k>> \in queue'
              /\ k \in Lifecycle /\ parked'[k] = "resolved" => Closed(k)'
              /\ k \in Policies => ~(ack'[k] # None /\ parked'[k] # "none")
    PROVE  WordInv'
<1>1. proc \in [Procs -> ProcType] /\ owner \in [Sessions -> {"live", "retired"} \union Sessions]
  BY DEF WordInv, TypeOK
<1>2. TypeOK'
  BY <1>1 DEF Typed, TypeOK, Writes
<1>3. ASSUME NEW q \in Procs  PROVE ProcInv(q)'
  <2>1. CASE q = p
    BY <2>1
  <2>2. CASE q # p
    <3>1. proc'[q] = proc[q]
      BY <1>1, <2>2
    <3>2. QED  BY <2>2, <3>1, OthersKeep
  <2>3. QED  BY <2>1, <2>2
<1>4. AckInv'
  <2>1. ASSUME NEW k \in Keys, ack'[k] # None  PROVE <<ack'[k], k>> \in queue'
    <3>1. CASE k = proc[p].key
      BY <2>1, <3>1
    <3>2. CASE k # proc[p].key
      BY <2>1, <3>2 DEF Writes, WordInv, AckInv
    <3>3. QED  BY <3>1, <3>2
  <2>2. QED  BY <2>1 DEF AckInv
<1>5. ClosedInv'
  <2>1. ASSUME NEW k \in Lifecycle, parked'[k] = "resolved"  PROVE Closed(k)'
    <3>1. k \in Keys
      BY DEF Keys
    <3>2. CASE k = proc[p].key
      BY <2>1, <3>1, <3>2
    <3>3. CASE k # proc[p].key
      BY <2>1, <3>1, <3>3 DEF Writes, WordInv, ClosedInv, Closed, LeadsBack
    <3>4. QED  BY <3>2, <3>3
  <2>2. QED  BY <2>1 DEF ClosedInv
<1>6. SignalOnce'
  <2>1. ASSUME NEW k \in Policies  PROVE ~(ack'[k] # None /\ parked'[k] # "none")
    <3>1. k \in Keys
      BY DEF Keys
    <3>2. CASE k = proc[p].key
      BY <3>1, <3>2
    <3>3. CASE k # proc[p].key
      BY <3>1, <3>3 DEF Writes, WordInv, SignalOnce
    <3>4. QED  BY <3>2, <3>3
  <2>2. QED  BY <2>1 DEF SignalOnce
<1>7. QED  BY <1>2, <1>3, <1>4, <1>5, <1>6 DEF WordInv

(* A step that writes nothing any message's record depends on. *)
LEMMA QuietMove ==
    ASSUME WordInv, NEW p \in Procs, NEW r \in ProcType, proc' = [proc EXCEPT ![p] = r],
           UNCHANGED <<owner, ack, parked>>, queue \subseteq queue', Typed', ProcInv(p)'
    PROVE  WordInv'
<1>1. Writes(p)
  BY DEF Writes
<1>2. ASSUME NEW k \in Keys
      PROVE  /\ ack'[k] # None => <<ack'[k], k>> \in queue'
             /\ k \in Lifecycle /\ parked'[k] = "resolved" => Closed(k)'
             /\ k \in Policies => ~(ack'[k] # None /\ parked'[k] # "none")
  BY DEF WordInv, AckInv, ClosedInv, SignalOnce, Closed, LeadsBack
<1>3. QED  BY <1>1, <1>2, Moved

(* It changes no run's message, if p neither takes one up nor comes from or *)
(* to where a run is looked at.                                             *)
LEMMA KeyStays ==
    ASSUME WordInv, NEW p \in Procs, NEW r \in ProcType, proc' = [proc EXCEPT ![p] = r],
           r.key \in Runs => r.key = proc[p].key, r.pc \notin {"begin", "preserve"},
           \A k \in Keys : ack[k] # None => ack'[k] = ack[k]
    PROVE  KeysKept
<1>1. proc'[p] = r /\ \A q \in Procs \ {p} : proc'[q] = proc[q]
  BY DEF WordInv, TypeOK
<1>2. QED  BY <1>1 DEF KeysKept

(* The record that a jump leaves. *)
LEMMA GotoRecord ==
    ASSUME TypeOK, NEW p \in Procs, NEW pc \in Points, Goto(p, pc)
    PROVE  \E r \in ProcType : /\ proc' = [proc EXCEPT ![p] = r] /\ proc'[p] = r
                               /\ r.pc = pc /\ r.key = proc[p].key /\ r.to = proc[p].to
<1>1. proc \in [Procs -> ProcType] /\ proc[p] \in ProcType
  BY DEF TypeOK
<1>2. PICK r : r = [proc[p] EXCEPT !.pc = pc]
  OBVIOUS
<1>3. r \in ProcType /\ r.pc = pc /\ r.key = proc[p].key /\ r.to = proc[p].to
  BY <1>1, <1>2 DEF ProcType, Points
<1>4. proc' = [proc EXCEPT ![p] = r] /\ proc'[p] = r
  BY <1>1, <1>2 DEF Goto
<1>5. QED  BY <1>3, <1>4

(* The record of a process that takes up a message. *)
LEMMA BeginRecord ==
    ASSUME TypeOK, NEW p \in Procs, NEW pc \in Points, NEW k \in Keys \union Orders,
           Begin(p, pc, k)
    PROVE  \E r \in ProcType : /\ proc' = [proc EXCEPT ![p] = r] /\ proc'[p] = r
                               /\ r.pc = pc /\ r.key = k /\ proc[p].pc = "idle"
<1>1. proc \in [Procs -> ProcType]
  BY DEF TypeOK
<1>2. PICK r : r = [Idle EXCEPT !.pc = pc, !.key = k]
  OBVIOUS
<1>3. r \in ProcType /\ r.pc = pc /\ r.key = k
  BY <1>2 DEF ProcType, Points, Idle
<1>4. proc' = [proc EXCEPT ![p] = r] /\ proc'[p] = r /\ proc[p].pc = "idle"
  BY <1>1, <1>2 DEF Begin, At
<1>5. QED  BY <1>3, <1>4

(* A process that is done has no message. *)
LEMMA ReturnRecord ==
    ASSUME TypeOK, NEW p \in Procs, Return(p)
    PROVE  \E r \in ProcType : /\ proc' = [proc EXCEPT ![p] = r]
                               /\ r.pc = "idle" /\ r.key = None /\ ProcInv(p)'
<1>1. proc \in [Procs -> ProcType]
  BY DEF TypeOK
<1>2. PICK r : r = Idle
  OBVIOUS
<1>3. r \in ProcType /\ r.pc = "idle" /\ r.key = None
  BY <1>2 DEF ProcType, Idle
<1>4. proc' = [proc EXCEPT ![p] = r] /\ proc'[p] = r
  BY <1>1, <1>2 DEF Return
<1>5. None \notin Policies
  BY InboxAssumption DEF InboxAssumption, Keys
<1>6. ProcInv(p)'
  BY <1>3, <1>4, <1>5 DEF ProcInv, Escalating, Noticing, Reconciling
<1>7. QED  BY <1>3, <1>4, <1>6

-----------------------------------------------------------------------------
(* escalate() *)

(* What a step of a message leaves behind. *)
Kept == WordInv' /\ KeysKept

(* Nothing but a process moves. *)
LEMMA PointMoves ==
    ASSUME WordInv, NEW p \in Procs, NEW r \in ProcType, proc' = [proc EXCEPT ![p] = r],
           UNCHANGED <<sessionVars, queue, storeVars, command, memory>>,
           faults' \in 0..MaxFaults, ProcInv(p)',
           r.key \in Runs => r.key = proc[p].key, r.pc \notin {"begin", "preserve"}
    PROVE  Kept
<1>1. Typed'
  BY DEF Typed, WordInv, TypeOK, sessionVars, storeVars
<1>2. WordInv'
  BY <1>1, QuietMove DEF sessionVars, storeVars
<1>3. KeysKept
  BY KeyStays DEF storeVars
<1>4. QED  BY <1>2, <1>3 DEF Kept

(* A fault is counted. *)
LEMMA FaultCounted ==
    ASSUME TypeOK, Fault \/ UNCHANGED faults
    PROVE  faults' \in 0..MaxFaults
<1>1. MaxFaults \in Nat /\ faults \in 0..MaxFaults
  BY InboxAssumption DEF InboxAssumption, TypeOK
<1>2. QED  BY <1>1 DEF Fault

(* The parent is looked up: a manager whose workspace is there, or none. *)
LEMMA LookKeeps == ASSUME WordInv, NEW p \in Procs, Look(p)  PROVE Kept
<1>1. /\ TypeOK /\ ProcInv(p) /\ proc[p].pc = "look" /\ proc \in [Procs -> ProcType]
      /\ UNCHANGED <<sessionVars, queue, storeVars, command, memory>>
      /\ Fault \/ UNCHANGED faults
  BY DEF Look, At, WordInv, TypeOK
<1>2. faults' \in 0..MaxFaults
  BY <1>1, FaultCounted
<1>3. \E r \in ProcType : /\ proc' = [proc EXCEPT ![p] = r] /\ proc'[p] = r
                          /\ r.pc \in {"send", "park"} /\ r.key = proc[p].key
                          /\ r.pc = "send" => r.to \in Managers
  <2>1. CASE Goto(p, "park")
    BY <1>1, <2>1, GotoRecord DEF Points
  <2>2. CASE ParentOf[proc[p].key] \in Managers \ archived
             /\ proc' = [proc EXCEPT ![p].pc = "send", ![p].to = ParentOf[proc[p].key]]
    <3>1. PICK t \in Managers : t = ParentOf[proc[p].key]
      BY <2>2
    <3>2. PICK r : r = [proc[p] EXCEPT !.pc = "send", !.to = t]
      OBVIOUS
    <3>3. r \in ProcType /\ r.pc = "send" /\ r.key = proc[p].key /\ r.to = t
      BY <1>1, <3>2 DEF ProcType, Sessions
    <3>4. proc' = [proc EXCEPT ![p] = r] /\ proc'[p] = r
      BY <1>1, <2>2, <3>1, <3>2
    <3>5. QED  BY <3>3, <3>4
  <2>3. QED  BY <2>1, <2>2 DEF Look
<1>4. PICK r \in ProcType : /\ proc' = [proc EXCEPT ![p] = r] /\ proc'[p] = r
                            /\ r.pc \in {"send", "park"} /\ r.key = proc[p].key
                            /\ r.pc = "send" => r.to \in Managers
  BY <1>3
<1>5. ProcInv(p)'
  BY <1>1, <1>4 DEF ProcInv, Escalating, Noticing, Reconciling, storeVars
<1>6. QED  BY <1>1, <1>2, <1>4, <1>5, PointMoves

(* What is sent is queued, before it is acknowledged. *)
LEMMA SendKeeps == ASSUME WordInv, NEW p \in Procs, Send(p)  PROVE Kept
<1>1. /\ TypeOK /\ ProcInv(p) /\ proc[p].pc = "send" /\ proc \in [Procs -> ProcType]
      /\ UNCHANGED <<sessionVars, storeVars, command, memory>>
      /\ Fault \/ UNCHANGED faults
  BY DEF Send, At, WordInv, TypeOK
<1>2. faults' \in 0..MaxFaults
  BY <1>1, FaultCounted
<1>3. PICK m : m = <<proc[p].to, proc[p].key>>
  OBVIOUS
<1>4. m \in Sessions \X (Keys \union Orders)
  BY <1>1, <1>3 DEF ProcInv, Sessions, Keys, Escalating
<1>5. queue \subseteq queue' /\ queue' \subseteq queue \union {m}
  BY <1>3 DEF Send
<1>6. Typed'
  BY <1>1, <1>2, <1>4, <1>5 DEF Typed, TypeOK, sessionVars, storeVars
<1>7. CASE Return(p)
  <2>1. PICK r \in ProcType : /\ proc' = [proc EXCEPT ![p] = r]
                              /\ r.pc = "idle" /\ r.key = None /\ ProcInv(p)'
    BY <1>1, <1>7, ReturnRecord
  <2>2. None \notin Runs
    BY InboxAssumption DEF InboxAssumption, Keys
  <2>3. QED
    BY <1>1, <1>5, <1>6, <2>1, <2>2, QuietMove, KeyStays DEF Kept, sessionVars, storeVars
<1>8. CASE Goto(p, "ack") /\ queue' = queue \union {m}
  <2>1. PICK r \in ProcType : /\ proc' = [proc EXCEPT ![p] = r] /\ proc'[p] = r
                              /\ r.pc = "ack" /\ r.key = proc[p].key /\ r.to = proc[p].to
    BY <1>1, <1>8, GotoRecord DEF Points
  <2>2. ProcInv(p)'
    BY <1>1, <1>3, <1>8, <2>1 DEF ProcInv, Escalating, Noticing, Reconciling, storeVars
  <2>3. QED
    BY <1>1, <1>5, <1>6, <2>1, <2>2, QuietMove, KeyStays DEF Kept, sessionVars, storeVars
<1>9. QED  BY <1>3, <1>7, <1>8 DEF Send

(* What the caller goes on to. *)
LEMMA ContinueRecord ==
    ASSUME TypeOK, NEW p \in Procs, NEW delivered \in BOOLEAN, Continue(p, delivered)
    PROVE  \E r \in ProcType :
              /\ proc' = [proc EXCEPT ![p] = r] /\ proc'[p] = r
              /\ \/ r.pc = "satisfy" /\ r.key = proc[p].key /\ r.key \in Reports
                 \/ r.pc = "mark" /\ r.key = proc[p].key /\ r.key \in Runs /\ delivered
                 \/ r.pc = "idle" /\ r.key = None
<1>1. proc \in [Procs -> ProcType]
  BY DEF TypeOK
<1>2. CASE Goto(p, "satisfy") /\ proc[p].key \in Reports
  BY <1>2, GotoRecord DEF Points
<1>3. CASE Goto(p, "mark") /\ proc[p].key \in Runs /\ delivered
  BY <1>3, GotoRecord DEF Points
<1>4. CASE Return(p)
  <2>1. PICK r \in ProcType : /\ proc' = [proc EXCEPT ![p] = r]
                              /\ r.pc = "idle" /\ r.key = None
    BY <1>4, ReturnRecord
  <2>2. proc'[p] = r
    BY <1>1, <2>1
  <2>3. QED  BY <2>1, <2>2
<1>5. QED  BY <1>2, <1>3, <1>4 DEF Continue

(* Only what is queued is acknowledged, and a signal that is was not parked. *)
LEMMA AcknowledgeKeeps == ASSUME WordInv, NEW p \in Procs, Acknowledge(p)  PROVE Kept
<1>1. /\ TypeOK /\ ProcInv(p) /\ proc[p].pc = "ack"
      /\ UNCHANGED <<sessionVars, queue, parked, order, policy, command, memory, faults>>
      /\ ack' = [ack EXCEPT ![proc[p].key] = IF @ = None THEN proc[p].to ELSE @]
      /\ Continue(p, TRUE)
  BY DEF Acknowledge, At, WordInv
<1>2. PICK k, t : k = proc[p].key /\ t = proc[p].to
  OBVIOUS
<1>3. /\ k \in Keys /\ k \in Reports \union Policies \union Runs /\ t \in Managers
      /\ <<t, k>> \in queue /\ None \notin Managers /\ None \notin Keys
  BY <1>1, <1>2, InboxAssumption
  DEF InboxAssumption, ProcInv, Keys, Sessions, Escalating
<1>4. PICK a : a = IF ack[k] = None THEN t ELSE ack[k]
  OBVIOUS
<1>5. /\ ack' = [ack EXCEPT ![k] = a] /\ ack \in [Keys -> Managers \union {None}]
      /\ a \in Managers /\ <<a, k>> \in queue
  BY <1>1, <1>2, <1>3, <1>4 DEF TypeOK, WordInv, AckInv
<1>6. /\ ack' \in [Keys -> Managers \union {None}] /\ ack'[k] = a
      /\ \A l \in Keys : l # k => ack'[l] = ack[l]
      /\ \A l \in Keys : ack[l] # None => ack'[l] = ack[l]
  BY <1>3, <1>4, <1>5
<1>7. PICK r \in ProcType :
              /\ proc' = [proc EXCEPT ![p] = r] /\ proc'[p] = r
              /\ \/ r.pc = "satisfy" /\ r.key = proc[p].key /\ r.key \in Reports
                 \/ r.pc = "mark" /\ r.key = proc[p].key /\ r.key \in Runs
                 \/ r.pc = "idle" /\ r.key = None
  BY <1>1, ContinueRecord
<1>8. Writes(p) /\ Typed'
  BY <1>1, <1>2, <1>6 DEF Writes, Typed, TypeOK, sessionVars
<1>9. ProcInv(p)'
  <2>1. r.key \notin Policies
    BY <1>3, <1>7, KindsAssumption DEF KindsAssumption, Keys
  <2>2. r.pc = "mark" => ack'[r.key] # None
    BY <1>2, <1>3, <1>5, <1>6, <1>7
  <2>3. QED  BY <1>7, <2>1, <2>2 DEF ProcInv, Escalating, Noticing, Reconciling
<1>10. ASSUME NEW l \in Keys, l = proc[p].key
       PROVE  /\ ack'[l] # None => <<ack'[l], l>> \in queue'
              /\ l \in Lifecycle /\ parked'[l] = "resolved" => Closed(l)'
              /\ l \in Policies => ~(ack'[l] # None /\ parked'[l] # "none")
  <2>1. l \notin Lifecycle
    BY <1>2, <1>3, <1>10, KindsAssumption DEF KindsAssumption
  <2>2. l \in Policies => parked'[l] = "none"
    BY <1>1, <1>10 DEF ProcInv
  <2>3. QED  BY <1>1, <1>2, <1>5, <1>6, <1>10, <2>1, <2>2
<1>11. WordInv'
  BY <1>7, <1>8, <1>9, <1>10, Moved
<1>12. KeysKept
  BY <1>3, <1>6, <1>7, KeyStays DEF Keys
<1>13. QED  BY <1>11, <1>12 DEF Kept

(* A record is parked unless it was parked or resolved before. *)
LEMMA ParkedRecord ==
    ASSUME TypeOK, NEW k \in Keys, parked' = Parked(k)
    PROVE  /\ parked' \in [Keys -> {"none", "parked", "resolved"}]
           /\ \A l \in Keys : l # k => parked'[l] = parked[l]
           /\ parked'[k] = "resolved" => parked[k] = "resolved"
  BY DEF TypeOK, Parked

(* A signal that is parked was not acknowledged. *)
LEMMA ParkKeeps == ASSUME WordInv, NEW p \in Procs, Park(p)  PROVE Kept
<1>1. /\ TypeOK /\ ProcInv(p) /\ proc[p].pc = "park"
      /\ UNCHANGED <<sessionVars, queue, ack, order, policy, command, memory, faults>>
      /\ Continue(p, FALSE)
  BY DEF Park, At, WordInv
<1>2. PICK k : k = proc[p].key
  OBVIOUS
<1>3. /\ k \in Keys /\ k \in Reports \union Policies \union Runs /\ None \notin Keys
      /\ parked' = Parked(k)
  BY <1>1, <1>2, InboxAssumption DEF InboxAssumption, ProcInv, Keys, Escalating, Park
<1>4. /\ parked' \in [Keys -> {"none", "parked", "resolved"}]
      /\ \A l \in Keys : l # k => parked'[l] = parked[l]
  BY <1>1, <1>3, ParkedRecord
<1>5. PICK r \in ProcType :
              /\ proc' = [proc EXCEPT ![p] = r] /\ proc'[p] = r
              /\ \/ r.pc = "satisfy" /\ r.key = proc[p].key /\ r.key \in Reports
                 \/ r.pc = "idle" /\ r.key = None
  BY <1>1, ContinueRecord
<1>6. Writes(p) /\ Typed'
  BY <1>1, <1>2, <1>4 DEF Writes, Typed, TypeOK, sessionVars
<1>7. ProcInv(p)'
  <2>1. r.key \notin Policies
    BY <1>3, <1>5, KindsAssumption DEF KindsAssumption, Keys
  <2>2. QED  BY <1>5, <2>1 DEF ProcInv, Escalating, Noticing, Reconciling
<1>8. ASSUME NEW l \in Keys, l = proc[p].key
      PROVE  /\ ack'[l] # None => <<ack'[l], l>> \in queue'
             /\ l \in Lifecycle /\ parked'[l] = "resolved" => Closed(l)'
             /\ l \in Policies => ~(ack'[l] # None /\ parked'[l] # "none")
  <2>1. l \notin Lifecycle
    BY <1>2, <1>3, <1>8, KindsAssumption DEF KindsAssumption
  <2>2. l \in Policies => ack'[l] = None
    BY <1>1, <1>8 DEF ProcInv
  <2>3. ack'[l] # None => <<ack'[l], l>> \in queue'
    BY <1>1 DEF WordInv, AckInv
  <2>4. QED  BY <2>1, <2>2, <2>3
<1>9. WordInv'
  BY <1>5, <1>6, <1>7, <1>8, Moved
<1>10. KeysKept
  BY <1>1, <1>3, <1>5, KeyStays DEF Keys
<1>11. QED  BY <1>9, <1>10 DEF Kept

-----------------------------------------------------------------------------
(* Commands *)

(* A record that no process and no message depends on. *)
LEMMA RecordStep ==
    ASSUME WordInv, UNCHANGED <<owner, queue, ack, parked, proc>>, Typed'
    PROVE  Kept
<1>1. TypeOK'
  BY DEF WordInv, TypeOK, Typed
<1>2. ASSUME NEW p \in Procs  PROVE ProcInv(p)'
  <2>1. ProcInv(p)
    BY DEF WordInv
  <2>2. QED  BY ONLY <2>1, UNCHANGED <<owner, queue, ack, parked, proc>> DEF ProcInv, LeadsBack
<1>3. AckInv /\ ClosedInv /\ SignalOnce
  BY DEF WordInv
<1>4. AckInv' /\ SignalOnce'
  BY ONLY <1>3, UNCHANGED <<owner, queue, ack, parked, proc>> DEF AckInv, SignalOnce
<1>5. ASSUME NEW k \in Lifecycle, parked'[k] = "resolved"  PROVE Closed(k)'
  <2>1. Closed(k)
    BY <1>3, <1>5 DEF ClosedInv
  <2>2. CASE \E s \in Managers : <<s, k>> \in queue
    BY <2>2 DEF Closed
  <2>3. CASE LeadsBack(k)
    BY <2>3 DEF Closed, LeadsBack
  <2>4. QED  BY ONLY <2>1, <2>2, <2>3 DEF Closed
<1>6. WordInv'
  BY <1>1, <1>2, <1>4, <1>5 DEF WordInv, ClosedInv
<1>7. QED  BY <1>6 DEF Kept, KeysKept

(* A process that is done moves, and changes no record of a message. *)
LEMMA ReturnStep ==
    ASSUME WordInv, NEW p \in Procs, Return(p), UNCHANGED <<owner, ack, parked>>,
           queue \subseteq queue', Typed'
    PROVE  Kept
<1>1. PICK r \in ProcType : /\ proc' = [proc EXCEPT ![p] = r]
                            /\ r.pc = "idle" /\ r.key = None /\ ProcInv(p)'
  BY ReturnRecord DEF WordInv
<1>2. None \notin Runs
  BY InboxAssumption DEF InboxAssumption, Keys
<1>3. QED  BY <1>1, <1>2, QuietMove, KeyStays DEF Kept

(* A process takes up a report, an order or a notice. *)
LEMMA BeginStep ==
    ASSUME WordInv, NEW p \in Procs, NEW pc \in Points, NEW k \in Keys \union Orders,
           Begin(p, pc, k), UNCHANGED <<owner, ack, parked, queue>>, Typed',
           pc \in Escalating => pc \notin {"send", "ack"} /\ k \in Reports \union Policies,
           pc = "ask" => k \in Orders,
           pc \in Noticing =>
              /\ pc # "close" /\ pc # "notify" /\ k \in Lifecycle
              /\ pc = "resolve" => ParentOf[k] \in Sessions
              /\ pc \in {"reject", "drop"} => LeadsBack(k),
           pc \notin Reconciling, pc # "satisfy", pc # "idle",
           k \in Policies => p = Bridge /\ ack[k] = None /\ parked[k] = "none",
           k \notin Runs
    PROVE  Kept
<1>1. PICK r \in ProcType : /\ proc' = [proc EXCEPT ![p] = r] /\ proc'[p] = r
                            /\ r.pc = pc /\ r.key = k
  BY BeginRecord DEF WordInv
<1>2. LeadsBack(k) => LeadsBack(k)'
  BY DEF LeadsBack
<1>3. ProcInv(p)'
  BY <1>1, <1>2 DEF ProcInv, Escalating, Noticing, Reconciling
<1>4. QED  BY <1>1, <1>3, QuietMove, KeyStays DEF Kept, Reconciling

(* The child reports, or an order is written down and sent. *)
LEMMA ReportKeeps ==
    ASSUME WordInv, NEW p \in Commands, NEW k \in Reports, Report(p, k)
    PROVE  Kept
<1>1. /\ k \in Keys \union Orders /\ k \notin Policies /\ k \notin Runs
      /\ "look" \in Points /\ p \in Procs
  BY KindsAssumption DEF KindsAssumption, Keys, Points, Procs
<1>2. Begin(p, "look", k) /\ UNCHANGED <<owner, ack, parked, queue>> /\ Typed'
  BY DEF Report, Typed, WordInv, TypeOK, sessionVars, storeVars
<1>3. QED  BY <1>1, <1>2, BeginStep DEF Escalating, Noticing, Reconciling

(* An expectation is written down before its order is sent. *)
LEMMA ExpectKeeps ==
    ASSUME WordInv, NEW p \in Commands, NEW o \in Orders, ExpectOrder(p, o)
    PROVE  Kept
<1>1. /\ o \in Keys \union Orders /\ o \notin Policies /\ o \notin Runs
      /\ "ask" \in Points /\ p \in Procs
  BY KindsAssumption DEF KindsAssumption, Keys, Points, Procs
<1>2. Begin(p, "ask", o) /\ UNCHANGED <<owner, ack, parked, queue>> /\ Typed'
  BY DEF ExpectOrder, Typed, WordInv, TypeOK, sessionVars, storeVars
<1>3. QED  BY <1>1, <1>2, BeginStep DEF Escalating, Noticing, Reconciling

(* The order is sent to the child, or was not. *)
LEMMA AskKeeps == ASSUME WordInv, NEW p \in Procs, Ask(p)  PROVE Kept
<1>1. /\ TypeOK /\ ProcInv(p) /\ proc[p].pc = "ask" /\ Return(p)
      /\ UNCHANGED <<sessionVars, storeVars, command, memory>>
      /\ Fault \/ UNCHANGED faults
  BY DEF Ask, At, WordInv
<1>2. faults' \in 0..MaxFaults
  BY <1>1, FaultCounted
<1>3. PICK m : m = <<Child, proc[p].key>>
  OBVIOUS
<1>4. m \in Sessions \X (Keys \union Orders)
  BY <1>1, <1>3 DEF ProcInv, Sessions
<1>5. queue \subseteq queue' /\ queue' \subseteq queue \union {m}
  BY <1>3 DEF Ask
<1>6. Typed'
  BY <1>1, <1>2, <1>4, <1>5 DEF Typed, TypeOK, sessionVars, storeVars
<1>7. QED  BY <1>1, <1>5, <1>6, ReturnStep DEF sessionVars, storeVars

(* A report satisfies the orders that are open. *)
LEMMA SatisfyKeeps == ASSUME WordInv, NEW p \in Procs, SatisfyOrders(p)  PROVE Kept
<1>1. Typed'
  BY DEF SatisfyOrders, Typed, WordInv, TypeOK, sessionVars, storeVars
<1>2. QED  BY <1>1, ReturnStep DEF SatisfyOrders, sessionVars, storeVars

(* Orders, signals and commands that change by themselves. *)
LEMMA RecordsKeep ==
    ASSUME WordInv,
           \/ \E o \in Orders : AcknowledgeOrder(o)
           \/ \E c \in SUBSET Policies : SetPolicy(c) \/ Observe(c)
           \/ Dispatch \/ CancelQuarantined \/ ExecutionEnds
           \/ \E s \in Sessions : Archive(s)
    PROVE  Kept
<1>1. /\ Typed /\ MaxFaults \in Nat /\ policy \in [on : SUBSET Policies, holds : SUBSET Policies]
      /\ command \in [ state : {"pending", "claimed", "done", "cancelled"},
                       execution : {"none", "running", "ended"} ]
  BY InboxAssumption DEF InboxAssumption, WordInv, TypeOK, Typed
<1>2. CASE \E o \in Orders : AcknowledgeOrder(o)
  BY <1>1, <1>2, RecordStep DEF AcknowledgeOrder, Typed, sessionVars
<1>3. ASSUME NEW c \in SUBSET Policies, SetPolicy(c) \/ Observe(c)  PROVE Kept
  <2>1. policy' \in [on : SUBSET Policies, holds : SUBSET Policies]
    BY <1>1, <1>3 DEF SetPolicy, Observe
  <2>2. Typed' /\ UNCHANGED <<owner, queue, ack, parked, proc>>
    BY <1>1, <1>3, <2>1 DEF SetPolicy, Observe, Typed, sessionVars
  <2>3. QED  BY <2>2, RecordStep
<1>4. CASE Dispatch \/ CancelQuarantined \/ ExecutionEnds
  <2>1. faults' \in 0..MaxFaults
    BY <1>1, <1>4, FaultCounted DEF Dispatch, CancelQuarantined, ExecutionEnds, WordInv, Typed
  <2>2. command' \in [ state : {"pending", "claimed", "done", "cancelled"},
                       execution : {"none", "running", "ended"} ]
    BY <1>1, <1>4 DEF Dispatch, CancelQuarantined, ExecutionEnds
  <2>3. UNCHANGED <<archived, owner, queue, ack, parked, order, policy, memory, proc>>
    BY <1>4 DEF Dispatch, CancelQuarantined, ExecutionEnds, sessionVars, storeVars
  <2>4. Typed'
    BY <1>1, <2>1, <2>2, <2>3 DEF Typed
  <2>5. QED  BY <2>3, <2>4, RecordStep
<1>5. CASE \E s \in Sessions : Archive(s)
  BY <1>1, <1>5, RecordStep DEF Archive, Typed, storeVars
<1>6. QED  BY <1>2, <1>3, <1>4, <1>5

-----------------------------------------------------------------------------
(* The session pass *)

(* A notice is taken up for a parent it may reach. *)
LEMMA NotifyParentKeeps ==
    ASSUME WordInv, NEW k \in Lifecycle, NotifyParent(k)
    PROVE  Kept
<1>1. /\ k \in Keys /\ k \notin Policies /\ k \notin Runs /\ Bridge \in Procs
      /\ ParentOf[k] \in Sessions
  BY KindsAssumption, InboxAssumption
  DEF KindsAssumption, InboxAssumption, Keys, Procs, NotifyParent
<1>2. ParentOf[k] = Child => LeadsBack(k)
  BY <1>1, ChainGrows DEF LeadsBack
<1>3. UNCHANGED <<owner, ack, parked, queue>> /\ Typed'
  BY DEF NotifyParent, Typed, WordInv, TypeOK, sessionVars, storeVars
<1>4. CASE ParentOf[k] = Child /\ Begin(Bridge, "reject", k)
  BY <1>1, <1>2, <1>3, <1>4, BeginStep DEF Escalating, Noticing, Reconciling, Points
<1>5. CASE Begin(Bridge, "resolve", k)
  BY <1>1, <1>3, <1>5, BeginStep DEF Escalating, Noticing, Reconciling, Points
<1>6. QED  BY <1>4, <1>5 DEF NotifyParent

(* The live end of the parent's links: another session, or the child itself. *)
LEMMA ResolveKeeps == ASSUME WordInv, ResolveSuccessor  PROVE Kept
<1>1. /\ TypeOK /\ Bridge \in Procs /\ ProcInv(Bridge) /\ proc[Bridge].pc = "resolve"
      /\ proc \in [Procs -> ProcType]
      /\ UNCHANGED <<sessionVars, queue, storeVars, command, memory, faults>>
  BY DEF ResolveSuccessor, At, WordInv, TypeOK, Procs
<1>2. PICK k, s, t, pc : /\ k = proc[Bridge].key /\ s = ParentOf[k] /\ t = LiveSuccessor(s)
                         /\ pc = IF t = None THEN "wait" ELSE IF t = Child THEN "reject"
                                                                           ELSE "notify"
  OBVIOUS
<1>3. /\ k \in Lifecycle /\ s \in Sessions /\ k \notin Policies /\ k \notin Runs
      /\ None \notin Sessions
  BY <1>1, <1>2, KindsAssumption, InboxAssumption
  DEF KindsAssumption, InboxAssumption, ProcInv, Noticing
<1>4. t = None \/ (t \in Sessions /\ t \in ChainOf(owner, s))
  BY <1>2, <1>3, ChainsOfOwners, LastInChain
<1>5. /\ pc = "reject" => LeadsBack(k)
      /\ pc = "notify" => t \in Managers
  BY <1>2, <1>3, <1>4 DEF LeadsBack, Sessions
<1>6. proc' = [proc EXCEPT ![Bridge].to = t, ![Bridge].pc = pc]
  BY <1>2 DEF ResolveSuccessor
<1>7. PICK r : r = [proc[Bridge] EXCEPT !.to = t, !.pc = pc]
  OBVIOUS
<1>8. r \in ProcType /\ r.pc = pc /\ r.key = k
      /\ r.to = t /\ pc \in {"wait", "reject", "notify"}
  BY <1>1, <1>2, <1>4, <1>7 DEF ProcType
<1>9. proc' = [proc EXCEPT ![Bridge] = r] /\ proc'[Bridge] = r
  BY <1>1, <1>6, <1>7
<1>10. LeadsBack(k) => LeadsBack(k)'
  BY <1>1 DEF LeadsBack, sessionVars
<1>11. ProcInv(Bridge)'
  BY <1>3, <1>5, <1>8, <1>9, <1>10 DEF ProcInv, Escalating, Noticing, Reconciling
<1>12. faults' \in 0..MaxFaults
  BY <1>1 DEF TypeOK
<1>13. QED  BY <1>1, <1>3, <1>8, <1>9, <1>11, <1>12, PointMoves

(* What the bridge goes on to after a notice. *)
LEMMA OnwardRecord ==
    ASSUME WordInv, Onward, proc[Bridge].key \in Lifecycle
    PROVE  \E r \in ProcType :
              /\ proc' = [proc EXCEPT ![Bridge] = r] /\ ProcInv(Bridge)'
              /\ r.pc \in {"requeue", "idle"} /\ r.key \notin Runs
<1>1. TypeOK /\ Bridge \in Procs
  BY DEF WordInv, Procs
<1>2. CASE Goto(Bridge, "requeue")
  <2>1. PICK r \in ProcType : /\ proc' = [proc EXCEPT ![Bridge] = r] /\ proc'[Bridge] = r
                              /\ r.pc = "requeue" /\ r.key = proc[Bridge].key
    BY <1>1, <1>2, GotoRecord DEF Points
  <2>2. r.key \notin Policies /\ r.key \notin Runs
    BY <2>1, KindsAssumption DEF KindsAssumption
  <2>3. ProcInv(Bridge)'
    BY <2>1, <2>2 DEF ProcInv, Escalating, Noticing, Reconciling
  <2>4. QED  BY <2>1, <2>2, <2>3
<1>3. CASE Return(Bridge)
  <2>1. None \notin Runs
    BY InboxAssumption DEF InboxAssumption, Keys
  <2>2. QED  BY <1>1, <1>3, <2>1, ReturnRecord
<1>4. QED  BY <1>2, <1>3 DEF Onward

(* The bridge writes one notice's record. *)
LEMMA NoticeStep ==
    ASSUME WordInv, NEW k \in Lifecycle, k = proc[Bridge].key,
           NEW r \in ProcType, proc' = [proc EXCEPT ![Bridge] = r], ProcInv(Bridge)',
           r.key \in Runs => r.key = proc[Bridge].key, r.pc \notin {"begin", "preserve"},
           UNCHANGED <<owner, archived, queue, ack, order, policy, command, faults>>,
           memory' \in [told : SUBSET Lifecycle, requeued : BOOLEAN],
           parked' \in [Keys -> {"none", "parked", "resolved"}],
           \A l \in Keys : l # k => parked'[l] = parked[l],
           parked'[k] = "resolved" => parked[k] = "resolved" \/ Closed(k)
    PROVE  Kept
<1>1. Bridge \in Procs /\ k \in Keys /\ k \notin Policies
  BY KindsAssumption DEF KindsAssumption, Keys, Procs
<1>2. Writes(Bridge) /\ Typed'
  BY DEF Writes, Typed, WordInv, TypeOK
<1>3. ASSUME NEW l \in Keys, l = proc[Bridge].key
      PROVE  /\ ack'[l] # None => <<ack'[l], l>> \in queue'
             /\ l \in Lifecycle /\ parked'[l] = "resolved" => Closed(l)'
             /\ l \in Policies => ~(ack'[l] # None /\ parked'[l] # "none")
  <2>1. ack'[l] # None => <<ack'[l], l>> \in queue'
    BY DEF WordInv, AckInv
  <2>2. parked'[k] = "resolved" => Closed(k)
    BY DEF WordInv, ClosedInv
  <2>3. Closed(k) => Closed(k)'
    BY DEF Closed, LeadsBack
  <2>4. QED  BY <1>1, <1>3, <2>1, <2>2, <2>3
<1>4. WordInv'
  BY <1>1, <1>2, <1>3, Moved
<1>5. KeysKept
  BY <1>1, KeyStays
<1>6. QED  BY <1>4, <1>5 DEF Kept

(* A notice is resolved if it was parked. *)
LEMMA ResolvedRecord ==
    ASSUME TypeOK, NEW k \in Keys, parked' = Resolved(k)
    PROVE  /\ parked' \in [Keys -> {"none", "parked", "resolved"}]
           /\ \A l \in Keys : l # k => parked'[l] = parked[l]
  BY DEF TypeOK, Resolved

(* Nobody is there to be told: the notice is parked. *)
LEMMA ParkNoticeKeeps == ASSUME WordInv, ParkNotice  PROVE Kept
<1>1. /\ TypeOK /\ ProcInv(Bridge) /\ proc[Bridge].pc = "wait" /\ Onward
      /\ UNCHANGED <<owner, archived, queue, ack, order, policy, command, memory, faults>>
  BY DEF ParkNotice, At, WordInv, Procs, sessionVars
<1>2. PICK k : k = proc[Bridge].key
  OBVIOUS
<1>3. k \in Lifecycle /\ k \in Keys /\ parked' = Parked(k)
  BY <1>1, <1>2 DEF ProcInv, Noticing, Keys, ParkNotice
<1>4. PICK r \in ProcType :
              /\ proc' = [proc EXCEPT ![Bridge] = r] /\ ProcInv(Bridge)'
              /\ r.pc \in {"requeue", "idle"} /\ r.key \notin Runs
  BY <1>1, <1>2, <1>3, OnwardRecord
<1>5. /\ parked' \in [Keys -> {"none", "parked", "resolved"}]
      /\ \A l \in Keys : l # k => parked'[l] = parked[l]
      /\ parked'[k] = "resolved" => parked[k] = "resolved"
  BY <1>1, <1>3, ParkedRecord
<1>6. memory' \in [told : SUBSET Lifecycle, requeued : BOOLEAN]
  BY <1>1 DEF TypeOK
<1>7. QED  BY <1>1, <1>2, <1>3, <1>4, <1>5, <1>6, NoticeStep

(* The parent is told before its notice is closed. *)
LEMMA NotifyKeeps == ASSUME WordInv, Notify  PROVE Kept
<1>1. /\ TypeOK /\ Bridge \in Procs /\ ProcInv(Bridge) /\ proc[Bridge].pc = "notify"
      /\ UNCHANGED <<sessionVars, storeVars, command, memory>>
      /\ Fault \/ UNCHANGED faults
  BY DEF Notify, At, WordInv, Procs
<1>2. faults' \in 0..MaxFaults
  BY <1>1, FaultCounted
<1>3. PICK m : m = <<proc[Bridge].to, proc[Bridge].key>>
  OBVIOUS
<1>4. m \in Sessions \X (Keys \union Orders) /\ proc[Bridge].key \in Lifecycle
  BY <1>1, <1>3 DEF ProcInv, Sessions, Keys, Noticing
<1>5. queue \subseteq queue' /\ queue' \subseteq queue \union {m}
  BY <1>3 DEF Notify
<1>6. Typed'
  BY <1>1, <1>2, <1>4, <1>5 DEF Typed, TypeOK, sessionVars, storeVars
<1>7. CASE Return(Bridge)
  BY <1>1, <1>5, <1>6, <1>7, ReturnStep DEF sessionVars, storeVars
<1>8. CASE Goto(Bridge, "close") /\ queue' = queue \union {m}
  <2>1. PICK r \in ProcType :
           /\ proc' = [proc EXCEPT ![Bridge] = r] /\ proc'[Bridge] = r
           /\ r.pc = "close" /\ r.key = proc[Bridge].key /\ r.to = proc[Bridge].to
    BY <1>1, <1>8, GotoRecord DEF Points
  <2>2. r.key \notin Policies
    BY <1>4, <2>1, KindsAssumption DEF KindsAssumption
  <2>3. ProcInv(Bridge)'
    BY <1>1, <1>3, <1>8, <2>1, <2>2 DEF ProcInv, Escalating, Noticing, Reconciling
  <2>4. QED
    BY <1>1, <1>5, <1>6, <2>1, <2>3, QuietMove, KeyStays DEF Kept, sessionVars, storeVars
<1>9. QED  BY <1>3, <1>7, <1>8 DEF Notify

(* It is closed because it is queued, or because it leads back. *)
LEMMA CloseKeeps == ASSUME WordInv, CloseNotice \/ DropNotice  PROVE Kept
<1>1. /\ TypeOK /\ ProcInv(Bridge) /\ proc[Bridge].pc \in {"close", "drop"} /\ Onward
      /\ UNCHANGED <<owner, archived, queue, ack, order, policy, command, faults>>
  BY DEF CloseNotice, DropNotice, At, WordInv, Procs, sessionVars
<1>2. PICK k : k = proc[Bridge].key
  OBVIOUS
<1>3. /\ k \in Lifecycle /\ k \in Keys /\ parked' = Resolved(k)
      /\ memory' = [memory EXCEPT !.told = @ \union {k}]
  BY <1>1, <1>2 DEF ProcInv, Noticing, Keys, CloseNotice, DropNotice
<1>4. PICK r \in ProcType :
              /\ proc' = [proc EXCEPT ![Bridge] = r] /\ ProcInv(Bridge)'
              /\ r.pc \in {"requeue", "idle"} /\ r.key \notin Runs
  BY <1>1, <1>2, <1>3, OnwardRecord
<1>5. /\ parked' \in [Keys -> {"none", "parked", "resolved"}]
      /\ \A l \in Keys : l # k => parked'[l] = parked[l]
  BY <1>1, <1>3, ResolvedRecord
<1>6. memory' \in [told : SUBSET Lifecycle, requeued : BOOLEAN]
  BY <1>1, <1>3 DEF TypeOK
<1>7. Closed(k)
  BY <1>1, <1>2 DEF ProcInv, Closed
<1>8. QED  BY <1>1, <1>2, <1>3, <1>4, <1>5, <1>6, <1>7, NoticeStep

(* A child is never its own parent. *)
LEMMA RejectKeeps == ASSUME WordInv, RejectRoute  PROVE Kept
<1>1. /\ TypeOK /\ Bridge \in Procs /\ ProcInv(Bridge) /\ proc[Bridge].pc = "reject"
      /\ Goto(Bridge, "drop")
      /\ UNCHANGED <<owner, archived, queue, ack, order, policy, command, memory, faults>>
  BY DEF RejectRoute, At, WordInv, Procs, sessionVars
<1>2. PICK k : k = proc[Bridge].key
  OBVIOUS
<1>3. /\ k \in Lifecycle /\ k \in Keys /\ parked' = Parked(k) /\ LeadsBack(k)
      /\ k \notin Policies /\ k \notin Runs
  BY <1>1, <1>2, KindsAssumption DEF KindsAssumption, ProcInv, Noticing, Keys, RejectRoute
<1>4. PICK r \in ProcType :
              /\ proc' = [proc EXCEPT ![Bridge] = r] /\ proc'[Bridge] = r
              /\ r.pc = "drop" /\ r.key = k
  BY <1>1, <1>2, GotoRecord DEF Points
<1>5. /\ parked' \in [Keys -> {"none", "parked", "resolved"}]
      /\ \A l \in Keys : l # k => parked'[l] = parked[l]
      /\ parked'[k] = "resolved" => parked[k] = "resolved"
  BY <1>1, <1>3, ParkedRecord
<1>6. memory' \in [told : SUBSET Lifecycle, requeued : BOOLEAN]
  BY <1>1 DEF TypeOK
<1>7. LeadsBack(k)'
  BY <1>1, <1>3 DEF LeadsBack
<1>8. ProcInv(Bridge)'
  BY <1>3, <1>4, <1>7 DEF ProcInv, Escalating, Noticing, Reconciling
<1>9. QED  BY <1>1, <1>2, <1>3, <1>4, <1>5, <1>6, <1>8, NoticeStep

(* An interrupted command is queued again, once. *)
LEMMA RequeueKeeps == ASSUME WordInv, Requeue  PROVE Kept
<1>1. /\ Bridge \in Procs /\ Return(Bridge)
      /\ UNCHANGED <<sessionVars, queue, storeVars, faults>>
  BY DEF Requeue, Procs
<1>2. memory' \in [told : SUBSET Lifecycle, requeued : BOOLEAN]
  BY DEF Requeue, WordInv, TypeOK
<1>3. command' \in [ state : {"pending", "claimed", "done", "cancelled"},
                     execution : {"none", "running", "ended"} ]
  BY DEF Requeue, WordInv, TypeOK
<1>4. Typed'
  BY <1>1, <1>2, <1>3 DEF Typed, WordInv, TypeOK, sessionVars, storeVars
<1>5. QED  BY <1>1, <1>4, ReturnStep DEF sessionVars, storeVars

(* A signal is taken up if its key was never recorded. *)
LEMMA SignalKeeps ==
    ASSUME WordInv, NEW k \in Policies, Signal(k)
    PROVE  Kept
<1>1. /\ k \in Keys /\ k \notin Runs /\ Bridge \in Procs /\ "look" \in Points
      /\ ack[k] = None /\ parked[k] = "none"
  BY KindsAssumption DEF KindsAssumption, Keys, Procs, Signal, Recorded, Points
<1>2. Begin(Bridge, "look", k) /\ UNCHANGED <<owner, ack, parked, queue>> /\ Typed'
  BY DEF Signal, Typed, WordInv, TypeOK, sessionVars, storeVars
<1>3. QED  BY <1>1, <1>2, BeginStep DEF Escalating, Noticing, Reconciling

-----------------------------------------------------------------------------
(* The world *)

(* Links are only added, so that what led back to the child still does. *)
LEMMA OwnersKeep ==
    ASSUME WordInv, NEW s \in Sessions, Retire(s) \/ \E t \in Sessions : LinkSuccessor(s, t)
    PROVE  Kept
<1>1. /\ owner \in [Sessions -> {"live", "retired"} \union Sessions]
      /\ UNCHANGED <<archived, queue, storeVars, command, memory, proc, faults>>
  BY DEF WordInv, TypeOK, Retire, LinkSuccessor
<1>2. PICK v \in {"live", "retired"} \union Sessions :
         owner' = [owner EXCEPT ![s] = v] /\ owner[s] \in {"live", "retired"}
  BY DEF Retire, LinkSuccessor
<1>3. /\ owner' \in [Sessions -> {"live", "retired"} \union Sessions]
      /\ \A t \in Sessions : owner[t] \in Sessions => owner'[t] = owner[t]
  BY <1>1, <1>2, KindsAssumption DEF KindsAssumption
<1>4. ASSUME NEW k, LeadsBack(k)  PROVE LeadsBack(k)'
  <2>1. PICK o, u : o = owner /\ u = owner'
    OBVIOUS
  <2>2. PICK a \in Sessions : a = ParentOf[k]
    BY <1>4 DEF LeadsBack
  <2>3. ChainOf(o, a) \subseteq ChainOf(u, a)
    BY <1>3, <2>1, ChainGrows
  <2>4. QED  BY <1>4, <2>1, <2>2, <2>3 DEF LeadsBack
<1>5. TypeOK'
  BY <1>1, <1>3 DEF WordInv, TypeOK, storeVars
<1>6. ASSUME NEW q \in Procs  PROVE ProcInv(q)'
  <2>1. PICK k : k = proc[q].key
    OBVIOUS
  <2>2. LeadsBack(k) => LeadsBack(k)'
    BY <1>4
  <2>3. ProcInv(q)
    BY DEF WordInv
  <2>4. proc' = proc /\ ack' = ack /\ parked' = parked /\ queue' = queue
    BY <1>1 DEF storeVars
  <2>5. proc[q].pc \in {"reject", "drop"} => LeadsBack(k)'
    BY <2>1, <2>2, <2>3 DEF ProcInv
  <2>6. proc'[q].pc \in {"reject", "drop"} => LeadsBack(proc[q].key)'
    BY <2>1, <2>4, <2>5 DEF LeadsBack
  <2>7. QED  BY <2>3, <2>4, <2>6 DEF ProcInv
<1>7. ClosedInv'
  <2>1. ASSUME NEW k \in Lifecycle, parked[k] = "resolved"  PROVE Closed(k)'
    <3>1. Closed(k) /\ (LeadsBack(k) => LeadsBack(k)')
      BY <1>4, <2>1 DEF WordInv, ClosedInv
    <3>2. QED  BY <1>1, <3>1 DEF Closed
  <2>2. QED  BY <1>1, <2>1 DEF ClosedInv, storeVars
<1>8. AckInv' /\ SignalOnce'
  BY <1>1 DEF WordInv, AckInv, SignalOnce, storeVars
<1>9. QED
  BY <1>1, <1>5, <1>6, <1>7, <1>8 DEF Kept, WordInv, KeysKept, storeVars

(* A process that dies has no message; what it has queued stays. *)
LEMMA CrashKeeps == ASSUME WordInv, NEW p \in Procs, Crash(p)  PROVE Kept
<1>1. faults' \in 0..MaxFaults
  BY FaultCounted DEF Crash, WordInv
<1>2. Typed'
  BY <1>1 DEF Crash, Typed, WordInv, TypeOK, sessionVars, storeVars
<1>3. QED  BY <1>2, ReturnStep DEF Crash, sessionVars, storeVars

(* Every step of the inbox. *)
LEMMA InboxNextKeeps == ASSUME WordInv, InboxNext  PROVE Kept
<1>1. ASSUME NEW p \in Procs, Escalate(p) \/ SatisfyOrders(p) \/ Ask(p) \/ Crash(p)  PROVE Kept
  BY <1>1, LookKeeps, SendKeeps, AcknowledgeKeeps, ParkKeeps, SatisfyKeeps, AskKeeps, CrashKeeps
  DEF Escalate
<1>2. ASSUME NEW p \in Commands,
             (\E k \in Reports : Report(p, k)) \/ \E o \in Orders : ExpectOrder(p, o)
      PROVE  Kept
  BY <1>2, ReportKeeps, ExpectKeeps
<1>3. CASE SessionPass
  BY <1>3, NotifyParentKeeps, ResolveKeeps, ParkNoticeKeeps, NotifyKeeps, CloseKeeps, RejectKeeps,
     RequeueKeeps, RecordsKeep, SignalKeeps DEF SessionPass
<1>4. ASSUME NEW s \in Sessions, Retire(s) \/ Archive(s) \/ \E t \in Sessions : LinkSuccessor(s, t)
      PROVE  Kept
  BY <1>4, OwnersKeep, RecordsKeep
<1>5. CASE \/ \E o \in Orders : AcknowledgeOrder(o)
           \/ \E c \in SUBSET Policies : SetPolicy(c) \/ Observe(c)
           \/ ExecutionEnds
  BY <1>5, RecordsKeep
<1>6. QED  BY <1>1, <1>2, <1>3, <1>4, <1>5 DEF InboxNext

-----------------------------------------------------------------------------
(* The subscriptions. *)

(* A row's version bounds how far it came, and an open one has no outcome. *)
RowOK(v) ==
    /\ v.state # "none" => v.root \in Roots
    /\ v.state \in {"none", "subscribed"} => v.version = 0
    /\ v.state = "running" => v.version = 1
    /\ v.state \in {"terminal", "lost"} => v.version <= 2
    /\ v.state = "delivering" => v.version <= 3
    /\ v.state \in {"none", "subscribed", "running"} => v.outcome = None /\ v.digest = None

(* A subscription holds its lease while it is open, and is notified once its outcome is acknowledged. *)
RunInv(r) ==
    /\ RowOK(run[r])
    /\ lease[r] = "active" <=> run[r].state \notin {"none", "notified"}
    /\ run[r].state = "notified" => ack[r] # None

(* A row that was read is the row that is there, unless the versions differ. *)
CaseInv(p) ==
    LET r == proc[p].key
        v == case[p].row
    IN  r \in Runs =>
          /\ v.state # "none" /\ v.root \in Roots
          /\ v.version <= run[r].version
          /\ v.version = run[r].version => v = run[r]
          /\ proc[p].pc = "begin" => v.state \in {"terminal", "lost", "delivering"}
          /\ proc[p].pc = "preserve" => case[p].found \in Outcomes

(* The types of the subscriptions and of what is around them. *)
RunsTyped ==
    /\ run \in [Runs -> RunType]
    /\ lease \in [Runs -> {"none", "active", "released"}]
    /\ process \in [Runs -> {"none", "alive", "gone"}]
    /\ receipt \in [Roots -> FileType]
    /\ case \in [Procs -> CaseType]

(* The part of the invariant about subscriptions. *)
RunsInv == /\ RunsTyped
           /\ \A r \in Runs : RunInv(r)
           /\ \A p \in Procs : CaseInv(p)

(* The inductive invariant. *)
IInv == WordInv /\ RunsInv

(* The row v becomes w: as it was, or of a later version with the outcome    *)
(* it had.                                                                  *)
Later(v, w) ==
    w = v \/ /\ w.version > v.version
             /\ v.outcome # None => w.outcome = v.outcome /\ w.digest = v.digest

(* What a step does to the outcomes: a recorded one stays. *)
OutcomesStay ==
    \A r \in Runs : run[r].outcome # None =>
        run'[r].outcome = run[r].outcome /\ run'[r].digest = run[r].digest

(* What there is before any subscription has the types of one. *)
LEMMA NoRunTyped == NoRun \in RunType /\ NoCase \in CaseType /\ NoFile \in FileType
<1>1. PICK v : v = NoRun
  OBVIOUS
<1>2. v \in RunType
  BY <1>1 DEF NoRun, RunType
<1>3. NoCase \in CaseType
  BY <1>1, <1>2 DEF NoCase, CaseType
<1>4. NoFile \in FileType
  BY DEF NoFile, FileType
<1>5. QED  BY <1>1, <1>2, <1>3, <1>4

(* The states of a subscription. *)
RunStates == {"none", "subscribed", "running", "terminal", "lost", "delivering", "notified"}

(* _transition: the next version of a row. *)
Stepped(v, state) == [v EXCEPT !.state = state, !.version = v.version + 1]

(* It is a row, and differs in nothing else. *)
LEMMA NextVersion ==
    ASSUME NEW v \in RunType, NEW state \in RunStates, v.version + 1 \in 0..4
    PROVE  LET w == Stepped(v, state) IN
           /\ w \in RunType /\ w.state = state /\ w.version = v.version + 1
           /\ w.outcome = v.outcome /\ w.digest = v.digest /\ w.root = v.root
<1>1. PICK n \in 0..4 : n = v.version + 1
  OBVIOUS
<1>2. PICK w : w = [v EXCEPT !.state = state, !.version = n]
  OBVIOUS
<1>3. /\ w \in RunType /\ w.state = state /\ w.version = n
      /\ w.outcome = v.outcome /\ w.digest = v.digest /\ w.root = v.root
  BY <1>2 DEF RunType, RunStates
<1>4. w = Stepped(v, state)
  BY <1>1, <1>2 DEF Stepped
<1>5. QED  BY <1>1, <1>3, <1>4

(* What was read of a run stays true while rows only get later versions. *)
LEMMA CaseKeeps ==
    ASSUME RunsInv, NEW q \in Procs, proc'[q] = proc[q], case'[q] = case[q],
           run' \in [Runs -> RunType], \A r \in Runs : Later(run[r], run'[r])
    PROVE  CaseInv(q)'
<1>1. SUFFICES ASSUME proc[q].key \in Runs
               PROVE  CaseInv(q)'
  BY DEF CaseInv
<1>2. PICK r \in Runs : r = proc[q].key
  BY <1>1
<1>3. PICK v \in RunType : v = case[q].row
  BY DEF RunsInv, RunsTyped, CaseType
<1>4. PICK x, y : x = run[r] /\ y = run'[r]
  OBVIOUS
<1>5. x \in RunType /\ y \in RunType /\ Later(x, y)
  BY <1>4 DEF RunsInv, RunsTyped
<1>6. /\ v.state # "none" /\ v.root \in Roots /\ v.version <= x.version /\ (v.version = x.version => v = x)
      /\ proc[q].pc = "begin" => v.state \in {"terminal", "lost", "delivering"}
      /\ proc[q].pc = "preserve" => case[q].found \in Outcomes
  BY <1>2, <1>3, <1>4 DEF RunsInv, CaseInv
<1>7. v.version \in Nat /\ x.version \in Nat /\ y.version \in Nat
  BY <1>3, <1>5 DEF RunType
<1>8. v.version <= y.version /\ (v.version = y.version => v = y)
  BY <1>5, <1>6, <1>7 DEF Later
<1>9. QED  BY <1>2, <1>3, <1>4, <1>6, <1>8 DEF CaseInv

(* A step of a runner: no process moves. *)
LEMMA RunnerStep ==
    ASSUME IInv, KeepInbox, UNCHANGED <<proc, case>>, faults' \in 0..MaxFaults,
           RunsTyped', \A r \in Runs : RunInv(r)', \A r \in Runs : Later(run[r], run'[r])
    PROVE  IInv' /\ OutcomesStay
<1>1. WordInv'
  <2>1. Typed' /\ UNCHANGED <<owner, queue, ack, parked>>
    BY DEF Typed, IInv, WordInv, TypeOK, KeepInbox, sessionVars, storeVars
  <2>2. QED  BY <2>1, RecordStep DEF IInv, Kept
<1>2. \A p \in Procs : CaseInv(p)'
  BY CaseKeeps DEF IInv, RunsTyped
<1>3. OutcomesStay
  BY DEF OutcomesStay, Later
<1>4. QED  BY <1>1, <1>2, <1>3 DEF IInv, RunsInv

(* A step of a process p at a run, which leaves it with the record x. *)
LEMMA RunStep ==
    ASSUME IInv, NEW p \in Procs, NEW x \in ProcType, proc' = [proc EXCEPT ![p] = x],
           KeepInbox, faults' \in 0..MaxFaults, RunsTyped',
           \A r \in Runs : RunInv(r)', \A r \in Runs : Later(run[r], run'[r]),
           \A q \in Procs : q # p => case'[q] = case[q],
           ProcInv(p)', CaseInv(p)'
    PROVE  IInv' /\ OutcomesStay
<1>1. WordInv'
  <2>1. Typed' /\ UNCHANGED <<owner, queue, ack, parked>>
    BY DEF Typed, IInv, WordInv, TypeOK, KeepInbox, sessionVars, storeVars
  <2>2. QED  BY <2>1, QuietMove DEF IInv
<1>2. ASSUME NEW q \in Procs  PROVE CaseInv(q)'
  <2>1. CASE q = p
    BY <2>1
  <2>2. CASE q # p
    <3>1. proc'[q] = proc[q]
      BY <2>2 DEF IInv, WordInv, TypeOK
    <3>2. QED  BY <2>2, <3>1, CaseKeeps DEF IInv, RunsTyped
  <2>3. QED  BY <2>1, <2>2
<1>3. OutcomesStay
  BY DEF OutcomesStay, Later
<1>4. QED  BY <1>1, <1>2, <1>3 DEF IInv, RunsInv

(* The inbox moves the messages; the run of one stays with its process. *)
LEMMA InboxStepKeeps == IInv /\ InboxStep => IInv' /\ OutcomesStay
<1>1. SUFFICES ASSUME IInv, InboxStep  PROVE IInv' /\ OutcomesStay
  OBVIOUS
<1>2. /\ WordInv' /\ KeysKept /\ UNCHANGED <<run, lease, process, receipt>>
      /\ case' = [p \in Procs |-> IF proc'[p].pc = "idle" THEN NoCase ELSE case[p]]
  BY <1>1, InboxNextKeeps DEF IInv, InboxStep, Kept
<1>3. RunsTyped'
  BY <1>1, <1>2, NoRunTyped DEF RunsTyped, IInv, RunsInv
<1>4. \A r \in Runs : RunInv(r)'
  <2>1. \A r \in Runs : r \in Keys
    BY DEF Keys
  <2>2. QED  BY <1>1, <1>2, <2>1 DEF IInv, RunsInv, RunInv, KeysKept
<1>5. ASSUME NEW p \in Procs  PROVE CaseInv(p)'
  <2>1. CASE proc'[p].key \notin Runs
    BY <2>1 DEF CaseInv
  <2>2. CASE proc'[p].key \in Runs
    <3>1. proc'[p].pc # "idle"
      <4>1. None \notin Runs
        BY InboxAssumption DEF InboxAssumption, Keys
      <4>2. QED  BY <1>2, <2>2, <4>1 DEF WordInv, ProcInv
    <3>2. /\ case'[p] = case[p] /\ proc'[p].key = proc[p].key
          /\ proc'[p].pc \in {"begin", "preserve"} => proc'[p] = proc[p]
      BY <1>2, <2>2, <3>1 DEF KeysKept
    <3>3. CaseInv(p)
      BY <1>1 DEF IInv, RunsInv
    <3>4. QED  BY <1>2, <2>2, <3>2, <3>3 DEF CaseInv
  <2>3. QED  BY <2>1, <2>2
<1>6. OutcomesStay
  BY <1>2 DEF OutcomesStay
<1>7. QED  BY <1>2, <1>3, <1>4, <1>5, <1>6 DEF IInv, RunsInv

-----------------------------------------------------------------------------
(* Runners *)

(* Nobody looks at a run that is not subscribed. *)
LEMMA SubscribeKeeps ==
    ASSUME IInv, NEW r \in Runs, NEW d \in Roots, Subscribe(r, d)
    PROVE  IInv' /\ OutcomesStay
<1>1. /\ KeepInbox /\ UNCHANGED <<proc, faults, process, receipt, case>>
      /\ run[r].state = "none" /\ lease' = [lease EXCEPT ![r] = "active"]
      /\ run \in [Runs -> RunType] /\ lease \in [Runs -> {"none", "active", "released"}]
      /\ run[r] \in RunType
  BY DEF Subscribe, IInv, RunsInv, RunsTyped
<1>2. PICK w : w = [NoRun EXCEPT !.state = "subscribed", !.root = d]
  OBVIOUS
<1>3. /\ w \in RunType /\ w.state = "subscribed" /\ w.version = 0
      /\ w.outcome = None /\ w.digest = None /\ w.root = d
  <2>1. PICK v \in RunType : v = NoRun /\ v.version = 0 /\ v.outcome = None /\ v.digest = None
    BY NoRunTyped DEF NoRun
  <2>2. w = [v EXCEPT !.state = "subscribed", !.root = d]
    BY <1>2, <2>1
  <2>3. QED  BY <2>1, <2>2 DEF RunType
<1>4. run' = [run EXCEPT ![r] = w]
  BY <1>2 DEF Subscribe
<1>5. run' \in [Runs -> RunType] /\ run'[r] = w /\ \A s \in Runs : s # r => run'[s] = run[s]
  BY <1>1, <1>3, <1>4
<1>6. RunsTyped'
  BY <1>1, <1>5 DEF RunsTyped, IInv, RunsInv
<1>7. ASSUME NEW s \in Runs  PROVE RunInv(s)'
  <2>1. RunInv(s) /\ ack' = ack
    BY <1>1 DEF IInv, RunsInv, KeepInbox, storeVars
  <2>2. QED  BY <1>1, <1>3, <1>5, <2>1 DEF RunInv, RowOK
<1>8. ASSUME NEW p \in Procs  PROVE CaseInv(p)'
  <2>1. CaseInv(p) /\ RunInv(r)
    BY DEF IInv, RunsInv
  <2>2. PICK v \in RunType : v = case[p].row
    BY DEF IInv, RunsInv, RunsTyped, CaseType
  <2>3. proc[p].key # r
    <3>1. SUFFICES ASSUME proc[p].key = r  PROVE FALSE
      OBVIOUS
    <3>2. v.state # "none" /\ v.version <= 0 /\ (v.version = 0 => v = run[r])
      BY <1>1, <2>1, <2>2, <3>1 DEF CaseInv, RunInv, RowOK
    <3>3. v.version = 0
      BY <2>2, <3>2 DEF RunType
    <3>4. QED  BY <1>1, <3>2, <3>3
  <2>4. QED  BY <1>1, <1>5, <2>1, <2>3 DEF CaseInv
<1>9. WordInv'
  <2>1. Typed' /\ UNCHANGED <<owner, queue, ack, parked>>
    BY <1>1 DEF Typed, IInv, WordInv, TypeOK, KeepInbox, sessionVars, storeVars
  <2>2. QED  BY <1>1, <2>1, RecordStep DEF IInv, Kept
<1>10. OutcomesStay
  BY <1>1, <1>5 DEF OutcomesStay, IInv, RunsInv, RunInv, RowOK
<1>11. QED  BY <1>6, <1>7, <1>8, <1>9, <1>10 DEF IInv, RunsInv

(* A runner binds its process: a later version of an open row. *)
LEMMA BindKeeps == ASSUME IInv, NEW r \in Runs, Bind(r)  PROVE IInv' /\ OutcomesStay
<1>1. /\ KeepInbox /\ UNCHANGED <<proc, faults, lease, process, receipt, case>>
      /\ run[r].state = "subscribed" /\ run \in [Runs -> RunType] /\ run[r] \in RunType
      /\ RunInv(r) /\ faults \in 0..MaxFaults
  BY DEF Bind, IInv, WordInv, TypeOK, RunsInv, RunsTyped
<1>2. run[r].version = 0 /\ run[r].outcome = None /\ run[r].digest = None
  BY <1>1 DEF RunInv, RowOK
<1>3. PICK v \in RunType : v = run[r]
  BY <1>1
<1>4. PICK w : w = Stepped(v, "running")
  OBVIOUS
<1>5. /\ w \in RunType /\ w.state = "running" /\ w.version = 1 /\ w.root = run[r].root
      /\ w.outcome = None /\ w.digest = None /\ run' = [run EXCEPT ![r] = w]
  <2>1. v.version = 0 /\ v.version + 1 \in 0..4 /\ "running" \in RunStates
    BY <1>2, <1>3 DEF RunStates
  <2>2. w \in RunType /\ w.state = "running" /\ w.version = 1 /\ w.outcome = None
        /\ w.digest = None /\ w.root = run[r].root
    BY <1>2, <1>3, <1>4, <2>1, NextVersion
  <2>3. run' = [run EXCEPT ![r] = w]
    BY <1>1, <1>3, <1>4 DEF Bind, Stepped
  <2>4. QED  BY <2>1, <2>2, <2>3
<1>6. run' \in [Runs -> RunType] /\ run'[r] = w /\ \A s \in Runs : s # r => run'[s] = run[s]
  BY <1>1, <1>5
<1>7. RunsTyped'
  BY <1>1, <1>6 DEF RunsTyped, IInv, RunsInv
<1>8. \A s \in Runs : RunInv(s)'
  BY <1>1, <1>5, <1>6 DEF IInv, RunsInv, RunInv, RowOK, KeepInbox, storeVars
<1>9. \A s \in Runs : Later(run[s], run'[s])
  BY <1>2, <1>5, <1>6 DEF Later
<1>10. QED  BY <1>1, <1>7, <1>8, <1>9, RunnerStep

(* Processes and receipts are of no row. *)
LEMMA RunnersKeep ==
    ASSUME IInv,
           \/ \E r \in Runs : StartProcess(r) \/ WriteReceipt(r) \/ ProcessEnds(r)
           \/ \E d \in Roots : EmptyRoot(d)
    PROVE  IInv' /\ OutcomesStay
<1>1. KeepInbox /\ UNCHANGED <<proc, run, lease, case>>
  BY DEF StartProcess, WriteReceipt, ProcessEnds, EmptyRoot
<1>2. /\ process \in [Runs -> {"none", "alive", "gone"}] /\ receipt \in [Roots -> FileType]
      /\ run \in [Runs -> RunType] /\ TypeOK
  BY DEF IInv, WordInv, RunsInv, RunsTyped
<1>3. faults' \in 0..MaxFaults
  BY <1>2, FaultCounted DEF StartProcess, WriteReceipt, ProcessEnds, EmptyRoot
<1>4. process' \in [Runs -> {"none", "alive", "gone"}]
  BY <1>2 DEF StartProcess, WriteReceipt, ProcessEnds, EmptyRoot
<1>5. receipt' \in [Roots -> FileType]
  <2>1. CASE \E r \in Runs : StartProcess(r) \/ ProcessEnds(r)
    BY <1>2, <2>1 DEF StartProcess, ProcessEnds
  <2>2. CASE \E d \in Roots : EmptyRoot(d)
    BY <1>2, <2>2, NoRunTyped DEF EmptyRoot
  <2>3. CASE \E r \in Runs : WriteReceipt(r)
    <3>1. PICK r \in Runs : WriteReceipt(r)
      BY <2>3
    <3>2. PICK d \in Roots : d = run[r].root
      BY <1>2, <3>1 DEF WriteReceipt, RunType
    <3>3. PICK f : f = [by |-> r, says |-> "torn"]
      OBVIOUS
    <3>4. f \in FileType
      BY <3>3 DEF FileType
    <3>5. \/ receipt' = [receipt EXCEPT ![d] = f]
          \/ \E o \in Outcomes : receipt' = [receipt EXCEPT ![d].says = o]
      BY <3>1, <3>2, <3>3 DEF WriteReceipt, Outcomes
    <3>6. QED  BY <1>2, <3>4, <3>5 DEF FileType
  <2>4. QED  BY <2>1, <2>2, <2>3
<1>6. RunsTyped'
  BY <1>1, <1>4, <1>5 DEF IInv, RunsInv, RunsTyped
<1>7. \A r \in Runs : RunInv(r)' /\ Later(run[r], run'[r])
  BY <1>1 DEF IInv, RunsInv, RunInv, Later, KeepInbox, storeVars
<1>8. QED  BY <1>1, <1>3, <1>6, <1>7, RunnerStep

-----------------------------------------------------------------------------
(* reconcile_one *)

(* A look that changes no row. *)
LEMMA CaseStep ==
    ASSUME IInv, NEW p \in Procs, NEW x \in ProcType, proc' = [proc EXCEPT ![p] = x],
           KeepInbox, UNCHANGED <<run, lease, process, receipt>>, faults' \in 0..MaxFaults,
           NEW c \in CaseType, case' = [case EXCEPT ![p] = c], ProcInv(p)', CaseInv(p)'
    PROVE  IInv' /\ OutcomesStay
<1>1. RunsTyped' /\ \A q \in Procs : q # p => case'[q] = case[q]
  BY DEF IInv, RunsInv, RunsTyped
<1>2. \A r \in Runs : RunInv(r)' /\ Later(run[r], run'[r])
  BY DEF IInv, RunsInv, RunInv, Later, KeepInbox, storeVars
<1>3. QED  BY <1>1, <1>2, RunStep

(* A pass over a run that ends. *)
LEMMA AbandonRecord ==
    ASSUME IInv, NEW p \in Procs, Abandon(p)
    PROVE  /\ \E x \in ProcType : proc' = [proc EXCEPT ![p] = x]
           /\ ProcInv(p)' /\ CaseInv(p)'
           /\ \E c \in CaseType : case' = [case EXCEPT ![p] = c]
<1>1. Return(p) /\ case' = [case EXCEPT ![p] = NoCase]
  BY DEF Abandon
<1>2. PICK x \in ProcType : /\ proc' = [proc EXCEPT ![p] = x] /\ x.key = None /\ ProcInv(p)'
  BY <1>1, ReturnRecord DEF IInv, WordInv
<1>3. proc'[p].key = None /\ None \notin Runs
  BY <1>2, InboxAssumption DEF InboxAssumption, Keys, IInv, WordInv, TypeOK
<1>4. CaseInv(p)'
  BY <1>3 DEF CaseInv
<1>5. QED  BY <1>1, <1>2, <1>4, NoRunTyped

(* An abandoned pass that changed no row. *)
LEMMA AbandonStep ==
    ASSUME IInv, NEW p \in Procs, Abandon(p), KeepInbox,
           UNCHANGED <<run, lease, process, receipt>>, faults' \in 0..MaxFaults
    PROVE  IInv' /\ OutcomesStay
<1>1. PICK x \in ProcType : proc' = [proc EXCEPT ![p] = x]
  BY AbandonRecord
<1>2. PICK c \in CaseType : case' = [case EXCEPT ![p] = c]
  BY AbandonRecord
<1>3. QED  BY <1>1, <1>2, AbandonRecord, CaseStep

(* A process goes on with the run it has, to another look at it. *)
LEMMA GoOn ==
    ASSUME IInv, NEW p \in Procs, NEW pc \in Points, Goto(p, pc), proc[p].key \in Runs,
           UNCHANGED <<ack, parked, queue, owner>>,
           pc \in {"probe", "lose", "preserve", "begin", "look"}
    PROVE  /\ \E x \in ProcType : proc' = [proc EXCEPT ![p] = x]
           /\ proc'[p].key = proc[p].key /\ proc'[p].pc = pc /\ ProcInv(p)'
<1>1. PICK x \in ProcType : /\ proc' = [proc EXCEPT ![p] = x] /\ proc'[p] = x
                            /\ x.pc = pc /\ x.key = proc[p].key
  BY GotoRecord DEF IInv, WordInv
<1>2. x.key \notin Policies
  BY <1>1, KindsAssumption DEF KindsAssumption
<1>3. ProcInv(p)'
  BY <1>1, <1>2 DEF ProcInv, Escalating, Noticing, Reconciling
<1>4. QED  BY <1>1, <1>3

(* One row gets its next version, and its directory stays leased. *)
LEMMA RowStep ==
    ASSUME IInv, NEW r \in Runs, NEW w \in RunType, run' = [run EXCEPT ![r] = w],
           Later(run[r], w), RowOK(w), UNCHANGED <<lease, ack>>,
           run[r].state \notin {"none", "notified"}, w.state \notin {"none", "notified"}
    PROVE  /\ run' \in [Runs -> RunType] /\ run'[r] = w
           /\ \A s \in Runs : RunInv(s)' /\ Later(run[s], run'[s])
<1>1. run \in [Runs -> RunType]
  BY DEF IInv, RunsInv, RunsTyped
<1>2. run' \in [Runs -> RunType] /\ run'[r] = w /\ \A s \in Runs : s # r => run'[s] = run[s]
  BY <1>1
<1>3. ASSUME NEW s \in Runs  PROVE RunInv(s)' /\ Later(run[s], run'[s])
  <2>1. RunInv(s)
    BY DEF IInv, RunsInv
  <2>2. QED  BY <1>2, <2>1 DEF RunInv, Later
<1>4. QED  BY <1>2, <1>3

(* The row is read. *)
LEMMA ReconcileKeeps ==
    ASSUME IInv, NEW p \in Procs, NEW r \in Runs, Reconcile(p, r)
    PROVE  IInv' /\ OutcomesStay
<1>1. /\ KeepInbox /\ UNCHANGED <<faults, run, lease, process, receipt>>
      /\ run[r].state # "none" /\ Begin(p, "read", r)
      /\ case' = [case EXCEPT ![p] = [NoCase EXCEPT !.row = run[r]]]
      /\ TypeOK /\ run[r] \in RunType /\ r \in Keys \union Orders /\ "read" \in Points
  BY DEF Reconcile, IInv, WordInv, RunsInv, RunsTyped, Keys, Points
<1>2. PICK x \in ProcType : /\ proc' = [proc EXCEPT ![p] = x] /\ proc'[p] = x
                            /\ x.pc = "read" /\ x.key = r
  BY <1>1, BeginRecord
<1>3. PICK c : c = [NoCase EXCEPT !.row = run[r]]
  OBVIOUS
<1>4. c \in CaseType /\ c.row = run[r]
  <2>1. PICK d \in CaseType : d = NoCase
    BY NoRunTyped
  <2>2. c = [d EXCEPT !.row = run[r]]
    BY <1>3, <2>1
  <2>3. QED  BY <1>1, <2>2 DEF CaseType
<1>5. case'[p] = c /\ case' = [case EXCEPT ![p] = c]
  BY <1>1, <1>3 DEF IInv, RunsInv, RunsTyped
<1>6. run[r].version <= run[r].version /\ run[r].root \in Roots
  BY <1>1 DEF RunType, IInv, RunsInv, RunInv, RowOK
<1>7. CaseInv(p)'
  BY <1>1, <1>2, <1>4, <1>5, <1>6 DEF CaseInv
<1>8. r \notin Policies
  BY KindsAssumption DEF KindsAssumption
<1>9. ProcInv(p)'
  BY <1>2, <1>8 DEF ProcInv, Escalating, Noticing, Reconciling
<1>10. faults' \in 0..MaxFaults
  BY <1>1 DEF TypeOK
<1>11. QED  BY <1>1, <1>2, <1>4, <1>5, <1>7, <1>9, <1>10, CaseStep

(* What a process at a run has, spelled out. *)
LEMMA AtRun ==
    ASSUME IInv, NEW p \in Procs, proc[p].pc \in Reconciling
    PROVE  /\ R(p) \in Runs /\ run[R(p)] \in RunType /\ Row(p) \in RunType
           /\ case[p] \in CaseType /\ RunInv(R(p))
           /\ Row(p).state # "none" /\ Row(p).root \in Roots /\ Row(p).version <= run[R(p)].version
           /\ Fresh(p) => Row(p) = run[R(p)]
           /\ faults \in 0..MaxFaults
<1>1. R(p) \in Runs /\ R(p) = proc[p].key
  BY DEF IInv, WordInv, ProcInv, R
<1>2. /\ case[p] \in CaseType /\ Row(p) \in RunType /\ CaseInv(p) /\ RunInv(R(p))
      /\ run[R(p)] \in RunType
  BY <1>1 DEF IInv, RunsInv, RunsTyped, CaseType, Row
<1>3. QED  BY <1>1, <1>2 DEF CaseInv, Fresh, Row, R, IInv, WordInv, TypeOK

(* The receipt is read. *)
LEMMA ReadKeeps == ASSUME IInv, NEW p \in Procs, ReadReceipt(p)  PROVE IInv' /\ OutcomesStay
<1>1. /\ KeepInbox /\ UNCHANGED <<faults, run, lease, process, receipt>>
      /\ proc[p].pc = "read" /\ proc[p].pc \in Reconciling
  BY DEF ReadReceipt, At, Reconciling
<1>2. /\ R(p) \in Runs /\ case[p] \in CaseType /\ faults' \in 0..MaxFaults
      /\ Row(p).state # "none" /\ Row(p).version <= run[R(p)].version
      /\ Row(p).root \in Roots
      /\ Fresh(p) => Row(p) = run[R(p)]
  BY <1>1, AtRun
<1>3. PICK found : found = Reading(R(p), Row(p).root)
  OBVIOUS
<1>4. found \in Outcomes \union {"error", "none"}
  <2>1. receipt[Row(p).root] \in FileType
    BY <1>2 DEF IInv, RunsInv, RunsTyped
  <2>2. QED  BY <1>3, <2>1 DEF Reading, FileType, Outcomes
<1>5. CASE Abandon(p)
  BY <1>1, <1>2, <1>5, AbandonStep
<1>6. ASSUME NEW pc \in {"preserve", "probe", "begin"}, Goto(p, pc),
             case' = [case EXCEPT ![p].found = found],
             pc = "preserve" => found \in Outcomes,
             pc = "begin" => Row(p).state \in {"terminal", "lost", "delivering"}
      PROVE  IInv' /\ OutcomesStay
  <2>1. PICK c : c = [case[p] EXCEPT !.found = found]
    OBVIOUS
  <2>2. c \in CaseType /\ c.row = Row(p) /\ c.found = found
    BY <1>2, <1>4, <2>1 DEF CaseType, Row
  <2>3. case' = [case EXCEPT ![p] = c] /\ case'[p] = c
    BY <1>6, <2>1 DEF IInv, RunsInv, RunsTyped
  <2>4. /\ proc[p].key \in Runs /\ pc \in Points
        /\ UNCHANGED <<ack, parked, queue, owner>>
    BY <1>1, <1>2 DEF R, Points, KeepInbox, sessionVars, storeVars
  <2>5. PICK x \in ProcType : proc' = [proc EXCEPT ![p] = x]
    BY <1>6, <2>4, GoOn
  <2>6. proc'[p].key = proc[p].key /\ proc'[p].pc = pc /\ ProcInv(p)'
    BY <1>6, <2>4, GoOn
  <2>7. CaseInv(p)'
    BY <1>1, <1>2, <1>6, <2>2, <2>3, <2>6 DEF CaseInv, R, Fresh
  <2>8. QED  BY <1>1, <1>2, <2>2, <2>3, <2>5, <2>6, <2>7, CaseStep
<1>7. QED  BY <1>3, <1>5, <1>6 DEF ReadReceipt

(* ps is asked for the bound process. *)
LEMMA ProbeKeeps == ASSUME IInv, NEW p \in Procs, Probe(p)  PROVE IInv' /\ OutcomesStay
<1>1. /\ KeepInbox /\ UNCHANGED <<run, lease, process, receipt>>
      /\ proc[p].pc = "probe" /\ proc[p].pc \in Reconciling
      /\ Fault \/ UNCHANGED faults
  BY DEF Probe, At, Reconciling
<1>2. faults' \in 0..MaxFaults
  BY <1>1, FaultCounted DEF IInv, WordInv
<1>3. CASE Abandon(p)
  BY <1>1, <1>2, <1>3, AbandonStep
<1>4. CASE Goto(p, "lose") /\ UNCHANGED case
  <2>1. /\ proc[p].key \in Runs /\ "lose" \in Points
        /\ UNCHANGED <<ack, parked, queue, owner>>
    BY <1>1, AtRun DEF R, Points, KeepInbox, sessionVars, storeVars
  <2>2. PICK x \in ProcType : proc' = [proc EXCEPT ![p] = x]
    BY <1>4, <2>1, GoOn
  <2>3. proc'[p].key = proc[p].key /\ proc'[p].pc = "lose" /\ ProcInv(p)'
    BY <1>4, <2>1, GoOn
  <2>4. PICK c \in CaseType : c = case[p] /\ case' = [case EXCEPT ![p] = c]
    BY <1>4 DEF IInv, RunsInv, RunsTyped
  <2>5. CaseInv(p)'
    BY <1>1, <1>4, <2>3 DEF CaseInv, IInv, RunsInv
  <2>6. QED  BY <1>1, <1>2, <2>2, <2>3, <2>4, <2>5, CaseStep
<1>5. QED  BY <1>3, <1>4 DEF Probe

(* A transition of the row, and on with it. *)
LEMMA OntoStep ==
    ASSUME IInv, NEW p \in Procs, proc[p].pc \in Reconciling, NEW pc \in {"begin", "look"},
           NEW w \in RunType, Onto(p, R(p), w, pc), Later(run[R(p)], w), RowOK(w),
           run[R(p)].state \notin {"none", "notified"}, w.state \notin {"none", "notified"},
           pc = "begin" => w.state \in {"terminal", "lost", "delivering"},
           KeepInbox, UNCHANGED <<faults, lease, process, receipt>>
    PROVE  IInv' /\ OutcomesStay
<1>1. PICK r \in Runs : r = R(p)
  BY AtRun
<1>2. /\ run' = [run EXCEPT ![r] = w] /\ case' = [case EXCEPT ![p].row = w] /\ Goto(p, pc)
      /\ UNCHANGED <<ack, parked, queue, owner>> /\ r = proc[p].key
      /\ case[p] \in CaseType /\ faults' \in 0..MaxFaults
  BY <1>1, AtRun DEF Onto, KeepInbox, sessionVars, storeVars, R
<1>3. PICK c : c = [case[p] EXCEPT !.row = w]
  OBVIOUS
<1>4. c \in CaseType /\ c.row = w
  BY <1>2, <1>3 DEF CaseType
<1>5. case' = [case EXCEPT ![p] = c] /\ case'[p] = c /\ case' \in [Procs -> CaseType]
  BY <1>2, <1>3, <1>4 DEF IInv, RunsInv, RunsTyped
<1>6. pc \in Points /\ proc[p].key \in Runs
  BY <1>1, <1>2 DEF Points
<1>7. PICK x \in ProcType : proc' = [proc EXCEPT ![p] = x]
  BY <1>2, <1>6, GoOn
<1>8. proc'[p].key = r /\ proc'[p].pc = pc /\ ProcInv(p)'
  BY <1>2, <1>6, GoOn
<1>9. /\ run' \in [Runs -> RunType] /\ run'[r] = w
      /\ \A s \in Runs : RunInv(s)' /\ Later(run[s], run'[s])
  BY <1>1, <1>2, RowStep
<1>10. w.version <= w.version /\ w.root \in Roots
  BY DEF RunType, RowOK
<1>11. CaseInv(p)'
  BY <1>4, <1>5, <1>8, <1>9, <1>10 DEF CaseInv
<1>12. RunsTyped' /\ \A q \in Procs : q # p => case'[q] = case[q]
  BY <1>5, <1>9 DEF IInv, RunsInv, RunsTyped
<1>13. QED  BY <1>2, <1>7, <1>8, <1>9, <1>11, <1>12, RunStep

(* The next version of a row with the outcome that is recorded of it. *)
Settled(v, state, digest, outcome) ==
    [v EXCEPT !.state = state, !.version = v.version + 1, !.digest = digest, !.outcome = outcome]

(* It is a row as well. *)
LEMMA SettledRow ==
    ASSUME NEW v \in RunType, NEW state \in RunStates, v.version + 1 \in 0..4,
           NEW digest \in Outcomes \union {None},
           NEW outcome \in Outcomes \union {"lost/unknown", None}
    PROVE  LET w == Settled(v, state, digest, outcome) IN
           /\ w \in RunType /\ w.state = state /\ w.version = v.version + 1 /\ w.root = v.root
           /\ w.digest = digest /\ w.outcome = outcome
<1>1. PICK u : u = Stepped(v, state)
  OBVIOUS
<1>2. /\ u \in RunType /\ u.state = state /\ u.version = v.version + 1 /\ u.root = v.root
  BY <1>1, NextVersion
<1>3. PICK w : w = [u EXCEPT !.digest = digest, !.outcome = outcome]
  OBVIOUS
<1>4. /\ w \in RunType /\ w.state = u.state /\ w.version = u.version /\ w.root = u.root
      /\ w.digest = digest /\ w.outcome = outcome
  BY <1>2, <1>3 DEF RunType
<1>5. w = Settled(v, state, digest, outcome)
  BY <1>1, <1>3 DEF Settled, Stepped
<1>6. QED  BY <1>2, <1>4, <1>5

(* An open row is lost or settled once. *)
LEMMA OpenRowSettles ==
    ASSUME NEW v \in RunType, RowOK(v), v.state \in OpenStates,
           NEW state \in {"terminal", "lost"}, NEW digest \in Outcomes \union {None},
           NEW outcome \in Outcomes \union {"lost/unknown", None}
    PROVE  LET w == Settled(v, state, digest, outcome) IN
           w \in RunType /\ RowOK(w) /\ Later(v, w) /\ w.state = state
<1>1. /\ v.version \in {0, 1} /\ v.outcome = None /\ v.version + 1 \in 0..4
      /\ v.version \in Nat /\ v.version + 1 <= 2 /\ v.root \in Roots
      /\ v.version + 1 > v.version /\ state \in RunStates
  BY DEF RowOK, OpenStates, RunStates
<1>2. PICK w : w = Settled(v, state, digest, outcome)
  OBVIOUS
<1>3. w \in RunType /\ w.state = state /\ w.version = v.version + 1 /\ w.root = v.root
  BY <1>1, <1>2, SettledRow
<1>4. RowOK(w) /\ Later(v, w)
  BY <1>1, <1>3 DEF RowOK, Later
<1>5. QED  BY <1>2, <1>3, <1>4

(* preserve_lost *)
LEMMA LoseKeeps == ASSUME IInv, NEW p \in Procs, Lose(p)  PROVE IInv' /\ OutcomesStay
<1>1. /\ KeepInbox /\ UNCHANGED <<faults, lease, process, receipt>>
      /\ proc[p].pc \in Reconciling
  BY DEF Lose, At, Reconciling
<1>2. /\ R(p) \in Runs /\ run[R(p)] \in RunType /\ RunInv(R(p)) /\ faults \in 0..MaxFaults
  BY <1>1, AtRun
<1>3. CASE Abandon(p) /\ UNCHANGED run
  BY <1>1, <1>2, <1>3, AbandonStep
<1>4. CASE /\ run[R(p)].state \in OpenStates
           /\ Onto(p, R(p), [run[R(p)] EXCEPT !.state = "lost", !.version = @ + 1,
                                              !.outcome = "lost/unknown"], "begin")
  <2>1. PICK v \in RunType : v = run[R(p)] /\ RowOK(v)
    BY <1>2 DEF RunInv
  <2>2. PICK w : w = Settled(v, "lost", v.digest, "lost/unknown")
    OBVIOUS
  <2>3. v.digest \in Outcomes \union {None} /\ v.state \in OpenStates
    BY <1>4, <2>1 DEF RunType
  <2>4. w \in RunType /\ RowOK(w) /\ Later(v, w) /\ w.state = "lost"
    BY <2>1, <2>2, <2>3, OpenRowSettles
  <2>5. w = [v EXCEPT !.state = "lost", !.version = @ + 1, !.outcome = "lost/unknown"]
    BY <2>1, <2>2 DEF Settled, RunType
  <2>6. Onto(p, R(p), w, "begin")
    BY <1>4, <2>1, <2>5
  <2>7. v.state \notin {"none", "notified"}
    BY <2>3 DEF OpenStates
  <2>8. QED  BY <1>1, <2>1, <2>4, <2>6, <2>7, OntoStep
<1>5. QED  BY <1>3, <1>4 DEF Lose

(* preserve_terminal *)
LEMMA PreserveKeeps == ASSUME IInv, NEW p \in Procs, Preserve(p)  PROVE IInv' /\ OutcomesStay
<1>1. /\ KeepInbox /\ UNCHANGED <<faults, lease, process, receipt>>
      /\ proc[p].pc = "preserve" /\ proc[p].pc \in Reconciling
  BY DEF Preserve, At, Reconciling
<1>2. /\ R(p) \in Runs /\ run[R(p)] \in RunType /\ RunInv(R(p)) /\ faults \in 0..MaxFaults
      /\ case[p] \in CaseType /\ Row(p) \in RunType
      /\ Row(p).state # "none" /\ Row(p).version <= run[R(p)].version /\ Row(p).root \in Roots
      /\ Fresh(p) => Row(p) = run[R(p)]
  BY <1>1, AtRun
<1>3. Found(p) \in Outcomes
  BY <1>1, <1>2 DEF IInv, RunsInv, CaseInv, Found, R
<1>4. CASE Abandon(p) /\ UNCHANGED run
  BY <1>1, <1>2, <1>4, AbandonStep
<1>5. CASE /\ run[R(p)].state \in OpenStates
           /\ Onto(p, R(p), [run[R(p)] EXCEPT !.state = "terminal", !.version = @ + 1,
                                       !.digest = Found(p), !.outcome = Found(p)], "begin")
  <2>1. PICK v \in RunType : v = run[R(p)] /\ RowOK(v)
    BY <1>2 DEF RunInv
  <2>2. PICK w : w = Settled(v, "terminal", Found(p), Found(p))
    OBVIOUS
  <2>3. w \in RunType /\ RowOK(w) /\ Later(v, w) /\ w.state = "terminal"
    BY <1>3, <1>5, <2>1, <2>2, OpenRowSettles
  <2>4. Onto(p, R(p), w, "begin")
    BY <1>5, <2>1, <2>2 DEF Settled
  <2>5. v.state \notin {"none", "notified"}
    BY <1>5, <2>1 DEF OpenStates
  <2>6. QED  BY <1>1, <2>1, <2>3, <2>4, <2>5, OntoStep
<1>6. ASSUME NEW row \in {Row(p), run[R(p)]}, case' = [case EXCEPT ![p].row = row],
             IF row.state \in {"terminal", "lost", "delivering"}
             THEN Goto(p, "begin") ELSE Return(p),
             UNCHANGED run
      PROVE  IInv' /\ OutcomesStay
  <2>1. PICK r \in Runs : r = R(p) /\ r = proc[p].key
    BY <1>2 DEF R
  <2>2. PICK c : c = [case[p] EXCEPT !.row = row]
    OBVIOUS
  <2>3. row \in RunType
    BY <1>2
  <2>4. c \in CaseType /\ c.row = row
    BY <1>2, <2>2, <2>3 DEF CaseType
  <2>5. case' = [case EXCEPT ![p] = c] /\ case'[p] = c
    BY <1>6, <2>2 DEF IInv, RunsInv, RunsTyped
  <2>6. faults' \in 0..MaxFaults /\ UNCHANGED <<ack, parked, queue, owner>>
    BY <1>1, <1>2 DEF KeepInbox, sessionVars, storeVars
  <2>7. CASE Goto(p, "begin") /\ row.state \in {"terminal", "lost", "delivering"}
    <3>1. "begin" \in Points /\ proc[p].key \in Runs
      BY <2>1 DEF Points
    <3>2. PICK x \in ProcType : proc' = [proc EXCEPT ![p] = x]
      BY <2>6, <2>7, <3>1, GoOn
    <3>3. proc'[p].key = r /\ proc'[p].pc = "begin" /\ ProcInv(p)'
      BY <2>1, <2>6, <2>7, <3>1, GoOn
    <3>4. /\ row.state # "none" /\ row.root \in Roots /\ row.version <= run[r].version
          /\ row.version = run[r].version => row = run[r]
      <4>1. CASE row = Row(p)
        BY <1>2, <2>1, <4>1 DEF Fresh
      <4>2. CASE row = run[R(p)]
        <5>1. row.version \in Nat
          BY <2>3 DEF RunType
        <5>2. row.root \in Roots
          BY <1>2, <2>7, <4>2 DEF RunInv, RowOK
        <5>3. row = run[r]
          BY <2>1, <4>2
        <5>4. row.version <= run[r].version
          BY <5>1, <5>3
        <5>5. row.state # "none"
          BY <2>7
        <5>6. QED  BY <5>2, <5>3, <5>4, <5>5
      <4>3. QED  BY <4>1, <4>2
    <3>5. CaseInv(p)'
      BY <1>6, <2>4, <2>5, <2>7, <3>3, <3>4 DEF CaseInv
    <3>6. QED  BY <1>1, <1>6, <2>4, <2>5, <2>6, <3>2, <3>3, <3>5, CaseStep
  <2>8. CASE Return(p)
    <3>1. PICK x \in ProcType : /\ proc' = [proc EXCEPT ![p] = x] /\ x.key = None
                                /\ ProcInv(p)'
      BY <2>8, ReturnRecord DEF IInv, WordInv
    <3>2. proc'[p].key = None /\ None \notin Runs
      BY <3>1, InboxAssumption DEF InboxAssumption, Keys, IInv, WordInv, TypeOK
    <3>3. CaseInv(p)'
      BY <3>2 DEF CaseInv
    <3>4. QED  BY <1>1, <1>6, <2>4, <2>5, <2>6, <3>1, <3>3, CaseStep
  <2>9. QED  BY <1>6, <2>7, <2>8
<1>7. QED  BY <1>4, <1>5, <1>6 DEF Preserve

(* begin_delivery: a row that is settled, and was read as it is. *)
LEMMA BeginDeliveryKeeps ==
    ASSUME IInv, NEW p \in Procs, BeginDelivery(p)
    PROVE  IInv' /\ OutcomesStay
<1>1. /\ KeepInbox /\ UNCHANGED <<faults, lease, process, receipt>>
      /\ proc[p].pc = "begin" /\ proc[p].pc \in Reconciling
  BY DEF BeginDelivery, At, Reconciling
<1>2. /\ R(p) \in Runs /\ run[R(p)] \in RunType /\ RunInv(R(p)) /\ faults \in 0..MaxFaults
      /\ Fresh(p) => Row(p) = run[R(p)]
  BY <1>1, AtRun
<1>3. Row(p).state \in {"terminal", "lost", "delivering"}
  BY <1>1, <1>2 DEF IInv, RunsInv, CaseInv, Row, R
<1>4. CASE Abandon(p) /\ UNCHANGED run
  BY <1>1, <1>2, <1>4, AbandonStep
<1>5. CASE Goto(p, "look") /\ UNCHANGED <<run, case>>
  <2>1. /\ proc[p].key \in Runs /\ "look" \in Points /\ UNCHANGED <<ack, parked, queue, owner>>
    BY <1>1, <1>2 DEF R, Points, KeepInbox, sessionVars, storeVars
  <2>2. PICK x \in ProcType : proc' = [proc EXCEPT ![p] = x]
    BY <1>5, <2>1, GoOn
  <2>3. proc'[p].key = proc[p].key /\ proc'[p].pc = "look" /\ ProcInv(p)'
    BY <1>5, <2>1, GoOn
  <2>4. PICK c \in CaseType : c = case[p] /\ case' = [case EXCEPT ![p] = c]
    BY <1>5 DEF IInv, RunsInv, RunsTyped
  <2>5. CaseInv(p)'
    BY <1>5, <2>3 DEF CaseInv, IInv, RunsInv
  <2>6. QED  BY <1>1, <1>2, <1>5, <2>2, <2>3, <2>4, <2>5, CaseStep
<1>6. CASE /\ Row(p).state # "delivering" /\ Fresh(p)
           /\ Onto(p, R(p), [run[R(p)] EXCEPT !.state = "delivering", !.version = @ + 1], "look")
  <2>1. PICK v \in RunType : v = run[R(p)] /\ RowOK(v)
    BY <1>2 DEF RunInv
  <2>2. PICK w : w = Stepped(v, "delivering")
    OBVIOUS
  <2>3. v.state \in {"terminal", "lost"} /\ v.version <= 2 /\ v.version \in Nat
        /\ v.version + 1 \in 0..4 /\ v.version + 1 > v.version /\ v.version + 1 <= 3
        /\ v.root \in Roots
    BY <1>2, <1>3, <1>6, <2>1 DEF RowOK, RunType
  <2>4. /\ w \in RunType /\ w.state = "delivering" /\ w.version = v.version + 1
        /\ w.outcome = v.outcome /\ w.digest = v.digest /\ w.root = v.root
    BY <2>2, <2>3, NextVersion DEF RunStates
  <2>5. RowOK(w) /\ Later(v, w)
    BY <2>3, <2>4 DEF RowOK, Later
  <2>6. Onto(p, R(p), w, "look")
    BY <1>6, <2>1, <2>2 DEF Stepped
  <2>7. v.state \notin {"none", "notified"} /\ w.state \notin {"none", "notified"}
    BY <2>3, <2>4
  <2>8. QED  BY <1>1, <2>1, <2>4, <2>5, <2>6, <2>7, OntoStep
<1>7. QED  BY <1>4, <1>5, <1>6 DEF BeginDelivery

(* mark_notified: the message was acknowledged, and the lease goes with it. *)
LEMMA MarkKeeps == ASSUME IInv, NEW p \in Procs, MarkNotified(p)  PROVE IInv' /\ OutcomesStay
<1>1. /\ KeepInbox /\ UNCHANGED <<faults, process, receipt>> /\ Abandon(p)
      /\ proc[p].pc = "mark" /\ proc[p].pc \in Reconciling
  BY DEF MarkNotified, At, Reconciling
<1>2. PICK r \in Runs : r = R(p) /\ r = proc[p].key
  BY <1>1, AtRun DEF R
<1>3. /\ run[r] \in RunType /\ RunInv(r) /\ faults \in 0..MaxFaults
      /\ run \in [Runs -> RunType] /\ lease \in [Runs -> {"none", "active", "released"}]
      /\ ack[r] # None /\ ack' = ack
  BY <1>1, <1>2, AtRun
  DEF IInv, WordInv, ProcInv, RunsInv, RunsTyped, KeepInbox, storeVars
<1>4. CASE UNCHANGED <<run, lease>>
  BY <1>1, <1>3, <1>4, AbandonStep
<1>5. CASE /\ run[r].state = "delivering"
           /\ run' = [run EXCEPT ![r].state = "notified", ![r].version = @ + 1]
           /\ lease' = [lease EXCEPT ![r] = "released"]
  <2>1. PICK v \in RunType : v = run[r] /\ RowOK(v) /\ v.state = "delivering"
    BY <1>3, <1>5 DEF RunInv
  <2>2. PICK w : w = Stepped(v, "notified")
    OBVIOUS
  <2>3. v.version <= 3 /\ v.version \in Nat /\ v.version + 1 \in 0..4 /\ v.version + 1 > v.version
        /\ v.root \in Roots
    BY <2>1 DEF RowOK, RunType
  <2>4. /\ w \in RunType /\ w.state = "notified" /\ w.version = v.version + 1
        /\ w.outcome = v.outcome /\ w.digest = v.digest /\ w.root = v.root
    BY <2>2, <2>3, NextVersion DEF RunStates
  <2>5. run' = [run EXCEPT ![r] = w]
    BY <1>3, <1>5, <2>1, <2>2 DEF Stepped
  <2>6. /\ run' \in [Runs -> RunType] /\ run'[r] = w
        /\ \A s \in Runs : s # r => run'[s] = run[s] /\ lease'[s] = lease[s]
        /\ lease' \in [Runs -> {"none", "active", "released"}] /\ lease'[r] = "released"
    BY <1>3, <1>5, <2>4, <2>5
  <2>7. ASSUME NEW s \in Runs  PROVE RunInv(s)' /\ Later(run[s], run'[s])
    <3>1. CASE s = r
      BY <1>3, <2>1, <2>3, <2>4, <2>6, <3>1 DEF RunInv, RowOK, Later
    <3>2. CASE s # r
      BY <1>3, <2>6, <3>2 DEF IInv, RunsInv, RunInv, Later
    <3>3. QED  BY <3>1, <3>2
  <2>8. PICK x \in ProcType : proc' = [proc EXCEPT ![p] = x]
    BY <1>1, AbandonRecord
  <2>9. PICK c \in CaseType : case' = [case EXCEPT ![p] = c]
    BY <1>1, AbandonRecord
  <2>10. ProcInv(p)' /\ CaseInv(p)'
    BY <1>1, AbandonRecord
  <2>11. RunsTyped' /\ \A q \in Procs : q # p => case'[q] = case[q]
    BY <1>1, <2>6, <2>9 DEF IInv, RunsInv, RunsTyped
  <2>12. faults' \in 0..MaxFaults
    BY <1>1, <1>3
  <2>13. QED  BY <1>1, <2>7, <2>8, <2>10, <2>11, <2>12, RunStep
<1>6. QED  BY <1>2, <1>4, <1>5 DEF MarkNotified

-----------------------------------------------------------------------------
(* The invariant. *)

(* Nothing was sent yet, and nobody subscribed. *)
LEMMA InitIInv == RunsInit => IInv
<1>1. SUFFICES ASSUME RunsInit  PROVE IInv
  OBVIOUS
<1>2. Init
  BY <1>1 DEF RunsInit
<1>3. PICK i : i = Idle
  OBVIOUS
<1>4. i \in ProcType /\ i.pc = "idle" /\ i.key = None
  BY <1>3 DEF Idle, ProcType
<1>5. proc \in [Procs -> ProcType] /\ \A p \in Procs : proc[p].pc = "idle" /\ proc[p].key = None
  BY <1>2, <1>3, <1>4 DEF Init
<1>6. TypeOK
  <2>1. 0 \in 0..MaxFaults
    BY InboxAssumption DEF InboxAssumption
  <2>2. QED  BY <1>2, <1>5, <2>1 DEF Init, TypeOK
<1>7. None \notin Policies /\ None \notin Runs
  BY InboxAssumption DEF InboxAssumption, Keys
<1>8. \A p \in Procs : ProcInv(p)
  BY <1>5, <1>7 DEF ProcInv, Escalating, Noticing, Reconciling
<1>9. AckInv /\ ClosedInv /\ SignalOnce
  BY <1>2 DEF Init, AckInv, ClosedInv, SignalOnce, Keys
<1>10. RunsTyped
  BY <1>1, NoRunTyped DEF RunsInit, RunsTyped
<1>11. \A p \in Procs : CaseInv(p)
  BY <1>5, <1>7 DEF CaseInv
<1>12. \A r \in Runs : RunInv(r)
  BY <1>1 DEF RunsInit, RunInv, RowOK, NoRun
<1>13. QED  BY <1>6, <1>8, <1>9, <1>10, <1>11, <1>12 DEF IInv, WordInv, RunsInv

(* Every step keeps the invariant, and what was recorded of a run. *)
LEMMA NextIInv == IInv /\ [RunsNext]_allVars => IInv' /\ OutcomesStay
<1>1. SUFFICES ASSUME IInv, [RunsNext]_allVars  PROVE IInv' /\ OutcomesStay
  OBVIOUS
<1>2. CASE InboxStep
  BY <1>1, <1>2, InboxStepKeeps
<1>3. ASSUME NEW r \in Runs,
             \/ StartProcess(r) \/ Bind(r) \/ WriteReceipt(r) \/ ProcessEnds(r)
             \/ \E d \in Roots : Subscribe(r, d)
      PROVE  IInv' /\ OutcomesStay
  BY <1>1, <1>3, RunnersKeep, BindKeeps, SubscribeKeeps
<1>4. CASE \E d \in Roots : EmptyRoot(d)
  BY <1>1, <1>4, RunnersKeep
<1>5. ASSUME NEW p \in Procs, ReconcileStep(p) \/ \E r \in Runs : Reconcile(p, r)
      PROVE  IInv' /\ OutcomesStay
  BY <1>1, <1>5, ReadKeeps, ProbeKeeps, LoseKeeps, PreserveKeeps, BeginDeliveryKeeps, MarkKeeps,
     ReconcileKeeps DEF ReconcileStep
<1>6. CASE UNCHANGED allVars
  <2>1. UNCHANGED <<faults, proc, run, lease, process, receipt, case>> /\ KeepInbox
    BY <1>6 DEF allVars, vars, runVars, KeepInbox
  <2>2. /\ faults' \in 0..MaxFaults /\ RunsTyped'
        /\ \A r \in Runs : RunInv(r)' /\ Later(run[r], run'[r])
    BY <1>1, <2>1
    DEF IInv, WordInv, TypeOK, RunsInv, RunsTyped, RunInv, Later, KeepInbox, storeVars
  <2>3. QED  BY <1>1, <2>1, <2>2, RunnerStep
<1>7. QED  BY <1>1, <1>2, <1>3, <1>4, <1>5, <1>6 DEF RunsNext

(* Messages, records and rows agree with what each process has read and     *)
(* done: the inductive invariant.                                           *)
THEOREM Invariant == RunsSpec => []IInv
<1>1. IInv /\ [RunsNext]_allVars => IInv'
  BY NextIInv
<1>2. QED  BY InitIInv, <1>1, PTL DEF RunsSpec

(* Subscriptions, leases, receipts, records and processes stay well formed. *)
THEOREM TypeCorrect == RunsSpec => []RunsTypeOK
<1>1. IInv => RunsTypeOK
  BY DEF IInv, WordInv, RunsInv, RunsTyped, RunsTypeOK
<1>2. QED  BY Invariant, <1>1, PTL

(* mark_notified comes after the acknowledgment, which comes after the      *)
(* message; a directory is leased for as long as its run is not notified.   *)
THEOREM NotifiedTold == RunsSpec => []NotifiedWasTold
<1>1. IInv => NotifiedWasTold
  <2>1. Runs \subseteq Keys
    BY DEF Keys
  <2>2. QED  BY <2>1 DEF IInv, WordInv, AckInv, RunsInv, RunInv, NotifiedWasTold
<1>2. QED  BY Invariant, <1>1, PTL

(* The versions of _transition: what was recorded of a run is final.        *)
THEOREM OutcomeFinal == RunsSpec => OutcomeIsFinal
<1>1. IInv /\ [RunsNext]_allVars => [OutcomesStay]_allVars
  BY NextIInv
<1>2. [OutcomesStay]_allVars =>
         [\A r \in Runs : run[r].outcome # None =>
             run'[r].outcome = run[r].outcome /\ run'[r].digest = run[r].digest]_allVars
  BY DEF OutcomesStay
<1>3. QED  BY Invariant, <1>1, <1>2, PTL DEF RunsSpec, OutcomeIsFinal

(* A notice is closed by the delivery of it, however often it was parked,   *)
(* retried or taken up again after a restart.                               *)
THEOREM NoticeClosed == RunsSpec => []ClosedIsDelivered
<1>1. IInv => ClosedIsDelivered
  <2>1. \A k \in Lifecycle : LeadsBack(k) => Child \in Chain(ParentOf[k])
    BY ChainsOfOwners DEF LeadsBack
  <2>2. QED  BY <2>1 DEF IInv, WordInv, ClosedInv, Closed, ClosedIsDelivered
<1>2. QED  BY Invariant, <1>1, PTL

(* A signal is recorded once, as delivered or as parked. *)
THEOREM SignalsOnce == RunsSpec => []SignalOnce
<1>1. IInv => SignalOnce
  BY DEF IInv, WordInv
<1>2. QED  BY Invariant, <1>1, PTL
=============================================================================
