--------------------------- MODULE DispatchProofs ---------------------------
(***************************************************************************)
(* What a recorded outcome leaves behind, for any chains, accounts and     *)
(* tasks, and any number of crashes and of commands of the operator.       *)
(*                                                                         *)
(* That the files keep their shape holds whoever writes them (TypeInv).    *)
(* That a recorded outcome is cooled is not inductive: it takes that what  *)
(* the kernel has struck off the accounts it is to cool is cooling by then *)
(* (KernelInv), and that what a writer read of state.json is still there   *)
(* when it writes the file back (ReadInv).  The second is what the missing *)
(* lock would give, so the theorems that rest on it assume ~Overlap: two   *)
(* writers at once do lose a cooldown.  A selection cannot send a task     *)
(* back then, because the first of the eligible hops is one that is not    *)
(* cooling: the order that select_route walks is total on the hops of a    *)
(* class, which is why there is a first (ChoiceInHops).                    *)
(***************************************************************************)
EXTENDS Dispatch, SequenceTheorems, WellFoundedInduction, TLAPS

(* The values of the files and of the processes. *)
Times == 0..(MaxTime + Long)
Seen  == {"none", "some", "zero"}
HopType == [route : Nat, account : Accounts \cup {Free, None}]
TaskType ==
  [ st : {"new", "prepared", "running", "failing", "refused", "terminal", "blocked", "exhausted"},
    class : DOMAIN Chains \cup {None}, hop : HopType, outcome : Outcomes \cup {None},
    attempts : 0..MaxAttempts, pinned : BOOLEAN ]
PenType ==
  [ task : Tasks \cup {None}, todo : SUBSET Accounts, asked : SUBSET Accounts, until : Times,
    read : [Accounts -> Times] \cup {None} ]
JobType ==
  [kind : {"none", "verify", "add"}, read : Seq(Accounts), account : Accounts \cup {None}]

(* The pool names an account once. *)
IsPool(s) == s \in Seq(Accounts) /\ IsInjective(s)

(* What the files and the processes hold. *)
FilesTyped ==
  /\ now \in 0..MaxTime
  /\ IsPool(pool)
  /\ seen \in [Accounts -> Seen]
  /\ left \in [Accounts -> BOOLEAN]
  /\ cred \subseteq Accounts
  /\ metered \in {"auto", "ask", "never"}
  /\ job \in JobType
CoolTyped ==
  /\ cool \in [Accounts -> Times] /\ owed \in [Accounts -> Times]
  /\ pen \in [Writers -> PenType]

(* A task that was dispatched has a class; one that may still fail has not   *)
(* spent its budget.                                                         *)
TaskOK(v) ==
  /\ v.st = "new" <=> v.class = None
  /\ v.st = "new" => v.hop = NoHop
  /\ v.st \notin {"blocked", "exhausted"} => v.attempts < MaxAttempts

(* What a job will write back names an account once, and its own not at all. *)
JobOK(j) ==
  /\ IsInjective(j.read)
  /\ j.kind = "add" => j.account \in Accounts \ Range(j.read)

TasksInv == task \in [Tasks -> TaskType] /\ \A t \in Tasks : TaskOK(task[t])

(* The kernel writes for a task that it has not recorded the outcome of.     *)
RecordInv == pen[Kernel].task # None => task[pen[Kernel].task].st \in {"failing", "refused"}

(* The part of the invariant that holds of any writers. *)
TypeInv == FilesTyped /\ CoolTyped /\ TasksInv /\ JobOK(job) /\ RecordInv

(* The kernel's write: what it has no more to do it has done. *)
KernelInv ==
  /\ pen[Kernel].task = None => pen[Kernel] = NoPen
  /\ pen[Kernel].task # None => pen[Kernel].until > 0
  /\ \A a \in pen[Kernel].asked \ pen[Kernel].todo : cool[a] >= pen[Kernel].until

(* What one writer has read of state.json is still there. *)
ReadInv ==
  /\ \A w \in Writers : pen[w].read \in {None, cool}
  /\ \A v, w \in Writers : pen[v].read # None /\ pen[w].read # None => v = w

(* What one writer at a time keeps true. *)
CoolInv == KernelInv /\ ReadInv /\ RecordedIsCooled

(* The inductive invariant of writers that do not overlap. *)
IInv == TypeInv /\ CoolInv

-----------------------------------------------------------------------------
(* Numbers and sequences. *)

(* A set of naturals that is not empty has a first one. *)
LEMMA LeastOfNat ==
    ASSUME NEW S, S \subseteq Nat, S # {}
    PROVE  \E i \in S : \A j \in S : i <= j
<1> DEFINE R == {ss \in Nat \X Nat : ss[1] < ss[2]}
<1>1. IsWellFoundedOn(R, Nat)
  BY NatLessThanWellFounded, Zenon DEF OpToRel
<1>2. \A x, y \in Nat : y < x => <<y, x>> \in R
  OBVIOUS
<1> HIDE DEF R
<1>3. PICK x \in S : \A y \in S : ~ (<<y, x>> \in R)
  BY <1>1, WFMin
<1>4. ASSUME NEW y \in S  PROVE x <= y
  <2>1. x \in Nat /\ y \in Nat
    OBVIOUS
  <2>2. ~ (y < x)
    BY <1>2, <1>3, <2>1
  <2>3. QED  BY <2>1, <2>2
<1>5. QED  BY <1>4

(* The later of two deadlines. *)
LEMMA MaxOfTwo ==
    ASSUME NEW x \in Nat, NEW y \in Nat
    PROVE  Max({x, y}) \in {x, y} /\ Max({x, y}) >= x /\ Max({x, y}) >= y
<1>1. \E m \in {x, y} : \A k \in {x, y} : m >= k
  OBVIOUS
<1>2. PICK m : m = Max({x, y})
  OBVIOUS
<1>3. m \in {x, y} /\ \A k \in {x, y} : m >= k
  BY <1>1, <1>2 DEF Max
<1>4. QED  BY <1>2, <1>3

(* A pool without one of its accounts is a pool. *)
LEMMA Removed ==
    ASSUME NEW s, IsPool(s), NEW i \in DOMAIN s
    PROVE  IsPool(RemoveAt(s, i)) /\ Range(RemoveAt(s, i)) \subseteq Range(s) \ {s[i]}
<1>1. PICK n : n = Len(s) /\ n \in Nat /\ DOMAIN s = 1..n /\ i \in 1..n /\ s \in [1..n -> Accounts]
  BY DEF IsPool
<1>2. PICK r : r = RemoveAt(s, i)
  OBVIOUS
<1>3. n \in Int /\ i \in Int /\ 1 <= i /\ i <= n
  BY <1>1
<1>4. PICK u, v : u = SubSeq(s, 1, i - 1) /\ v = SubSeq(s, i + 1, n)
  OBVIOUS
<1>5. /\ u \in Seq(Accounts) /\ Len(u) = i - 1
      /\ \A k \in 1..(i - 1) : u[k] = s[k]
  <2>1. \A k \in 1..(i - 1) : k \in 1..n
    BY <1>1
  <2>2. QED  BY <1>1, <1>4, <2>1 DEF IsPool
<1>6. /\ v \in Seq(Accounts) /\ Len(v) = n - i
      /\ \A k \in 1..(n - i) : v[k] = s[k + i]
  <2>1. i + 1 \in Int /\ n \in Int /\ \A k \in (i + 1)..n : s[k] \in Accounts
    BY <1>1
  <2>2. /\ v \in Seq(Accounts) /\ Len(v) = IF i + 1 <= n THEN n - (i + 1) + 1 ELSE 0
        /\ \A k \in 1..(n - (i + 1) + 1) : v[k] = s[(i + 1) + k - 1]
    BY <1>4, <2>1, SubSeqProperties
  <2>3. \A k \in 1..(n - i) : (i + 1) + k - 1 = k + i
    BY <1>1
  <2>4. n - (i + 1) + 1 = n - i /\ (~(i + 1 <= n) => n - i = 0)
    BY ONLY <1>3
  <2>5. QED  BY <2>2, <2>3, <2>4
<1>7. /\ r \in Seq(Accounts) /\ Len(r) = n - 1
      /\ \A k \in 1..(n - 1) : r[k] = IF k < i THEN s[k] ELSE s[k + 1]
  <2>1. r = u \o v
    BY <1>1, <1>2, <1>4 DEF RemoveAt
  <2>2. /\ r \in Seq(Accounts) /\ Len(r) = Len(u) + Len(v)
        /\ \A k \in 1..(Len(u) + Len(v)) : r[k] = IF k <= Len(u) THEN u[k] ELSE v[k - Len(u)]
    BY <1>5, <1>6, <2>1, ConcatProperties
  <2>3. Len(u) + Len(v) = n - 1
    BY ONLY <1>3, <1>5, <1>6
  <2>4. ASSUME NEW k \in 1..(n - 1)  PROVE r[k] = IF k < i THEN s[k] ELSE s[k + 1]
    <3>1. CASE k < i
      <4>1. k <= Len(u) /\ k \in 1..(i - 1)
        BY <1>1, <1>5, <3>1
      <4>2. QED  BY <1>5, <2>2, <2>3, <3>1, <4>1
    <3>2. CASE ~(k < i)
      <4>1. ~(k <= Len(u)) /\ k - Len(u) \in 1..(n - i) /\ (k - Len(u)) + i = k + 1
        BY <1>1, <1>5, <3>2
      <4>2. r[k] = v[k - Len(u)]
        BY <2>2, <2>3, <4>1
      <4>3. QED  BY <1>6, <3>2, <4>1, <4>2
    <3>3. QED  BY <3>1, <3>2
  <2>5. QED  BY <2>2, <2>3, <2>4
<1>8. DOMAIN r = 1..(n - 1)
  BY <1>7
<1>9. IsInjective(r)
  BY <1>1, <1>7, <1>8 DEF IsInjective, IsPool
<1>10. Range(r) \subseteq Range(s) \ {s[i]}
  BY <1>1, <1>7, <1>8 DEF Range, IsInjective, IsPool
<1>11. QED  BY <1>2, <1>7, <1>9, <1>10 DEF IsPool

(* So is one with another account before it, or after it. *)
LEMMA Added ==
    ASSUME NEW s, IsPool(s), NEW a \in Accounts \ Range(s)
    PROVE  IsPool(<<a>> \o s) /\ IsPool(Append(s, a))
<1>1. PICK n : n = Len(s) /\ n \in Nat /\ DOMAIN s = 1..n /\ s \in [1..n -> Accounts]
  BY DEF IsPool
<1>2. \A k \in 1..n : s[k] # a
  BY <1>1 DEF Range
<1>3. IsPool(<<a>> \o s)
  <2>1. PICK r : r = <<a>> \o s
    OBVIOUS
  <2>2. r \in Seq(Accounts) /\ Len(r) = n + 1 /\ DOMAIN r = 1..(n + 1)
    BY <1>1, <2>1 DEF IsPool
  <2>3. \A k \in 1..(n + 1) : r[k] = IF k = 1 THEN a ELSE s[k - 1]
    BY <1>1, <2>1 DEF IsPool
  <2>4. IsInjective(r)
    <3>1. SUFFICES ASSUME NEW j \in 1..(n + 1), NEW k \in 1..(n + 1), r[j] = r[k]  PROVE j = k
      BY <2>2 DEF IsInjective
    <3>2. CASE j = 1 \/ k = 1
      <4>1. \A m \in 1..(n + 1) : m # 1 => r[m] # a
        BY <1>1, <1>2, <2>3
      <4>2. r[1] = a
        BY <1>1, <2>3
      <4>3. QED  BY <3>1, <3>2, <4>1, <4>2
    <3>3. CASE j # 1 /\ k # 1
      <4>1. j - 1 \in 1..n /\ k - 1 \in 1..n
        BY <1>1, <3>3
      <4>2. s[j - 1] = s[k - 1]
        BY <2>3, <3>1, <3>3
      <4>3. j - 1 = k - 1
        BY <1>1, <4>1, <4>2 DEF IsPool, IsInjective
      <4>4. QED  BY <1>1, <4>3
    <3>4. QED  BY <3>2, <3>3
  <2>5. QED  BY <2>1, <2>2, <2>4 DEF IsPool
<1>4. IsPool(Append(s, a))
  <2>1. PICK r : r = Append(s, a)
    OBVIOUS
  <2>2. r \in Seq(Accounts) /\ Len(r) = n + 1 /\ DOMAIN r = 1..(n + 1)
    BY <1>1, <2>1 DEF IsPool
  <2>3. \A k \in 1..(n + 1) : r[k] = IF k = n + 1 THEN a ELSE s[k]
    BY <1>1, <2>1 DEF IsPool
  <2>4. IsInjective(r)
    BY <1>1, <1>2, <2>2, <2>3 DEF IsInjective, IsPool
  <2>5. QED  BY <2>1, <2>2, <2>4 DEF IsPool
<1>5. QED  BY <1>3, <1>4

(* The place of an account is where it is. *)
LEMMA Placed ==
    ASSUME IsPool(pool), NEW a \in Range(pool)
    PROVE  Place(a) \in DOMAIN pool /\ Place(a) \in Nat /\ pool[Place(a)] = a
<1>1. \E i \in DOMAIN pool : pool[i] = a
  BY DEF Range
<1>2. Place(a) \in DOMAIN pool /\ pool[Place(a)] = a
  BY <1>1 DEF Place
<1>3. DOMAIN pool \subseteq Nat
  BY DEF IsPool
<1>4. QED  BY <1>2, <1>3
-----------------------------------------------------------------------------
(* Selection. *)

(* What the lists of routes are. *)
LEMMA Routes ==
    ASSUME NEW class \in DOMAIN Chains, NEW i \in DOMAIN Chains[class]
    PROVE  i \in Nat /\ Chains[class][i].billing \in {"subscription", "metered", "free"}
BY DispatchAssumption

(* The hops of a class are ordered, and so there is a first among those a  *)
(* selection finds eligible.                                               *)
LEMMA ChoiceInHops ==
    ASSUME NEW class \in DOMAIN Chains, IsPool(pool), NEW ex, Choice(class, ex) # NoHop
    PROVE  Choice(class, ex) \in Hops(class) /\ Eligible(class, Choice(class, ex), ex)
<1>1. PICK open : open = {h \in Hops(class) : Eligible(class, h, ex)}
  OBVIOUS
<1>2. Choice(class, ex) = CHOOSE h \in open : \A g \in open \ {h} : Ahead(h, g)
  BY <1>1 DEF Choice
<1>3. open # {}
  BY <1>1 DEF Choice
<1>4. \A h \in open : /\ h \in [route : DOMAIN Chains[class], account : Accounts \cup {Free}]
                      /\ h.route \in DOMAIN Chains[class] /\ h.route \in Nat
                      /\ Offers(Chains[class][h.route], h.account)
  BY <1>1, Routes DEF Hops
<1>5. PICK r \in {h.route : h \in open} : \A k \in {h.route : h \in open} : r <= k
  <2>1. {h.route : h \in open} \subseteq Nat /\ {h.route : h \in open} # {}
    BY <1>3, <1>4
  <2>2. QED  BY ONLY <2>1, LeastOfNat
<1>6. PICK mine : mine = {h \in open : h.route = r}
  OBVIOUS
<1>7. mine # {} /\ mine \subseteq open /\ r \in Nat
  BY <1>4, <1>5, <1>6
<1>8. PICK route : route = Chains[class][r]
  OBVIOUS
<1>9. route.billing \in {"subscription", "metered", "free"}
  BY <1>4, <1>6, <1>7, <1>8, Routes
<1>10. \A g, h \in mine : g.account = h.account => g = h
  BY <1>4, <1>6
<1>11. \E h \in mine : \A g \in mine \ {h} : Place(h.account) < Place(g.account)
  <2>1. CASE route.billing # "subscription"
    <3>1. ASSUME NEW h \in mine
          PROVE  h.account = IF route.billing = "metered" THEN route.account ELSE Free
      <4>1. Offers(route, h.account)
        BY <1>4, <1>6, <1>8
      <4>2. CASE route.billing = "metered"
        BY <4>1, <4>2 DEF Offers
      <4>3. CASE route.billing = "free"
        BY <4>1, <4>3 DEF Offers
      <4>4. QED  BY <1>9, <2>1, <4>2, <4>3
    <3>2. QED  BY <1>7, <1>10, <3>1
  <2>2. CASE route.billing = "subscription"
    <3>1. \A h \in mine : h.account \in Range(pool)
      BY <1>4, <1>6, <1>8, <2>2 DEF Offers
    <3>2. \A h \in mine : Place(h.account) \in Nat /\ pool[Place(h.account)] = h.account
      BY <3>1, Placed
    <3>3. {Place(h.account) : h \in mine} \subseteq Nat /\ {Place(h.account) : h \in mine} # {}
      BY <1>7, <3>2
    <3>4. PICK p \in {Place(h.account) : h \in mine} :
             \A q \in {Place(h.account) : h \in mine} : p <= q
      BY ONLY <3>3, LeastOfNat
    <3>5. PICK h \in mine : p = Place(h.account)
      BY <3>4
    <3>6. ASSUME NEW g \in mine \ {h}  PROVE Place(h.account) < Place(g.account)
      <4>1. Place(g.account) # Place(h.account)
        BY <1>10, <3>2
      <4>2. Place(h.account) <= Place(g.account)
        BY <3>4, <3>5
      <4>3. QED  BY <3>2, <4>1, <4>2
    <3>7. QED  BY <3>6
  <2>3. QED  BY <2>1, <2>2
<1>12. PICK h \in mine : \A g \in mine \ {h} : Place(h.account) < Place(g.account)
  BY <1>11
<1>13. ASSUME NEW g \in open \ {h}  PROVE Ahead(h, g)
  <2>1. h.route = r /\ r <= g.route /\ h # g
    BY <1>5, <1>6
  <2>2. h.route = g.route => g \in mine \ {h}
    BY <1>6, <2>1
  <2>3. QED  BY <1>12, <2>1, <2>2 DEF Ahead
<1>14. \E k \in open : \A g \in open \ {k} : Ahead(k, g)
  BY <1>7, <1>13
<1>15. (CHOOSE k \in open : \A g \in open \ {k} : Ahead(k, g)) \in open
  BY <1>14
<1>16. QED  BY <1>1, <1>2, <1>15

(* Where a selection sends a task it may run: an account outside those it  *)
(* was to leave out, that has its credential and is not cooling.           *)
LEMMA Selected ==
    ASSUME NEW class \in DOMAIN Chains, IsPool(pool), NEW ex, Choice(class, ex) # NoHop
    PROVE  /\ Choice(class, ex) \in HopType
           /\ Choice(class, ex).account \in Accounts => Admitted(Choice(class, ex).account, ex)
<1>1. PICK h : h = Choice(class, ex)
  OBVIOUS
<1>2. h \in Hops(class) /\ Eligible(class, h, ex)
  BY <1>1, ChoiceInHops
<1>3. /\ h \in [route : DOMAIN Chains[class], account : Accounts \cup {Free}]
      /\ h.route \in DOMAIN Chains[class]
      /\ Offers(Chains[class][h.route], h.account)
  BY <1>2 DEF Hops
<1>4. h.route \in Nat
  BY <1>3, Routes
<1>5. h \in HopType
  BY <1>3, <1>4 DEF HopType
<1>6. h.account \in Accounts => Billing(class, h) # "free"
  BY <1>3, DispatchAssumption DEF Billing, Offers
<1>7. h.account \in Accounts => Admitted(h.account, ex)
  BY <1>2, <1>6 DEF Eligible
<1>8. QED  BY <1>1, <1>5, <1>7

(* What a selection, found or not, stores as a hop. *)
LEMMA NoHopTyped == NoHop \in HopType
BY DEF NoHop, HopType

(* A selection caches readings and nothing else. *)
LEMMA SeenTyped ==
    ASSUME seen \in [Accounts -> Seen], NEW class, NEW ex
    PROVE  SeenAfter(class, ex) \in [Accounts -> Seen]
<1>1. \A a \in Accounts : Usage(a) \in Seen
  BY DEF Usage, Seen
<1>2. QED  BY <1>1 DEF SeenAfter

(* The class a task is given is a class of the settings or is the one asked for. *)
LEMMA ResolvedClassKnown ==
    ASSUME NEW want \in {None, Promoted, Deep}
    PROVE  ResolvedClass(want) \in DOMAIN Chains
BY DispatchAssumption DEF ResolvedClass
-----------------------------------------------------------------------------
(* The invariant of any writers. *)

(* The rows after one of them is written. *)
LEMMA TaskStep ==
    ASSUME TypeInv, NEW t \in Tasks, NEW v \in TaskType, TaskOK(v),
           task' = [task EXCEPT ![t] = v],
           pen[Kernel].task = t => v.st \in {"failing", "refused"}, UNCHANGED pen
    PROVE  TasksInv' /\ RecordInv'
<1>1. task' \in [Tasks -> TaskType] /\ \A u \in Tasks : task'[u] = IF u = t THEN v ELSE task[u]
  BY DEF TypeInv, TasksInv
<1>2. \A u \in Tasks : TaskOK(task[u])
  BY DEF TypeInv, TasksInv
<1>3. TasksInv'
  BY <1>1, <1>2 DEF TasksInv, TaskOK
<1>4. pen[Kernel].task \in Tasks \cup {None}
  BY DEF TypeInv, CoolTyped, PenType, Writers
<1>5. RecordInv'
  BY <1>1, <1>4 DEF TypeInv, RecordInv
<1>6. QED  BY <1>3, <1>5

(* A row has its fields. *)
LEMMA Row ==
    ASSUME TypeInv, NEW t \in Tasks
    PROVE  /\ task[t] \in TaskType /\ TaskOK(task[t]) /\ task \in [Tasks -> TaskType]
           /\ task[t].st # "new" => task[t].class \in DOMAIN Chains
           /\ pen[Kernel].task = t => task[t].st \in {"failing", "refused"}
           /\ task[t].attempts \in Nat /\ MaxAttempts \in Nat
<1>1. task[t] \in TaskType /\ TaskOK(task[t]) /\ task \in [Tasks -> TaskType] /\ t # None
  BY DispatchAssumption DEF TypeInv, TasksInv
<1>2. QED  BY <1>1, DispatchAssumption DEF TypeInv, RecordInv, TaskType, TaskOK

(* A task is dispatched on the hop selected for it, or on none. *)
LEMMA TypeStart ==
    ASSUME TypeInv, NEW t \in Tasks, NEW want \in {None, Promoted, Deep},
           \/ StartRouted(t, want)
           \/ \E pinned \in BOOLEAN : StartNamed(t, want, pinned)
    PROVE  TypeInv'
<1>1. PICK class : class = ResolvedClass(want)
  OBVIOUS
<1>2. class \in DOMAIN Chains /\ class # None
  BY <1>1, ResolvedClassKnown, DispatchAssumption
<1>3. task[t].st = "new" /\ task[t].hop = NoHop
  BY Row DEF StartRouted, StartNamed, TaskOK
<1>4. PICK u \in TaskType : u = task[t] /\ u.hop = NoHop /\ u.attempts < MaxAttempts
  BY <1>3, Row DEF TaskOK
<1>5. task \in [Tasks -> TaskType]
  BY Row
<1>6. \E v \in TaskType : TaskOK(v) /\ v.st = "prepared" /\ task' = [task EXCEPT ![t] = v]
  <2>1. ASSUME NEW v \in TaskType, v.st = "prepared", v.class = class, v.attempts = u.attempts
        PROVE  TaskOK(v)
    BY <1>2, <1>4, <2>1 DEF TaskOK
  <2>2. CASE StartRouted(t, want)
    <3>1. PICK hop \in HopType : hop = Choice(class, {})
      BY <1>1, <1>2, <2>2, Selected DEF StartRouted, Resolved, TypeInv, FilesTyped
    <3>2. PICK v : v = [u EXCEPT !.st = "prepared", !.class = class, !.hop = hop]
      OBVIOUS
    <3>3. v \in TaskType /\ v.st = "prepared" /\ v.class = class /\ v.attempts = u.attempts
      BY ONLY <1>2, <3>2 DEF TaskType
    <3>4. task' = [task EXCEPT ![t].st = "prepared", ![t].class = class, ![t].hop = hop]
      BY <1>1, <2>2, <3>1 DEF StartRouted
    <3>5. task' = [task EXCEPT ![t] = v]
      BY ONLY <1>4, <1>5, <3>2, <3>4
    <3>6. QED  BY <2>1, <3>3, <3>5
  <2>3. ASSUME NEW pinned \in BOOLEAN, StartNamed(t, want, pinned)
        PROVE  \E v \in TaskType : TaskOK(v) /\ v.st = "prepared" /\ task' = [task EXCEPT ![t] = v]
    <3>1. PICK v : v = [u EXCEPT !.st = "prepared", !.class = class, !.pinned = pinned]
      OBVIOUS
    <3>2. v \in TaskType /\ v.st = "prepared" /\ v.class = class /\ v.attempts = u.attempts
      BY ONLY <1>2, <3>1 DEF TaskType
    <3>3. task' = [task EXCEPT ![t].st = "prepared", ![t].class = class, ![t].pinned = pinned]
      BY <1>1, <2>3 DEF StartNamed
    <3>4. task' = [task EXCEPT ![t] = v]
      BY ONLY <1>4, <1>5, <3>1, <3>3
    <3>5. QED  BY <2>1, <3>2, <3>4
  <2>4. QED  BY <2>2, <2>3
<1>7. PICK v \in TaskType : TaskOK(v) /\ v.st = "prepared" /\ task' = [task EXCEPT ![t] = v]
  BY <1>6
<1>8. UNCHANGED <<now, pool, cool, left, cred, metered, job, pen, owed>>
  BY DEF StartRouted, StartNamed
<1>9. TasksInv' /\ RecordInv'
  BY <1>3, <1>7, <1>8, Row, TaskStep
<1>10. seen' \in [Accounts -> Seen]
  BY SeenTyped DEF StartRouted, StartNamed, TypeInv, FilesTyped
<1>11. QED  BY <1>8, <1>9, <1>10 DEF TypeInv, FilesTyped, CoolTyped
(* A launch is accepted, a run ends or a budget is spent: one row changes. *)
LEMMA TypeRun ==
    ASSUME TypeInv, NEW t \in Tasks,
           Launch(t) \/ (\E o \in Outcomes : Fail(t, o)) \/ Exhaust(t)
    PROVE  TypeInv'
<1>1. UNCHANGED <<now, pool, cool, seen, left, cred, metered, job, pen, owed>>
  BY DEF Launch, Fail, Exhaust, disk
<1>2. \E v \in TaskType : /\ TaskOK(v) /\ task' = [task EXCEPT ![t] = v]
                          /\ pen[Kernel].task = t => v.st \in {"failing", "refused"}
  <2>1. CASE Launch(t)
    <3>1. PICK v : v = [task[t] EXCEPT !.st = "running"]
      OBVIOUS
    <3>2. v \in TaskType /\ TaskOK(v) /\ pen[Kernel].task # t
      BY <2>1, <3>1, Row DEF TaskType, TaskOK, Launch
    <3>3. task' = [task EXCEPT ![t] = v]
      BY <2>1, <3>1, Row DEF Launch
    <3>4. QED  BY <3>2, <3>3
  <2>2. ASSUME NEW o \in Outcomes, Fail(t, o)
        PROVE  \E v \in TaskType : /\ TaskOK(v) /\ task' = [task EXCEPT ![t] = v]
                                   /\ pen[Kernel].task = t => v.st \in {"failing", "refused"}
    <3>1. PICK s \in {"failing", "refused"} :
             s = IF task[t].st = "running" THEN "failing" ELSE "refused"
      OBVIOUS
    <3>2. PICK v : v = [task[t] EXCEPT !.st = s, !.outcome = o]
      OBVIOUS
    <3>3. v \in TaskType /\ TaskOK(v) /\ pen[Kernel].task # t
      <4>1. PICK u \in TaskType : u = task[t] /\ TaskOK(u)
        BY Row
      <4>2. v = [u EXCEPT !.st = s, !.outcome = o]
        BY <3>2, <4>1
      <4>3. v \in TaskType
        BY <4>2, <2>2 DEF TaskType
      <4>4. v.st = s /\ v.attempts = u.attempts /\ v.hop = u.hop /\ v.class = u.class
        BY <4>2, <2>2 DEF TaskType
      <4>5. u.st \in {"running", "prepared"} /\ pen[Kernel].task # t
        BY <2>2, <4>1, Row DEF Fail
      <4>6. TaskOK(v)
        BY <4>1, <4>4, <4>5 DEF TaskOK
      <4>7. QED  BY <4>3, <4>5, <4>6
    <3>4. task' = [task EXCEPT ![t] = v]
      BY <2>2, <3>1, <3>2, Row DEF Fail, TaskType
    <3>5. QED  BY <3>3, <3>4
  <2>3. CASE Exhaust(t)
    <3>1. PICK n \in 0..MaxAttempts : n = task[t].attempts + 1
      BY <2>3, Row DEF Exhaust, TaskOK
    <3>2. PICK v : v = [task[t] EXCEPT !.st = "exhausted", !.attempts = n]
      OBVIOUS
    <3>3. v \in TaskType /\ TaskOK(v) /\ pen[Kernel].task # t
      BY <2>3, <3>1, <3>2, Row DEF TaskType, TaskOK, Exhaust
    <3>4. task' = [task EXCEPT ![t] = v]
      BY <2>3, <3>1, <3>2, Row DEF Exhaust, TaskType
    <3>5. QED  BY <3>3, <3>4
  <2>4. QED  BY <2>1, <2>2, <2>3
<1>3. PICK v \in TaskType : /\ TaskOK(v) /\ task' = [task EXCEPT ![t] = v]
                            /\ pen[Kernel].task = t => v.st \in {"failing", "refused"}
  BY <1>2
<1>4. TasksInv' /\ RecordInv'
  BY <1>1, <1>3, TaskStep
<1>5. QED  BY <1>1, <1>4 DEF TypeInv, FilesTyped, CoolTyped

(* A task moves to the next hop, or is blocked for want of one. *)
LEMMA TypeAdvance ==
    ASSUME TypeInv, NEW t \in Tasks, Advance(t) \/ BlockUnroutable(t)
    PROVE  TypeInv'
<1>1. UNCHANGED <<now, pool, cool, left, cred, metered, job, pen, owed>>
  BY DEF Advance, BlockUnroutable
<1>2. /\ task[t].st \in {"terminal", "blocked"} /\ task[t].class \in DOMAIN Chains
      /\ pen[Kernel].task # t
  BY Row DEF Advance, BlockUnroutable
<1>3. seen' \in [Accounts -> Seen]
  BY SeenTyped DEF Advance, BlockUnroutable, TypeInv, FilesTyped
<1>4. \E v \in TaskType : TaskOK(v) /\ task' = [task EXCEPT ![t] = v]
  <2>1. CASE Advance(t)
    <3>1. PICK hop : hop = NextHop(t)
      OBVIOUS
    <3>2. hop \in HopType
      BY <1>2, <2>1, <3>1, Selected DEF Advance, Moves, Resolved, NextHop, TypeInv, FilesTyped
    <3>3. PICK n \in 0..MaxAttempts :
             /\ n = (IF task[t].st = "terminal" THEN task[t].attempts + 1 ELSE task[t].attempts)
             /\ n < MaxAttempts
      BY <2>1, Row DEF Advance, Spent
    <3>4. task' = [task EXCEPT ![t].st = "prepared", ![t].hop = hop, ![t].outcome = None,
                              ![t].attempts = n]
      BY <2>1, <3>1, <3>3, Row DEF Advance, TaskType
    <3>5. PICK u \in TaskType : u = task[t] /\ u.class # None
      BY <1>2, Row DEF TaskOK
    <3>6. PICK v : v = [u EXCEPT !.st = "prepared", !.hop = hop, !.outcome = None,
                                 !.attempts = n]
      OBVIOUS
    <3>7. /\ v \in TaskType
          /\ v.st = "prepared" /\ v.class = u.class /\ v.attempts = n
      BY ONLY <3>2, <3>6 DEF TaskType
    <3>8. TaskOK(v)
      BY <3>3, <3>5, <3>7 DEF TaskOK
    <3>9. task' = [task EXCEPT ![t] = v]
      <4>1. task \in [Tasks -> TaskType]
        BY Row
      <4>2. QED  BY ONLY <3>4, <3>5, <3>6, <4>1
    <3>10. QED  BY <3>7, <3>8, <3>9
  <2>2. CASE BlockUnroutable(t)
    <3>1. PICK n \in 0..MaxAttempts : n = task[t].attempts + 1
      BY <2>2, Row DEF BlockUnroutable, TaskOK
    <3>2. PICK u \in TaskType : u = task[t] /\ u.class # None
      BY <1>2, Row DEF TaskOK
    <3>3. PICK v : v = [u EXCEPT !.st = "blocked", !.attempts = n]
      OBVIOUS
    <3>4. v \in TaskType /\ v.st = "blocked" /\ v.class = u.class
      BY ONLY <3>3 DEF TaskType
    <3>5. TaskOK(v)
      BY <3>2, <3>4 DEF TaskOK
    <3>6. task' = [task EXCEPT ![t] = v]
      <4>1. task \in [Tasks -> TaskType]
        BY Row
      <4>2. task' = [task EXCEPT ![t].st = "blocked", ![t].attempts = n]
        BY <2>2, <3>1, <3>2, <4>1 DEF BlockUnroutable
      <4>3. QED  BY ONLY <3>2, <3>3, <4>1, <4>2
    <3>7. QED  BY <3>4, <3>5, <3>6
  <2>3. QED  BY <2>1, <2>2
<1>5. TasksInv' /\ RecordInv'
  BY <1>1, <1>2, <1>4, TaskStep
<1>6. QED  BY <1>1, <1>3, <1>5 DEF TypeInv, FilesTyped, CoolTyped
(* The writers are told apart, and one that has nothing to write is well formed. *)
LEMMA Pens ==
    ASSUME TypeInv, NEW w \in Writers
    PROVE  /\ pen[w] \in PenType /\ pen \in [Writers -> PenType] /\ NoPen \in PenType
           /\ Kernel \in Writers /\ Operator \in Writers /\ Kernel # Operator
           /\ now \in Nat /\ now <= MaxTime /\ MaxTime \in Nat /\ Times \subseteq Nat
BY DispatchAssumption DEF TypeInv, CoolTyped, FilesTyped, PenType, NoPen, Writers, Kernel, Operator,
   Times, Long

(* An outcome condemns accounts of the operator. *)
LEMMA CondemnedKnown ==
    ASSUME TypeInv, NEW t \in Tasks
    PROVE  Condemned(t) \subseteq Accounts
<1>1. Range(pool) \subseteq Accounts
  BY DEF TypeInv, FilesTyped, IsPool, Range
<1>2. QED  BY <1>1 DEF Condemned

(* The kernel sets out to cool what an outcome condemns, or dies over it. *)
LEMMA TypeBegin ==
    ASSUME TypeInv, (\E t \in Tasks : BeginCool(t)) \/ Crash
    PROVE  TypeInv'
<1>1. UNCHANGED <<now, pool, cool, seen, left, cred, metered, job, task, owed>>
  BY DEF BeginCool, Crash, disk
<1>2. pen' \in [Writers -> PenType] /\ RecordInv'
  <2>1. CASE Crash
    <3>1. pen' = [pen EXCEPT ![Kernel] = NoPen]
      BY <2>1 DEF Crash
    <3>2. pen'[Kernel].task = None
      BY <3>1, Pens DEF NoPen, Writers
    <3>3. QED  BY <3>1, <3>2, Pens DEF RecordInv, Writers
  <2>2. ASSUME NEW t \in Tasks, BeginCool(t)  PROVE pen' \in [Writers -> PenType] /\ RecordInv'
    <3>1. PICK d \in Deadlines(t) :
             pen' = [pen EXCEPT ![Kernel] = [task |-> t, todo |-> Condemned(t),
                                             asked |-> Condemned(t), until |-> d, read |-> None]]
      BY <2>2 DEF BeginCool
    <3>2. d \in Times
      BY Pens DEF Deadlines, Times, Short, Long, Writers
    <3>3. PICK p : p = [task |-> t, todo |-> Condemned(t), asked |-> Condemned(t), until |-> d,
                        read |-> None]
      OBVIOUS
    <3>4. p \in PenType /\ p.task = t
      BY <3>2, <3>3, CondemnedKnown DEF PenType
    <3>5. pen' = [pen EXCEPT ![Kernel] = p]
      BY <3>1, <3>3
    <3>6. QED  BY <1>1, <2>2, <3>4, <3>5, Pens DEF RecordInv, BeginCool, Writers
  <2>3. QED  BY <2>1, <2>2
<1>3. QED  BY <1>1, <1>2 DEF TypeInv, FilesTyped, CoolTyped, TasksInv

(* The kernel records the outcome. *)
LEMMA TypeMark ==
    ASSUME TypeInv, NEW t \in Tasks, MarkTerminal(t)
    PROVE  TypeInv'
<1>1. UNCHANGED <<now, pool, cool, seen, left, cred, metered, job>>
  BY DEF MarkTerminal, disk
<1>2. pen' = [pen EXCEPT ![Kernel] = NoPen] /\ pen[Kernel].task = t
  BY DEF MarkTerminal
<1>3. pen' \in [Writers -> PenType] /\ pen'[Kernel].task = None
  BY <1>2, Pens DEF NoPen, Writers
<1>4. task[t].st \in {"failing", "refused"}
  BY <1>2, Row
<1>5. owed' \in [Accounts -> Times]
  <2>1. \A a \in Accounts : Max({owed[a], pen[Kernel].until}) \in Times
    <3>1. ASSUME NEW a \in Accounts  PROVE Max({owed[a], pen[Kernel].until}) \in Times
      <4>1. owed[a] \in Times /\ pen[Kernel].until \in Times
        BY Pens DEF TypeInv, CoolTyped, PenType, Writers
      <4>2. owed[a] \in Nat /\ pen[Kernel].until \in Nat
        BY <4>1, Pens DEF Writers
      <4>3. Max({owed[a], pen[Kernel].until}) \in {owed[a], pen[Kernel].until}
        BY <4>2, MaxOfTwo
      <4>4. QED  BY <4>1, <4>3
    <3>2. QED  BY <3>1
  <2>2. QED  BY <2>1 DEF MarkTerminal, TypeInv, CoolTyped
<1>6. TasksInv'
  <2>1. PICK s \in {"blocked", "terminal"} :
           /\ s = (IF task[t].st = "refused" THEN "blocked" ELSE "terminal")
           /\ s = "terminal" => task[t].st = "failing"
    BY <1>4
  <2>2. PICK n \in 0..MaxAttempts :
           /\ n = (IF task[t].st = "refused" THEN task[t].attempts + 1 ELSE task[t].attempts)
           /\ task[t].st # "refused" => n < MaxAttempts
    BY <1>4, Row DEF TaskOK
  <2>11. PICK u \in TaskType : u = task[t] /\ u.class # None
    BY <1>4, Row DEF TaskOK
  <2>3. PICK v : v = [u EXCEPT !.st = s, !.attempts = n]
    OBVIOUS
  <2>4. v \in TaskType /\ TaskOK(v)
    <3>1. /\ v \in TaskType
          /\ v.st = s /\ v.class = u.class /\ v.attempts = n
      BY ONLY <2>3 DEF TaskType
    <3>2. QED  BY <1>4, <2>1, <2>2, <2>11, <3>1 DEF TaskOK
  <2>5. task' = [task EXCEPT ![t] = v]
    <3>1. task \in [Tasks -> TaskType]
      BY Row
    <3>2. task' = [task EXCEPT ![t].st = s, ![t].attempts = n]
      BY <2>1, <2>2, <3>1 DEF MarkTerminal
    <3>3. QED  BY ONLY <2>3, <2>11, <3>1, <3>2
  <2>6. \A x \in Tasks : task'[x] = IF x = t THEN v ELSE task[x]
    BY <2>5, Row
  <2>7. task' \in [Tasks -> TaskType]
    BY <2>4, <2>5, Row
  <2>8. \A x \in Tasks : TaskOK(task'[x])
    BY <2>4, <2>6 DEF TypeInv, TasksInv
  <2>9. QED  BY <2>7, <2>8 DEF TasksInv, TaskOK
<1>7. QED  BY <1>1, <1>3, <1>5, <1>6 DEF TypeInv, FilesTyped, CoolTyped, RecordInv

(* What a writer writes is a deadline. *)
LEMMA RaisedTyped ==
    ASSUME TypeInv, NEW w \in Writers, pen[w].read # None, NEW a \in Accounts
    PROVE  /\ Raised(w, a) \in Times /\ pen[w].read \in [Accounts -> Times]
           /\ pen[w].until # 0 => Raised(w, a) >= pen[w].until /\ Raised(w, a) >= pen[w].read[a]
<1>1. pen[w].until \in Times /\ pen[w].read \in [Accounts -> Times]
  BY Pens DEF PenType
<1>2. pen[w].until \in Nat /\ pen[w].read[a] \in Nat /\ pen[w].read[a] \in Times /\ 0 \in Times
  BY <1>1, Pens DEF Times, Long
<1>3. PICK m : m = Max({pen[w].until, pen[w].read[a]})
  OBVIOUS
<1>4. m \in {pen[w].until, pen[w].read[a]} /\ m >= pen[w].until /\ m >= pen[w].read[a]
  BY <1>2, <1>3, MaxOfTwo
<1>5. Raised(w, a) = IF pen[w].until = 0 THEN 0 ELSE m
  BY <1>3 DEF Raised
<1>6. QED  BY <1>1, <1>2, <1>4, <1>5

(* One write of state.json: its writer has one account fewer to write, and *)
(* a clearing takes the account out of what the kernel still answers for.  *)
LEMMA Written ==
    ASSUME TypeInv, NEW w \in Writers, WriteState(w)
    PROVE  /\ pen[w].read # None
           /\ pen' \in [Writers -> PenType]
           /\ pen'[w].read = None
           /\ \A v \in Writers \ {w} :
                /\ pen'[v].task = pen[v].task /\ pen'[v].until = pen[v].until
                /\ pen'[v].todo = pen[v].todo /\ pen'[v].read = pen[v].read
           /\ \E a \in pen[w].todo :
                /\ a \in Accounts
                /\ cool' = [pen[w].read EXCEPT ![a] = Raised(w, a)]
                /\ owed' = IF pen[w].until = 0 THEN [owed EXCEPT ![a] = 0] ELSE owed
                /\ pen'[Kernel].asked = IF pen[w].until = 0 THEN pen[Kernel].asked \ {a}
                                        ELSE pen[Kernel].asked
                /\ w = Kernel => /\ pen'[w].task = pen[w].task /\ pen'[w].until = pen[w].until
                                 /\ pen'[w].todo = pen[w].todo \ {a}
<1>1. PICK a, p :
         /\ a \in pen[w].todo
         /\ cool' = [pen[w].read EXCEPT ![a] = Raised(w, a)]
         /\ p = IF w = Operator /\ pen[w].todo \ {a} = {} THEN NoPen
                ELSE [pen[w] EXCEPT !.todo = pen[w].todo \ {a}, !.read = None]
         /\ pen' = [pen EXCEPT ![w] = p,
                               ![Kernel].asked = IF pen[w].until = 0 THEN pen[Kernel].asked \ {a}
                                                 ELSE pen[Kernel].asked]
         /\ owed' = IF pen[w].until = 0 THEN [owed EXCEPT ![a] = 0] ELSE owed
  BY DEF WriteState
<1>2. a \in Accounts /\ pen[w].read # None
  BY <1>1, Pens DEF PenType, WriteState
<1>3. /\ p \in PenType /\ p.read = None
      /\ w = Kernel => /\ p.task = pen[w].task /\ p.until = pen[w].until
                       /\ p.todo = pen[w].todo \ {a} /\ p.asked = pen[w].asked
  BY <1>1, Pens DEF PenType, NoPen
<1>4. PICK q : q = [pen EXCEPT ![w] = p]
  OBVIOUS
<1>5. q \in [Writers -> PenType] /\ \A v \in Writers : q[v] = IF v = w THEN p ELSE pen[v]
  BY <1>3, <1>4, Pens
<1>6. q[Kernel].asked = pen[Kernel].asked
  BY <1>3, <1>5, Pens
<1>7. PICK s \in SUBSET Accounts :
         s = IF pen[w].until = 0 THEN pen[Kernel].asked \ {a} ELSE pen[Kernel].asked
  BY Pens DEF PenType
<1>8. pen' = [q EXCEPT ![Kernel].asked = s]
  <2>1. pen' = [pen EXCEPT ![w] = p, ![Kernel].asked = s]
    BY ONLY <1>1, <1>7
  <2>2. QED  BY ONLY <2>1, <1>4
<1>9. PICK k : k = [q[Kernel] EXCEPT !.asked = s]
  OBVIOUS
<1>10. /\ k \in PenType /\ k.asked = s /\ k.task = q[Kernel].task /\ k.todo = q[Kernel].todo
       /\ k.until = q[Kernel].until /\ k.read = q[Kernel].read
  BY <1>5, <1>9, Pens DEF PenType
<1>11. pen' = [q EXCEPT ![Kernel] = k]
  BY ONLY <1>8, <1>9
<1>12. /\ pen' \in [Writers -> PenType] /\ pen'[Kernel] = k
       /\ \A v \in Writers \ {Kernel} : pen'[v] = q[v]
  BY <1>5, <1>10, <1>11, Pens
<1>13. pen'[w].read = None
  BY <1>3, <1>5, <1>10, <1>12, Pens
<1>14. \A v \in Writers \ {w} :
         /\ pen'[v].task = pen[v].task /\ pen'[v].until = pen[v].until
         /\ pen'[v].todo = pen[v].todo /\ pen'[v].read = pen[v].read
  BY <1>5, <1>10, <1>12, Pens
<1>15. w = Kernel => /\ pen'[w].task = pen[w].task /\ pen'[w].until = pen[w].until
                     /\ pen'[w].todo = pen[w].todo \ {a}
  BY <1>3, <1>5, <1>10, <1>12, Pens
<1>16. pen'[Kernel].asked = IF pen[w].until = 0 THEN pen[Kernel].asked \ {a}
                          ELSE pen[Kernel].asked
  BY <1>7, <1>10, <1>12
<1>17. /\ a \in pen[w].todo /\ cool' = [pen[w].read EXCEPT ![a] = Raised(w, a)]
       /\ owed' = IF pen[w].until = 0 THEN [owed EXCEPT ![a] = 0] ELSE owed
  BY <1>1
<1>18. QED  BY <1>2, <1>12, <1>13, <1>14, <1>15, <1>16, <1>17
(* A writer reads state.json, or writes what it read back with one change. *)
LEMMA TypeWriter ==
    ASSUME TypeInv, NEW w \in Writers, WriterStep(w)
    PROVE  TypeInv'
<1>1. UNCHANGED <<now, pool, seen, left, cred, metered, job, task>>
  BY DEF WriterStep, ReadState, WriteState, disk
<1>2. CASE ReadState(w)
  <2>1. pen' = [pen EXCEPT ![w].read = cool] /\ UNCHANGED <<cool, owed>>
    BY <1>2 DEF ReadState, disk
  <2>2. PICK p : p = [pen[w] EXCEPT !.read = cool]
    OBVIOUS
  <2>3. p \in PenType /\ p.task = pen[w].task
    BY <2>2, Pens DEF PenType, TypeInv, CoolTyped
  <2>4. pen' = [pen EXCEPT ![w] = p]
    BY <2>1, <2>2, Pens
  <2>5. QED  BY <1>1, <2>1, <2>3, <2>4, Pens DEF TypeInv, FilesTyped, CoolTyped, TasksInv, RecordInv
<1>3. CASE WriteState(w)
  <2>1. /\ pen' \in [Writers -> PenType] /\ pen[w].read # None
        /\ \A v \in Writers \ {w} : pen'[v].task = pen[v].task
    BY <1>3, Written
  <2>2. PICK a \in Accounts :
           /\ cool' = [pen[w].read EXCEPT ![a] = Raised(w, a)]
           /\ owed' = IF pen[w].until = 0 THEN [owed EXCEPT ![a] = 0] ELSE owed
           /\ w = Kernel => pen'[w].task = pen[w].task
    BY <1>3, Written
  <2>3. cool' \in [Accounts -> Times]
    BY <2>1, <2>2, RaisedTyped
  <2>4. owed' \in [Accounts -> Times]
    BY <2>2, DispatchAssumption DEF TypeInv, CoolTyped, Times, Long
  <2>5. pen'[Kernel].task = pen[Kernel].task
    BY <2>1, <2>2, Pens
  <2>6. QED  BY <1>1, <2>1, <2>3, <2>4, <2>5 DEF TypeInv, FilesTyped, CoolTyped, TasksInv, RecordInv
<1>4. QED  BY <1>2, <1>3 DEF WriterStep

(* What an operator's command is about to write changes nothing the kernel *)
(* relies on.                                                              *)
LEMMA OperatorWrites ==
    ASSUME TypeInv,
           \/ \E a \in Accounts, d \in {0, now + Long} : OperatorCools(a, d)
           \/ \E a \in Accounts : RemoveAccount(a)
           \/ WhichCools
    PROVE  /\ pen' \in [Writers -> PenType] /\ pen'[Kernel] = pen[Kernel]
           /\ pen'[Operator].read = None
<1>1. \A d \in {0, now + Long} : d \in Times
  BY Pens DEF Times, Long, Writers
<1>2. ASSUME NEW a \in Accounts, NEW d \in {0, now + Long}, OperatorCools(a, d)
      PROVE  \E p \in PenType : p.read = None /\ pen' = [pen EXCEPT ![Operator] = p]
  <2>1. pen' = [pen EXCEPT ![Operator] = [NoPen EXCEPT !.todo = {a}, !.until = d]]
    BY <1>2 DEF OperatorCools
  <2>2. PICK p : p = [NoPen EXCEPT !.todo = {a}, !.until = d]
    OBVIOUS
  <2>3. p \in PenType /\ p.read = None
    BY <1>1, <2>2 DEF PenType, NoPen
  <2>4. QED  BY <2>1, <2>2, <2>3
<1>3. ASSUME NEW a \in Accounts, RemoveAccount(a)
      PROVE  \E p \in PenType : p.read = None /\ pen' = [pen EXCEPT ![Operator] = p]
  <2>1. pen' = [pen EXCEPT ![Operator] = [NoPen EXCEPT !.todo = {a}]]
    BY <1>3 DEF RemoveAccount
  <2>2. PICK p : p = [NoPen EXCEPT !.todo = {a}]
    OBVIOUS
  <2>3. p \in PenType /\ p.read = None
    BY <1>1, <2>2 DEF PenType, NoPen
  <2>4. QED  BY <2>1, <2>2, <2>3
<1>4. ASSUME WhichCools
      PROVE  \E p \in PenType : p.read = None /\ pen' = [pen EXCEPT ![Operator] = p]
  <2>1. PICK read, dry : /\ read \subseteq cred /\ dry \subseteq read
                         /\ pen' = [pen EXCEPT ![Operator] = [NoPen EXCEPT !.todo = dry,
                                                                         !.until = now + Long]]
    BY <1>4 DEF WhichCools
  <2>2. dry \in SUBSET Accounts
    BY <2>1 DEF TypeInv, FilesTyped
  <2>3. PICK p : p = [NoPen EXCEPT !.todo = dry, !.until = now + Long]
    OBVIOUS
  <2>4. p \in PenType /\ p.read = None
    BY <1>1, <2>2, <2>3 DEF PenType, NoPen
  <2>5. QED  BY <2>1, <2>3, <2>4
<1>5. PICK p \in PenType : p.read = None /\ pen' = [pen EXCEPT ![Operator] = p]
  BY <1>2, <1>3, <1>4
<1>6. QED  BY <1>5, Pens DEF Writers

(* An account the pool names, taken out of it. *)
LEMMA TakenOut ==
    ASSUME TypeInv, NEW a \in Range(pool)
    PROVE  /\ a \in Accounts /\ IsPool(RemoveAt(pool, Place(a)))
           /\ a \notin Range(RemoveAt(pool, Place(a)))
<1>1. IsPool(pool)
  BY DEF TypeInv, FilesTyped
<1>2. Place(a) \in DOMAIN pool /\ pool[Place(a)] = a
  BY <1>1, Placed
<1>3. QED  BY <1>1, <1>2, Removed DEF IsPool
(* The operator's commands, the server's jobs, the settings, the provider   *)
(* and time.                                                               *)
LEMMA TypeOutside ==
    ASSUME TypeInv,
           \/ \E a \in Accounts :
                \/ \E d \in {0, now + Long} : OperatorCools(a, d)
                \/ Promote(a) \/ RemoveAccount(a) \/ Meter(a)
                \/ \E kind \in {"verify", "add"} : BeginJob(kind, a)
           \/ WhichCools \/ EndJob \/ SetMetered \/ Tick
    PROVE  TypeInv'
<1>1. ASSUME NEW a \in Accounts, NEW d \in {0, now + Long}, OperatorCools(a, d)  PROVE TypeInv'
  <2>1. pen' \in [Writers -> PenType] /\ pen'[Kernel] = pen[Kernel]
    BY <1>1, OperatorWrites
  <2>2. QED  BY <1>1, <2>1 DEF OperatorCools, disk, TypeInv, FilesTyped, CoolTyped, TasksInv, RecordInv
<1>2. ASSUME NEW a \in Accounts, Promote(a)  PROVE TypeInv'
  <2>1. PICK r : r = RemoveAt(pool, Place(a))
    OBVIOUS
  <2>2. pool' = <<a>> \o r
    BY <1>2, <2>1 DEF Promote
  <2>3. IsPool(r) /\ a \in Accounts \ Range(r)
    BY <1>2, <2>1, TakenOut DEF Promote
  <2>4. IsPool(pool')
    BY <2>2, <2>3, Added
  <2>5. QED  BY <1>2, <2>4 DEF Promote, TypeInv, FilesTyped, CoolTyped, TasksInv, RecordInv
<1>3. ASSUME NEW a \in Accounts, RemoveAccount(a)  PROVE TypeInv'
  <2>1. pen' \in [Writers -> PenType] /\ pen'[Kernel] = pen[Kernel]
    BY <1>3, OperatorWrites
  <2>2. IsPool(pool') /\ cred' \subseteq Accounts
    BY <1>3, TakenOut DEF RemoveAccount, TypeInv, FilesTyped
  <2>3. QED  BY <1>3, <2>1, <2>2 DEF RemoveAccount, TypeInv, FilesTyped, CoolTyped, TasksInv, RecordInv
<1>4. ASSUME NEW a \in Accounts, Meter(a)  PROVE TypeInv'
  <2>1. left' \in [Accounts -> BOOLEAN]
    BY <1>4 DEF Meter, TypeInv, FilesTyped
  <2>2. QED  BY <1>4, <2>1 DEF Meter, disk, TypeInv, FilesTyped, CoolTyped, TasksInv, RecordInv
<1>5. ASSUME NEW a \in Accounts, NEW kind \in {"verify", "add"}, BeginJob(kind, a)  PROVE TypeInv'
  <2>1. PICK of \in Accounts \cup {None} : of = IF kind = "add" THEN a ELSE None
    OBVIOUS
  <2>2. job' = [kind |-> kind, read |-> pool, account |-> of]
    BY <1>5, <2>1 DEF BeginJob
  <2>3. job' \in JobType /\ JobOK(job')
    BY <1>5, <2>1, <2>2 DEF BeginJob, JobType, JobOK, TypeInv, FilesTyped, IsPool
  <2>4. QED  BY <1>5, <2>3 DEF BeginJob, disk, TypeInv, FilesTyped, CoolTyped, TasksInv, RecordInv, JobOK
<1>6. ASSUME EndJob  PROVE TypeInv'
  <2>1. job \in JobType /\ IsPool(job.read)
    BY DEF TypeInv, FilesTyped, JobType, JobOK, IsPool
  <2>2. IsPool(pool')
    BY <1>6, <2>1, Added DEF EndJob, TypeInv, JobOK
  <2>3. cred' \subseteq Accounts
    BY <1>6, <2>1 DEF EndJob, TypeInv, FilesTyped, JobType
  <2>4. job' \in JobType /\ JobOK(job')
    BY <1>6 DEF EndJob, JobType, JobOK, IsInjective
  <2>5. QED  BY <1>6, <2>2, <2>3, <2>4
             DEF EndJob, TypeInv, FilesTyped, CoolTyped, TasksInv, RecordInv, JobOK
<1>7. ASSUME SetMetered  PROVE TypeInv'
  BY <1>7 DEF SetMetered, disk, TypeInv, FilesTyped, CoolTyped, TasksInv, RecordInv
<1>8. ASSUME Tick  PROVE TypeInv'
  <2>1. now' \in 0..MaxTime /\ UNCHANGED <<pool, cool, left, cred, metered, job, task, pen>>
    BY <1>8, DispatchAssumption DEF Tick, TypeInv, FilesTyped
  <2>2. seen' \in [Accounts -> Seen]
    BY <1>8 DEF Tick, Seen
  <2>3. owed' \in [Accounts -> Times]
    BY <1>8, DispatchAssumption DEF Tick, TypeInv, CoolTyped, Times, Long
  <2>4. QED  BY <2>1, <2>2, <2>3 DEF TypeInv, FilesTyped, CoolTyped, TasksInv, RecordInv
<1>9. ASSUME WhichCools  PROVE TypeInv'
  <2>1. pen' \in [Writers -> PenType] /\ pen'[Kernel] = pen[Kernel]
    BY <1>9, OperatorWrites
  <2>2. UNCHANGED <<now, pool, cool, left, cred, metered, job, task, owed>>
    BY <1>9 DEF WhichCools
  <2>3. \A a \in Accounts : Usage(a) \in Seen /\ seen[a] \in Seen
    BY DEF Usage, Seen, TypeInv, FilesTyped
  <2>4. \E read : seen' = [a \in Accounts |-> IF a \in read \cap Quoted THEN Usage(a) ELSE seen[a]]
    BY <1>9 DEF WhichCools
  <2>5. seen' \in [Accounts -> Seen]
    BY <2>3, <2>4
  <2>6. QED  BY <2>1, <2>2, <2>5 DEF TypeInv, FilesTyped, CoolTyped, TasksInv, RecordInv
<1>10. QED  BY <1>1, <1>2, <1>3, <1>4, <1>5, <1>6, <1>7, <1>8, <1>9
(* The first state. *)
LEMMA TypeInit ==
    Init => TypeInv /\ CoolInv
<1> SUFFICES ASSUME Init  PROVE TypeInv /\ CoolInv
  OBVIOUS
<1>1. MaxTime \in Nat /\ MaxAttempts \in Nat \ {0} /\ 0 \in Times /\ None \notin Tasks
  BY DispatchAssumption DEF Times, Long
<1>2. FilesTyped
  <2>1. IsPool(pool) /\ now \in 0..MaxTime
    BY <1>1, DispatchAssumption DEF Init, IsPool
  <2>2. seen \in [Accounts -> Seen] /\ left \in [Accounts -> BOOLEAN]
    BY DEF Init, Seen
  <2>3. job \in JobType
    BY DEF Init, JobType
  <2>4. QED  BY <2>1, <2>2, <2>3 DEF Init, FilesTyped
<1>3. CoolTyped
  <2>1. NoPen \in PenType
    BY <1>1 DEF NoPen, PenType
  <2>2. QED  BY <1>1, <2>1 DEF Init, CoolTyped
<1>4. TasksInv
  <2>1. PICK v : v = [st |-> "new", class |-> None, hop |-> NoHop, outcome |-> None, attempts |-> 0,
                      pinned |-> FALSE]
    OBVIOUS
  <2>2. v \in TaskType /\ TaskOK(v)
    BY <1>1, <2>1, NoHopTyped DEF TaskType, TaskOK
  <2>3. task = [t \in Tasks |-> v]
    BY <2>1 DEF Init
  <2>4. QED  BY <2>2, <2>3 DEF TasksInv
<1>5. JobOK(job)
  BY DEF Init, JobOK, IsInjective
<1>6. RecordInv
  BY DEF Init, RecordInv, NoPen, Writers
<1>7. CoolInv
  BY <1>1 DEF Init, CoolInv, KernelInv, ReadInv, RecordedIsCooled, NoPen, Writers
<1>8. QED  BY <1>2, <1>3, <1>4, <1>5, <1>6, <1>7 DEF TypeInv

(* Every step keeps it, whoever else writes. *)
LEMMA TypeStep ==
    ASSUME TypeInv, [Next]_vars
    PROVE  TypeInv'
<1>1. CASE UNCHANGED vars
  BY <1>1 DEF vars, TypeInv, FilesTyped, CoolTyped, TasksInv, RecordInv, JobOK
<1>2. ASSUME NEW t \in Tasks, KernelStep(t)  PROVE TypeInv'
  BY <1>2, TypeBegin, TypeMark, TypeRun, TypeAdvance DEF KernelStep
<1>3. ASSUME NEW w \in Writers, WriterStep(w)  PROVE TypeInv'
  BY <1>3, TypeWriter
<1>4. ASSUME Environment  PROVE TypeInv'
  <2>1. ASSUME NEW t \in Tasks, NEW want \in {None, Promoted, Deep},
               StartRouted(t, want) \/ \E pinned \in BOOLEAN : StartNamed(t, want, pinned)
        PROVE  TypeInv'
    BY <2>1, TypeStart
  <2>2. ASSUME NEW t \in Tasks, Launch(t) \/ \E o \in Outcomes : Fail(t, o)  PROVE TypeInv'
    BY <2>2, TypeRun
  <2>3. ASSUME NEW a \in Accounts,
               \/ \E d \in {0, now + Long} : OperatorCools(a, d)
               \/ Promote(a) \/ RemoveAccount(a) \/ Meter(a)
               \/ \E kind \in {"verify", "add"} : BeginJob(kind, a)
        PROVE  TypeInv'
    BY <2>3, TypeOutside
  <2>4. ASSUME WhichCools \/ EndJob \/ SetMetered \/ Tick  PROVE TypeInv'
    BY <2>4, TypeOutside
  <2>5. ASSUME Crash  PROVE TypeInv'
    BY <2>5, TypeBegin
  <2>6. QED  BY <1>4, <2>1, <2>2, <2>3, <2>4, <2>5 DEF Environment
<1>5. QED  BY <1>1, <1>2, <1>3, <1>4 DEF Next

(* Accounts, cooldowns, hops and effects stay within what the files can     *)
(* hold, also when two processes write state.json at once.                 *)
THEOREM TypeCorrect == Spec => []TypeOK
<1>1. TypeInv => TypeOK
  <2> SUFFICES ASSUME TypeInv  PROVE TypeOK
    OBVIOUS
  <2>1. IsInjective(pool) /\ Range(pool) \subseteq Accounts /\ Range(job.read) \subseteq Accounts
    BY DEF TypeInv, FilesTyped, IsPool, JobType, Range
  <2>2. job.kind \in {"none", "verify", "add"}
    BY DEF TypeInv, FilesTyped, JobType
  <2>3. \A t \in Tasks :
       /\ task[t].st \in {"new", "prepared", "running", "failing", "refused",
                          "terminal", "blocked", "exhausted"}
       /\ task[t].class \in DOMAIN Chains \cup {None}
       /\ task[t].hop.account \in Accounts \cup {Free, None}
       /\ task[t].outcome \in Outcomes \cup {None}
       /\ task[t].attempts \in 0..MaxAttempts
    BY Row DEF TaskType, HopType
  <2>4. \A w \in Writers : pen[w].task \in Tasks \cup {None} /\ pen[w].todo \subseteq Accounts
    BY Pens DEF PenType
  <2>5. QED  BY <2>1, <2>2, <2>3, <2>4 DEF TypeOK, TypeInv, FilesTyped, CoolTyped, Times, Seen
<1>2. QED  BY <1>1, TypeInit, TypeStep, PTL DEF Spec

-----------------------------------------------------------------------------
(* One writer at a time. *)

(* A step that leaves the cooldowns and the kernel's write alone. *)
LEMMA CoolFrame ==
    ASSUME CoolInv, TypeInv, UNCHANGED cool, pen'[Kernel] = pen[Kernel],
           pen'[Operator].read \in {None, pen[Operator].read},
           \A a \in Accounts : owed'[a] <= owed[a], owed' \in [Accounts -> Times]
    PROVE  CoolInv'
<1>1. KernelInv'
  BY DEF CoolInv, KernelInv
<1>2. ReadInv'
  BY Pens DEF CoolInv, ReadInv, Writers
<1>3. RecordedIsCooled'
  <2>1. ASSUME NEW a \in Accounts  PROVE cool'[a] >= owed'[a]
    <3>1. cool[a] \in Nat /\ owed[a] \in Nat /\ owed'[a] \in Nat /\ cool[a] >= owed[a]
      BY Pens DEF CoolInv, RecordedIsCooled, TypeInv, CoolTyped, Writers
    <3>2. QED  BY <3>1
  <2>2. QED  BY <2>1 DEF RecordedIsCooled
<1>4. QED  BY <1>1, <1>2, <1>3 DEF CoolInv

(* The kernel sets out to cool what an outcome condemns, or dies over it. *)
LEMMA CoolBegin ==
    ASSUME CoolInv, TypeInv, (\E t \in Tasks : BeginCool(t)) \/ Crash
    PROVE  CoolInv'
<1>1. UNCHANGED <<cool, owed>>
  BY DEF BeginCool, Crash, disk
<1>2. \E p \in PenType :
         /\ pen' = [pen EXCEPT ![Kernel] = p] /\ p.read = None /\ p.asked = p.todo
         /\ p.task = None => p = NoPen
         /\ p.task # None => p.until > 0
  <2>1. CASE Crash
    BY <2>1, Pens DEF Crash, NoPen, Writers
  <2>2. ASSUME NEW t \in Tasks, BeginCool(t)
        PROVE  \E p \in PenType :
                  /\ pen' = [pen EXCEPT ![Kernel] = p] /\ p.read = None /\ p.asked = p.todo
                  /\ p.task = None => p = NoPen
                  /\ p.task # None => p.until > 0
    <3>1. PICK d \in Deadlines(t) :
             pen' = [pen EXCEPT ![Kernel] = [task |-> t, todo |-> Condemned(t),
                                             asked |-> Condemned(t), until |-> d, read |-> None]]
      BY <2>2 DEF BeginCool
    <3>2. d \in Times /\ d > 0
      BY Pens DEF Deadlines, Times, Short, Long, Writers
    <3>3. PICK p : p = [task |-> t, todo |-> Condemned(t), asked |-> Condemned(t), until |-> d,
                        read |-> None]
      OBVIOUS
    <3>4. /\ p \in PenType /\ p.task # None /\ p.read = None /\ p.asked = p.todo
          /\ p.until > 0
      BY <3>2, <3>3, CondemnedKnown, DispatchAssumption DEF PenType
    <3>5. pen' = [pen EXCEPT ![Kernel] = p]
      BY <3>1, <3>3
    <3>6. QED  BY <3>4, <3>5
  <2>3. QED  BY <2>1, <2>2
<1>3. PICK p \in PenType :
         /\ pen' = [pen EXCEPT ![Kernel] = p] /\ p.read = None /\ p.asked = p.todo
         /\ p.task = None => p = NoPen
         /\ p.task # None => p.until > 0
  BY <1>2
<1>4. pen'[Kernel] = p /\ pen'[Operator] = pen[Operator]
  BY <1>3, Pens DEF Writers
<1>5. KernelInv'
  BY <1>3, <1>4 DEF KernelInv
<1>6. ReadInv'
  BY <1>1, <1>3, <1>4, Pens DEF CoolInv, ReadInv, Writers
<1>7. RecordedIsCooled'
  BY <1>1 DEF CoolInv, RecordedIsCooled
<1>8. QED  BY <1>5, <1>6, <1>7 DEF CoolInv

(* The kernel records an outcome when it has cooled all it condemns. *)
LEMMA CoolMark ==
    ASSUME CoolInv, TypeInv, NEW t \in Tasks, MarkTerminal(t)
    PROVE  CoolInv'
<1>1. UNCHANGED cool /\ pen' = [pen EXCEPT ![Kernel] = NoPen] /\ pen[Kernel].todo = {}
  BY DEF MarkTerminal, disk
<1>2. pen'[Kernel] = NoPen /\ pen'[Operator] = pen[Operator]
  BY <1>1, Pens DEF Writers
<1>3. KernelInv'
  BY <1>2 DEF KernelInv, NoPen
<1>4. ReadInv'
  BY <1>1, <1>2, Pens DEF CoolInv, ReadInv, Writers, NoPen
<1>5. RecordedIsCooled'
  <2>1. ASSUME NEW a \in Accounts  PROVE cool'[a] >= owed'[a]
    <3>1. /\ cool[a] \in Nat /\ owed[a] \in Nat /\ pen[Kernel].until \in Nat /\ cool[a] >= owed[a]
          /\ a \in pen[Kernel].asked => cool[a] >= pen[Kernel].until
      BY <1>1, Pens DEF CoolInv, KernelInv, RecordedIsCooled, TypeInv, CoolTyped, PenType, Writers
    <3>2. Max({owed[a], pen[Kernel].until}) \in {owed[a], pen[Kernel].until}
      BY <3>1, MaxOfTwo
    <3>3. owed'[a] = IF a \in pen[Kernel].asked THEN Max({owed[a], pen[Kernel].until}) ELSE owed[a]
      BY DEF MarkTerminal
    <3>4. QED  BY <1>1, <3>1, <3>2, <3>3
  <2>2. QED  BY <2>1 DEF RecordedIsCooled
<1>6. QED  BY <1>3, <1>4, <1>5 DEF CoolInv

(* A writer reads the file when no other is about to write it. *)
LEMMA CoolRead ==
    ASSUME ~Overlap, CoolInv, TypeInv, NEW w \in Writers, ReadState(w)
    PROVE  CoolInv'
<1>1. /\ pen' = [pen EXCEPT ![w].read = cool] /\ UNCHANGED <<cool, owed>>
      /\ pen[w].todo # {} /\ \A v \in Writers : pen[v].read = None
  BY DEF ReadState, disk
<1>2. PICK p : p = [pen[w] EXCEPT !.read = cool]
  OBVIOUS
<1>3. /\ p.read = cool /\ p.task = pen[w].task /\ p.todo = pen[w].todo
      /\ p.asked = pen[w].asked /\ p.until = pen[w].until
  BY <1>2, Pens DEF PenType
<1>4. pen' \in [Writers -> [task : Tasks \cup {None}, todo : SUBSET Accounts, asked : SUBSET Accounts,
                            until : Times, read : [Accounts -> Times] \cup {None}]]
  BY TypeWriter DEF WriterStep, TypeInv, CoolTyped, PenType
<1>5. pen' = [pen EXCEPT ![w] = p]
  BY <1>1, <1>2, Pens
<1>6. \A v \in Writers : pen'[v] = IF v = w THEN p ELSE pen[v]
  BY <1>5, Pens
<1>7. KernelInv'
  <2>1. w = Kernel => pen[Kernel].task # None
    BY <1>1 DEF CoolInv, KernelInv, NoPen
  <2>2. QED  BY <1>1, <1>3, <1>6, <2>1, Pens DEF CoolInv, KernelInv
<1>8. ReadInv'
  BY <1>1, <1>3, <1>6 DEF ReadInv
<1>9. RecordedIsCooled'
  BY <1>1 DEF CoolInv, RecordedIsCooled
<1>10. QED  BY <1>7, <1>8, <1>9 DEF CoolInv

(* What a writer writes back is the file with one cooldown raised, or with *)
(* one cleared, which nobody answers for any longer.                       *)
LEMMA CoolWrite ==
    ASSUME CoolInv, TypeInv, NEW w \in Writers, WriteState(w)
    PROVE  CoolInv'
<1>1. /\ pen[w].read = cool /\ pen'[w].read = None
      /\ \A v \in Writers \ {w} : pen[v].read = None /\ pen'[v].read = None
  BY Written DEF CoolInv, ReadInv
<1>2. PICK a \in pen[w].todo :
         /\ a \in Accounts
         /\ cool' = [pen[w].read EXCEPT ![a] = Raised(w, a)]
         /\ owed' = IF pen[w].until = 0 THEN [owed EXCEPT ![a] = 0] ELSE owed
         /\ pen'[Kernel].asked = IF pen[w].until = 0 THEN pen[Kernel].asked \ {a}
                                 ELSE pen[Kernel].asked
         /\ w = Kernel => /\ pen'[w].task = pen[w].task /\ pen'[w].until = pen[w].until
                          /\ pen'[w].todo = pen[w].todo \ {a}
  BY Written
<1>3. /\ \A b \in Accounts : cool'[b] = IF b = a THEN Raised(w, a) ELSE cool[b]
      /\ Raised(w, a) \in Nat /\ pen[w].until \in Nat /\ pen[Kernel].until \in Nat
      /\ \A b \in Accounts : cool[b] \in Nat /\ owed[b] \in Nat
      /\ pen[w].until # 0 => Raised(w, a) >= pen[w].until /\ Raised(w, a) >= cool[a]
  BY <1>1, <1>2, RaisedTyped, Written, Pens DEF TypeInv, CoolTyped, PenType
<1>4. pen[w].until = 0 => Raised(w, a) = 0
  BY DEF Raised
<1>5. ReadInv'
  BY <1>1 DEF ReadInv
<1>6. RecordedIsCooled'
  <2>1. ASSUME NEW b \in Accounts  PROVE cool'[b] >= owed'[b]
    <3>1. cool[b] >= owed[b] /\ owed \in [Accounts -> Times]
      BY DEF CoolInv, RecordedIsCooled, TypeInv, CoolTyped
    <3>2. owed'[b] = IF pen[w].until = 0 /\ b = a THEN 0 ELSE owed[b]
      BY <1>2, <3>1
    <3>3. QED  BY <1>3, <1>4, <3>1, <3>2
  <2>2. QED  BY <2>1 DEF RecordedIsCooled
<1>7. KernelInv'
  <2>1. CASE w = Kernel
    <3>1. pen[w].task # None /\ pen[w].until # 0
      BY <1>2, <1>3, <2>1 DEF CoolInv, KernelInv, NoPen
    <3>2. ASSUME NEW b \in pen'[Kernel].asked \ pen'[Kernel].todo
          PROVE  cool'[b] >= pen'[Kernel].until
      <4>1. b \in Accounts /\ b \in pen[Kernel].asked /\ pen'[Kernel].until = pen[Kernel].until
        BY <1>2, <2>1, <3>1, Pens DEF PenType
      <4>2. CASE b = a
        BY <1>3, <2>1, <3>1, <4>1, <4>2
      <4>3. CASE b # a
        <5>1. b \notin pen[Kernel].todo
          BY <1>2, <2>1, <4>3
        <5>2. cool[b] >= pen[Kernel].until
          BY <4>1, <5>1 DEF CoolInv, KernelInv
        <5>3. QED  BY <1>3, <4>1, <4>3, <5>2
      <4>4. QED  BY <4>2, <4>3
    <3>3. QED  BY <1>2, <2>1, <3>1, <3>2 DEF CoolInv, KernelInv
  <2>2. CASE w = Operator
    <3>1. /\ pen'[Kernel].task = pen[Kernel].task /\ pen'[Kernel].until = pen[Kernel].until
          /\ pen'[Kernel].todo = pen[Kernel].todo /\ pen'[Kernel].read = pen[Kernel].read
      BY <2>2, Written, Pens
    <3>2. pen'[Kernel].task = None => pen'[Kernel] = NoPen
      <4>1. pen'[Kernel] \in PenType /\ NoPen \in PenType
        BY Written, Pens
      <4>2. pen[Kernel] = NoPen => pen'[Kernel].asked = {}
        BY <1>2 DEF NoPen
      <4>3. pen[Kernel] = NoPen => pen'[Kernel] = NoPen
        BY <3>1, <4>1, <4>2 DEF PenType, NoPen
      <4>4. QED  BY <3>1, <4>3 DEF CoolInv, KernelInv
    <3>3. ASSUME NEW b \in pen'[Kernel].asked \ pen'[Kernel].todo
          PROVE  cool'[b] >= pen'[Kernel].until
      <4>1. /\ b \in pen[Kernel].asked \ pen[Kernel].todo /\ b \in Accounts
            /\ pen[w].until = 0 => b # a
        BY <1>2, <3>1, Pens DEF PenType
      <4>2. cool[b] >= pen[Kernel].until
        BY <4>1 DEF CoolInv, KernelInv
      <4>3. QED  BY <1>3, <3>1, <4>1, <4>2
    <3>4. QED  BY <3>1, <3>2, <3>3 DEF CoolInv, KernelInv
  <2>3. QED  BY <2>1, <2>2 DEF Writers
<1>8. QED  BY <1>5, <1>6, <1>7 DEF CoolInv
(* The deadlines that passed are no longer owed. *)
LEMMA CoolTick ==
    ASSUME CoolInv, TypeInv, Tick
    PROVE  CoolInv'
<1>1. UNCHANGED <<cool, pen>>
  BY DEF Tick
<1>2. owed' = [a \in Accounts |-> IF owed[a] > now' THEN owed[a] ELSE 0]
  BY DEF Tick
<1>3. \A a \in Accounts : owed[a] \in Nat /\ owed[a] \in Times /\ 0 \in Times
  BY Pens, DispatchAssumption DEF TypeInv, CoolTyped, Writers, Times, Long
<1>4. /\ owed' \in [Accounts -> Times]
      /\ \A a \in Accounts : owed'[a] <= owed[a]
  BY <1>2, <1>3
<1>5. QED  BY <1>1, <1>4, CoolFrame

(* One writer at a time keeps the invariant. *)
LEMMA CoolStep ==
    ASSUME ~Overlap, TypeInv, CoolInv, [Next]_vars
    PROVE  CoolInv'
<1>1. /\ owed \in [Accounts -> Times]
      /\ \A a \in Accounts : owed[a] <= owed[a]
  <2>1. \A a \in Accounts : owed[a] \in Nat
    BY Pens DEF TypeInv, CoolTyped, Writers
  <2>2. QED  BY <2>1 DEF TypeInv, CoolTyped
<1>2. ASSUME UNCHANGED <<cool, owed, pen>>  PROVE CoolInv'
  BY <1>1, <1>2, CoolFrame
<1>3. ASSUME UNCHANGED <<cool, owed>>, pen'[Kernel] = pen[Kernel], pen'[Operator].read = None
      PROVE  CoolInv'
  BY <1>1, <1>3, CoolFrame
<1>4. ASSUME NEW t \in Tasks, KernelStep(t)  PROVE CoolInv'
  <2>1. Exhaust(t) \/ Advance(t) \/ BlockUnroutable(t) => UNCHANGED <<cool, owed, pen>>
    BY DEF Exhaust, Advance, BlockUnroutable, disk
  <2>2. QED  BY <1>2, <1>4, <2>1, CoolBegin, CoolMark DEF KernelStep
<1>5. ASSUME NEW w \in Writers, WriterStep(w)  PROVE CoolInv'
  BY <1>5, CoolRead, CoolWrite DEF WriterStep
<1>6. ASSUME Environment  PROVE CoolInv'
  <2>1. ASSUME NEW t \in Tasks, NEW want \in {None, Promoted, Deep},
               StartRouted(t, want) \/ \E pinned \in BOOLEAN : StartNamed(t, want, pinned)
        PROVE  CoolInv'
    BY <1>2, <2>1 DEF StartRouted, StartNamed
  <2>2. ASSUME NEW t \in Tasks, Launch(t) \/ \E o \in Outcomes : Fail(t, o)  PROVE CoolInv'
    BY <1>2, <2>2 DEF Launch, Fail, disk
  <2>3. ASSUME NEW a \in Accounts,
               Promote(a) \/ Meter(a) \/ \E kind \in {"verify", "add"} : BeginJob(kind, a)
        PROVE  CoolInv'
    BY <1>2, <2>3 DEF Promote, Meter, BeginJob, disk
  <2>4. ASSUME EndJob \/ SetMetered  PROVE CoolInv'
    BY <1>2, <2>4 DEF EndJob, SetMetered, disk
  <2>5. ASSUME NEW a \in Accounts,
               (\E d \in {0, now + Long} : OperatorCools(a, d)) \/ RemoveAccount(a)
        PROVE  CoolInv'
    BY <1>3, <2>5, OperatorWrites DEF OperatorCools, RemoveAccount, disk
  <2>6. ASSUME WhichCools  PROVE CoolInv'
    BY <1>3, <2>6, OperatorWrites DEF WhichCools
  <2>7. QED  BY <1>6, <2>1, <2>2, <2>3, <2>4, <2>5, <2>6, CoolBegin, CoolTick DEF Environment
<1>7. CASE UNCHANGED vars
  BY <1>2, <1>7 DEF vars
<1>8. QED  BY <1>4, <1>5, <1>6, <1>7 DEF Next

(* The invariant holds in every reachable state of writers that take turns. *)
THEOREM Invariant ==
    ASSUME ~Overlap
    PROVE  Spec => []IInv
<1>1. Init => IInv
  BY TypeInit DEF IInv
<1>2. IInv /\ [Next]_vars => IInv'
  BY TypeStep, CoolStep DEF IInv
<1>3. QED  BY <1>1, <1>2, PTL DEF Spec

(* Once the outcome of an epoch is recorded, every account it condemns is    *)
(* cooling until the deadline asked for, whatever crashed between the        *)
(* outcome and its record, until an operator clears it.                      *)
THEOREM Cooled ==
    ASSUME ~Overlap
    PROVE  Spec => []RecordedIsCooled
<1>1. IInv => RecordedIsCooled
  BY DEF IInv, CoolInv
<1>2. QED  BY <1>1, Invariant, PTL

(* Only a dispatch or an advance prepares an epoch. *)
LEMMA MovedBy ==
    ASSUME TypeInv, [Next]_vars, NEW t \in Tasks, Moved(t)
    PROVE  \/ Advance(t)
           \/ \E want \in {None, Promoted, Deep} :
                StartRouted(t, want) \/ \E pinned \in BOOLEAN : StartNamed(t, want, pinned)
<1>1. task[t].st # "prepared" /\ task'[t].st = "prepared" /\ task' # task
  BY DEF Moved
<1>2. task \in [Tasks -> TaskType]
  BY Row
<1>3. ASSUME NEW u \in Tasks, KernelStep(u)  PROVE Advance(t)
  <2>1. CASE BeginCool(u)
    BY <1>1, <2>1 DEF BeginCool
  <2>2. CASE MarkTerminal(u)
    BY <1>1, <1>2, <2>2, Row DEF MarkTerminal, TaskType
  <2>3. CASE Exhaust(u)
    BY <1>1, <1>2, <2>3, Row DEF Exhaust, TaskType
  <2>4. CASE BlockUnroutable(u)
    BY <1>1, <1>2, <2>4, Row DEF BlockUnroutable, TaskType
  <2>5. CASE Advance(u)
    <3>1. u = t
      BY <1>1, <1>2, <2>5, Row DEF Advance, TaskType
    <3>2. QED  BY <2>5, <3>1
  <2>6. QED  BY <1>3, <2>1, <2>2, <2>3, <2>4, <2>5 DEF KernelStep
<1>4. ASSUME NEW w \in Writers, WriterStep(w)  PROVE FALSE
  BY <1>1, <1>4 DEF WriterStep, ReadState, WriteState
<1>5. ASSUME NEW u \in Tasks, NEW want \in {None, Promoted, Deep},
             StartRouted(u, want) \/ \E pinned \in BOOLEAN : StartNamed(u, want, pinned)
      PROVE  u = t
  BY <1>1, <1>2, <1>5, Row DEF StartRouted, StartNamed, TaskType
<1>6. ASSUME NEW u \in Tasks, Launch(u) \/ \E o \in Outcomes : Fail(u, o)  PROVE FALSE
  BY <1>1, <1>2, <1>6, Row DEF Launch, Fail, TaskType
<1>7. ASSUME NEW a \in Accounts,
             \/ \E d \in {0, now + Long} : OperatorCools(a, d)
             \/ Promote(a) \/ RemoveAccount(a) \/ Meter(a)
             \/ \E kind \in {"verify", "add"} : BeginJob(kind, a)
      PROVE  FALSE
  BY <1>1, <1>7 DEF OperatorCools, Promote, RemoveAccount, Meter, BeginJob
<1>8. ASSUME WhichCools \/ EndJob \/ SetMetered \/ Tick \/ Crash  PROVE FALSE
  BY <1>1, <1>8 DEF WhichCools, EndJob, SetMetered, Tick, Crash
<1>9. ~ UNCHANGED vars
  BY <1>1 DEF vars
<1>10. ASSUME Environment
       PROVE  \E want \in {None, Promoted, Deep} :
                 StartRouted(t, want) \/ \E pinned \in BOOLEAN : StartNamed(t, want, pinned)
  BY <1>5, <1>6, <1>7, <1>8, <1>10 DEF Environment
<1>11. QED  BY <1>3, <1>4, <1>9, <1>10 DEF Next

(* A task is never moved onto an account that a recorded outcome condemns:   *)
(* what select_route admits is not cooling, and what is condemned is cooled. *)
THEOREM NoReturn ==
    ASSUME ~Overlap
    PROVE  Spec => NoReturnToCondemned
<1>1. ASSUME IInv, [Next]_vars, NEW t \in Tasks, Moved(t), task'[t].hop.account \in Accounts
      PROVE  owed[task'[t].hop.account] <= now
  <2>1. TypeInv /\ IsPool(pool) /\ task \in [Tasks -> TaskType] /\ task[t] \in TaskType
    BY <1>1, Row DEF IInv, TypeInv, FilesTyped
  <2>2. \E class \in DOMAIN Chains : \E ex :
           Choice(class, ex) # NoHop /\ task'[t].hop = Choice(class, ex)
    <3>1. CASE Advance(t)
      <4>1. task'[t].hop = NextHop(t)
        BY <2>1, <3>1 DEF Advance, TaskType
      <4>2. NextHop(t) # NoHop /\ task[t].class \in DOMAIN Chains
        BY <2>1, <3>1, Row DEF Advance, Moves, Resolved
      <4>3. QED  BY <4>1, <4>2 DEF NextHop
    <3>2. ASSUME NEW want \in {None, Promoted, Deep}, StartRouted(t, want)
          PROVE  \E class \in DOMAIN Chains : \E ex :
                    Choice(class, ex) # NoHop /\ task'[t].hop = Choice(class, ex)
      <4>1. PICK class : class = ResolvedClass(want)
        OBVIOUS
      <4>2. class \in DOMAIN Chains
        BY <4>1, ResolvedClassKnown
      <4>3. /\ Choice(class, {}) # NoHop
            /\ task' = [task EXCEPT ![t].st = "prepared", ![t].class = class,
                                    ![t].hop = Choice(class, {})]
        BY <3>2, <4>1 DEF StartRouted, Resolved
      <4>4. task'[t].hop = Choice(class, {})
        BY <2>1, <4>3 DEF TaskType
      <4>5. QED  BY <4>2, <4>3, <4>4
    <3>3. ASSUME NEW want \in {None, Promoted, Deep}, NEW pinned \in BOOLEAN,
                 StartNamed(t, want, pinned)
          PROVE  FALSE
      <4>1. task[t].hop = NoHop
        BY <2>1, <3>3, Row DEF StartNamed, TaskOK
      <4>2. task'[t].hop = task[t].hop
        BY <2>1, <3>3 DEF StartNamed, TaskType
      <4>3. QED  BY <1>1, <4>1, <4>2, DispatchAssumption DEF NoHop
    <3>4. QED  BY <1>1, <2>1, <3>1, <3>2, <3>3, MovedBy
  <2>3. PICK class, ex :
           /\ class \in DOMAIN Chains
           /\ Choice(class, ex) # NoHop /\ task'[t].hop = Choice(class, ex)
    BY <2>2
  <2>4. PICK a \in Accounts : a = task'[t].hop.account
    BY <1>1
  <2>5. ~ Cooling(a)
    BY <2>1, <2>3, <2>4, Selected DEF Admitted
  <2>6. owed[a] \in Nat /\ cool[a] \in Nat /\ now \in Nat /\ owed[a] <= cool[a]
    BY <1>1, Pens DEF IInv, CoolInv, RecordedIsCooled, TypeInv, CoolTyped, Writers
  <2>7. QED  BY <2>4, <2>5, <2>6 DEF Cooling
<1>2. IInv /\ [Next]_vars
        => [\A t \in Tasks : Moved(t) /\ task'[t].hop.account \in Accounts
                               => owed[task'[t].hop.account] <= now]_vars
  BY <1>1
<1>3. QED  BY <1>2, Invariant, PTL DEF Spec, NoReturnToCondemned
=============================================================================
