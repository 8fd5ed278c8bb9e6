------------------------------ MODULE Dispatch ------------------------------
(***************************************************************************)
(* Which account a managed task runs on, and where it goes when that       *)
(* account fails: the account pool (pool/core.py, its CLI and its server), *)
(* the route chains (execution_routing.py) and the way the kernel records  *)
(* a typed provider outcome and advances past it (sdk.py, succession.py).  *)
(*                                                                         *)
(* The pool keeps two JSON files and no lock.  pool.json holds the         *)
(* accounts in order of preference; state.json holds the deadline until    *)
(* which each account is cooling and the cached quota readings.  Every     *)
(* write of either is a read of the whole file, a change and a write of    *)
(* the whole file, so what another process wrote in between is lost.  The  *)
(* read and the write of a cooldown are steps of their own here; Overlap   *)
(* says whether two processes may be between them at once.                 *)
(*                                                                         *)
(* One unit of time is SHORT_COOLDOWN.  The probe of an account before the *)
(* operator's own commands, the notes a selection leaves and the model a   *)
(* first dispatch may ask for are left out.                                *)
(***************************************************************************)
EXTENDS Integers, Sequences, FiniteSets, SequencesExt, FiniteSetsExt

CONSTANTS
  Tasks,        \* the managed tasks
  Accounts,     \* every account the operator may have
  Provider,     \* [Accounts -> providers]
  Keyed,        \* the accounts that are API keys, billed per token
  Quoted,       \* the accounts whose quota can be read
  Chains,       \* [route classes -> sequences of routes]
  Default,      \* the default class of the settings
  Deep,         \* the class for scope and risk above the ordinary
  None,
  Free,         \* FREE_AUTH_BINDING: what a free route binds to
  Order,        \* the accounts in the order the operator first gave them
  MaxAttempts,  \* the failure budget of a task
  Overlap,      \* whether two processes may write state.json at once
  MaxTime, MaxEdits, MaxCrashes   \* bounds of the model

(* The chains list routes of the three kinds; the operator's order names an *)
(* account once.                                                            *)
ASSUME DispatchAssumption ==
  /\ None \notin Accounts \cup Tasks \cup DOMAIN Chains \cup [Accounts -> Nat] /\ Free \notin Accounts
  /\ Order \in Seq(Accounts) /\ IsInjective(Order)
  /\ {Default, Deep} \subseteq DOMAIN Chains
  /\ \A class \in DOMAIN Chains : \A i \in DOMAIN Chains[class] :
       i \in Nat /\ Chains[class][i].billing \in {"subscription", "metered", "free"}
  /\ MaxAttempts \in Nat \ {0} /\ MaxTime \in Nat /\ MaxEdits \in Nat /\ MaxCrashes \in Nat

VARIABLES
  now,     \* the clock
  pool,    \* pool.json: the accounts, the preferred first
  cool,    \* state.json: the time until which an account is cooling
  seen,    \* state.json: the cached quota reading of an account
  left,    \* whether the provider would grant the account anything
  cred,    \* the accounts whose launch credential is on disk
  metered, \* the setting meteredFallback
  job,     \* the server's job that has read pool.json and will write it
  task,    \* what the kernel knows of each task
  pen,     \* [Writers -> the write of state.json each is in the middle of]
  owed,    \* history: the deadline each recorded outcome asked for
  edits, crashes
vars == <<now, pool, cool, seen, left, cred, metered, job, task, pen, owed, edits, crashes>>
disk == <<pool, cool, seen, cred>>
bounds == <<edits, crashes>>

Short == 1                     \* SHORT_COOLDOWN, fifteen minutes
Long == 2                      \* DEFAULT_COOLDOWN, five hours, cut short
Kernel == "kernel"
Operator == "operator"
Writers == {Kernel, Operator}
Outcomes == {"rate_limited", "auth", "provider_down"}

NoPen == [task |-> None, todo |-> {}, asked |-> {}, until |-> 0, read |-> None]
NoHop == [route |-> 0, account |-> None]

(* Accounts, cooldowns, hops and effects stay within what the files can hold. *)
TypeOK ==
  /\ now \in 0..MaxTime
  /\ IsInjective(pool) /\ Range(pool) \subseteq Accounts
  /\ cool \in [Accounts -> 0..(MaxTime + Long)]
  /\ seen \in [Accounts -> {"none", "some", "zero"}]
  /\ left \in [Accounts -> BOOLEAN]
  /\ cred \subseteq Accounts
  /\ metered \in {"auto", "ask", "never"}
  /\ job.kind \in {"none", "verify", "add"} /\ Range(job.read) \subseteq Accounts
  /\ \A t \in Tasks :
       /\ task[t].st \in {"new", "prepared", "running", "failing", "refused",
                          "terminal", "blocked", "exhausted"}
       /\ task[t].class \in DOMAIN Chains \cup {None}
       /\ task[t].hop.account \in Accounts \cup {Free, None}
       /\ task[t].outcome \in Outcomes \cup {None}
       /\ task[t].attempts \in 0..MaxAttempts
  /\ \A w \in Writers : /\ pen[w].task \in Tasks \cup {None}
                        /\ pen[w].todo \subseteq Accounts
  /\ owed \in [Accounts -> 0..(MaxTime + Long)]

Init ==
  /\ now = 0
  /\ pool = Order
  /\ cool = [a \in Accounts |-> 0] /\ owed = cool
  /\ seen = [a \in Accounts |-> "none"]
  /\ left = [a \in Accounts |-> TRUE]
  /\ cred = Accounts
  /\ metered = "auto"
  /\ job = [kind |-> "none", read |-> <<>>, account |-> None]
  /\ task = [t \in Tasks |-> [st |-> "new", class |-> None, hop |-> NoHop, outcome |-> None,
                             attempts |-> 0, pinned |-> FALSE]]
  /\ pen = [w \in Writers |-> NoPen]
  /\ edits = 0 /\ crashes = 0

-----------------------------------------------------------------------------
(* Selection.                                                              *)

(* _route_candidates: the accounts a route may use.                        *)
Offers(r, a) ==
  CASE r.billing = "subscription" -> a \in Range(pool) \ Keyed /\ Provider[a] = r.pool
    [] r.billing = "metered" -> a \in Range(pool) /\ a = r.account
    [] r.billing = "free" -> a = Free

(* Every place a class could run work, and the order select_route walks    *)
(* them in: route by route, and within a route in pool order.              *)
Hops(class) ==
  {h \in [route : DOMAIN Chains[class], account : Accounts \cup {Free}] :
     Offers(Chains[class][h.route], h.account)}
Place(a) == CHOOSE i \in DOMAIN pool : pool[i] = a
Ahead(g, h) ==
  /\ g # h /\ g.route <= h.route
  /\ g.route = h.route => Place(g.account) < Place(h.account)

Billing(class, hop) == Chains[class][hop.route].billing
Usage(a) == IF a \notin Quoted THEN "some"
            ELSE IF seen[a] # "none" THEN seen[a]
            ELSE IF left[a] THEN "some" ELSE "zero"
Cooling(a) == cool[a] > now
AdmittedCooling(a, excluded) == a \notin excluded /\ a \in cred  \* mutant: no cooldown
\* The checks of _account_eligibility that come before the quota is read.
Admitted(a, excluded) == a \notin excluded /\ a \in cred /\ ~Cooling(a)
Eligible(class, hop, excluded) ==
  \/ Billing(class, hop) = "free"
  \/ /\ Billing(class, hop) = "metered" => metered # "never"
     /\ Admitted(hop.account, excluded)
     /\ Usage(hop.account) # "zero"

(* select_route: the first of them that is eligible, or none.             *)
Choice(class, excluded) ==
  LET open == {h \in Hops(class) : Eligible(class, h, excluded)}
  IN  IF open = {} THEN NoHop ELSE CHOOSE h \in open : \A g \in open \ {h} : Ahead(h, g)
Resolved(class, hop) ==
  hop # NoHop /\ ~(Billing(class, hop) = "metered" /\ metered = "ask")

(* The quota readings a selection leaves in the cache: of every account it *)
(* came to before it stopped.                                              *)
SeenAfter(class, excluded) ==
  LET chosen == Choice(class, excluded)
      read == {h.account : h \in {g \in Hops(class) : chosen = NoHop \/ ~Ahead(chosen, g)}}
  IN  [a \in Accounts |-> IF a \in Quoted \cap read /\ Admitted(a, excluded) THEN Usage(a)
                          ELSE seen[a]]

(* validate_chain takes a metered hop that waits for approval for a path.  *)
Valid(class) == class \in DOMAIN Chains /\ Choice(class, {}) # NoHop
(* resolve_class: a class named explicitly is taken or refused as given; a *)
(* promotion to the deep class falls back to the default when it is empty. *)
Promoted == "promoted"
ResolvedClass(want) ==
  CASE want = None -> Default
    [] want = Promoted -> IF Valid(Deep) THEN Deep ELSE Default
    [] OTHER -> want

-----------------------------------------------------------------------------
(* A task: first dispatch, its run, its typed outcome, the next hop.       *)

(* _select_target: a class that cannot run is refused before a row exists. *)
(* A task that names an executor or a profile itself has no account.       *)
StartRouted(t, want) ==
  /\ task[t].st = "new"
  /\ LET class == ResolvedClass(want)
         hop == Choice(class, {})
     IN  /\ Resolved(class, hop)
         /\ task' = [task EXCEPT ![t].st = "prepared", ![t].class = class, ![t].hop = hop]
         /\ seen' = SeenAfter(class, {})
  /\ UNCHANGED <<now, pool, cool, left, cred, metered, job, pen, owed, bounds>>

StartNamed(t, want, pinned) ==
  /\ task[t].st = "new"
  /\ LET class == ResolvedClass(want)
     IN  /\ Valid(class)
         /\ task' = [task EXCEPT ![t].st = "prepared", ![t].class = class, ![t].pinned = pinned]
         /\ seen' = SeenAfter(class, {})
  /\ UNCHANGED <<now, pool, cool, left, cred, metered, job, pen, owed, bounds>>

(* The launch of the prepared epoch is accepted by the executor ...        *)
Launch(t) ==
  /\ task[t].st = "prepared"
  /\ task' = [task EXCEPT ![t].st = "running"]
  /\ UNCHANGED <<now, disk, left, metered, job, pen, owed, bounds>>

(* ... or refused with a typed outcome, or the run ends with one.          *)
Fail(t, o) ==
  /\ task[t].st \in {"prepared", "running"}
  /\ task' = [task EXCEPT ![t].st = IF @ = "running" THEN "failing" ELSE "refused",
                          ![t].outcome = o]
  /\ UNCHANGED <<now, disk, left, metered, job, pen, owed, bounds>>

(* cool_provider_outcome: the accounts one outcome condemns, and how long. *)
Condemned(t) ==
  LET hop == task[t].hop
      route == Chains[task[t].class][hop.route]
  IN  IF hop.account \notin Accounts THEN {}
      ELSE IF task[t].outcome = "provider_down" /\ route.billing = "subscription"
      THEN {a \in Range(pool) : Provider[a] = route.pool}
      ELSE {hop.account}
Deadlines(t) ==
  IF task[t].outcome = "rate_limited" THEN {now + Short, now + Long} ELSE {now + Short}

\* mutant: an epoch that names no account is never recorded
BeginCoolBound(t) ==
  /\ task[t].st \in {"failing", "refused"} /\ pen[Kernel] = NoPen /\ Condemned(t) # {}
  /\ \E d \in Deadlines(t) :
       pen' = [pen EXCEPT ![Kernel] = [task |-> t, todo |-> Condemned(t), asked |-> Condemned(t),
                                       until |-> d, read |-> None]]
  /\ UNCHANGED <<now, disk, left, metered, job, task, owed, bounds>>
(* _record_provider_outcome: cool what the outcome condemns ...            *)
BeginCool(t) ==
  /\ task[t].st \in {"failing", "refused"} /\ pen[Kernel] = NoPen
  /\ \E d \in Deadlines(t) :
       pen' = [pen EXCEPT ![Kernel] = [task |-> t, todo |-> Condemned(t), asked |-> Condemned(t),
                                       until |-> d, read |-> None]]
  /\ UNCHANGED <<now, disk, left, metered, job, task, owed, bounds>>

\* mutant: the epoch is terminal before its accounts are cooled
MarkTerminalFirst(t) ==
  /\ pen[Kernel].task = t /\ pen[Kernel].read = None
  /\ pen' = [pen EXCEPT ![Kernel].task = None]
  /\ task' = [task EXCEPT ![t].st = IF @ = "refused" THEN "blocked" ELSE "terminal"]
  /\ owed' = [a \in Accounts |-> IF a \in pen[Kernel].asked THEN pen[Kernel].until ELSE owed[a]]
  /\ UNCHANGED <<now, disk, left, metered, job, bounds>>
(* ... and only then mark the epoch terminal.  A refused launch blocks the *)
(* task and is charged at once; a run that ended is charged when advanced. *)
MarkTerminal(t) ==
  /\ pen[Kernel].task = t /\ pen[Kernel].todo = {}
  /\ pen' = [pen EXCEPT ![Kernel] = NoPen]
  /\ task' = [task EXCEPT ![t].st = IF @ = "refused" THEN "blocked" ELSE "terminal",
                          ![t].attempts = IF task[t].st = "refused" THEN @ + 1 ELSE @]
  /\ owed' = [a \in Accounts |-> IF a \in pen[Kernel].asked THEN Max({owed[a], pen[Kernel].until})
                                 ELSE owed[a]]
  /\ UNCHANGED <<now, disk, left, metered, job, bounds>>

(* _advance_past_outcome_locked, for a run that ended and for a task that  *)
(* a refused launch or an exhausted chain has blocked.                     *)
NextHop(t) == Choice(task[t].class, {task[t].hop.account})
Moves(t) == ~task[t].pinned /\ Resolved(task[t].class, NextHop(t))
Spent(t) == task[t].attempts >= MaxAttempts

Exhaust(t) ==
  /\ task[t].st = "terminal" /\ task[t].attempts + 1 >= MaxAttempts
  /\ task' = [task EXCEPT ![t].st = "exhausted", ![t].attempts = @ + 1]
  /\ UNCHANGED <<now, disk, left, metered, job, pen, owed, bounds>>

\* mutant: a blocked task is never looked at again
AdvanceEnded(t) ==
  /\ task[t].st = "terminal" /\ task[t].attempts + 1 < MaxAttempts /\ Moves(t)
  /\ task' = [task EXCEPT ![t].st = "prepared", ![t].hop = NextHop(t), ![t].outcome = None,
                          ![t].attempts = @ + 1]
  /\ UNCHANGED <<now, disk, left, metered, job, pen, owed, bounds>>
Advance(t) ==
  /\ \/ task[t].st = "terminal" /\ task[t].attempts + 1 < MaxAttempts
     \/ task[t].st = "blocked" /\ ~Spent(t)
  /\ Moves(t)
  /\ task' = [task EXCEPT ![t].st = "prepared", ![t].hop = NextHop(t), ![t].outcome = None,
                          ![t].attempts = IF task[t].st = "terminal" THEN @ + 1 ELSE @]
  /\ seen' = SeenAfter(task[t].class, {task[t].hop.account})
  /\ UNCHANGED <<now, pool, cool, left, cred, metered, job, pen, owed, bounds>>

BlockUnroutable(t) ==
  /\ task[t].st = "terminal" /\ task[t].attempts + 1 < MaxAttempts /\ ~Moves(t)
  /\ task' = [task EXCEPT ![t].st = "blocked", ![t].attempts = @ + 1]
  /\ seen' = IF task[t].pinned THEN seen ELSE SeenAfter(task[t].class, {task[t].hop.account})
  /\ UNCHANGED <<now, pool, cool, left, cred, metered, job, pen, owed, bounds>>

-----------------------------------------------------------------------------
(* state.json: cool_until_timestamp, clear_cooldown, and a crash between   *)
(* their read and their write.                                             *)

ReadState(w) ==
  /\ pen[w].todo # {} /\ pen[w].read = None
  /\ Overlap \/ \A v \in Writers : pen[v].read = None
  /\ pen' = [pen EXCEPT ![w].read = cool]
  /\ UNCHANGED <<now, disk, left, metered, job, task, owed, bounds>>

\* An operator's write with no deadline clears the account's cooldown.
Raised(w, a) == IF pen[w].until = 0 THEN 0 ELSE Max({pen[w].until, pen[w].read[a]})
WriteState(w) ==
  /\ pen[w].read # None
  /\ \E a \in pen[w].todo :
       /\ cool' = [pen[w].read EXCEPT ![a] = Raised(w, a)]
       /\ LET rest == pen[w].todo \ {a}
              next == IF w = Operator /\ rest = {} THEN NoPen
                      ELSE [pen[w] EXCEPT !.todo = rest, !.read = None]
          IN  pen' = [pen EXCEPT ![w] = next,
                                 ![Kernel].asked = IF pen[w].until = 0 THEN @ \ {a} ELSE @]
       /\ owed' = IF pen[w].until = 0 THEN [owed EXCEPT ![a] = 0] ELSE owed
  /\ UNCHANGED <<now, pool, seen, left, cred, metered, job, task, bounds>>

Crash ==
  /\ pen[Kernel] # NoPen /\ crashes < MaxCrashes
  /\ pen' = [pen EXCEPT ![Kernel] = NoPen] /\ crashes' = crashes + 1
  /\ UNCHANGED <<now, disk, left, metered, job, task, owed, edits>>

-----------------------------------------------------------------------------
(* The operator: `pool cool`, `clear`, `order`, `promote`, `remove`, the   *)
(* server's verify and add, `pool which`, and the routing settings.        *)

Edit == edits < MaxEdits /\ edits' = edits + 1

OperatorCools(a, d) ==
  /\ Edit /\ pen[Operator] = NoPen /\ a \in Range(pool) /\ {d, cool[a]} # {0}
  /\ pen' = [pen EXCEPT ![Operator] = [NoPen EXCEPT !.todo = {a}, !.until = d]]
  /\ UNCHANGED <<now, disk, left, metered, job, task, owed, crashes>>

(* `pool which` and `pool exec` walk the pool themselves, and cool every   *)
(* account they find without quota.                                        *)
WhichCools ==
  /\ pen[Operator] = NoPen
  /\ \E p \in Range(Provider) :
       LET mine == SelectSeq(pool, LAMBDA a : Provider[a] = p)
           good == {k \in DOMAIN mine : Admitted(mine[k], {}) /\ Usage(mine[k]) # "zero"}
           stop == IF good = {} THEN Len(mine) ELSE Min(good)
           read == {a \in cred : ~Cooling(a) /\ \E k \in 1..stop : mine[k] = a}
           dry == {a \in read : Usage(a) = "zero"}
       IN  /\ dry # {}
           /\ seen' = [a \in Accounts |-> IF a \in read \cap Quoted THEN Usage(a) ELSE seen[a]]
           /\ pen' = [pen EXCEPT ![Operator] = [NoPen EXCEPT !.todo = dry, !.until = now + Long]]
  /\ UNCHANGED <<now, pool, cool, left, cred, metered, job, task, owed, bounds>>

Promote(a) ==
  /\ Edit /\ a \in Range(pool) /\ a # pool[1]
  /\ pool' = <<a>> \o RemoveAt(pool, Place(a))
  /\ UNCHANGED <<now, cool, seen, left, cred, metered, job, task, pen, owed, crashes>>

RemoveAccount(a) ==
  /\ Edit /\ a \in Range(pool) /\ pen[Operator] = NoPen
  /\ pool' = RemoveAt(pool, Place(a)) /\ cred' = cred \ {a}
  /\ pen' = [pen EXCEPT ![Operator] = [NoPen EXCEPT !.todo = {a}]]
  /\ UNCHANGED <<now, cool, seen, left, metered, job, task, owed, crashes>>

(* Verifying probes every account and adding waits for a login, minutes in *)
(* which the copy of pool.json the job will write back grows old.          *)
BeginJob(kind, a) ==
  /\ job.kind = "none"
  /\ \/ kind = "verify" /\ Edit
     \/ kind = "add" /\ a \notin Range(pool) /\ UNCHANGED edits
  /\ job' = [kind |-> kind, read |-> pool, account |-> IF kind = "add" THEN a ELSE None]
  /\ UNCHANGED <<now, disk, left, metered, task, pen, owed, crashes>>

EndJob ==
  /\ job.kind # "none"
  /\ pool' = IF job.kind = "add" THEN Append(job.read, job.account) ELSE job.read
  /\ cred' = cred \cup ({job.account} \ {None})
  /\ job' = [kind |-> "none", read |-> <<>>, account |-> None]
  /\ UNCHANGED <<now, cool, seen, left, metered, task, pen, owed, bounds>>

SetMetered ==
  /\ Edit /\ metered' \in {"auto", "ask", "never"} \ {metered}
  /\ UNCHANGED <<now, disk, left, job, task, pen, owed, crashes>>

(* The provider's quota runs out or is refilled; time passes, and a cached *)
(* reading is older than QUOTA_TTL by the next unit of it.                 *)
Meter(a) ==
  /\ Edit /\ a \in Quoted /\ left' = [left EXCEPT ![a] = ~@]
  /\ UNCHANGED <<now, disk, metered, job, task, pen, owed, crashes>>
Tick ==
  /\ now < MaxTime /\ now' = now + 1
  /\ seen' = [a \in Accounts |-> "none"]
  /\ owed' = [a \in Accounts |-> IF owed[a] > now' THEN owed[a] ELSE 0]
  /\ UNCHANGED <<pool, cool, left, cred, metered, job, task, pen, bounds>>

KernelStep(t) == BeginCool(t) \/ MarkTerminal(t) \/ Exhaust(t) \/ Advance(t) \/ BlockUnroutable(t)
WriterStep(w) == ReadState(w) \/ WriteState(w)
Environment ==
  \/ \E t \in Tasks, want \in {None, Promoted, Deep} :
       StartRouted(t, want) \/ \E pinned \in BOOLEAN : StartNamed(t, want, pinned)
  \/ \E t \in Tasks : Launch(t) \/ \E o \in Outcomes : Fail(t, o)
  \/ \E a \in Accounts : \/ \E d \in {0, now + Long} : OperatorCools(a, d)
                         \/ Promote(a) \/ RemoveAccount(a) \/ Meter(a)
                         \/ \E kind \in {"verify", "add"} : BeginJob(kind, a)
  \/ WhichCools \/ EndJob \/ SetMetered \/ Crash \/ Tick
Next ==
  \/ \E t \in Tasks : KernelStep(t)
  \/ \E w \in Writers : WriterStep(w)
  \/ Environment

Spec == Init /\ [][Next]_vars
(* The reconciler's sweep visits every task on every tick and a program    *)
(* that has read a file goes on to write it; crashes are bounded.          *)
FairSpec ==
  Spec /\ \A t \in Tasks : WF_vars(KernelStep(t) \/ \E w \in Writers : WriterStep(w))

-----------------------------------------------------------------------------
(* Once the outcome of an epoch is recorded, every account it condemns is  *)
(* cooling at least until the deadline asked for, whatever crashed between *)
(* the outcome and its record, until an operator clears it.                *)
RecordedIsCooled == \A a \in Accounts : cool[a] >= owed[a]

(* A task is never moved onto an account that an outcome already recorded  *)
(* condemns: neither the one that failed it nor, when the provider was     *)
(* down, the next one of the same provider.                                *)
Moved(t) == task[t].st # "prepared" /\ task'[t].st = "prepared"
NoReturnToCondemned ==
  [][\A t \in Tasks : Moved(t) /\ task'[t].hop.account \in Accounts
                        => owed[task'[t].hop.account] <= now]_vars

(* Every typed outcome is settled, although the process may die over it:   *)
(* the task runs on, or is blocked, or has spent its budget.               *)
OutcomeSettles == \A t \in Tasks : ~<>[](task[t].st \in {"failing", "refused", "terminal"})

(* A task blocked for want of an account does not stay so when one of its  *)
(* chain has become usable and its budget is not spent.                    *)
BlockedIsRetried ==
  \A t \in Tasks : ~<>[](task[t].st = "blocked" /\ ~Spent(t) /\ Moves(t))
=============================================================================
