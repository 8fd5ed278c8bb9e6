---------------------------- MODULE LeasesProofs ----------------------------
(***************************************************************************)
(* Safety of the leases for any places, workspaces, tokens and commands.   *)
(*                                                                         *)
(* That no two leases conflict is inductive: an acquisition looks at every *)
(* live lease and clears the stale ones away.  That the mapping of a       *)
(* workspace names its lease is not: an acquisition overwrites the mapping *)
(* of the workspace, which is right only if the workspace's other leases   *)
(* are at the same place; a spawn and a sync attach a lease by a token     *)
(* they read some steps before, which is right only if that token still    *)
(* stands for the same lease or for none.  StoreInv and ProcInv say that.  *)
(***************************************************************************)
EXTENDS Leases, TLAPS

ProcType == [ pc : {"idle", "reserve", "create", "own", "release", "restore", "renew",
                    "attach", "place", "fallback", "emit", "handoff"},
              w : Workspaces \union {None}, from : Workspaces \union {None},
              at : Places \union {None}, token : Tokens \union {None} ]

StoreType ==
    /\ lease \in [Places -> LeaseType \union {NoLease}]
    /\ mapping \in [Workspaces -> Tokens \union {None}]
    /\ capability \in [Places -> Tokens \union {None}]

OtherType ==
    /\ workspace \in [Workspaces -> {"none", "active", "archived"}]
    /\ stopped \subseteq Workspaces
    /\ proc \in [Procs -> ProcType]

(* A token stands for one lease, a lease of a workspace is where the         *)
(* workspace is, and a capability opens the lease of its own place.          *)
OneLeasePerToken  == \A x, y \in Held : lease[x].token = lease[y].token => x = y
LeasedInPlace     == \A x \in Held : lease[x].workspace # None => x = PlaceOf[lease[x].workspace]
CapabilityInPlace == \A x \in Places, y \in Held : lease[y].token = capability[x] => y = x

StoreInv == StoreType /\ Exclusive /\ MappingsMatch
            /\ OneLeasePerToken /\ LeasedInPlace /\ CapabilityInPlace

(* What a process remembers: a spawn, the token of a lease nobody else has   *)
(* attached; a sync, that of a lease of its workspace; the lease command,    *)
(* that of the place it will write the capability of.                        *)
ProcInv(r) ==
    /\ r.pc \notin {"idle", "emit"} => r.w \in Workspaces
    /\ r.pc = "handoff" => r.from \in Workspaces
    /\ r.pc = "emit" => /\ r.at \in Places
                        /\ \A x \in Held : lease[x].token = r.token => x = r.at
    /\ r.pc \in {"create", "own"} =>
         \A x \in Held : lease[x].token = r.token => x = PlaceOf[r.w] /\ lease[x].workspace = None
    /\ r.pc = "attach" =>
         \A x \in Held : lease[x].token = r.token => x = PlaceOf[r.w] /\ lease[x].workspace = r.w

Spawning(p) == proc[p].pc \in {"create", "own"} /\ proc[p].token # None
OneSpawnerPerToken ==
    \A p, q \in Procs : Spawning(p) /\ Spawning(q) /\ proc[p].token = proc[q].token => p = q

IInv == StoreInv /\ OtherType /\ OneSpawnerPerToken /\ \A p \in Procs : ProcInv(proc[p])

-----------------------------------------------------------------------------
(* What an operation of the store does to the leases: it adds none and       *)
(* changes the token and the workspace of none, or it takes one, or it tells *)
(* one of its workspace.                                                     *)
Quiet ==
    \A x \in Held' : /\ x \in Held
                     /\ lease'[x].token = lease[x].token /\ lease'[x].workspace = lease[x].workspace

Taken(x, t, w) ==
    \A y \in Held' :
        \/ y = x /\ lease'[y].token = t /\ lease'[y].workspace = w
        \/ y # x /\ y \in Held /\ lease'[y] = lease[y]

Told(t, w) ==
    \A y \in Held' :
        /\ y \in Held /\ lease'[y].token = lease[y].token
        /\ lease'[y].workspace = IF lease[y].token = t THEN w ELSE lease[y].workspace

(* A place is leased exactly if its record has a token. *)
LEMMA HeldHasToken ==
    ASSUME StoreType, NEW x \in Places
    PROVE  /\ x \in Held <=> lease[x] # NoLease
           /\ x \in Held <=> lease[x] \in LeaseType
           /\ x \in Held <=> lease[x].token \in Tokens
           /\ lease[x].token \in Tokens \union {None}
           /\ lease[x].workspace \in Workspaces \union {None}
           /\ lease[x] \in LeaseType \union {NoLease}
<1>1. lease[x] \in LeaseType \union {NoLease}
  BY DEF StoreType
<1>2. x \in Held <=> lease[x] # NoLease
  BY DEF Held
<1>3. CASE lease[x] \in LeaseType
  BY <1>2, <1>3, LeasesAssumption DEF LeaseType, NoLease
<1>4. CASE lease[x] = NoLease
  BY <1>2, <1>4, LeasesAssumption DEF LeaseType, NoLease
<1>5. QED  BY <1>1, <1>3, <1>4

(* Conflict does not depend on who asks. *)
LEMMA ConflictsSymmetric ==
    ASSUME NEW x, NEW y, Conflicts(x, y)
    PROVE  Conflicts(y, x)
  BY DEF Conflicts

(* Removing leases keeps StoreInv. *)
LEMMA RemoveInv ==
    ASSUME StoreInv, NEW gone \in SUBSET Held, Remove(gone)
    PROVE  StoreInv' /\ Quiet
<1> USE DEF StoreInv
<1>1. StoreType'
  BY DEF Remove, LeasesWithout, CapabilitiesWithout, MappingsWithout, StoreType
<1>2. \A x \in Places : lease'[x] = IF x \in gone THEN NoLease ELSE lease[x]
  BY DEF Remove, LeasesWithout, StoreType
<1>3. Held' = Held \ gone
  BY <1>2 DEF Held
<1>4. \A x \in Held' : x \in Held /\ lease'[x] = lease[x]
  BY <1>2, <1>3 DEF Held
<1>5. Quiet
  BY <1>4 DEF Quiet
<1>6. Exclusive' /\ OneLeasePerToken' /\ LeasedInPlace'
  BY <1>4 DEF Exclusive, OneLeasePerToken, LeasedInPlace, Conflicts
<1>7. CapabilityInPlace'
  <2> SUFFICES ASSUME NEW x \in Places, NEW y \in Held', lease'[y].token = capability'[x]
               PROVE  y = x
    BY DEF CapabilityInPlace
  <2>1. y \in Held /\ lease[y].token \in Tokens /\ lease'[y] = lease[y]
    BY <1>4, HeldHasToken DEF Held
  <2>2. capability'[x] = IF x \in gone THEN None ELSE capability[x]
    BY DEF Remove, CapabilitiesWithout
  <2>3. QED  BY <2>1, <2>2, LeasesAssumption DEF CapabilityInPlace
<1>8. MappingsMatch'
  <2> SUFFICES ASSUME NEW w \in Workspaces
               PROVE  /\ mapping'[w] # None => Mapped(w)' # {}
                      /\ \A x \in Held' : lease'[x].workspace = w => mapping'[w] = lease'[x].token
    BY DEF MappingsMatch
  <2>1. mapping'[w] = IF \E x \in gone : lease[x].workspace = w THEN None ELSE mapping[w]
    BY DEF Remove, MappingsWithout
  <2>2. ASSUME mapping'[w] # None  PROVE Mapped(w)' # {}
    <3>1. mapping'[w] = mapping[w] /\ \A x \in gone : lease[x].workspace # w
      BY <2>1, <2>2
    <3>2. PICK x \in Held : lease[x].token = mapping[w] /\ lease[x].workspace = w
      BY <3>1, <2>2 DEF MappingsMatch, Mapped, WithToken
    <3>3. x \in Held' /\ lease'[x] = lease[x]
      BY <3>1, <3>2, <1>3, <1>4
    <3>4. QED  BY <3>1, <3>2, <3>3 DEF Mapped, WithToken
  <2>3. ASSUME NEW x \in Held', lease'[x].workspace = w  PROVE mapping'[w] = lease'[x].token
    <3>1. x \in Held /\ lease'[x] = lease[x] /\ mapping[w] = lease[x].token /\ x \notin gone
      BY <2>3, <1>3, <1>4 DEF MappingsMatch
    <3>2. ASSUME NEW y \in gone, lease[y].workspace = w  PROVE FALSE
      <4>1. y \in Held /\ mapping[w] = lease[y].token
        BY <3>2 DEF MappingsMatch
      <4>2. QED  BY <4>1, <3>1, <3>2 DEF OneLeasePerToken
    <3>3. QED  BY <2>1, <3>1, <3>2
  <2>4. QED  BY <2>2, <2>3
<1>9. QED  BY <1>1, <1>5, <1>6, <1>7, <1>8

(* So does taking a lease, if its token is new. *)
LEMMA AcquireInv ==
    ASSUME StoreInv, NEW x \in Places, NEW t \in Fresh, NEW w \in Workspaces \union {None},
           w # None => x = PlaceOf[w], Acquire(x, t, w)
    PROVE  StoreInv' /\ Taken(x, t, w)
<1> USE DEF StoreInv
<1> DEFINE new == [token |-> t, workspace |-> w, live |-> TRUE]
<1>1. /\ t \in Tokens
      /\ \A y \in Places : lease[y].token # t /\ capability[y] # t
      /\ \A v \in Workspaces : mapping[v] # t
  BY DEF Fresh
<1>2. \A y \in Places : lease'[y] = IF y = x THEN new ELSE IF y \in Stale THEN NoLease ELSE lease[y]
  BY DEF Acquire, LeasesWithout, StoreType
<1>3. new \in LeaseType /\ new # NoLease
  BY <1>1, LeasesAssumption DEF LeaseType, NoLease
<1>4. StoreType'
  <2>1. lease' \in [Places -> LeaseType \union {NoLease}]
    BY <1>3 DEF Acquire, LeasesWithout, StoreType
  <2>2. mapping' \in [Workspaces -> Tokens \union {None}]
    BY <1>1 DEF Acquire, MappingsWithout, StoreType
  <2>3. capability' \in [Places -> Tokens \union {None}]
    BY DEF Acquire, CapabilitiesWithout, StoreType
  <2>4. QED  BY <2>1, <2>2, <2>3 DEF StoreType
<1>5. x \notin Live
  BY DEF Acquire, AcquireFree, Conflicts
<1>6. Held' = Live \union {x}
  BY <1>2, <1>3 DEF Held, Live, Stale
<1>7. /\ lease'[x] = new
      /\ \A y \in Held' : y # x => y \in Live /\ y \in Held /\ lease'[y] = lease[y]
  BY <1>2, <1>6 DEF Stale, Live, Held
<1>8. Taken(x, t, w)
  BY <1>7 DEF Taken
<1>9. Exclusive'
  <2> SUFFICES ASSUME NEW y \in Held', NEW z \in Held', y # z  PROVE ~Conflicts(y, z)
    BY DEF Exclusive, Conflicts
  <2>1. CASE y # x /\ z # x
    BY <2>1, <1>7 DEF Exclusive
  <2>2. CASE z = x
    BY <2>2, <1>7 DEF Acquire, AcquireFree
  <2>3. CASE y = x
    <3>1. ~Conflicts(z, y)
      BY <2>3, <1>7 DEF Acquire, AcquireFree
    <3>2. QED  BY <3>1, ConflictsSymmetric
  <2>4. QED  BY <2>1, <2>2, <2>3
<1>10. OneLeasePerToken' /\ LeasedInPlace'
  <2>1. OneLeasePerToken'
    BY <1>1, <1>7 DEF OneLeasePerToken, Held
  <2>2. LeasedInPlace'
    BY <1>7 DEF LeasedInPlace
  <2>3. QED  BY <2>1, <2>2
<1>11. CapabilityInPlace'
  <2> SUFFICES ASSUME NEW z \in Places, NEW y \in Held', lease'[y].token = capability'[z]
               PROVE  y = z
    BY DEF CapabilityInPlace
  <2>1. capability'[z] = IF z \in Stale THEN None ELSE capability[z]
    BY DEF Acquire, CapabilitiesWithout
  <2>2. y # x
    BY <2>1, <1>1, <1>7, LeasesAssumption
  <2>3. y \in Held /\ lease[y].token \in Tokens /\ lease'[y] = lease[y]
    BY <2>2, <1>7, HeldHasToken DEF Held
  <2>4. QED  BY <2>1, <2>3, LeasesAssumption DEF CapabilityInPlace
<1>12. MappingsMatch'
  <2> SUFFICES ASSUME NEW v \in Workspaces
               PROVE  /\ mapping'[v] # None => Mapped(v)' # {}
                      /\ \A y \in Held' : lease'[y].workspace = v => mapping'[v] = lease'[y].token
    BY DEF MappingsMatch
  <2>1. mapping'[v] = IF v = w THEN t
                      ELSE IF \E y \in Stale : lease[y].workspace = v THEN None ELSE mapping[v]
    BY DEF Acquire, MappingsWithout
  <2>2. CASE v = w
    <3>1. x \in Held' /\ lease'[x].token = t /\ lease'[x].workspace = v
      BY <2>2, <1>6, <1>7
    <3>2. \A y \in Held' : lease'[y].workspace = v => y = x
      BY <2>2, <1>7, LeasesAssumption DEF LeasedInPlace
    <3>3. QED  BY <2>1, <2>2, <3>1, <3>2 DEF Mapped, WithToken
  <2>3. CASE v # w
    <3>1. ASSUME mapping'[v] # None  PROVE Mapped(v)' # {}
      <4>1. mapping'[v] = mapping[v] /\ \A y \in Stale : lease[y].workspace # v
        BY <2>1, <2>3, <3>1
      <4>2. PICK y \in Held : lease[y].token = mapping[v] /\ lease[y].workspace = v
        BY <4>1, <3>1 DEF MappingsMatch, Mapped, WithToken
      <4>3. y \in Live
        BY <4>1, <4>2 DEF Stale
      <4>4. y \in Held' /\ lease'[y] = lease[y]
        BY <4>3, <1>5, <1>6, <1>7
      <4>5. QED  BY <4>1, <4>2, <4>4 DEF Mapped, WithToken
    <3>2. ASSUME NEW y \in Held', lease'[y].workspace = v  PROVE mapping'[v] = lease'[y].token
      <4>1. y \in Live /\ y \in Held /\ lease'[y] = lease[y]
        BY <3>2, <2>3, <1>7
      <4>2. mapping[v] = lease[y].token
        BY <3>2, <4>1 DEF MappingsMatch
      <4>3. \A z \in Stale : lease[z].workspace # v
        BY <4>1, <4>2, <3>2 DEF Stale, MappingsMatch, OneLeasePerToken
      <4>4. QED  BY <2>1, <2>3, <4>1, <4>2, <4>3
    <3>3. QED  BY <3>1, <3>2
  <2>4. QED  BY <2>2, <2>3
<1>13. QED  BY <1>4, <1>8, <1>9, <1>10, <1>11, <1>12

(* A change of the clock or of an expiry keeps it, *)
LEMMA ClockInv ==
    ASSUME StoreInv, lease' \in [Places -> LeaseType \union {NoLease}], Held' = Held, Quiet,
           UNCHANGED <<mapping, capability>>
    PROVE  StoreInv'
<1> USE DEF StoreInv, Quiet
<1>1. StoreType'
  BY DEF StoreType
<1>2. Exclusive' /\ OneLeasePerToken' /\ LeasedInPlace' /\ CapabilityInPlace'
  BY DEF Exclusive, OneLeasePerToken, LeasedInPlace, CapabilityInPlace, Conflicts
<1>3. MappingsMatch'
  BY DEF MappingsMatch, Mapped, WithToken
<1>4. QED  BY <1>1, <1>2, <1>3

(* and so a renewal; *)
LEMMA RenewInv ==
    ASSUME StoreInv, NEW where \in SUBSET Held, RenewAt(where)
    PROVE  StoreInv' /\ Quiet
<1>1. \A x \in Places : lease'[x] = IF x \in where THEN [lease[x] EXCEPT !.live = TRUE] ELSE lease[x]
  BY DEF RenewAt
<1>2. \A x \in Held : /\ lease'[x] \in LeaseType /\ lease'[x] # NoLease
                      /\ lease'[x].token = lease[x].token /\ lease'[x].workspace = lease[x].workspace
  <2> SUFFICES ASSUME NEW x \in Held
               PROVE  /\ lease'[x] \in LeaseType /\ lease'[x] # NoLease
                      /\ lease'[x].token = lease[x].token /\ lease'[x].workspace = lease[x].workspace
    OBVIOUS
  <2>1. lease[x] \in LeaseType
    BY HeldHasToken DEF StoreInv, Held
  <2>2. \A r \in LeaseType : r # NoLease
    BY LeasesAssumption DEF LeaseType, NoLease
  <2>3. QED  BY <2>1, <2>2, <1>1 DEF LeaseType, Held
<1>3. \A x \in Places \ Held : lease'[x] = NoLease
  BY <1>1 DEF Held
<1>4. Held' = Held
  BY <1>2, <1>3 DEF Held
<1>5. lease' \in [Places -> LeaseType \union {NoLease}]
  BY <1>2, <1>3 DEF RenewAt
<1>6. QED  BY <1>2, <1>4, <1>5, ClockInv DEF RenewAt, Quiet

(* an attachment, if the token is that of a lease where the workspace is,    *)
(* which no other workspace has.                                             *)
LEMMA AttachInv ==
    ASSUME StoreInv, NEW t \in Tokens \union {None}, NEW w \in Workspaces,
           WithToken(t) # {},
           \A x \in Held : lease[x].token = t =>
               x = PlaceOf[w] /\ lease[x].workspace \in {None, w},
           Attach(t, w)
    PROVE  StoreInv' /\ Told(t, w)
<1> USE DEF StoreInv
<1>1. \A x \in Places : lease'[x] = IF x \in WithToken(t) THEN [lease[x] EXCEPT !.workspace = w] ELSE lease[x]
  BY DEF Attach
<1>2. \A x \in Held : /\ lease'[x] \in LeaseType /\ lease'[x] # NoLease
                      /\ lease'[x].token = lease[x].token
                      /\ lease'[x].workspace = IF lease[x].token = t THEN w ELSE lease[x].workspace
  <2> SUFFICES ASSUME NEW x \in Held
               PROVE  /\ lease'[x] \in LeaseType /\ lease'[x] # NoLease
                      /\ lease'[x].token = lease[x].token
                      /\ lease'[x].workspace = IF lease[x].token = t THEN w ELSE lease[x].workspace
    OBVIOUS
  <2>1. lease[x] \in LeaseType
    BY HeldHasToken DEF Held
  <2>2. \A r \in LeaseType : r # NoLease
    BY LeasesAssumption DEF LeaseType, NoLease
  <2>3. QED  BY <2>1, <2>2, <1>1 DEF LeaseType, Held, WithToken
<1>3. \A x \in Places \ Held : lease'[x] = NoLease
  BY <1>1 DEF Held, WithToken
<1>4. Held' = Held
  BY <1>2, <1>3 DEF Held
<1>5. StoreType'
  <2>1. lease' \in [Places -> LeaseType \union {NoLease}]
    BY <1>2, <1>3 DEF Attach
  <2>2. QED  BY <2>1 DEF Attach, StoreType
<1>6. Told(t, w)
  BY <1>2, <1>4 DEF Told
<1>7. Exclusive'
  BY <1>4 DEF Exclusive, Conflicts
<1>8. OneLeasePerToken' /\ CapabilityInPlace'
  <2>1. capability' = capability
    BY DEF Attach
  <2>2. QED  BY <2>1, <1>2, <1>4 DEF OneLeasePerToken, CapabilityInPlace
<1>9. LeasedInPlace'
  BY <1>2, <1>4 DEF LeasedInPlace
<1>10. MappingsMatch'
  <2> SUFFICES ASSUME NEW v \in Workspaces
               PROVE  /\ mapping'[v] # None => Mapped(v)' # {}
                      /\ \A y \in Held' : lease'[y].workspace = v => mapping'[v] = lease'[y].token
    BY DEF MappingsMatch
  <2>1. mapping'[v] = IF v = w THEN t ELSE mapping[v]
    BY DEF Attach, StoreType
  <2>2. PICK x \in Held : lease[x].token = t
    BY DEF WithToken
  <2>3. CASE v = w
    <3>1. lease'[x].token = t /\ lease'[x].workspace = v
      BY <2>2, <2>3, <1>2
    <3>2. \A y \in Held' : lease'[y].workspace = v => y = x
      BY <2>2, <2>3, <1>2, <1>4, LeasesAssumption DEF LeasedInPlace
    <3>3. QED  BY <2>1, <2>3, <3>1, <3>2, <1>4 DEF Mapped, WithToken
  <2>4. CASE v # w
    <3>1. \A y \in Held : lease[y].workspace = v => lease[y].token # t
      BY <2>4, LeasesAssumption
    <3>2. \A y \in Held : lease'[y].workspace = v <=> lease[y].workspace = v
      BY <2>4, <3>1, <1>2
    <3>3. QED  BY <2>1, <2>4, <3>1, <3>2, <1>2, <1>4 DEF MappingsMatch, Mapped, WithToken
  <2>5. QED  BY <2>3, <2>4
<1>11. QED  BY <1>5, <1>6, <1>7, <1>8, <1>9, <1>10

-----------------------------------------------------------------------------
(* What an attachment does to what a process remembers. *)
LEMMA ToldProc ==
    ASSUME NEW r, ProcInv(r), NEW t, NEW w, Told(t, w),
           r.pc \in {"create", "own"} => r.token # t,
           r.pc = "attach" /\ r.token = t /\ WithToken(t) # {} => r.w = w
    PROVE  ProcInv(r)'
<1>1. \A y \in Held' : y \in Held /\ lease'[y].token = lease[y].token
  BY DEF Told
<1>2. \A y \in Held' : lease[y].token # t => lease'[y].workspace = lease[y].workspace
  BY DEF Told
<1>3. \A y \in Held' : lease[y].token = t => lease'[y].workspace = w /\ WithToken(t) # {}
  BY <1>1 DEF Told, WithToken
<1>4. QED  BY <1>1, <1>2, <1>3 DEF ProcInv

(* An idle process remembers nothing. *)
LEMMA IdleInv == Idle \in ProcType /\ Idle.pc = "idle" /\ Idle.token = None /\ ProcInv(Idle)
  BY DEF Idle, ProcType, ProcInv

(* A step of one process that adds no lease keeps IInv; *)
LEMMA QuietStep ==
    ASSUME IInv, StoreInv', Quiet, OtherType', NEW p \in Procs,
           \A q \in Procs \ {p} : proc'[q] = proc[q],
           ProcInv(proc[p])',
           Spawning(p)' => Spawning(p) /\ proc'[p].token = proc[p].token
    PROVE  IInv'
<1>1. \A q \in Procs : ProcInv(proc[q])'
  <2> SUFFICES ASSUME NEW q \in Procs, q # p  PROVE ProcInv(proc[q])'
    OBVIOUS
  <2>1. ProcInv(proc[q])  BY DEF IInv
  <2>2. proc'[q] = proc[q]  OBVIOUS
  <2>3. QED  BY <2>1, <2>2 DEF ProcInv, Quiet
<1>2. OneSpawnerPerToken'
  BY DEF IInv, OneSpawnerPerToken, Spawning
<1>3. QED  BY <1>1, <1>2 DEF IInv

(* so does one that takes a lease under a fresh token, *)
LEMMA TakenStep ==
    ASSUME IInv, StoreInv', NEW t \in Fresh, NEW x, NEW w, Taken(x, t, w), OtherType',
           NEW p \in Procs, \A q \in Procs \ {p} : proc'[q] = proc[q],
           ProcInv(proc[p])',
           Spawning(p)' => proc'[p].token = t
    PROVE  IInv'
<1>0. \A q \in Procs : proc[q].token # t
  BY DEF Fresh
<1>1. \A q \in Procs : ProcInv(proc[q])'
  <2> SUFFICES ASSUME NEW q \in Procs, q # p  PROVE ProcInv(proc[q])'
    OBVIOUS
  <2>1. ProcInv(proc[q])  BY DEF IInv
  <2>2. proc'[q] = proc[q]  OBVIOUS
  <2>3. \A y \in Held' : lease'[y].token = proc[q].token => y \in Held /\ lease'[y] = lease[y]
    BY <1>0 DEF Taken
  <2>4. QED  BY <2>1, <2>2, <2>3 DEF ProcInv
<1>2. OneSpawnerPerToken'
  BY <1>0 DEF IInv, OneSpawnerPerToken, Spawning
<1>3. QED  BY <1>1, <1>2 DEF IInv

(* and one that attaches the lease of the token it remembers and returns. *)
LEMMA ToldStep ==
    ASSUME IInv, StoreInv', NEW p \in Procs, Told(proc[p].token, proc[p].w),
           WithToken(proc[p].token) # {},
           proc[p].pc \in {"own", "attach"},
           OtherType', \A q \in Procs \ {p} : proc'[q] = proc[q], proc'[p] = Idle
    PROVE  IInv'
<1> DEFINE t == proc[p].token
<1>1. PICK x \in Held : lease[x].token = t
  BY DEF WithToken
<1>2. t # None
  BY <1>1, HeldHasToken, LeasesAssumption DEF IInv, StoreInv, Held
<1>3. ProcInv(proc[p]) /\ proc[p].w \in Workspaces
  BY DEF IInv, ProcInv
<1>4. \A q \in Procs : ProcInv(proc[q])'
  <2>1. ProcInv(proc[p])'
    BY IdleInv DEF ProcInv
  <2> SUFFICES ASSUME NEW q \in Procs, q # p  PROVE ProcInv(proc[q])'
    BY <2>1
  <2>2. ProcInv(proc[q]) /\ proc'[q] = proc[q]
    BY DEF IInv
  <2>3. proc[q].pc \in {"create", "own"} => proc[q].token # t
    <3>1. CASE proc[p].pc = "own"
      BY <3>1, <1>2 DEF IInv, OneSpawnerPerToken, Spawning
    <3>2. CASE proc[p].pc = "attach"
      BY <3>2, <1>1, <1>3, <2>2, LeasesAssumption DEF ProcInv
    <3>3. QED  BY <3>1, <3>2
  <2>4. proc[q].pc = "attach" /\ proc[q].token = t => proc[q].w = proc[p].w
    BY <1>1, <1>3, <2>2, LeasesAssumption DEF ProcInv
  <2>5. QED  BY <2>2, <2>3, <2>4, ToldProc
<1>5. OneSpawnerPerToken'
  BY IdleInv DEF IInv, OneSpawnerPerToken, Spawning
<1>6. QED  BY <1>4, <1>5 DEF IInv

(* A step that leaves the processes alone is quiet or nothing. *)
LEMMA StoreStep ==
    ASSUME IInv, StoreInv', Quiet, UNCHANGED <<workspace, stopped, proc>>
    PROVE  IInv'
<1>1. \A p \in Procs : ProcInv(proc[p])'
  BY DEF IInv, ProcInv, Quiet
<1>2. OneSpawnerPerToken' /\ OtherType'
  BY DEF IInv, OneSpawnerPerToken, Spawning, OtherType
<1>3. QED  BY <1>1, <1>2 DEF IInv

(* The sets of leases that are removed or renewed are of leases there are. *)
LEMMA RemovedAreHeld ==
    /\ Stale \subseteq Held
    /\ \A t : WithToken(t) \subseteq Held
    /\ \A w : Mapped(w) \subseteq Held
  BY DEF Stale, WithToken, Mapped

(* What a process is before a step, from IInv. *)
LEMMA ProcFacts ==
    ASSUME IInv, NEW p \in Procs
    PROVE  /\ proc \in [Procs -> ProcType] /\ proc[p] \in ProcType
           /\ proc[p].w \in Workspaces \union {None} /\ proc[p].from \in Workspaces \union {None}
           /\ proc[p].at \in Places \union {None} /\ proc[p].token \in Tokens \union {None}
           /\ ProcInv(proc[p])
           /\ proc[p].pc \notin {"idle", "emit"} => proc[p].w \in Workspaces
<1>1. proc \in [Procs -> ProcType] /\ ProcInv(proc[p])
  BY DEF IInv, OtherType
<1>2. proc[p] \in ProcType
  BY <1>1
<1>3. QED  BY <1>1, <1>2 DEF ProcType, ProcInv

(* The new record of the process that moves: a step that takes no lease. *)
LEMMA QuietMove ==
    ASSUME IInv, StoreInv', Quiet, NEW p \in Procs, NEW n \in ProcType,
           proc' = [proc EXCEPT ![p] = n], ProcInv(n)',
           workspace' \in [Workspaces -> {"none", "active", "archived"}], stopped' \subseteq Workspaces,
           n.pc \in {"create", "own"} /\ n.token # None => Spawning(p) /\ n.token = proc[p].token
    PROVE  IInv'
<1>1. proc \in [Procs -> ProcType]
  BY ProcFacts
<1>2. proc'[p] = n /\ \A q \in Procs \ {p} : proc'[q] = proc[q]
  BY <1>1
<1>3. OtherType'
  BY <1>1 DEF OtherType
<1>4. ProcInv(proc[p])'
  BY <1>2 DEF ProcInv
<1>5. QED  BY <1>2, <1>3, <1>4, QuietStep DEF Spawning

(* To return is such a move. *)
LEMMA QuietReturn ==
    ASSUME IInv, StoreInv', Quiet, NEW p \in Procs, Return(p),
           workspace' \in [Workspaces -> {"none", "active", "archived"}], stopped' \subseteq Workspaces
    PROVE  IInv'
<1>1. ProcInv(Idle)'
  BY IdleInv DEF ProcInv
<1>2. QED  BY <1>1, IdleInv, QuietMove DEF Return

(* So is going on to a later point of the same command. *)
LEMMA GotoRecord ==
    ASSUME IInv, NEW p \in Procs, NEW c, Goto(p, c)
    PROVE  proc' = [proc EXCEPT ![p] = [proc[p] EXCEPT !.pc = c]]
<1>1. proc' = [proc EXCEPT ![p].pc = c]
  BY DEF Goto
<1>2. proc \in [Procs -> ProcType]
  BY ProcFacts
<1>3. QED  BY <1>1, <1>2 DEF ProcType

LEMMA QuietGoto ==
    ASSUME IInv, StoreInv', Quiet, NEW p \in Procs, proc[p].w \in Workspaces,
           NEW c \in {"own", "place", "fallback", "handoff", "renew"}, Goto(p, c),
           c = "own" => proc[p].pc = "create",
           c = "handoff" => proc[p].from \in Workspaces,
           workspace' \in [Workspaces -> {"none", "active", "archived"}], stopped' \subseteq Workspaces
    PROVE  IInv'
<1>0. PICK n : n = [proc[p] EXCEPT !.pc = c]
  OBVIOUS
<1>1. proc' = [proc EXCEPT ![p] = n]
  BY <1>0, GotoRecord
<1>2. proc[p] \in ProcType /\ ProcInv(proc[p])
  BY ProcFacts
<1>3. /\ n \in ProcType
      /\ n.pc = c /\ n.w = proc[p].w /\ n.from = proc[p].from /\ n.token = proc[p].token
  BY <1>0, <1>2 DEF ProcType
<1>4. ProcInv(n)'
  BY <1>2, <1>3 DEF ProcInv, Quiet
<1>5. n.pc \in {"create", "own"} /\ n.token # None => Spawning(p) /\ n.token = proc[p].token
  BY <1>3 DEF Spawning
<1>6. QED  BY <1>1, <1>3, <1>4, <1>5, QuietMove

(* A step that takes a lease and keeps the executor's records. *)
LEMMA TakenMove ==
    ASSUME IInv, NEW x \in Places, NEW t \in Fresh, NEW w \in Workspaces \union {None},
           w # None => x = PlaceOf[w], Acquire(x, t, w), UNCHANGED <<workspace, stopped>>,
           NEW p \in Procs, NEW n \in ProcType,
           proc' = [proc EXCEPT ![p] = n],
           n.pc \notin {"idle", "emit"} => n.w \in Workspaces,
           n.pc = "handoff" => n.from \in Workspaces,
           n.pc = "emit" => n.at = x /\ n.token = t,
           n.pc \in {"create", "own"} => n.token = t /\ x = PlaceOf[n.w] /\ w = None,
           n.pc # "attach"
    PROVE  IInv'
<1>1. proc \in [Procs -> ProcType]
  BY ProcFacts
<1>2. proc'[p] = n /\ \A q \in Procs \ {p} : proc'[q] = proc[q]
  BY <1>1
<1>3. OtherType'
  BY <1>1 DEF IInv, OtherType
<1>4. StoreInv' /\ Taken(x, t, w)
  BY AcquireInv DEF IInv
<1>5. \A y \in Held' : lease'[y].token = t => y = x /\ lease'[y].workspace = w
  BY <1>4, HeldHasToken DEF Taken, Fresh, Held
<1>6. ProcInv(n)'
  BY <1>5 DEF ProcInv
<1>7. ProcInv(proc[p])'
  BY <1>2, <1>6 DEF ProcInv
<1>8. QED  BY <1>2, <1>3, <1>4, <1>7, TakenStep DEF Spawning

LEMMA SameStore ==
    ASSUME StoreInv, UNCHANGED storeVars
    PROVE  StoreInv' /\ Quiet
<1>1. lease' = lease /\ mapping' = mapping /\ capability' = capability
  BY DEF storeVars
<1>2. Quiet
  BY <1>1 DEF Quiet, Held
<1>3. StoreInv'
  BY <1>1 DEF StoreInv, StoreType, Exclusive, MappingsMatch, OneLeasePerToken, LeasedInPlace,
              CapabilityInPlace, Held, Mapped, WithToken, Conflicts
<1>4. QED  BY <1>2, <1>3

LEMMA RemoveSomeInv ==
    ASSUME StoreInv, RemoveSome
    PROVE  StoreInv' /\ Quiet
<1>1. PICK gone \in SUBSET Stale : Remove(gone)
  BY DEF RemoveSome
<1>2. QED  BY <1>1, RemovedAreHeld, RemoveInv

-----------------------------------------------------------------------------
(* Every step of a sync keeps IInv, *)
LEMMA SyncKeeps ==
    ASSUME IInv, NEW p \in Procs, SyncStep(p)
    PROVE  IInv'
<1> DEFINE w == proc[p].w
<1>0. StoreInv /\ OtherType
  BY DEF IInv
<1>6. workspace' \in [Workspaces -> {"none", "active", "archived"}] /\ stopped' \subseteq Workspaces
  BY <1>0 DEF SyncStep, SyncRenew, SyncAttach, SyncAcquire, SyncFallback, OtherType
<1>1. CASE SyncRenew(p)
  <2>1. w \in Workspaces /\ proc[p] \in ProcType /\ ProcInv(proc[p])
    BY <1>1, ProcFacts DEF SyncRenew, At
  <2>2. CASE mapping[w] = None /\ Goto(p, "place") /\ UNCHANGED storeVars
    BY <1>0, <1>6, <2>1, <2>2, SameStore, QuietGoto
  <2>3. CASE mapping[w] # None /\ RenewAt(Mapped(w)) /\ Return(p)
    BY <1>0, <1>6, <2>3, RemovedAreHeld, RenewInv, QuietReturn
  <2>4. CASE /\ mapping[w] # None /\ RenewAt(Mapped(w)) /\ Mapped(w) # {}
             /\ proc' = [proc EXCEPT ![p].pc = "attach", ![p].token = mapping[w]]
    <3>0. PICK n : n = [proc[p] EXCEPT !.pc = "attach", !.token = mapping[w]]
      OBVIOUS
    <3>1. mapping[w] \in Tokens \union {None}
      BY <1>0, <2>1 DEF StoreInv, StoreType
    <3>2. n \in ProcType /\ n.pc = "attach" /\ n.w = w /\ n.token = mapping[w]
      BY <2>1, <3>0, <3>1 DEF ProcType
    <3>3. PICK x \in Held : lease[x].token = mapping[w] /\ lease[x].workspace = w
      BY <2>4 DEF Mapped, WithToken
    <3>4. x = PlaceOf[w] /\ \A y \in Held : lease[y].token = mapping[w] => y = x
      BY <1>0, <2>1, <3>3, LeasesAssumption DEF StoreInv, LeasedInPlace, OneLeasePerToken
    <3>5. StoreInv' /\ Quiet
      BY <1>0, <2>4, RemovedAreHeld, RenewInv
    <3>6. ProcInv(n)
      BY <2>1, <3>2, <3>3, <3>4 DEF ProcInv
    <3>7. proc' = [proc EXCEPT ![p] = n]
      <4>1. proc \in [Procs -> ProcType]
        BY ProcFacts
      <4>2. QED  BY <2>4, <3>0, <4>1 DEF ProcType
    <3>8. ProcInv(n)'
      BY <3>5, <3>6 DEF ProcInv, Quiet
    <3>9. QED  BY <1>6, <3>2, <3>5, <3>7, <3>8, QuietMove
  <2>5. QED  BY <1>1, <2>2, <2>3, <2>4 DEF SyncRenew
<1>2. CASE SyncAttach(p)
  <2>1. w \in Workspaces /\ proc[p] \in ProcType /\ ProcInv(proc[p]) /\ proc[p].token \in Tokens \union {None}
    BY <1>2, ProcFacts DEF SyncAttach, At
  <2>2. CASE WithToken(proc[p].token) # {}
    <3>1. StoreInv' /\ Told(proc[p].token, w)
      <4>1. \A x \in Held : lease[x].token = proc[p].token => x = PlaceOf[w] /\ lease[x].workspace \in {None, w}
        BY <1>2, <2>1 DEF SyncAttach, At, ProcInv
      <4>2. Attach(proc[p].token, w)
        BY <1>2, <2>2 DEF SyncAttach
      <4>3. QED  BY <1>0, <2>1, <2>2, <4>1, <4>2, AttachInv
    <3>2. proc'[p] = Idle /\ (\A q \in Procs \ {p} : proc'[q] = proc[q]) /\ OtherType'
      BY <1>0, <1>2, IdleInv DEF SyncAttach, Return, OtherType
    <3>3. proc[p].pc = "attach"
      BY <1>2 DEF SyncAttach, At
    <3>4. QED  BY <2>2, <3>1, <3>2, <3>3, ToldStep
  <2>3. CASE WithToken(proc[p].token) = {}
    BY <1>0, <1>2, <2>3, SameStore, QuietReturn DEF SyncAttach, OtherType
  <2>4. QED  BY <2>2, <2>3
<1>3. CASE SyncAcquire(p)
  <2>1. w \in Workspaces /\ proc[p] \in ProcType /\ ProcInv(proc[p])
    BY <1>3, ProcFacts DEF SyncAcquire, At
  <2>2. ASSUME NEW t \in Fresh, Acquire(PlaceOf[w], t, w), Return(p)  PROVE IInv'
    BY <1>3, <2>1, <2>2, LeasesAssumption, IdleInv, TakenMove DEF SyncAcquire, Return
  <2>3. CASE RemoveSome /\ Goto(p, "fallback")
    BY <1>0, <1>6, <2>1, <2>3, RemoveSomeInv, QuietGoto
  <2>4. QED  BY <1>3, <2>2, <2>3 DEF SyncAcquire
<1>4. CASE SyncFallback(p)
  <2>1. StoreInv' /\ Quiet
    BY <1>0, <1>4, RemovedAreHeld, RenewInv, SameStore DEF SyncFallback
  <2>2. QED  BY <1>4, <1>6, <2>1, QuietReturn DEF SyncFallback
<1>5. QED  BY <1>1, <1>2, <1>3, <1>4 DEF SyncStep

(* so does every later step of a command, *)
LEMMA CommandKeeps ==
    ASSUME IInv, NEW p \in Procs, CommandStep(p)
    PROVE  IInv'
<1> DEFINE w == proc[p].w
<1> DEFINE t == proc[p].token
<1>0. StoreInv /\ OtherType
  BY DEF IInv
<1>a. /\ proc \in [Procs -> ProcType] /\ proc[p] \in ProcType /\ ProcInv(proc[p])
      /\ w \in Workspaces \union {None} /\ proc[p].from \in Workspaces \union {None}
      /\ t \in Tokens \union {None}
      /\ proc[p].pc \notin {"idle", "emit"} => w \in Workspaces /\ PlaceOf[w] \in Places
  BY ProcFacts, LeasesAssumption
<1>1. CASE SpawnReserve(p)
  <2>1. w \in Workspaces /\ PlaceOf[w] \in Places
    BY <1>1, <1>a DEF SpawnReserve, At
  <2>2. ASSUME NEW f \in Fresh, Acquire(PlaceOf[w], f, None),
               proc' = [proc EXCEPT ![p].pc = "create", ![p].token = f]
        PROVE  IInv'
    <3>0. PICK n : n = [proc[p] EXCEPT !.pc = "create", !.token = f]
      OBVIOUS
    <3>1. n \in ProcType /\ n.pc = "create" /\ n.w = w /\ n.token = f
      BY <1>a, <3>0 DEF ProcType, Fresh
    <3>2. proc' = [proc EXCEPT ![p] = n]
      BY <1>a, <2>2, <3>0 DEF ProcType
    <3>3. UNCHANGED <<workspace, stopped>>
      BY <1>1 DEF SpawnReserve
    <3>4. /\ n.pc \notin {"idle", "emit"} => n.w \in Workspaces
          /\ n.pc \in {"create", "own"} => n.token = f /\ PlaceOf[w] = PlaceOf[n.w]
          /\ n.pc # "handoff" /\ n.pc # "emit" /\ n.pc # "attach"
          /\ None \in Workspaces \union {None}
      BY <2>1, <3>1
    <3>5. Acquire(PlaceOf[w], f, None) /\ f \in Fresh /\ p \in Procs
      BY <2>2
    <3>6. QED  BY ONLY IInv, <2>1, <3>1, <3>2, <3>3, <3>4, <3>5, TakenMove
  <2>3. CASE RemoveSome /\ Return(p)
    <3>1. StoreInv' /\ Quiet
      BY <1>0, <2>3, RemoveSomeInv
    <3>2. /\ workspace' \in [Workspaces -> {"none", "active", "archived"}]
          /\ stopped' \subseteq Workspaces
      BY <1>0, <1>1 DEF SpawnReserve, OtherType
    <3>3. QED  BY <2>3, <3>1, <3>2, QuietReturn
  <2>4. QED  BY <1>1, <2>2, <2>3 DEF SpawnReserve
<1>2. CASE SpawnCreate(p)
  <2>1. w \in Workspaces /\ proc[p].pc = "create"
    BY <1>2, <1>a DEF SpawnCreate, At
  <2>2. CASE workspace' = [workspace EXCEPT ![w] = "active"] /\ Goto(p, "own") /\ UNCHANGED storeVars
    <3>1. workspace' \in [Workspaces -> {"none", "active", "archived"}] /\ stopped' \subseteq Workspaces
      BY <1>0, <1>2, <2>2 DEF SpawnCreate, OtherType
    <3>2. QED  BY <1>0, <2>1, <2>2, <3>1, SameStore, QuietGoto
  <2>3. CASE Remove(WithToken(t)) /\ Return(p) /\ UNCHANGED workspace
    <3>1. workspace' \in [Workspaces -> {"none", "active", "archived"}] /\ stopped' \subseteq Workspaces
      BY <1>0, <1>2, <2>3 DEF SpawnCreate, OtherType
    <3>2. QED  BY <1>0, <2>3, <3>1, RemovedAreHeld, RemoveInv, QuietReturn
  <2>4. QED  BY <1>2, <2>2, <2>3 DEF SpawnCreate
<1>3. CASE SpawnOwn(p)
  <2>1. w \in Workspaces /\ PlaceOf[w] \in Places /\ proc[p].pc = "own"
    BY <1>3, <1>a DEF SpawnOwn, At
  <2>2. workspace' = workspace
    BY <1>3 DEF SpawnOwn
  <2>3. CASE WithToken(t) # {} /\ Attach(t, w) /\ Return(p) /\ UNCHANGED stopped
    <3>1. StoreInv' /\ Told(t, w)
      <4>1. \A x \in Held : lease[x].token = t => x = PlaceOf[w] /\ lease[x].workspace \in {None, w}
        BY <2>1, <1>a DEF ProcInv
      <4>2. QED  BY <1>0, <1>a, <2>1, <2>3, <4>1, AttachInv
    <3>2. proc'[p] = Idle /\ (\A q \in Procs \ {p} : proc'[q] = proc[q]) /\ OtherType'
      BY <1>0, <2>2, <2>3, IdleInv DEF Return, OtherType
    <3>3. QED  BY <2>1, <2>3, <3>1, <3>2, ToldStep
  <2>4. CASE Return(p) /\ UNCHANGED <<storeVars, stopped>>
    BY <1>0, <2>2, <2>4, SameStore, QuietReturn DEF OtherType
  <2>5. ASSUME NEW f \in Fresh, Acquire(PlaceOf[w], f, w), Spawned(p), UNCHANGED stopped
        PROVE  IInv'
    <3>1. CASE proc[p].from = None
      BY <2>1, <2>2, <2>5, <3>1, IdleInv, TakenMove DEF Spawned, Return
    <3>2. CASE proc[p].from # None
      <4>0. PICK n : n = [proc[p] EXCEPT !.pc = "handoff"]
        OBVIOUS
      <4>1. n \in ProcType /\ n.pc = "handoff" /\ n.w = w /\ n.from \in Workspaces
        BY <1>a, <3>2, <4>0 DEF ProcType
      <4>2. proc' = [proc EXCEPT ![p] = n]
        BY <2>5, <3>2, <4>0, GotoRecord DEF Spawned
      <4>3. QED  BY <2>1, <2>2, <2>5, <4>1, <4>2, TakenMove
    <3>3. QED  BY <3>1, <3>2
  <2>6. CASE RemoveSome /\ Return(p) /\ stopped' = stopped \union {w}
    BY <1>0, <2>1, <2>2, <2>6, RemoveSomeInv, QuietReturn DEF OtherType
  <2>7. QED  BY <1>3, <2>3, <2>4, <2>5, <2>6 DEF SpawnOwn
<1>4. CASE ReleaseWorkspace(p)
  <2>1. StoreInv' /\ Quiet
    BY <1>0, <1>4, RemovedAreHeld, RemoveInv DEF ReleaseWorkspace
  <2>2. QED  BY <1>0, <1>4, <2>1, QuietReturn DEF ReleaseWorkspace, OtherType
<1>5. CASE ArchiveSource(p)
  <2> DEFINE from == proc[p].from
  <2>1. from \in Workspaces
    BY <1>5, <1>a DEF ArchiveSource, At, ProcInv
  <2>2. PICK n : n = IF workspace[from] # "none" THEN [Idle EXCEPT !.pc = "release", !.w = from] ELSE Idle
    OBVIOUS
  <2>3. n \in ProcType /\ n.pc \in {"release", "idle"} /\ (n.pc = "release" => n.w \in Workspaces)
    BY <2>1, <2>2 DEF ProcType, Idle
  <2>4. ProcInv(n)'
    BY <2>3 DEF ProcInv
  <2>5. proc' = [proc EXCEPT ![p] = n]
    BY <1>5, <2>2 DEF ArchiveSource
  <2>6. workspace' \in [Workspaces -> {"none", "active", "archived"}] /\ stopped' \subseteq Workspaces
    BY <1>0, <1>5, <2>1 DEF ArchiveSource, OtherType
  <2>7. StoreInv' /\ Quiet
    BY <1>0, <1>5, SameStore DEF ArchiveSource
  <2>8. QED  BY <2>3, <2>4, <2>5, <2>6, <2>7, QuietMove
<1>6. CASE Restored(p)
  <2>1. w \in Workspaces
    BY <1>6, <1>a DEF Restored, At
  <2>2. workspace' \in [Workspaces -> {"none", "active", "archived"}] /\ stopped' \subseteq Workspaces
    BY <1>0, <1>6 DEF Restored, OtherType
  <2>3. QED  BY <1>0, <1>6, <2>1, <2>2, SameStore, QuietGoto DEF Restored
<1>7. CASE EmitCapability(p)
  <2> DEFINE at == proc[p].at
  <2>1. at \in Places /\ \A x \in Held : lease[x].token = t => x = at
    BY <1>7, <1>a DEF EmitCapability, At, ProcInv
  <2>2. lease' = lease /\ mapping' = mapping /\ capability' = [capability EXCEPT ![at] = t]
    BY <1>7 DEF EmitCapability
  <2>3. Quiet
    BY <2>2 DEF Quiet, Held
  <2>4. StoreInv'
    <3>1. StoreType'
      BY <1>0, <1>a, <2>2 DEF StoreInv, StoreType
    <3>2. Exclusive' /\ MappingsMatch' /\ OneLeasePerToken' /\ LeasedInPlace'
      BY <1>0, <2>2 DEF StoreInv, Exclusive, MappingsMatch, OneLeasePerToken, LeasedInPlace,
                        Held, Mapped, WithToken, Conflicts
    <3>3. CapabilityInPlace'
      BY <1>0, <2>1, <2>2 DEF StoreInv, StoreType, CapabilityInPlace, Held
    <3>4. QED  BY <3>1, <3>2, <3>3 DEF StoreInv
  <2>5. QED  BY <1>0, <1>7, <2>3, <2>4, QuietReturn DEF EmitCapability, OtherType
<1>8. QED  BY <1>1, <1>2, <1>3, <1>4, <1>5, <1>6, <1>7 DEF CommandStep

(* and so does its first.  A first step that takes no lease keeps IInv: *)
LEMMA BeginRecord ==
    ASSUME IInv, StoreInv', Quiet, NEW p \in Procs, NEW c \in {"reserve", "create", "release", "restore", "renew"},
           NEW w \in Workspaces, Begin(p, c, w),
           workspace' \in [Workspaces -> {"none", "active", "archived"}], stopped' \subseteq Workspaces
    PROVE  IInv'
<1>1. PICK n : n = [Idle EXCEPT !.pc = c, !.w = w]
  OBVIOUS
<1>2. n \in ProcType /\ n.pc = c /\ n.w = w /\ n.token = None
  BY <1>1 DEF Idle, ProcType
<1>3. \A x \in Held' : lease'[x].token # None
  <2>1. StoreType'
    BY DEF StoreInv
  <2>2. \A x \in Held' : lease'[x] \in LeaseType \union {NoLease} /\ lease'[x] # NoLease
    BY <2>1 DEF StoreType, Held
  <2>3. QED  BY <2>2, LeasesAssumption DEF LeaseType
<1>4. ProcInv(n)'
  BY <1>2, <1>3 DEF ProcInv
<1>5. proc' = [proc EXCEPT ![p] = n]
  BY <1>1 DEF Begin
<1>6. QED  BY <1>2, <1>4, <1>5, QuietMove

LEMMA BeginKeeps ==
    ASSUME IInv, NEW p \in Commands, NEW w \in Workspaces,
           Spawn(p, w) \/ Archive(p, w) \/ Delete(p, w) \/ Restore(p, w)
    PROVE  IInv'
<1>0. StoreInv /\ OtherType /\ p \in Procs
  BY DEF IInv, Procs
<1>1. workspace' \in [Workspaces -> {"none", "active", "archived"}] /\ stopped' \subseteq Workspaces
  BY <1>0 DEF Spawn, Archive, Delete, Restore, OtherType
<1>2. CASE Spawn(p, w)
  <2>1. CASE Remove(Stale) /\ Begin(p, IF Direct(w) THEN "reserve" ELSE "create", w)
    <3>1. StoreInv' /\ Quiet
      BY <1>0, <2>1, RemovedAreHeld, RemoveInv
    <3>2. CASE Direct(w)
      BY <1>0, <1>1, <2>1, <3>1, <3>2, BeginRecord
    <3>3. CASE ~Direct(w)
      BY <1>0, <1>1, <2>1, <3>1, <3>3, BeginRecord
    <3>4. QED  BY <3>2, <3>3
  <2>2. CASE RemoveSome /\ UNCHANGED proc
    BY <1>0, <1>2, <2>2, RemoveSomeInv, StoreStep DEF Spawn
  <2>3. QED  BY <1>2, <2>1, <2>2 DEF Spawn
<1>3. CASE Archive(p, w)
  BY <1>0, <1>1, <1>3, SameStore, BeginRecord DEF Archive
<1>4. CASE Delete(p, w)
  BY <1>0, <1>1, <1>4, SameStore, BeginRecord DEF Delete
<1>5. CASE Restore(p, w)
  BY <1>0, <1>1, <1>5, RemovedAreHeld, RemoveInv, BeginRecord DEF Restore
<1>6. QED  BY <1>2, <1>3, <1>4, <1>5

LEMMA FailoverKeeps ==
    ASSUME IInv, NEW p \in Commands, NEW from \in Workspaces, NEW w \in Workspaces, Failover(p, from, w)
    PROVE  IInv'
<1>0. StoreInv /\ OtherType /\ p \in Procs
  BY DEF IInv, Procs
<1>1. workspace' \in [Workspaces -> {"none", "active", "archived"}] /\ stopped' \subseteq Workspaces
  BY <1>0 DEF Failover, OtherType
<1>2. CASE Remove(Stale) /\ proc' = [proc EXCEPT ![p] = [Idle EXCEPT !.pc = "create", !.w = w, !.from = from]]
  <2>1. PICK n : n = [Idle EXCEPT !.pc = "create", !.w = w, !.from = from]
    OBVIOUS
  <2>2. n \in ProcType /\ n.pc = "create" /\ n.w = w /\ n.token = None
    BY <2>1 DEF Idle, ProcType
  <2>3. StoreInv' /\ Quiet
    BY <1>0, <1>2, RemovedAreHeld, RemoveInv
  <2>4. \A x \in Held' : lease'[x].token # None
    <3>1. \A x \in Held' : x \in Held /\ lease'[x].token = lease[x].token
      BY <2>3 DEF Quiet
    <3>2. \A x \in Held : lease[x].token \in Tokens
      BY <1>0, HeldHasToken DEF StoreInv, Held
    <3>3. QED  BY <3>1, <3>2, LeasesAssumption
  <2>5. ProcInv(n)'
    BY <2>2, <2>4 DEF ProcInv
  <2>6. proc' = [proc EXCEPT ![p] = n]
    BY <1>2, <2>1
  <2>7. QED  BY <1>0, <1>1, <2>2, <2>3, <2>5, <2>6, QuietMove
<1>3. CASE RemoveSome /\ UNCHANGED proc
  BY <1>0, <1>3, RemoveSomeInv, StoreStep DEF Failover
<1>4. QED  BY <1>2, <1>3 DEF Failover

(* The lease commands, the bridge's next workspace, and time. *)
LEMMA LeaseCommandsKeep ==
    ASSUME IInv,
           \/ \E w \in Workspaces : Sync(w)
           \/ \E p \in Commands, x \in Places : LeaseAcquire(p, x, None)
           \/ \E x \in Places : LeaseRelease(x) \/ LeaseRenew(x) \/ Expire(x)
           \/ RecoverStale
    PROVE  IInv'
<1>0. StoreInv /\ OtherType
  BY DEF IInv
<1>1. ASSUME NEW w \in Workspaces, Sync(w)  PROVE IInv'
  <2>1. Bridge \in Procs /\ workspace' = workspace /\ stopped' = stopped
    BY <1>1 DEF Sync, Procs
  <2>2. QED  BY <1>0, <1>1, <2>1, SameStore, BeginRecord DEF Sync, OtherType
<1>2. ASSUME NEW p \in Commands, NEW x \in Places, LeaseAcquire(p, x, None)  PROVE IInv'
  <2>1. PICK t \in Fresh : /\ Acquire(x, t, None)
                           /\ proc' = [proc EXCEPT ![p] = [Idle EXCEPT !.pc = "emit", !.at = x, !.token = t]]
    BY <1>2 DEF LeaseAcquire
  <2>2. PICK n : n = [Idle EXCEPT !.pc = "emit", !.at = x, !.token = t]
    OBVIOUS
  <2>3. n \in ProcType /\ n.pc = "emit" /\ n.at = x /\ n.token = t
    BY <2>2 DEF Idle, ProcType, Fresh
  <2>4. UNCHANGED <<workspace, stopped>> /\ p \in Procs /\ None \in Workspaces \union {None}
    BY <1>2 DEF LeaseAcquire, Procs
  <2>5. proc' = [proc EXCEPT ![p] = n]
    BY <2>1, <2>2
  <2>6. /\ n.pc = "emit" => n.at = x /\ n.token = t
        /\ n.pc \in {"idle", "emit"} /\ n.pc \notin {"create", "own"} /\ n.pc # "handoff" /\ n.pc # "attach"
    BY <2>3
  <2>7. Acquire(x, t, None)
    BY <2>1
  <2>8. QED  BY <2>3, <2>4, <2>5, <2>6, <2>7, TakenMove
<1>3. ASSUME NEW x \in Places, LeaseRelease(x)  PROVE IInv'
  BY <1>0, <1>3, RemovedAreHeld, RemoveInv, StoreStep DEF LeaseRelease
<1>4. ASSUME NEW x \in Places, LeaseRenew(x)  PROVE IInv'
  BY <1>0, <1>4, RemovedAreHeld, RenewInv, StoreStep DEF LeaseRenew
<1>5. ASSUME NEW x \in Places, Expire(x)  PROVE IInv'
  <2>1. x \in Held /\ lease[x] \in LeaseType /\ lease' = [lease EXCEPT ![x].live = FALSE]
    BY <1>0, <1>5, HeldHasToken DEF Expire, Live, Held, StoreInv
  <2>2. PICK r : r = [lease[x] EXCEPT !.live = FALSE]
    OBVIOUS
  <2>3. r \in LeaseType /\ r # NoLease /\ r.token = lease[x].token /\ r.workspace = lease[x].workspace
    BY <2>1, <2>2, LeasesAssumption DEF LeaseType, NoLease
  <2>4. lease' = [lease EXCEPT ![x] = r]
    BY <1>0, <2>1, <2>2 DEF StoreInv, StoreType
  <2>5. lease' \in [Places -> LeaseType \union {NoLease}]
    BY <1>0, <2>3, <2>4 DEF StoreInv, StoreType
  <2>6. \A y \in Places : lease'[y] = IF y = x THEN r ELSE lease[y]
    BY <1>0, <2>4 DEF StoreInv, StoreType
  <2>7. Held' = Held
    BY <2>1, <2>3, <2>6 DEF Held
  <2>8. Quiet
    BY <2>3, <2>6, <2>7 DEF Quiet, Held
  <2>9. QED  BY <1>0, <1>5, <2>5, <2>7, <2>8, ClockInv, StoreStep DEF Expire
<1>6. CASE RecoverStale
  BY <1>0, <1>6, RemovedAreHeld, RemoveInv, StoreStep DEF RecoverStale
<1>7. QED  BY <1>1, <1>2, <1>3, <1>4, <1>5, <1>6

-----------------------------------------------------------------------------
LEMMA InitIInv == Init => IInv
<1> SUFFICES ASSUME Init  PROVE IInv
  OBVIOUS
<1> USE DEF Init
<1>1. StoreType
  BY DEF StoreType
<1>2. Held = {}
  BY DEF Held
<1>3. StoreInv
  BY <1>1, <1>2, LeasesAssumption DEF StoreInv, Exclusive, MappingsMatch, OneLeasePerToken, LeasedInPlace,
                         CapabilityInPlace
<1>4. \A p \in Procs : proc[p] = Idle
  OBVIOUS
<1>5. OtherType
  BY IdleInv DEF OtherType
<1>6. OneSpawnerPerToken /\ \A p \in Procs : ProcInv(proc[p])
  BY <1>4, IdleInv DEF OneSpawnerPerToken, Spawning
<1>7. QED  BY <1>3, <1>5, <1>6 DEF IInv

LEMMA NextIInv == IInv /\ [Next]_vars => IInv'
<1> SUFFICES ASSUME IInv, [Next]_vars  PROVE IInv'
  OBVIOUS
<1>1. CASE UNCHANGED vars
  <2>1. StoreInv' /\ Quiet
    BY <1>1, SameStore DEF vars, IInv
  <2>2. QED  BY <1>1, <2>1, StoreStep DEF vars
<1>2. CASE Next
  BY <1>2, SyncKeeps, CommandKeeps, BeginKeeps, FailoverKeeps, LeaseCommandsKeep DEF Next
<1>3. QED  BY <1>1, <1>2

(* The invariant of the leases holds throughout. *)
THEOREM Invariant == Spec => []IInv
  BY InitIInv, NextIInv, PTL DEF Spec

(* The types of the lease files, mappings, capabilities and processes.       *)
THEOREM TypeCorrect == Spec => []TypeOK
<1>1. IInv => TypeOK
  BY DEF IInv, StoreInv, StoreType, OtherType, ProcType, TypeOK
<1>2. QED  BY <1>1, Invariant, PTL

(* LeaseStore.acquire: whatever spawns, syncs, releases and expiries do to   *)
(* each other, no two lease files on disk conflict.                          *)
THEOREM NoTwoLeasesConflict == Spec => []Exclusive
<1>1. IInv => Exclusive
  BY DEF IInv, StoreInv
<1>2. QED  BY <1>1, Invariant, PTL

(* renew_workspace and release_workspace: the mapping of a workspace always  *)
(* leads to its lease, and every lease of a workspace is found that way.     *)
THEOREM MappingLeadsToLease == Spec => []MappingsMatch
<1>1. IInv => MappingsMatch
  BY DEF IInv, StoreInv
<1>2. QED  BY <1>1, Invariant, PTL

-----------------------------------------------------------------------------
(* Who ends a live lease. *)

LEMMA RemoveEnds ==
    ASSUME StoreType, NEW gone, Remove(gone), NEW x \in Places, lease'[x].token # lease[x].token
    PROVE  x \in gone
  BY DEF Remove, LeasesWithout, StoreType

LEMMA StaleEnds ==
    ASSUME StoreType, Remove(Stale) \/ RemoveSome, NEW x \in Live
    PROVE  lease'[x].token = lease[x].token
<1>1. x \in Places /\ x \notin Stale
  BY DEF Live, Held, Stale
<1>2. CASE Remove(Stale)
  BY <1>1, <1>2, RemoveEnds
<1>3. CASE RemoveSome
  <2>1. PICK gone \in SUBSET Stale : Remove(gone)
    BY <1>3 DEF RemoveSome
  <2>2. QED  BY <1>1, <2>1, RemoveEnds
<1>4. QED  BY <1>2, <1>3

LEMMA AcquireEnds ==
    ASSUME StoreType, NEW y, NEW t, NEW w, Acquire(y, t, w), NEW x \in Live
    PROVE  lease'[x].token = lease[x].token
<1>1. x # y
  BY DEF Acquire, AcquireFree, Conflicts
<1>2. x \in Places /\ x \notin Stale
  BY DEF Live, Held, Stale
<1>3. QED  BY <1>1, <1>2 DEF Acquire, LeasesWithout, StoreType

LEMMA UpdateEnds ==
    ASSUME StoreType, NEW where, NEW t, NEW w, RenewAt(where) \/ Attach(t, w) \/ UNCHANGED storeVars,
           NEW x \in Live
    PROVE  lease'[x].token = lease[x].token
<1>0. x \in Held /\ x \in Places
  BY DEF Live, Held
<1>1. lease[x] \in LeaseType
  BY <1>0, HeldHasToken
<1>2. CASE RenewAt(where)
  BY <1>0, <1>1, <1>2 DEF RenewAt, LeaseType
<1>3. CASE Attach(t, w)
  BY <1>0, <1>1, <1>3 DEF Attach, LeaseType
<1>4. CASE UNCHANGED storeVars
  BY <1>4 DEF storeVars
<1>5. QED  BY <1>2, <1>3, <1>4

EndedByOwner(x) ==
    \/ capability[x] = lease[x].token /\ UNCHANGED proc
    \/ \E p \in Procs : At(p, "create") /\ Moves(p) /\ proc[p].token = lease[x].token
    \/ \E p \in Procs : At(p, "release") /\ Moves(p) /\ proc[p].w = lease[x].workspace

LEMMA OwnersEnd ==
    ASSUME IInv, Next, NEW x \in Live, lease'[x].token # lease[x].token
    PROVE  EndedByOwner(x)
<1>0. StoreType /\ StoreInv /\ x \in Held /\ x \in Places
  BY DEF IInv, StoreInv, Live, Held
<1>1. ~Remove(Stale) /\ ~RemoveSome
  BY <1>0, StaleEnds
<1>2. \A y, t, w : ~Acquire(y, t, w)
  BY <1>0, AcquireEnds
<1>3. (\A where : ~RenewAt(where)) /\ (\A t, w : ~Attach(t, w)) /\ ~(UNCHANGED storeVars)
  BY <1>0, UpdateEnds
<1>4. ASSUME NEW p \in Procs, SyncStep(p)  PROVE FALSE
  BY <1>1, <1>2, <1>3, <1>4 DEF SyncStep, SyncRenew, SyncAttach, SyncAcquire, SyncFallback
<1>5. ASSUME NEW p \in Procs, CommandStep(p)  PROVE EndedByOwner(x)
  <2>1. CASE SpawnReserve(p) \/ SpawnOwn(p) \/ ArchiveSource(p) \/ Restored(p)
    BY <1>1, <1>2, <1>3, <2>1 DEF SpawnReserve, SpawnOwn, ArchiveSource, Restored, storeVars
  <2>2. CASE EmitCapability(p)
    BY <2>2 DEF EmitCapability
  <2>3. CASE SpawnCreate(p)
    <3>1. At(p, "create") /\ Remove(WithToken(proc[p].token)) /\ Return(p)
      BY <1>3, <2>3 DEF SpawnCreate
    <3>2. lease[x].token = proc[p].token
      BY <1>0, <3>1, RemoveEnds DEF WithToken
    <3>3. Moves(p)
      BY <3>1, ProcFacts, IdleInv DEF Moves, Return, At
    <3>4. QED  BY <3>1, <3>2, <3>3 DEF EndedByOwner
  <2>4. CASE ReleaseWorkspace(p)
    <3>1. At(p, "release") /\ Remove(Mapped(proc[p].w)) /\ Return(p)
      BY <2>4 DEF ReleaseWorkspace
    <3>2. lease[x].workspace = proc[p].w
      BY <1>0, <3>1, RemoveEnds DEF Mapped
    <3>3. Moves(p)
      BY <3>1, ProcFacts, IdleInv DEF Moves, Return, At
    <3>4. QED  BY <3>1, <3>2, <3>3 DEF EndedByOwner
  <2>5. QED  BY <1>5, <2>1, <2>2, <2>3, <2>4 DEF CommandStep
<1>6. ASSUME NEW p \in Commands, NEW w \in Workspaces,
             Spawn(p, w) \/ Archive(p, w) \/ Delete(p, w) \/ Restore(p, w)
      PROVE  FALSE
  BY <1>1, <1>3, <1>6 DEF Spawn, Archive, Delete, Restore
<1>7. ASSUME NEW p \in Commands, NEW from \in Workspaces, NEW w \in Workspaces, Failover(p, from, w)
      PROVE  FALSE
  BY <1>1, <1>7 DEF Failover
<1>8. ASSUME NEW w \in Workspaces, Sync(w)  PROVE FALSE
  BY <1>3, <1>8 DEF Sync
<1>9. ASSUME NEW p \in Commands, NEW y \in Places, LeaseAcquire(p, y, None)  PROVE FALSE
  BY <1>2, <1>9 DEF LeaseAcquire
<1>10. ASSUME NEW y \in Places, LeaseRelease(y)  PROVE EndedByOwner(x)
  <2>1. x \in WithToken(capability[y])
    BY <1>0, <1>10, RemoveEnds DEF LeaseRelease
  <2>2. x = y
    BY <1>0, <2>1 DEF WithToken, StoreInv, CapabilityInPlace
  <2>3. QED  BY <1>10, <2>1, <2>2 DEF WithToken, LeaseRelease, EndedByOwner
<1>11. ASSUME NEW y \in Places, LeaseRenew(y)  PROVE FALSE
  BY <1>3, <1>11 DEF LeaseRenew
<1>12. ASSUME NEW y \in Places, Expire(y)  PROVE FALSE
  <2>1. y \in Held /\ lease[y] \in LeaseType /\ lease' = [lease EXCEPT ![y].live = FALSE]
    BY <1>0, <1>12, HeldHasToken DEF Expire, Live, Held
  <2>2. lease'[x].token = lease[x].token
    BY <1>0, <2>1 DEF StoreType, LeaseType
  <2>3. QED  BY <2>2
<1>13. ~RecoverStale
  BY <1>1 DEF RecoverStale
<1>14. QED  BY <1>4, <1>5, <1>6, <1>7, <1>8, <1>9, <1>10, <1>11, <1>12, <1>13 DEF Next

(* leases.py, release and release_workspace: a live lease is ended by the    *)
(* holder of its capability, by the archival or deletion of its workspace,   *)
(* or by the spawn that took it and failed - by no sync, no acquisition and  *)
(* no command about another workspace.                                       *)
THEOREM OwnersOnly == Spec => OnlyOwnersRelease
<1>1. IInv /\ [Next]_vars =>
        [ \A x \in Live : lease'[x].token # lease[x].token =>
            \/ capability[x] = lease[x].token /\ UNCHANGED proc
            \/ \E p \in Procs : At(p, "create") /\ Moves(p) /\ proc[p].token = lease[x].token
            \/ \E p \in Procs : At(p, "release") /\ Moves(p) /\ proc[p].w = lease[x].workspace ]_vars
  BY OwnersEnd DEF EndedByOwner
<1>2. QED  BY <1>1, Invariant, PTL DEF Spec, OnlyOwnersRelease
=============================================================================
