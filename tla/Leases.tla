------------------------------- MODULE Leases -------------------------------
(***************************************************************************)
(* Ownership of checkouts: the lease files, the mapping from a workspace   *)
(* to its lease and the capability files (leases.py), and who takes and    *)
(* drops them: spawn and failover (cli/spawn.py), archive, restore, delete *)
(* and the lease commands (cli/workspaces.py), and the synchronisation     *)
(* with the executor's workspaces in every tick of the bridge.             *)
(*                                                                         *)
(* A method of LeaseStore holds one file lock throughout, so it is one     *)
(* step; between two steps of a command every other process may move.  The *)
(* clock is an action: a lease runs out at any time.                       *)
(***************************************************************************)
EXTENDS Naturals

CONSTANTS
    Places,         \* identities: a repository, perhaps with a worktree of it
    Repo, Tree,     \* Repo[x], and Tree[x]: the worktree or None
    Workspaces,
    PlaceOf,        \* PlaceOf[w]: where the executor puts a workspace
    Tokens,         \* bound: bearer tokens in use at one time
    Commands,       \* processes that run a command of the CLI
    Bridge,
    None

ASSUME LeasesAssumption ==
    /\ PlaceOf \in [Workspaces -> Places]
    /\ None \notin Workspaces \union Tokens \union Places /\ Bridge \notin Commands

VARIABLES
    lease,      \* lease[x]: the lease file of an identity, or NoLease
    mapping,    \* mapping[w]: the token the workspace is mapped to
    capability, \* capability[x]: the token in the capability file
    workspace,  \* workspace[w]: the executor's record, "none", "active", "archived"
    stopped,    \* workspaces that a failed spawn stopped
    proc        \* proc[p]: program point, workspaces, place and token of p

storeVars == <<lease, mapping, capability>>
vars == <<storeVars, workspace, stopped, proc>>

Procs   == Commands \union {Bridge}
NoLease == [token |-> None, workspace |-> None, live |-> FALSE]
Idle    == [pc |-> "idle", w |-> None, from |-> None, at |-> None, token |-> None]

Init ==
    /\ lease = [x \in Places |-> NoLease]
    /\ mapping = [w \in Workspaces |-> None]
    /\ capability = [x \in Places |-> None]
    /\ workspace = [w \in Workspaces |-> "none"]
    /\ stopped = {}
    /\ proc = [p \in Procs |-> Idle]

At(p, pc)   == proc[p].pc = pc
Goto(p, pc) == proc' = [proc EXCEPT ![p].pc = pc]
Return(p)   == proc' = [proc EXCEPT ![p] = Idle]
Begin(p, pc, w) == At(p, "idle") /\ proc' = [proc EXCEPT ![p] = [Idle EXCEPT !.pc = pc, !.w = w]]

Direct(w) == Tree[PlaceOf[w]] = None

-----------------------------------------------------------------------------
(* LeaseStore *)

Held == {x \in Places : lease[x] # NoLease}
Live == {x \in Held : lease[x].live}

(* Lease.conflicts: a lease of a whole repository conflicts with all of it. *)
Conflicts(x, y) ==
    IF Repo[x] # Repo[y] THEN Tree[x] # None /\ Tree[x] = Tree[y]
    ELSE Tree[x] = None \/ Tree[y] = None \/ Tree[x] = Tree[y]

(* uuid4: a token nobody knows. *)
Fresh == Tokens \ ( {lease[x].token : x \in Places} \union {mapping[w] : w \in Workspaces}
                    \union {capability[x] : x \in Places} \union {proc[p].token : p \in Procs} )

(* _remove_locked: the lease, its capability, and the mapping of its        *)
(* workspace, whichever lease that mapping names.                           *)
LeasesWithout(gone)       == [x \in Places |-> IF x \in gone THEN NoLease ELSE lease[x]]
CapabilitiesWithout(gone) == [x \in Places |-> IF x \in gone THEN None ELSE capability[x]]
(* Mutant: the mapping is left behind. *)
MappingsKept(gone) == mapping

MappingsWithout(gone) ==
    [w \in Workspaces |-> IF \E x \in gone : lease[x].workspace = w THEN None ELSE mapping[w]]

Remove(gone) ==
    /\ lease' = LeasesWithout(gone)
    /\ capability' = CapabilitiesWithout(gone)
    /\ mapping' = MappingsWithout(gone)

(* The scan of acquire() and assert_spawn_allowed() removes what is stale in *)
(* its way; where it meets a conflict it stops, having removed some of it.   *)
Stale == Held \ Live
RemoveSome == \E gone \in SUBSET Stale : Remove(gone)

AcquireFree(x) == \A y \in Live : ~Conflicts(y, x)

(* Mutant: what is stale does not conflict, and stays. *)
AcquireOverStale(x, token, w) ==
    /\ AcquireFree(x)
    /\ lease' = [lease EXCEPT ![x] = [token |-> token, workspace |-> w, live |-> TRUE]]
    /\ mapping' = [v \in Workspaces |-> IF v = w THEN token ELSE mapping[v]]
    /\ UNCHANGED capability

Acquire(x, token, w) ==
    /\ AcquireFree(x)
    /\ lease' = [LeasesWithout(Stale) EXCEPT ![x] = [token |-> token, workspace |-> w, live |-> TRUE]]
    /\ capability' = CapabilitiesWithout(Stale)
    /\ mapping' = [v \in Workspaces |-> IF v = w THEN token ELSE MappingsWithout(Stale)[v]]

SpawnAllowed(w) ==
    \A y \in Live : Repo[y] = Repo[PlaceOf[w]] => ~Direct(w) /\ Tree[y] # None

WithToken(t) == {x \in Held : lease[x].token = t}

(* attach_workspace, and renew by token *)
Attach(t, w) ==
    /\ lease' = [x \in Places |-> IF x \in WithToken(t) THEN [lease[x] EXCEPT !.workspace = w] ELSE lease[x]]
    /\ mapping' = [mapping EXCEPT ![w] = t]
    /\ UNCHANGED capability

RenewAt(where) ==
    /\ lease' = [x \in Places |-> IF x \in where THEN [lease[x] EXCEPT !.live = TRUE] ELSE lease[x]]
    /\ UNCHANGED <<mapping, capability>>

(* renew_workspace and release_workspace: the mapping's lease, if it still  *)
(* is the workspace's; "missing" when there is no mapping, else an error.   *)
Mapped(w) == {x \in WithToken(mapping[w]) : lease[x].workspace = w}

-----------------------------------------------------------------------------
(* spawn *)

Spawn(p, w) ==
    /\ p \in Commands /\ workspace[w] = "none"
    /\ \/ SpawnAllowed(w) /\ Remove(Stale)
          /\ Begin(p, IF Direct(w) THEN "reserve" ELSE "create", w)
       \/ ~SpawnAllowed(w) /\ RemoveSome /\ At(p, "idle") /\ UNCHANGED proc
    /\ UNCHANGED <<workspace, stopped>>

(* A direct checkout is leased before its workspace exists. *)
SpawnReserve(p) ==
    /\ At(p, "reserve")
    /\ \/ \E t \in Fresh :
            /\ Acquire(PlaceOf[proc[p].w], t, None)
            /\ proc' = [proc EXCEPT ![p].pc = "create", ![p].token = t]
       \/ ~AcquireFree(PlaceOf[proc[p].w]) /\ RemoveSome /\ Return(p)
    /\ UNCHANGED <<workspace, stopped>>

SpawnCreate(p) ==
    /\ At(p, "create")
    /\ \/ /\ workspace' = [workspace EXCEPT ![proc[p].w] = "active"] /\ Goto(p, "own")
          /\ UNCHANGED storeVars
       \/ /\ Remove(WithToken(proc[p].token)) /\ Return(p)
          /\ UNCHANGED workspace
    /\ UNCHANGED stopped

(* The successor of a failover is there; its source is archived next. *)
Spawned(p) == IF proc[p].from = None THEN Return(p) ELSE Goto(p, "handoff")

(* A worktree is leased once the executor has said where it is. *)
SpawnOwn(p) ==
    /\ At(p, "own")
    /\ LET w == proc[p].w  t == proc[p].token IN
       \/ /\ Direct(w) /\ WithToken(t) # {}
          /\ Attach(t, w) /\ Return(p) /\ UNCHANGED stopped
       \/ /\ Direct(w) /\ WithToken(t) = {}
          /\ Return(p) /\ UNCHANGED <<storeVars, stopped>>
       \/ /\ ~Direct(w) /\ \E f \in Fresh : Acquire(PlaceOf[w], f, w)
          /\ Spawned(p) /\ UNCHANGED stopped
       \/ /\ ~Direct(w) /\ ~AcquireFree(PlaceOf[w])
          /\ RemoveSome /\ Return(p) /\ stopped' = stopped \union {w}
    /\ UNCHANGED workspace

(* failover --new-worktree --archive-source: the successor is spawned in a   *)
(* worktree of its own, and then the source is archived and released.        *)
Failover(p, from, w) ==
    /\ p \in Commands /\ workspace[from] = "active" /\ workspace[w] = "none" /\ ~Direct(w)
    /\ At(p, "idle")
    /\ \/ SpawnAllowed(w) /\ Remove(Stale)
          /\ proc' = [proc EXCEPT ![p] = [Idle EXCEPT !.pc = "create", !.w = w, !.from = from]]
       \/ ~SpawnAllowed(w) /\ RemoveSome /\ UNCHANGED proc
    /\ UNCHANGED <<workspace, stopped>>

ArchiveSource(p) ==
    /\ At(p, "handoff")
    /\ LET from == proc[p].from  there == workspace[from] # "none" IN
       /\ workspace' = [workspace EXCEPT ![from] = IF there THEN "archived" ELSE @]
       /\ proc' = [proc EXCEPT ![p] = IF there THEN [Idle EXCEPT !.pc = "release", !.w = from]
                                                ELSE Idle]
    /\ UNCHANGED <<storeVars, stopped>>

-----------------------------------------------------------------------------
(* workspace archive, restore and delete *)

Archive(p, w) ==
    /\ p \in Commands /\ workspace[w] = "active"
    /\ Begin(p, "release", w)
    /\ workspace' = [workspace EXCEPT ![w] = "archived"]
    /\ UNCHANGED <<storeVars, stopped>>

Delete(p, w) ==
    /\ p \in Commands /\ workspace[w] = "archived"
    /\ Begin(p, "release", w)
    /\ workspace' = [workspace EXCEPT ![w] = "none"] /\ stopped' = stopped \ {w}
    /\ UNCHANGED storeVars

(* Mutant: what is released is the checkout, whoever has it. *)
ReleasePlace(p) ==
    /\ At(p, "release")
    /\ Remove({PlaceOf[proc[p].w]} \intersect Held)
    /\ Return(p)
    /\ UNCHANGED <<workspace, stopped>>

(* release_workspace_if_present *)
ReleaseWorkspace(p) ==
    /\ At(p, "release")
    /\ Remove(Mapped(proc[p].w))
    /\ Return(p)
    /\ UNCHANGED <<workspace, stopped>>

Restore(p, w) ==
    /\ p \in Commands /\ workspace[w] = "archived"
    /\ SpawnAllowed(w) /\ Remove(Stale)
    /\ Begin(p, "restore", w)
    /\ UNCHANGED <<workspace, stopped>>

(* The workspace is active again, and the command goes on to sync it. *)
Restored(p) ==
    /\ At(p, "restore")
    /\ workspace' = [workspace EXCEPT ![proc[p].w] = "active"]
    /\ Goto(p, "renew")
    /\ UNCHANGED <<storeVars, stopped>>

-----------------------------------------------------------------------------
(* _sync_active_workspace, for a workspace the list showed active *)

Sync(w) ==
    /\ workspace[w] = "active" /\ Begin(Bridge, "renew", w)
    /\ UNCHANGED <<storeVars, workspace, stopped>>

(* Mutant: a lease that ran out is not renewed. *)
SyncRenewLive(p) ==
    /\ At(p, "renew")
    /\ LET w == proc[p].w IN
       \/ /\ mapping[w] = None /\ Goto(p, "place") /\ UNCHANGED storeVars
       \/ /\ Mapped(w) \subseteq Live /\ mapping[w] # None /\ RenewAt(Mapped(w)) /\ Return(p)
       \/ /\ ~(Mapped(w) \subseteq Live) /\ Return(p) /\ UNCHANGED storeVars
    /\ UNCHANGED <<workspace, stopped>>

(* A mapping whose lease is gone is an error, and the end of it. *)
SyncRenew(p) ==
    /\ At(p, "renew")
    /\ LET w == proc[p].w IN
       \/ /\ mapping[w] = None /\ Goto(p, "place") /\ UNCHANGED storeVars
       \/ /\ mapping[w] # None /\ RenewAt(Mapped(w))
          /\ \/ Return(p)
             \/ /\ Mapped(w) # {}
                /\ proc' = [proc EXCEPT ![p].pc = "attach", ![p].token = mapping[w]]
    /\ UNCHANGED <<workspace, stopped>>

(* The workspace's first session is another one: the lease is told. *)
SyncAttach(p) ==
    /\ At(p, "attach")
    /\ IF WithToken(proc[p].token) # {} THEN Attach(proc[p].token, proc[p].w) ELSE UNCHANGED storeVars
    /\ Return(p)
    /\ UNCHANGED <<workspace, stopped>>

SyncAcquire(p) ==
    /\ At(p, "place")
    /\ LET w == proc[p].w IN
       \/ \E t \in Fresh : Acquire(PlaceOf[w], t, w) /\ Return(p)
       \/ ~AcquireFree(PlaceOf[w]) /\ RemoveSome /\ Goto(p, "fallback")
    /\ UNCHANGED <<workspace, stopped>>

SyncFallback(p) ==
    /\ At(p, "fallback")
    /\ IF Mapped(proc[p].w) # {} THEN RenewAt(Mapped(proc[p].w)) ELSE UNCHANGED storeVars
    /\ Return(p)
    /\ UNCHANGED <<workspace, stopped>>

-----------------------------------------------------------------------------
(* the lease commands *)

(* acquire: the lease, and then the file that hands out its token.  (Bound: *)
(* there is one capability file at a time.)                                  *)
LeaseAcquire(p, x, w) ==
    /\ p \in Commands /\ At(p, "idle")
    /\ \A y \in Places \ {x} : capability[y] = None
    /\ \E t \in Fresh :
        /\ Acquire(x, t, w)
        /\ proc' = [proc EXCEPT ![p] = [Idle EXCEPT !.pc = "emit", !.at = x, !.token = t]]
    /\ UNCHANGED <<workspace, stopped>>

EmitCapability(p) ==
    /\ At(p, "emit")
    /\ capability' = [capability EXCEPT ![proc[p].at] = proc[p].token]
    /\ Return(p)
    /\ UNCHANGED <<lease, mapping, workspace, stopped>>

LeaseRelease(x) ==
    /\ capability[x] # None /\ WithToken(capability[x]) # {}
    /\ Remove(WithToken(capability[x]))
    /\ UNCHANGED <<workspace, stopped, proc>>

LeaseRenew(x) ==
    /\ capability[x] # None /\ WithToken(capability[x]) # {}
    /\ RenewAt(WithToken(capability[x]))
    /\ UNCHANGED <<workspace, stopped, proc>>

RecoverStale ==
    /\ Stale # {} /\ Remove(Stale)
    /\ UNCHANGED <<workspace, stopped, proc>>

Expire(x) ==
    /\ x \in Live /\ lease' = [lease EXCEPT ![x].live = FALSE]
    /\ UNCHANGED <<mapping, capability, workspace, stopped, proc>>

SyncStep(p)    == SyncRenew(p) \/ SyncAttach(p) \/ SyncAcquire(p) \/ SyncFallback(p)
CommandStep(p) ==
    \/ SpawnReserve(p) \/ SpawnCreate(p) \/ SpawnOwn(p) \/ ReleaseWorkspace(p)
    \/ ArchiveSource(p) \/ Restored(p) \/ EmitCapability(p)

Next ==
    \/ \E p \in Procs : SyncStep(p) \/ CommandStep(p)
    \/ \E p \in Commands, w \in Workspaces : Spawn(p, w) \/ Archive(p, w) \/ Delete(p, w) \/ Restore(p, w)
    \/ \E p \in Commands, from, w \in Workspaces : Failover(p, from, w)
    \/ \E w \in Workspaces : Sync(w)
    \/ \E p \in Commands, x \in Places : LeaseAcquire(p, x, None)
    \/ \E x \in Places : LeaseRelease(x) \/ LeaseRenew(x) \/ Expire(x)
    \/ RecoverStale

Spec == Init /\ [][Next]_vars

(* The bridge ticks for ever; a command that began goes on. *)
Fairness ==
    /\ \A p \in Procs : WF_vars(SyncStep(p)) /\ WF_vars(CommandStep(p))
    /\ \A w \in Workspaces : SF_vars(Sync(w))

FairSpec == Spec /\ Fairness

-----------------------------------------------------------------------------
(* Properties *)

LeaseType == [token : Tokens, workspace : Workspaces \union {None}, live : BOOLEAN]

(* Lease files, mappings, capabilities and processes are well formed. *)
TypeOK ==
    /\ lease \in [Places -> LeaseType \union {NoLease}]
    /\ mapping \in [Workspaces -> Tokens \union {None}]
    /\ capability \in [Places -> Tokens \union {None}]
    /\ workspace \in [Workspaces -> {"none", "active", "archived"}]
    /\ stopped \subseteq Workspaces
    /\ proc \in [Procs -> [ pc : {"idle", "reserve", "create", "own", "release", "restore", "renew",
                                  "attach", "place", "fallback", "emit", "handoff"},
                            w : Workspaces \union {None}, from : Workspaces \union {None}, at : Places \union {None},
                            token : Tokens \union {None} ]]

(* operations.md, "Leases": no two leases on disk conflict - not even a      *)
(* stale one with a live one, since a renewal revives a stale lease without  *)
(* looking for conflicts.                                                    *)
Exclusive == \A x, y \in Held : x # y => ~Conflicts(x, y)

(* leases.py, renew_workspace, "mapping has no lease record": that state,    *)
(* which ends every later sync of the workspace, is not reached, and a lease *)
(* of a workspace can always be found from it, so that archiving the         *)
(* workspace releases it.                                                    *)
MappingsMatch ==
    \A w \in Workspaces :
        /\ mapping[w] # None => Mapped(w) # {}
        /\ \A x \in Held : lease[x].workspace = w => mapping[w] = lease[x].token

(* operations.md: "so archival can release only the owning workspace": a     *)
(* live lease ends only by its token, by its workspace's archival or         *)
(* deletion, or by the spawn that took it and failed.                        *)
Moves(p) == proc'[p] # proc[p]
OnlyOwnersRelease ==
    [][ \A x \in Live : lease'[x].token # lease[x].token =>
            \/ capability[x] = lease[x].token /\ UNCHANGED proc
            \/ \E p \in Procs : At(p, "create") /\ Moves(p) /\ proc[p].token = lease[x].token
            \/ \E p \in Procs : At(p, "release") /\ Moves(p) /\ proc[p].w = lease[x].workspace
      ]_vars

(* leases.py, sync_active_workspaces: "Renew or backfill leases for every    *)
(* valid active cdesktop workspace": as long as nothing foreign is in the    *)
(* way, an active workspace is leased again and again, whoever let its lease *)
(* run out, released it or removed it.                                       *)
Unobstructed(w) ==
    /\ workspace[w] = "active"
    /\ \A y \in Held : Conflicts(y, PlaceOf[w]) => lease[y].workspace = w
ActiveIsLeased ==
    \A w \in Workspaces :
        <>[]Unobstructed(w) => []<>(\E x \in Live : lease[x].workspace = w)
=============================================================================
