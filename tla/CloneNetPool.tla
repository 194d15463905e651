---------------------------- MODULE CloneNetPool ----------------------------
(***************************************************************************)
(* The pool of clone networks (src/src/clonenet.rs).  A network is a       *)
(* namespace, a veth pair and a source-binding rule, all named by an index *)
(* of the HOST; the claim of an index is a file of one state directory,    *)
(* under the lock of that directory.  Two state directories therefore meet *)
(* only in the host-wide owner marker, a symlink per index under /run.     *)
(*                                                                         *)
(* A batch is one `rooms clone` process: it allocates a network for every  *)
(* member from concurrent threads, joins them all, and either hands the    *)
(* networks to the restores or rolls every one of them back.  Room ids are *)
(* minted fresh, so a room is a member once.  The Gcs are `rooms gc` of    *)
(* their state directory.  The grammar of a claim file, and the discarding *)
(* of a half-written one, is that of the slot pool (module SlotPool).      *)
(***************************************************************************)
EXTENDS Naturals, FiniteSets, FiniteSetsExt

CONSTANTS
    Bases,    \* state directories
    Batches,  \* `rooms clone` processes
    Rooms,    \* members of the batches
    Gcs,      \* `rooms gc` processes
    BatchOf,  \* the batch of each room
    BaseOf,   \* the state directory of each batch and of each gc
    MaxNet,   \* the highest claimable index: MAX_CLONENET, or the --cap
    NoRoom, NoActor

Actors == Rooms \cup Gcs
Indices == 1..MaxNet

ASSUME NetAssumption ==
    /\ MaxNet \in Nat \ {0}
    /\ BatchOf \in [Rooms -> Batches]
    /\ BaseOf \in [Batches \cup Gcs -> Bases]
    /\ Rooms \cap Gcs = {}
    /\ NoRoom \notin Rooms
    /\ NoActor \notin Actors

VARIABLES
    claim,   \* claim[b][i]: the owner in <state b>/clonenets/<i>
    lock,    \* holder of each state directory's clonenets.lock
    marker,  \* target of the host-wide owner marker of each index
    dev,     \* the devices at each index, with the room that made them
    dir,     \* whether the room directory <state>/<room> exists
    proc,    \* whether each batch process lives
    pc,
    job,     \* the room and index each thread or gc works on
    stage,   \* CreationStage of each member's create
    seen,    \* the Rooms routes in the preflight's route listing
    fail     \* why a member's allocation failed

host == <<claim, lock, marker, dev>>
vars == <<claim, lock, marker, dev, dir, proc, pc, job, stage, seen, fail>>

Base(a) == IF a \in Rooms THEN BaseOf[BatchOf[a]] ELSE BaseOf[a]
Members(p) == {r \in Rooms : BatchOf[r] = p}

(* What create_plan makes, in order: a stage says how far it came.         *)
Devices == <<"netns", "veth", "rule">>

Allocating == {"new", "routed", "lock", "walk", "mark", "create", "undo",
               "unmark", "release", "created"}
Freeing == {"free", "own", "probe", "delete", "drop", "unlink"}
Locked == {"walk", "mark"} \cup (Freeing \ {"free"})
Ended == {"failed", "done", "stuck", "kept", "dead"}

(* The type of every variable; whoever is inside a claim or a free of a    *)
(* state directory holds its lock.                                         *)
TypeOK ==
    /\ claim \in [Bases -> [Indices -> Rooms \cup {NoRoom}]]
    /\ lock \in [Bases -> Actors \cup {NoActor}]
    /\ marker \in [Indices -> Rooms \cup {NoRoom}]
    /\ dev \in [Indices -> SUBSET ({Devices[n] : n \in 1..3} \X Rooms)]
    /\ dir \in [Rooms -> BOOLEAN]
    /\ proc \in [Batches -> {"live", "gone"}]
    /\ \A r \in Rooms :
         pc[r] \in Allocating \cup Freeing \cup Ended \cup {"allocated", "owned"}
    /\ \A g \in Gcs : pc[g] \in {"idle", "judge"} \cup Freeing
    /\ DOMAIN pc = Actors
    /\ job \in [Actors -> [room : Rooms \cup {NoRoom}, idx : 1..MaxNet + 1]]
    /\ stage \in [Rooms -> 0..3]
    /\ seen \in [Rooms -> SUBSET Indices]
    /\ fail \in [Rooms -> {"none", "full", "error"}]
    /\ \A a \in Actors : (pc[a] \in Locked) <=> (lock[Base(a)] = a)

Init ==
    /\ claim = [b \in Bases |-> [i \in Indices |-> NoRoom]]
    /\ lock = [b \in Bases |-> NoActor]
    /\ marker = [i \in Indices |-> NoRoom]
    /\ dev = [i \in Indices |-> {}]
    /\ dir = [r \in Rooms |-> FALSE]
    /\ proc = [p \in Batches |-> "live"]
    /\ pc = [a \in Actors |-> IF a \in Rooms THEN "new" ELSE "idle"]
    /\ job = [a \in Actors |-> [room |-> IF a \in Rooms THEN a ELSE NoRoom,
                                idx |-> 1]]
    /\ stage = [r \in Rooms |-> 0]
    /\ seen = [r \in Rooms |-> {}]
    /\ fail = [r \in Rooms |-> "none"]

-----------------------------------------------------------------------------
(* Helpers.                                                                *)

Goto(a, phase) == pc' = [pc EXCEPT ![a] = phase]

(* A gc is done with its item; a thread keeps the index it worked on.      *)
Forget(a) ==
    job' = IF a \in Gcs THEN [job EXCEPT ![a] = [room |-> NoRoom, idx |-> 1]] ELSE job

Unlock(a) == lock' = [lock EXCEPT ![Base(a)] = IF @ = a THEN NoActor ELSE @]

SetClaim(b, i, r) == claim' = [claim EXCEPT ![b][i] = r]

(* The allocation of member r ends in an error.                            *)
Failed(r, why) ==
    /\ Goto(r, "failed")
    /\ fail' = [fail EXCEPT ![r] = why]

(* The devices of index i after the first n delete commands: they name the *)
(* device, whoever made it, and take an absent one for deleted.            *)
AfterDeletes(i, n) == {d \in dev[i] : \A k \in 1..n : d[1] # Devices[k]}

(* release_owner_marker: only the marker that names the owner goes.        *)
Unmarked(i, r) == [marker EXCEPT ![i] = IF @ = r THEN NoRoom ELSE @]

-----------------------------------------------------------------------------
(* allocate_with, one thread per member                                    *)

(* check_clone_subnet_available lists the host's routes first and looks    *)
(* for the owner marker of each Rooms route afterwards.  A foreign route   *)
(* or policy rule fails it as well.                                        *)
ListRoutes(r) ==
    /\ pc[r] = "new"
    /\ seen' = [seen EXCEPT ![r] =
                    {i \in Indices : \E d \in dev[i] : d[1] = "veth"}]
    /\ Goto(r, "routed")
    /\ UNCHANGED <<host, dir, proc, job, stage, fail>>

CheckRoutes(r) ==
    /\ pc[r] = "routed"
    /\ seen' = [seen EXCEPT ![r] = {}]
    /\ \/ /\ \A i \in seen[r] : marker[i] # NoRoom
          /\ Goto(r, "lock")
          /\ UNCHANGED fail
       \/ Failed(r, "error")
    /\ UNCHANGED <<host, dir, proc, job, stage>>

(* claim_with: under the lock, the lowest index without a claim file whose *)
(* marker can be made too.                                                 *)
TakeLock(r) ==
    /\ pc[r] = "lock"
    /\ lock[Base(r)] = NoActor
    /\ lock' = [lock EXCEPT ![Base(r)] = r]
    /\ Goto(r, "walk")
    /\ UNCHANGED <<claim, marker, dev, dir, proc, job, stage, seen, fail>>

WalkFree(r) ==
    {i \in Indices : i >= job[r].idx /\ claim[Base(r)][i] = NoRoom}

ClaimIndex(r) ==
    /\ pc[r] = "walk"
    /\ WalkFree(r) # {}
    /\ SetClaim(Base(r), Min(WalkFree(r)), r)
    /\ job' = [job EXCEPT ![r].idx = Min(WalkFree(r))]
    /\ Goto(r, "mark")
    /\ UNCHANGED <<lock, marker, dev, dir, proc, stage, seen, fail>>

ClaimPoolFull(r) ==
    /\ pc[r] = "walk"
    /\ WalkFree(r) = {}
    /\ Failed(r, "full")
    /\ Unlock(r)
    /\ UNCHANGED <<claim, marker, dev, dir, proc, job, stage, seen>>

(* Mutant: an existing marker is taken over.                               *)
ClaimGlobalForced(r) ==
    /\ pc[r] = "mark"
    /\ marker' = [marker EXCEPT ![job[r].idx] = r]
    /\ Goto(r, "create")
    /\ Unlock(r)
    /\ UNCHANGED <<claim, dev, dir, proc, job, stage, seen, fail>>

(* claim_global: `symlink` makes the marker or finds one of another state  *)
(* directory, which gives the claim back and walks on.                     *)
ClaimGlobal(r) ==
    LET i == job[r].idx IN
    /\ pc[r] = "mark"
    /\ \/ /\ marker[i] = NoRoom
          /\ marker' = [marker EXCEPT ![i] = r]
          /\ Goto(r, "create")
          /\ Unlock(r)
          /\ UNCHANGED <<claim, job, fail>>
       \/ /\ marker[i] # NoRoom
          /\ SetClaim(Base(r), i, NoRoom)
          /\ job' = [job EXCEPT ![r].idx = i + 1]
          /\ Goto(r, "walk")
          /\ UNCHANGED <<marker, lock, fail>>
       \/ /\ SetClaim(Base(r), i, NoRoom)
          /\ Failed(r, "error")
          /\ Unlock(r)
          /\ UNCHANGED <<marker, job>>
    /\ UNCHANGED <<dev, dir, proc, stage, seen>>

(* create: one device after the other; `ip` refuses a name that exists,    *)
(* `iptables -I` puts a binding rule beside one that stands.               *)
Create(r) ==
    LET i == job[r].idx
        device == Devices[stage[r] + 1]
    IN
    /\ pc[r] = "create"
    /\ stage[r] < 3
    /\ device = "rule" \/ \A d \in dev[i] : d[1] # device
    /\ dev' = [dev EXCEPT ![i] = @ \cup {<<device, r>>}]
    /\ stage' = [stage EXCEPT ![r] = @ + 1]
    /\ UNCHANGED <<claim, lock, marker, dir, proc, pc, job, seen, fail>>

CreateDone(r) ==
    /\ pc[r] = "create"
    /\ stage[r] = 3
    /\ Goto(r, "created")
    /\ stage' = [stage EXCEPT ![r] = 0]
    /\ UNCHANGED <<host, dir, proc, job, seen, fail>>

CreateFails(r) ==
    /\ pc[r] = "create"
    /\ Goto(r, "undo")
    /\ UNCHANGED <<host, dir, proc, job, stage, seen, fail>>

(* rollback_failed_create, without a lock: delete what the stage reached,  *)
(* release the marker, then the claim by exact owner.  The first command   *)
(* that fails leaves the claim to reconciliation.                          *)
Rollback(r) ==
    LET i == job[r].idx IN
    /\ pc[r] = "undo"
    /\ \E n \in 0..stage[r] :
         /\ dev' = [dev EXCEPT ![i] = AfterDeletes(i, n)]
         /\ \/ n = stage[r] /\ Goto(r, "unmark") /\ UNCHANGED fail
            \/ Failed(r, "error")
    /\ stage' = [stage EXCEPT ![r] = 0]
    /\ UNCHANGED <<claim, lock, marker, dir, proc, job, seen>>

(* Mutant: the claim goes and the marker stays.                            *)
RollbackKeepsMarker(r) ==
    /\ pc[r] = "unmark"
    /\ Goto(r, "release")
    /\ UNCHANGED <<host, dir, proc, job, stage, seen, fail>>

RollbackMarker(r) ==
    /\ pc[r] = "unmark"
    /\ marker' = Unmarked(job[r].idx, r)
    /\ Goto(r, "release")
    /\ UNCHANGED <<claim, lock, dev, dir, proc, job, stage, seen, fail>>

ReleaseClaim(r) ==
    LET b == Base(r)  i == job[r].idx IN
    /\ pc[r] = "release"
    /\ lock[b] = NoActor
    /\ \/ claim[b][i] = r /\ SetClaim(b, i, NoRoom)
       \/ UNCHANGED claim
    /\ Failed(r, "error")
    /\ UNCHANGED <<lock, marker, dev, dir, proc, job, stage, seen>>

-----------------------------------------------------------------------------
(* allocate_batch_with: every worker is joined; one failure sends every    *)
(* member that succeeded to its rollback.                                  *)

JoinWorkers(p) ==
    /\ \A r \in Members(p) : pc[r] \in {"created", "failed"}
    /\ \E r \in Members(p) : pc[r] = "created"
    /\ pc' = [a \in Actors |->
                IF a \in Members(p) /\ pc[a] = "created"
                THEN IF \E r \in Members(p) : pc[r] = "failed"
                     THEN "free" ELSE "allocated"
                ELSE pc[a]]
    /\ UNCHANGED <<host, dir, proc, job, stage, seen, fail>>

(* Mutant: rollback failures do not count.                                 *)
PoolFullCapAnyRollback(p) ==
    /\ \E r \in Members(p) : pc[r] = "failed"
    /\ \A r \in Members(p) :
         \/ pc[r] = "failed" /\ fail[r] = "full"
         \/ pc[r] \in {"done", "stuck"}

(* BatchAllocationError::pool_full_cap: every failure was capacity and     *)
(* every sibling rolled back.                                              *)
PoolFullCap(p) ==
    /\ \E r \in Members(p) : pc[r] = "failed"
    /\ \A r \in Members(p) :
         \/ pc[r] = "failed" /\ fail[r] = "full"
         \/ pc[r] = "done"

-----------------------------------------------------------------------------
(* The life of an allocated network.                                       *)

(* The restore makes the room directory; a restore that is refused before  *)
(* frees the network.                                                      *)
UseNetwork(r) ==
    /\ pc[r] = "allocated"
    /\ \/ dir' = [dir EXCEPT ![r] = TRUE] /\ Goto(r, "owned")
       \/ dir' = dir /\ Goto(r, "free")
    /\ UNCHANGED <<host, proc, job, stage, seen, fail>>

(* The room ends: its directory goes first, then its network.  With --keep *)
(* the process leaves both.                                                *)
FinishRoom(r) ==
    /\ pc[r] = "owned"
    /\ \/ dir' = [dir EXCEPT ![r] = FALSE] /\ Goto(r, "free")
       \/ dir' = dir /\ Goto(r, "kept")
    /\ UNCHANGED <<host, proc, job, stage, seen, fail>>

-----------------------------------------------------------------------------
(* free_with_cleanup by a member's process or a gc, and the same teardown  *)
(* from reconcile: everything under the lock of the state directory.       *)

Return(a) ==
    /\ Goto(a, IF a \in Gcs THEN "idle" ELSE "done")
    /\ Unlock(a)
    /\ Forget(a)

(* The claim stays; rollback of a batch reports the member.                *)
GiveUp(a) ==
    /\ Goto(a, IF a \in Gcs THEN "idle" ELSE "stuck")
    /\ Unlock(a)
    /\ Forget(a)

FreeHold(a) ==
    LET b == Base(a) IN
    /\ pc[a] = "free"
    /\ lock[b] = NoActor
    /\ \/ /\ claim[b][job[a].idx] = job[a].room
          /\ lock' = [lock EXCEPT ![b] = a]
          /\ Goto(a, "own")
          /\ UNCHANGED job
       \/ /\ claim[b][job[a].idx] # job[a].room
          /\ Return(a)
    /\ UNCHANGED <<claim, marker, dev, dir, proc, stage, seen, fail>>

(* Mutant: a marker of another owner does not stop the teardown.           *)
TeardownUnowned(a) ==
    /\ pc[a] = "own"
    /\ Goto(a, "delete")
    /\ UNCHANGED <<host, dir, proc, job, stage, seen, fail>>

(* Mutant: without a marker there is nothing to tear down.                 *)
TeardownNeedsMarker(a) ==
    LET i == job[a].idx  r == job[a].room IN
    /\ pc[a] = "own"
    /\ \/ /\ marker[i] = r
          /\ Goto(a, "delete")
          /\ UNCHANGED <<lock, marker, job>>
       \/ /\ marker[i] # r
          /\ GiveUp(a)
          /\ UNCHANGED marker
    /\ UNCHANGED <<claim, dev, dir, proc, stage, seen, fail>>

(* teardown_ownership: the marker is ours, is made ours, or is foreign.    *)
TeardownOwnership(a) ==
    LET i == job[a].idx  r == job[a].room IN
    /\ pc[a] = "own"
    /\ \/ /\ marker[i] = r
          /\ Goto(a, "delete")
          /\ UNCHANGED <<lock, marker, job>>
       \/ /\ marker[i] = NoRoom
          /\ marker' = [marker EXCEPT ![i] = r]
          /\ Goto(a, "probe")
          /\ UNCHANGED <<lock, job>>
       \/ /\ marker[i] \notin {r, NoRoom}
          /\ GiveUp(a)
          /\ UNCHANGED marker
    /\ UNCHANGED <<claim, dev, dir, proc, stage, seen, fail>>

(* reserved_resources_exist: devices at an index nobody had marked are not *)
(* ours.  The probes look for the namespace and the veth, not the rule.    *)
ProbeReserved(a) ==
    LET i == job[a].idx IN
    /\ pc[a] = "probe"
    /\ IF \E d \in dev[i] : d[1] # "rule"
       THEN marker' = Unmarked(i, job[a].room) /\ GiveUp(a)
       ELSE Goto(a, "delete") /\ UNCHANGED <<marker, lock, job>>
    /\ UNCHANGED <<claim, dev, dir, proc, stage, seen, fail>>

(* remove_clone_checked and teardown_plan; a command may fail.             *)
TeardownDevices(a) ==
    LET i == job[a].idx IN
    /\ pc[a] = "delete"
    /\ \E n \in 0..3 :
         /\ dev' = [dev EXCEPT ![i] = AfterDeletes(i, n)]
         /\ \/ n = 3 /\ Goto(a, "drop") /\ UNCHANGED <<lock, job>>
            \/ n < 3 /\ GiveUp(a)
    /\ UNCHANGED <<claim, marker, dir, proc, stage, seen, fail>>

TeardownMarker(a) ==
    /\ pc[a] = "drop"
    /\ marker' = Unmarked(job[a].idx, job[a].room)
    /\ Goto(a, "unlink")
    /\ UNCHANGED <<claim, lock, dev, dir, proc, job, stage, seen, fail>>

FreeUnlink(a) ==
    /\ pc[a] = "unlink"
    /\ SetClaim(Base(a), job[a].idx, NoRoom)
    /\ Return(a)
    /\ UNCHANGED <<marker, dev, dir, proc, stage, seen, fail>>

-----------------------------------------------------------------------------
(* rooms gc                                                                *)

(* reconcile_path: a claim whose claimer is gone.                          *)
GcRead(g, i) ==
    LET r == claim[Base(g)][i] IN
    /\ pc[g] = "idle"
    /\ r # NoRoom
    /\ proc[BatchOf[r]] = "gone"
    /\ job' = [job EXCEPT ![g] = [room |-> r, idx |-> i]]
    /\ Goto(g, "judge")
    /\ UNCHANGED <<host, dir, proc, stage, seen, fail>>

(* reconcile_dead and reconcile_with: the claim is unchanged under the     *)
(* lock, and no room directory fences it.                                  *)
Reconcile(g) ==
    LET b == Base(g) IN
    /\ pc[g] = "judge"
    /\ lock[b] = NoActor
    /\ IF claim[b][job[g].idx] = job[g].room /\ ~dir[job[g].room]
       THEN lock' = [lock EXCEPT ![b] = g] /\ Goto(g, "own") /\ UNCHANGED job
       ELSE Return(g)
    /\ UNCHANGED <<claim, marker, dev, dir, proc, stage, seen, fail>>

(* The reap of a dead room: its directory, then its network by the index   *)
(* in its restore intent.                                                  *)
ReapRoom(g, r) ==
    /\ pc[g] = "idle"
    /\ Base(r) = Base(g)
    /\ dir[r] /\ proc[BatchOf[r]] = "gone"
    /\ dir' = [dir EXCEPT ![r] = FALSE]
    /\ job' = [job EXCEPT ![g] = job[r]]
    /\ Goto(g, "free")
    /\ UNCHANGED <<host, proc, stage, seen, fail>>

-----------------------------------------------------------------------------
(* The environment.                                                        *)

Exit(p) ==
    /\ proc[p] = "live"
    /\ \A r \in Members(p) : pc[r] \in Ended
    /\ proc' = [proc EXCEPT ![p] = "gone"]
    /\ UNCHANGED <<host, dir, pc, job, stage, seen, fail>>

(* The processes of ps and the gcs of gs die with every thread; the kernel *)
(* drops their locks.                                                      *)
Kill(ps, gs) ==
    LET dies(a) == a \in gs \/ (a \in Rooms /\ BatchOf[a] \in ps) IN
    /\ proc' = [p \in Batches |-> IF p \in ps THEN "gone" ELSE proc[p]]
    /\ pc' = [a \in Actors |->
                CASE a \in gs -> "idle"
                  [] a \in Rooms /\ dies(a) /\ pc[a] \notin Ended -> "dead"
                  [] OTHER -> pc[a]]
    /\ lock' = [b \in Bases |->
                  IF lock[b] # NoActor /\ dies(lock[b]) THEN NoActor ELSE lock[b]]
    /\ job' = [a \in Actors |->
                 IF a \in gs THEN [room |-> NoRoom, idx |-> 1] ELSE job[a]]
    /\ seen' = [r \in Rooms |-> IF dies(r) THEN {} ELSE seen[r]]
    /\ stage' = [r \in Rooms |-> IF dies(r) THEN 0 ELSE stage[r]]
    /\ fail' = [r \in Rooms |-> IF dies(r) THEN "none" ELSE fail[r]]
    /\ UNCHANGED <<claim, dir>>

Crash(p) ==
    /\ proc[p] = "live"
    /\ Kill({p}, {})
    /\ UNCHANGED <<marker, dev>>

GcCrash(g) ==
    /\ pc[g] # "idle"
    /\ Return(g)
    /\ UNCHANGED <<claim, marker, dev, dir, proc, stage, seen, fail>>

(* The host restarts: /run and the network configuration are empty, state  *)
(* directories are not.                                                    *)
Reboot ==
    /\ Kill(Batches, Gcs)
    /\ marker' = [i \in Indices |-> NoRoom]
    /\ dev' = [i \in Indices |-> {}]

-----------------------------------------------------------------------------
AllocateStep(r) ==
    \/ ListRoutes(r) \/ CheckRoutes(r) \/ TakeLock(r) \/ ClaimIndex(r)
    \/ ClaimPoolFull(r) \/ ClaimGlobal(r) \/ Create(r) \/ CreateDone(r)
    \/ CreateFails(r) \/ Rollback(r) \/ RollbackMarker(r) \/ ReleaseClaim(r)

FreeStep(a) ==
    \/ FreeHold(a) \/ TeardownOwnership(a) \/ ProbeReserved(a)
    \/ TeardownDevices(a) \/ TeardownMarker(a) \/ FreeUnlink(a)

Next ==
    \/ \E r \in Rooms : AllocateStep(r) \/ UseNetwork(r) \/ FinishRoom(r)
    \/ \E a \in Actors : FreeStep(a)
    \/ \E p \in Batches : JoinWorkers(p) \/ Exit(p) \/ Crash(p)
    \/ \E g \in Gcs :
         \/ \E i \in Indices : GcRead(g, i)
         \/ \E r \in Rooms : ReapRoom(g, r)
         \/ Reconcile(g) \/ GcCrash(g)
    \/ Reboot

Spec == Init /\ [][Next]_vars

(* A gc that has an item goes on with it.                                  *)
GcContinue(g) == pc[g] # "idle" /\ (FreeStep(g) \/ Reconcile(g))

(* A gc is killed inside an item, or a command fails it.                   *)
GcFault(g) ==
    /\ pc[g] # "idle" /\ pc'[g] = "idle"
    /\ ~(\/ Reconcile(g) \/ FreeHold(g) \/ TeardownOwnership(g)
         \/ ProbeReserved(g) \/ FreeUnlink(g))

(* A thread that holds the lock runs on or dies; `rooms gc` is run again   *)
(* and again and each pass visits every claim; from some point on no gc is *)
(* killed, none of its commands fails and the host stays up.               *)
Fairness ==
    /\ \A r \in Rooms :
         WF_vars(lock[Base(r)] = r /\ (AllocateStep(r) \/ FreeStep(r)))
    /\ \A g \in Gcs :
         /\ \A i \in Indices : SF_vars(GcRead(g, i))
         /\ SF_vars(GcContinue(g))
         /\ <>[][~GcFault(g)]_vars
    /\ <>[][~Reboot]_vars

FairSpec == Spec /\ Fairness

-----------------------------------------------------------------------------
(* Every device on the host stands under the marker of the room that made  *)
(* it, and every marker under that room's durable claim: whatever a crash  *)
(* or a failed rollback leaves is named by a claim that gc can find        *)
(* (claim file before marker before devices; the reverse on the way out).  *)
DevicesAccounted ==
    \A i \in Indices :
        /\ \A d \in dev[i] : marker[i] = d[2]
        /\ marker[i] # NoRoom => claim[Base(marker[i])][i] = marker[i]

(* A member that was handed its network keeps all of it while its process  *)
(* lives: no rollback, gc or member of another state directory takes a     *)
(* device from under a room that is restored or kept (the marker between   *)
(* state directories, the live claimer within one).                        *)
NetworkInUseKept ==
    \A r \in Rooms :
        pc[r] \in {"allocated", "owned"}
            \/ (pc[r] = "kept" /\ proc[BatchOf[r]] = "live") =>
            \A n \in 1..3 : <<Devices[n], r>> \in dev[job[r].idx]

(* PoolFull is reported for the batch, which the caller takes as a clean   *)
(* refusal to retry, only when nothing of any member is left on the host.  *)
PoolFullIsClean ==
    \A p \in Batches : PoolFullCap(p) =>
        \A r \in Members(p), i \in Indices :
            /\ claim[Base(r)][i] # r /\ marker[i] # r
            /\ \A d \in dev[i] : d[2] # r

(* The pools of all state directories together are one exclusive allocator *)
(* of host indices, module HostNets, with the marker as owner.             *)
Abstract == INSTANCE HostNets WITH
    owner <- marker,
    builder <- [i \in Indices |-> {d[2] : d \in dev[i]}]

HostExclusive == Abstract!Spec

(* The claim of a process that is gone, with no room directory, is         *)
(* reclaimed, unless another state directory owns the index by then.       *)
DeadClaimReclaimed ==
    \A b \in Bases, i \in Indices, r \in Rooms :
        claim[b][i] = r /\ proc[BatchOf[r]] = "gone" /\ ~dir[r]
            ~> claim[b][i] # r \/ marker[i] \notin {r, NoRoom}
=============================================================================
