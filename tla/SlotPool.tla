------------------------------ MODULE SlotPool ------------------------------
(***************************************************************************)
(* The network slot pool and the rooms that live in it.                    *)
(*                                                                         *)
(*   indexed_claim.rs, slot.rs   claim files under the pool's free-lock    *)
(*   firecracker.rs              boot, the RoomGuard teardown, reap_orphan *)
(*   registry.rs                 gc's sweeps and rooms kill                *)
(*                                                                         *)
(* One process per room is the `rooms run` CLI that claims a slot, boots   *)
(* the VM and tears it down; the Gcs are concurrent `rooms gc` and         *)
(* `rooms kill` processes.  Any of them can die between two steps, and the *)
(* kernel then drops the lock it held.  Room ids are minted fresh, so a    *)
(* room runs once.  A gc pass handles one item at a time; the order of the *)
(* items is left open.                                                     *)
(***************************************************************************)
EXTENDS SlotTokens

CONSTANTS
    Gcs,       \* concurrent gc / kill processes
    NoActor,   \* nobody holds the lock
    Cap,       \* the pool ceiling of this invocation (effective_max_pool)
    Stray      \* the maker of a tap-fc<k> that no room of this base created

Actors == Rooms \cup Gcs

ASSUME PoolAssumption ==
    /\ Cap \in Nat
    /\ Rooms \cap Gcs = {}
    /\ NoActor \notin Actors
    /\ Stray \notin Rooms \cup {NoRoom}

VARIABLES
    slot,   \* slot file bodies
    lock,   \* holder of slots.lock
    tap,    \* tap[k]: who created the host device tap-fc<k>, if it exists
    dir,    \* room directory: absent, without room.json, or with it
    vm,     \* the room's firecracker process ("killed": SIGKILL sent, exit
            \* not awaited)
    pc,     \* what each process is about to do
    job     \* the room, index and token each process works on

vars == <<slot, lock, tap, dir, vm, pc, job>>

CliPhases == {"new", "writing", "claimed", "staged", "tapped", "spawned", "up",
              "unwind", "killed", "release", "held", "clean", "done", "crashed"}
GcPhases  == {"idle", "read", "partial", "dead", "reclaim", "reclaimed",
              "unclaimed", "orphan", "sweep", "listed", "doomed", "reap",
              "release", "held", "clean"}

(* The processes that have ended: /proc/<pid> is gone or recycled.         *)
Ended == {"done", "crashed"}

NoJob == [room |-> NoRoom, k |-> 0, seen |-> Free]
Home(a) == IF a \in Rooms THEN "done" ELSE "idle"

(* The tokens a plain pool can hold.  Any other body would be a claim that *)
(* neither a walk, nor a free, nor a gc pass could ever account for.       *)
PoolToken ==
    {Free, InProgress} \cup {Claimed(r) : r \in Rooms}
                       \cup {Reserved(s) : s \in Snaps}

Jobs == [room : Rooms \cup {NoRoom}, k : Slots \cup {0}, seen : PoolToken]

(* The type of every variable; slot files hold well-formed tokens only.    *)
TypeOK ==
    /\ slot \in [Slots -> PoolToken]
    /\ lock \in Actors \cup {NoActor}
    /\ tap \in [Slots -> Rooms \cup {NoRoom, Stray}]
    /\ dir \in [Rooms -> {"none", "bare", "meta"}]
    /\ vm \in [Rooms -> {"none", "alive", "killed", "dead"}]
    /\ pc \in [Actors -> CliPhases \cup GcPhases]
    /\ \A r \in Rooms : pc[r] \in CliPhases
    /\ \A g \in Gcs : pc[g] \in GcPhases
    /\ job \in [Actors -> Jobs]

(* A base dir may hold reservations of earlier snapshots, and the host may *)
(* carry a pool tap nobody accounts for.                                   *)
Init ==
    /\ slot \in [Slots -> {Free} \cup {Reserved(s) : s \in Snaps}]
    /\ lock = NoActor
    /\ tap \in [Slots -> {NoRoom, Stray}]
    /\ dir = [r \in Rooms |-> "none"]
    /\ vm = [r \in Rooms |-> "none"]
    /\ pc = [a \in Actors |-> IF a \in Rooms THEN "new" ELSE "idle"]
    /\ job = [a \in Actors |-> [room |-> IF a \in Rooms THEN a ELSE NoRoom,
                                k |-> 0, seen |-> Free]]

-----------------------------------------------------------------------------
(* Helpers.                                                                *)

Goto(a, phase) == pc' = [pc EXCEPT ![a] = phase]

(* The end of an operation: a CLI exits, a gc is ready for its next item.  *)
Return(a) ==
    /\ Goto(a, Home(a))
    /\ job' = IF a \in Gcs THEN [job EXCEPT ![a] = NoJob] ELSE job

Lock(a) == lock = NoActor /\ lock' = a
Unlock == lock' = NoActor

(* The indices the walk may try: 1..=min(cap, max_index), lowest first.    *)
WalkFree == {k \in Slots : k <= Cap /\ slot[k] = Free}

(* try_acquire_lock on the room's snapshot lock, held across kill and reap. *)
RoomLocked(r) ==
    \E g \in Gcs : /\ pc[g] \in {"doomed", "reap", "release", "held", "clean"}
                   /\ job[g].room = r

-----------------------------------------------------------------------------
(* rooms run: claim, boot.                                                 *)

(* claim_with and try_claim: under the lock, the first absent file is      *)
(* O_EXCL-created; the token is not yet in it.                             *)
ClaimCreate(r) ==
    /\ pc[r] = "new"
    /\ Lock(r)
    /\ \E k \in WalkFree :
         /\ \A j \in WalkFree : k <= j
         /\ slot' = [slot EXCEPT ![k] = InProgress]
         /\ job' = [job EXCEPT ![r].k = k]
    /\ Goto(r, "writing")
    /\ UNCHANGED <<tap, dir, vm>>

(* Every index taken: PoolFull, the CLI exits with nothing to undo.        *)
ClaimPoolFull(r) ==
    /\ pc[r] = "new"
    /\ lock = NoActor
    /\ WalkFree = {}
    /\ Goto(r, "done")
    /\ UNCHANGED <<slot, lock, tap, dir, vm, job>>

(* The token write completes (the trailing newline is its commit marker).  *)
ClaimWrite(r) ==
    /\ pc[r] = "writing"
    /\ slot' = [slot EXCEPT ![job[r].k] = Claimed(r)]
    /\ Unlock
    /\ Goto(r, "claimed")
    /\ UNCHANGED <<tap, dir, vm, job>>

(* The write fails: the half-written file is removed and claim errors.     *)
ClaimWriteFail(r) ==
    /\ pc[r] = "writing"
    /\ slot' = [slot EXCEPT ![job[r].k] = Free]
    /\ Unlock
    /\ Goto(r, "done")
    /\ UNCHANGED <<tap, dir, vm, job>>

(* boot before the room directory exists: PendingSlotClaim frees the exact *)
(* claim when boot fails, with no host cleanup.                            *)
BootRefused(r) ==
    /\ pc[r] = "claimed"
    /\ lock = NoActor
    /\ slot' = IF slot[job[r].k] = Claimed(r)
                 THEN [slot EXCEPT ![job[r].k] = Free] ELSE slot
    /\ Goto(r, "done")
    /\ UNCHANGED <<lock, tap, dir, vm, job>>

(* prepare_room_dir; the claim's release is handed to the RoomGuard.       *)
PrepareRoomDir(r) ==
    /\ pc[r] = "claimed"
    /\ dir' = [dir EXCEPT ![r] = "bare"]
    /\ Goto(r, "staged")
    /\ UNCHANGED <<slot, lock, tap, vm, job>>

(* create_slot_tap: `ip tuntap add` refuses a device that exists; a later  *)
(* command of the plan may fail with the device already made.              *)
CreateSlotTap(r) ==
    /\ pc[r] = "staged"
    /\ tap[job[r].k] = NoRoom
    /\ tap' = [tap EXCEPT ![job[r].k] = r]
    /\ \E phase \in {"tapped", "unwind"} : Goto(r, phase)
    /\ UNCHANGED <<slot, lock, dir, vm, job>>

SpawnJailer(r) ==
    /\ pc[r] = "tapped"
    /\ vm' = [vm EXCEPT ![r] = "alive"]
    /\ Goto(r, "spawned")
    /\ UNCHANGED <<slot, lock, tap, dir, job>>

(* write_room_meta records pid and slot; for an ordinary room a failed     *)
(* write is only a warning and the boot goes on without room.json.         *)
WriteRoomMeta(r) ==
    /\ pc[r] = "spawned"
    /\ \E d \in {"bare", "meta"} : dir' = [dir EXCEPT ![r] = d]
    /\ Goto(r, "up")
    /\ UNCHANGED <<slot, lock, tap, vm, job>>

(* --keep: the CLI exits and leaves the VM, its dir, its tap and its slot. *)
Keep(r) ==
    /\ pc[r] = "up"
    /\ Goto(r, "done")
    /\ UNCHANGED <<slot, lock, tap, dir, vm, job>>

-----------------------------------------------------------------------------
(* RoomGuard: cleanup_sync, by the room's own CLI.                         *)

(* A failed or cancelled boot, or the end of the workload.                 *)
Unwind(r) ==
    /\ pc[r] \in {"staged", "tapped", "spawned", "up"}
    /\ Goto(r, "unwind")
    /\ UNCHANGED <<slot, lock, tap, dir, vm, job>>

(* kill_child: TERM, poll, SIGKILL.  It returns without waiting for the    *)
(* exit that SIGKILL forces, so the process may still be there afterwards. *)
KillChild(r) ==
    /\ pc[r] = "unwind"
    /\ \E end \in {"killed", "dead"} :
         vm' = [vm EXCEPT ![r] = IF @ = "alive" THEN end ELSE @]
    /\ Goto(r, "killed")
    /\ UNCHANGED <<slot, lock, tap, dir, job>>

(* The reap-clean gate, shared with reap_orphan: the jail must come down   *)
(* and the room dir must go (already gone counts) before the network is    *)
(* released; otherwise dir and claim stay for a later gc.                  *)
RemoveRoomDir(a) ==
    /\ pc[a] \in {"killed", "reap"}
    /\ \/ /\ dir' = [dir EXCEPT ![job[a].room] = "none"]
          /\ Goto(a, "release")
          /\ UNCHANGED job
       \/ /\ Return(a)
          /\ UNCHANGED dir
    /\ UNCHANGED <<slot, lock, tap, vm>>

(* Mutant: free the index without comparing the claim's owner.             *)
FreeHoldUnchecked(a) ==
    /\ pc[a] = "release"
    /\ Lock(a)
    /\ Goto(a, "held")
    /\ UNCHANGED <<slot, tap, dir, vm, job>>

(* free_with: compare the file's owner under the lock.  An absent or       *)
(* reassigned claim is left alone and no cleanup runs.                     *)
FreeHold(a) ==
    /\ pc[a] = "release"
    /\ lock = NoActor
    /\ \/ /\ slot[job[a].k] = Claimed(job[a].room)
          /\ lock' = a
          /\ Goto(a, "held")
          /\ UNCHANGED job
       \/ /\ slot[job[a].k] # Claimed(job[a].room)
          /\ Return(a)
          /\ UNCHANGED lock
    /\ UNCHANGED <<slot, tap, dir, vm>>

(* remove_egress_and_tap inside the lock; an error keeps the claim.        *)
FreeCleanup(a) ==
    /\ pc[a] = "held"
    /\ \/ /\ tap' = [tap EXCEPT ![job[a].k] = NoRoom]
          /\ Goto(a, "clean")
          /\ UNCHANGED <<lock, job>>
       \/ /\ Return(a)
          /\ Unlock
          /\ UNCHANGED tap
    /\ UNCHANGED <<slot, dir, vm>>

FreeUnlink(a) ==
    /\ pc[a] = "clean"
    /\ slot' = [slot EXCEPT ![job[a].k] = Free]
    /\ Unlock
    /\ Return(a)
    /\ UNCHANGED <<tap, dir, vm>>

-----------------------------------------------------------------------------
(* rooms gc: indexed_claim::reconcile over one slot file.                  *)

(* Mutant: no `@` test, every slot file is judged as a claim.              *)
ReconcileReadAny(g, k) ==
    /\ pc[g] = "idle"
    /\ slot[k] # Free
    /\ job' = [job EXCEPT ![g] = [room |-> NoRoom, k |-> k, seen |-> slot[k]]]
    /\ Goto(g, "read")
    /\ UNCHANGED <<slot, lock, tap, dir, vm>>

(* reconcile_path reads the body WITHOUT the lock.  `@` tokens are opaque. *)
ReconcileRead(g, k) ==
    /\ pc[g] = "idle"
    /\ slot[k].kind \in {"partial", "claimed"}
    /\ job' = [job EXCEPT ![g] = [room |-> NoRoom, k |-> k, seen |-> slot[k]]]
    /\ Goto(g, "read")
    /\ UNCHANGED <<slot, lock, tap, dir, vm>>

(* parse_claim and claimer_liveness: an unparseable body, or a claimer     *)
(* that is conclusively dead; a live or unknown one ends the item.         *)
ReconcileJudge(g) ==
    /\ pc[g] = "read"
    /\ \/ /\ job[g].seen.rooms = {}
          /\ Goto(g, "partial")
          /\ UNCHANGED job
       \/ \E r \in job[g].seen.rooms :
            /\ pc[r] \in Ended
            /\ Goto(g, "dead")
            /\ job' = [job EXCEPT ![g].room = r]
       \/ /\ \E r \in job[g].seen.rooms : pc[r] \notin Ended
          /\ Return(g)
    /\ UNCHANGED <<slot, lock, tap, dir, vm>>

(* Mutants: unlink the partial file without the lock; leave it for ever.   *)
DiscardPartialUnlocked(g) ==
    /\ pc[g] = "partial"
    /\ slot' = IF slot[job[g].k] = job[g].seen
                 THEN [slot EXCEPT ![job[g].k] = Free] ELSE slot
    /\ Return(g)
    /\ UNCHANGED <<lock, tap, dir, vm>>

DiscardPartialNever(g) ==
    /\ pc[g] = "partial"
    /\ lock = NoActor
    /\ Return(g)
    /\ UNCHANGED <<slot, lock, tap, dir, vm>>

(* discard_abandoned_partial: re-read under the lock, unlink if unchanged. *)
DiscardPartial(g) ==
    /\ pc[g] = "partial"
    /\ lock = NoActor
    /\ slot' = IF slot[job[g].k] = job[g].seen
                 THEN [slot EXCEPT ![job[g].k] = Free] ELSE slot
    /\ Return(g)
    /\ UNCHANGED <<lock, tap, dir, vm>>

(* reconcile_dead takes the lock for the reclaim, or lets the item go.     *)
ReconcileIf(g, ok) ==
    /\ pc[g] = "dead"
    /\ lock = NoActor
    /\ \/ /\ ok
          /\ lock' = g
          /\ Goto(g, "reclaim")
          /\ UNCHANGED job
       \/ /\ ~ok
          /\ Return(g)
          /\ UNCHANGED lock
    /\ UNCHANGED <<slot, tap, dir, vm>>

(* Mutants: reclaim although the room dir is there; skip a claim that has  *)
(* no device left to clean.                                                *)
ReconcileHoldNoDirCheck(g) ==
    ReconcileIf(g, slot[job[g].k] = job[g].seen)

ReconcileHoldNeedsTap(g) ==
    ReconcileIf(g, /\ slot[job[g].k] = job[g].seen
                   /\ dir[job[g].room] = "none"
                   /\ tap[job[g].k] # NoRoom)

(* reconcile_dead: the claim must be unchanged under the lock, and a room  *)
(* dir keeps it for the reap flow.                                         *)
ReconcileHold(g) ==
    ReconcileIf(g, slot[job[g].k] = job[g].seen /\ dir[job[g].room] = "none")

(* Mutant: the claim is unlinked without the device being deleted.         *)
ReconcileCleanupSkipped(g) ==
    /\ pc[g] = "reclaim"
    /\ Goto(g, "reclaimed")
    /\ UNCHANGED <<slot, lock, tap, dir, vm, job>>

ReconcileCleanup(g) ==
    /\ pc[g] = "reclaim"
    /\ \/ /\ tap' = [tap EXCEPT ![job[g].k] = NoRoom]
          /\ Goto(g, "reclaimed")
          /\ UNCHANGED <<lock, job>>
       \/ /\ Return(g)
          /\ Unlock
          /\ UNCHANGED tap
    /\ UNCHANGED <<slot, dir, vm>>

ReconcileUnlink(g) ==
    /\ pc[g] = "reclaimed"
    /\ slot' = [slot EXCEPT ![job[g].k] = Free]
    /\ Unlock
    /\ Return(g)
    /\ UNCHANGED <<tap, dir, vm>>

-----------------------------------------------------------------------------
(* rooms gc: unaccounted pool taps.                                        *)

(* orphaned_pool_taps samples the slot files first, the host links second. *)
SampleUnclaimed(g, k) ==
    /\ pc[g] = "idle"
    /\ slot[k] = Free
    /\ job' = [job EXCEPT ![g].k = k]
    /\ Goto(g, "unclaimed")
    /\ UNCHANGED <<slot, lock, tap, dir, vm>>

SampleTap(g) ==
    /\ pc[g] = "unclaimed"
    /\ \/ /\ tap[job[g].k] # NoRoom
          /\ Goto(g, "orphan")
          /\ UNCHANGED job
       \/ /\ tap[job[g].k] = NoRoom
          /\ Return(g)
    /\ UNCHANGED <<slot, lock, tap, dir, vm>>

(* cleanup_if_unclaimed: the sample authorises nothing until the slot file *)
(* is still absent under the lock.                                         *)
SweepHold(g) ==
    /\ pc[g] = "orphan"
    /\ lock = NoActor
    /\ \/ /\ slot[job[g].k] = Free
          /\ lock' = g
          /\ Goto(g, "sweep")
          /\ UNCHANGED job
       \/ /\ slot[job[g].k] # Free
          /\ Return(g)
          /\ UNCHANGED lock
    /\ UNCHANGED <<slot, tap, dir, vm>>

SweepTap(g) ==
    /\ pc[g] = "sweep"
    /\ tap' = [tap EXCEPT ![job[g].k] = NoRoom]
    /\ Unlock
    /\ Return(g)
    /\ UNCHANGED <<slot, dir, vm>>

-----------------------------------------------------------------------------
(* rooms gc and rooms kill: one room.                                      *)

(* list_rooms: only a recorded pid that is conclusively dead is reapable.  *)
ListDead(g, r) ==
    /\ pc[g] = "idle"
    /\ dir[r] = "meta" /\ vm[r] = "dead"
    /\ job' = [job EXCEPT ![g] = [room |-> r, k |-> job[r].k, seen |-> Free]]
    /\ Goto(g, "listed")
    /\ UNCHANGED <<slot, lock, tap, dir, vm>>

(* reap_entry takes the room's snapshot lock or skips the room.            *)
ReapBegin(g) ==
    /\ pc[g] = "listed"
    /\ \/ /\ ~RoomLocked(job[g].room)
          /\ Goto(g, "reap")
          /\ UNCHANGED job
       \/ /\ RoomLocked(job[g].room)
          /\ Return(g)
    /\ UNCHANGED <<slot, lock, tap, dir, vm>>

(* kill: with the room's snapshot lock, find a live entry with an identity *)
(* (a process that SIGKILL has not ended yet still counts as live).        *)
KillFind(g, r) ==
    /\ pc[g] = "idle"
    /\ ~RoomLocked(r)
    /\ dir[r] = "meta" /\ vm[r] \in {"alive", "killed"}
    /\ job' = [job EXCEPT ![g] = [room |-> r, k |-> job[r].k, seen |-> Free]]
    /\ Goto(g, "doomed")
    /\ UNCHANGED <<slot, lock, tap, dir, vm>>

(* terminate_by_identity: confirmed gone, then reaped; a survivor is not.  *)
KillTerminate(g) ==
    /\ pc[g] = "doomed"
    /\ \/ /\ vm' = [vm EXCEPT ![job[g].room] = "dead"]
          /\ Goto(g, "reap")
          /\ UNCHANGED job
       \/ /\ Return(g)
          /\ UNCHANGED vm
    /\ UNCHANGED <<slot, lock, tap, dir>>

-----------------------------------------------------------------------------
(* The environment.                                                        *)

VmDies(r) ==
    /\ vm[r] \in {"alive", "killed"}
    /\ vm' = [vm EXCEPT ![r] = "dead"]
    /\ UNCHANGED <<slot, lock, tap, dir, pc, job>>

(* The process dies where it stands; the kernel closes its lock file.      *)
Crash(a) ==
    /\ pc[a] \notin Ended \cup {"new", "idle"}
    /\ Goto(a, IF a \in Rooms THEN "crashed" ELSE "idle")
    /\ job' = IF a \in Gcs THEN [job EXCEPT ![a] = NoJob] ELSE job
    /\ lock' = IF lock = a THEN NoActor ELSE lock
    /\ UNCHANGED <<slot, tap, dir, vm>>

-----------------------------------------------------------------------------
RunStep(r) ==
    \/ ClaimCreate(r) \/ ClaimPoolFull(r) \/ ClaimWrite(r) \/ ClaimWriteFail(r)
    \/ BootRefused(r) \/ PrepareRoomDir(r) \/ CreateSlotTap(r) \/ SpawnJailer(r)
    \/ WriteRoomMeta(r) \/ Keep(r) \/ Unwind(r) \/ KillChild(r)

ReleaseStep(a) ==
    RemoveRoomDir(a) \/ FreeHold(a) \/ FreeCleanup(a) \/ FreeUnlink(a)

SweepStep(g) ==
    \/ \E k \in Slots : ReconcileRead(g, k) \/ SampleUnclaimed(g, k)
    \/ ReconcileJudge(g) \/ DiscardPartial(g) \/ ReconcileHold(g)
    \/ ReconcileCleanup(g) \/ ReconcileUnlink(g)
    \/ SampleTap(g) \/ SweepHold(g) \/ SweepTap(g)

ReapStep(g) ==
    \/ \E r \in Rooms : ListDead(g, r) \/ KillFind(g, r)
    \/ ReapBegin(g) \/ KillTerminate(g)

Next ==
    \/ \E r \in Rooms : RunStep(r) \/ VmDies(r)
    \/ \E a \in Actors : ReleaseStep(a) \/ Crash(a)
    \/ \E g \in Gcs : SweepStep(g) \/ ReapStep(g)

Spec == Init /\ [][Next]_vars

(* A gc that is inside an item goes on with it.                            *)
GcContinue(g) ==
    pc[g] # "idle" /\ (ReleaseStep(g) \/ SweepStep(g) \/ ReapStep(g))

(* A gc is killed inside an item (a step none of its own code would take), *)
(* or `rm` or `ip` fails under it and it skips the item.                   *)
GcFault(g) ==
    /\ pc[g] # "idle" /\ pc'[g] = "idle"
    /\ pc[g] \in {"reap", "held", "reclaim"} \/ ~GcContinue(g)

(* What the host owes the pool: a CLI that holds the lock goes on or dies; *)
(* `rooms gc` is run again and again and each pass visits every slot file  *)
(* and every room; from some point on no gc is killed and no cleanup fails. *)
(* No CLI has to finish anything else, and `rooms kill` never has to run.  *)
Fairness ==
    /\ \A r \in Rooms : WF_vars(lock = r /\ (RunStep(r) \/ ReleaseStep(r)))
    /\ \A g \in Gcs :
         /\ \A k \in Slots : SF_vars(ReconcileRead(g, k))
         /\ \A r \in Rooms : SF_vars(ListDead(g, r))
         /\ SF_vars(GcContinue(g))
         /\ <>[][~GcFault(g)]_vars

FairSpec == Spec /\ Fairness

-----------------------------------------------------------------------------
(* A running VM keeps the index it was given: the slot file still names    *)
(* its room and tap-fc<k> is still the device its CLI made, whatever other *)
(* CLIs, gc passes and kills do and wherever they die (free_with,          *)
(* reconcile_dead, cleanup_if_unclaimed, RoomGuard::release_network).  A   *)
(* VM its own CLI has sent SIGKILL to no longer counts as running: the     *)
(* CLI does not wait for it before it lets the network go.                 *)
LiveRoomKeepsSlot ==
    \A r \in Rooms : vm[r] = "alive" =>
        /\ job[r].k \in Slots
        /\ slot[job[r].k] = Claimed(r)
        /\ tap[job[r].k] = r

(* A room's tap never outlives its claim: every release path deletes the   *)
(* device before it unlinks the file, so the next claimer of the index     *)
(* never meets a predecessor's device (free_with, reconcile_dead).         *)
TapUnderClaim ==
    \A k \in Slots : tap[k] \in Rooms => slot[k] = Claimed(tap[k])

(* A claimer between its O_EXCL create and the end of its token write still *)
(* has its file in the pool: no gc takes the half-written token of a live  *)
(* claimer for an abandoned one (try_claim, discard_abandoned_partial).    *)
WriterKeepsFile ==
    \A r \in Rooms : pc[r] = "writing" => slot[job[r].k] = InProgress

(* A claim is given up only for a room that is over: no running VM and no  *)
(* room dir, the breadcrumb a later gc would need (RoomGuard::cleanup_sync, *)
(* reconcile_dead, PendingSlotClaim).                                      *)
ReleaseOnlyFinished ==
    \A k \in Slots, r \in Rooms :
        slot[k] = Claimed(r) /\ slot'[k] # Claimed(r)
            => vm[r] # "alive" /\ dir[r] = "none"

ClaimOutlivesRoom == [][ReleaseOnlyFinished]_vars

(* A reservation in the pool is opaque to walk, gc and teardown: no step   *)
(* of theirs ever changes it (reconcile_path's `@` test, free_with).       *)
KeepReservations ==
    \A k \in Slots : slot[k].kind = "reserved" => slot'[k] = slot[k]

ReservationsKept == [][KeepReservations]_vars

(* No claim is lost to a crash that gc can judge: a claim whose CLI is gone *)
(* comes back to the pool if no room dir was made yet (slot::reconcile     *)
(* judges the claim by its own token) or room.json names a dead VM (the    *)
(* reap flow).                                                             *)
ReapableClaimFreed ==
    \A k \in Slots, r \in Rooms :
        /\ slot[k] = Claimed(r) /\ pc[r] \in Ended
        /\ dir[r] = "none" \/ (dir[r] = "meta" /\ vm[r] = "dead")
        ~> slot[k] # Claimed(r)

(* An index whose claimer died between the O_EXCL create and the end of    *)
(* the token write comes back to the pool (discard_abandoned_partial, and  *)
(* its test reconcile_removes_abandoned_partial_claims).  The comments on  *)
(* slot::reconcile say that such a file is skipped and never reclaimed;    *)
(* the code reclaims it.                                                   *)
PartialFileFreed ==
    \A k \in Slots : slot[k] = InProgress ~> slot[k] # InProgress
=============================================================================
