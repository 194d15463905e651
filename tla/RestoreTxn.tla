----------------------------- MODULE RestoreTxn -----------------------------
(***************************************************************************)
(* `rooms restore` and the members of a `rooms clone` batch, restored from *)
(* one snapshot onto its frozen slot (src/src/restore_exec.rs).  A flat    *)
(* restore takes the slot's single lease and makes tap-fc<k> on the host;  *)
(* a clone joins the bounded lease set and has its device inside a network *)
(* namespace of its own.  The restore intent is the tombstone from which   *)
(* gc finishes any teardown that a crash or an error cut short.            *)
(*                                                                         *)
(* One process per room is the CLI that launches it, runs its workload and *)
(* tears it down; the Gcs are concurrent `rooms gc` and `rooms kill`.      *)
(* Room ids are minted fresh, so a room is launched once.                  *)
(***************************************************************************)
EXTENDS SlotTokens

CONSTANTS
    Snap,       \* the snapshot whose reservation holds the slot
    Clones,     \* the rooms restored with a clone network
    Gcs,        \* concurrent gc / kill processes
    NoActor,    \* nobody holds slots.lock
    Crews       \* the sets of processes that meet in a behaviour

Actors == Rooms \cup Gcs

ASSUME RestoreAssumption ==
    /\ Snap \in Snaps
    /\ Clones \subseteq Rooms
    /\ Rooms \cap Gcs = {}
    /\ NoActor \notin Actors
    /\ Crews \subseteq SUBSET Actors

VARIABLES
    intent,  \* boundary in the intent file of each room
    token,   \* body of the frozen slot's file
    lock,    \* holder of slots.lock
    tap,     \* the flat room whose device tap-fc<k> is
    net,     \* the clones whose namespace and veth pair exist
    dir,     \* room dir and jail: absent, bare, with room.json, with its slot
    vm,      \* firecracker: behind the barrier, started, guest resumed, sent
             \* a SIGKILL nobody waits for, dead
    pc,
    job,     \* the room each process works on, and how
    met      \* history: rooms that a gc or kill began to tear down in their
             \* launch, or alive; no action depends on it

host == <<token, lock, tap, net>>
vars == <<intent, token, lock, tap, net, dir, vm, pc, job, met>>

(* The launch, in order; each phase names what was done last.              *)
Launch == {"planned", "staged", "forked", "described", "spawned", "api",
           "leased", "recorded", "slotted", "attached", "loaded"}
Looking == {"judge", "presumed", "listed", "doomed"}
Teardown == {"reap", "hold", "net", "tap", "return", "index"}
Ended == {"done"}
VmStates == {"none", "inert", "started", "running", "killed", "dead"}

Jobs == [room : Rooms \cup {NoRoom}, slot : BOOLEAN, fenced : BOOLEAN]
NoJob == [room |-> NoRoom, slot |-> FALSE, fenced |-> FALSE]

(* The tokens of a slot that is frozen for Snap.                           *)
FrozenToken ==
    {Reserved(Snap)} \cup {Leased(Snap, r) : r \in Rooms \ Clones}
        \cup {CloneLeases(Snap, rs) : rs \in (SUBSET Clones) \ {{}}}

(* The type of every variable; the slot stays frozen for its snapshot.     *)
TypeOK ==
    /\ intent \in [Rooms -> {"none", "pre_spawn", "spawned", "leased"}]
    /\ token \in FrozenToken
    /\ Cardinality(token.rooms) <= MaxCloneLeases
    /\ lock \in Actors \cup {NoActor}
    /\ tap \in (Rooms \ Clones) \cup {NoRoom}
    /\ net \in SUBSET Clones
    /\ dir \in [Rooms -> {"none", "bare", "meta", "slot"}]
    /\ vm \in [Rooms -> VmStates]
    /\ \A r \in Rooms : pc[r] \in {"new", "up", "abort"} \cup Launch \cup Teardown \cup Ended
    /\ \A g \in Gcs : pc[g] \in {"idle", "done"} \cup Looking \cup Teardown
    /\ DOMAIN pc = Actors
    /\ job \in [Actors -> Jobs]
    /\ met \subseteq Rooms

(* The clone networks are allocated before the restores begin.             *)
Init ==
    /\ intent = [r \in Rooms |-> "none"]
    /\ token = Reserved(Snap)
    /\ lock = NoActor
    /\ tap = NoRoom
    /\ dir = [r \in Rooms |-> "none"]
    /\ vm = [r \in Rooms |-> "none"]
    /\ \E crew \in Crews :
          /\ net = Clones \cap crew
          /\ pc = [a \in Actors |-> CASE a \notin crew -> "done"
                                      [] a \in crew \cap Rooms -> "new"
                                      [] a \in crew \cap Gcs -> "idle"]
    /\ job = [a \in Actors |->
                IF a \in Rooms THEN [NoJob EXCEPT !.room = a, !.slot = TRUE]
                               ELSE NoJob]
    /\ met = {}

-----------------------------------------------------------------------------
(* Helpers.                                                                *)

Goto(a, phase) == pc' = [pc EXCEPT ![a] = phase]

Return(a) ==
    /\ Goto(a, IF a \in Rooms THEN "done" ELSE "idle")
    /\ job' = IF a \in Gcs THEN [job EXCEPT ![a] = NoJob] ELSE job

Unlock(a) == lock' = IF lock = a THEN NoActor ELSE lock

Leases(r) == LeasedBy(token, Snap, r)

(* The child exists; it has passed the barrier and nobody has killed it.   *)
Exists(r) == vm[r] \in {"inert", "started", "running", "killed"}
Lives(r) == vm[r] \in {"started", "running"}

(* probe answers Alive: the child is the jailer or firecracker.  The shell *)
(* that waits behind the barrier has another name and is taken for dead.   *)
ProbedAlive(r) == vm[r] \in {"started", "running", "killed"}

(* The room's snapshot lock, held across kill and reap_entry.              *)
RoomLocked(r) ==
    \E g \in Gcs : pc[g] \notin {"idle", "listed"} /\ job[g].room = r
                     /\ job[g].fenced

(* A gc or kill begins to tear its room down, whatever the room's own CLI  *)
(* is doing: no lock keeps the two apart.  untimely: in its launch, or     *)
(* alive.                                                                  *)
BeginReap(g, untimely) ==
    /\ Goto(g, "reap")
    /\ met' = IF untimely THEN met \cup {job[g].room} ELSE met
    /\ UNCHANGED job

Launching(r) == pc[r] \in Launch

-----------------------------------------------------------------------------
(* restore_prepared                                                        *)

CreateIntent(r) ==
    /\ pc[r] = "new"
    /\ intent' = [intent EXCEPT ![r] = "pre_spawn"]
    /\ Goto(r, "planned")
    /\ UNCHANGED <<host, dir, vm, job, met>>

(* spawn_restore: room dir and jail, the barriered child, then room.json   *)
(* with pid and lineage but no slot.                                       *)
StageJail(r) ==
    /\ pc[r] = "planned"
    /\ dir' = [dir EXCEPT ![r] = "bare"]
    /\ Goto(r, "staged")
    /\ UNCHANGED <<intent, host, vm, job, met>>

SpawnBarriered(r) ==
    /\ pc[r] = "staged"
    /\ dir[r] # "none"
    /\ vm' = [vm EXCEPT ![r] = "inert"]
    /\ Goto(r, "forked")
    /\ UNCHANGED <<intent, host, dir, job, met>>

WriteRoomMeta(r) ==
    /\ pc[r] = "forked"
    /\ dir[r] # "none"
    /\ dir' = [dir EXCEPT ![r] = "meta"]
    /\ Goto(r, "described")
    /\ UNCHANGED <<intent, host, vm, job, met>>

(* Mutant: the boundary is only written with the lease.                    *)
RecordSpawnedLate(r) ==
    /\ pc[r] = "described"
    /\ dir[r] # "none"
    /\ Goto(r, "spawned")
    /\ UNCHANGED <<intent, host, dir, vm, job, met>>

(* establish_lease: the pid is durable before the barrier opens.  The      *)
(* write is a rename: it makes the intent file whether or not it is there. *)
RecordSpawned(r) ==
    /\ pc[r] = "described"
    /\ dir[r] # "none"
    /\ intent' = [intent EXCEPT ![r] = "spawned"]
    /\ Goto(r, "spawned")
    /\ UNCHANGED <<host, dir, vm, job, met>>

ReleaseBarrier(r) ==
    /\ pc[r] = "spawned"
    /\ vm[r] = "inert" /\ dir[r] # "none"
    /\ vm' = [vm EXCEPT ![r] = "started"]
    /\ Goto(r, "api")
    /\ UNCHANGED <<intent, host, dir, job, met>>

(* slot::lease or slot::lease_clone, under the free-lock.                  *)
TakeLease(r) ==
    /\ pc[r] = "api"
    /\ lock = NoActor
    /\ \/ /\ r \notin Clones /\ LeaseOk(token, Snap, r)
          /\ token' = Leased(Snap, r)
       \/ /\ r \in Clones /\ LeaseCloneOk(token, Snap, r)
          /\ token' = LeaseCloneToken(token, Snap, r)
    /\ Goto(r, "leased")
    /\ UNCHANGED <<intent, lock, tap, net, dir, vm, job, met>>

RecordLeased(r) ==
    /\ pc[r] = "leased"
    /\ intent' = [intent EXCEPT ![r] = "leased"]
    /\ Goto(r, "recorded")
    /\ UNCHANGED <<host, dir, vm, job, met>>

(* record_slot_on_room                                                     *)
RecordSlot(r) ==
    /\ pc[r] = "recorded"
    /\ dir[r] = "meta"
    /\ dir' = [dir EXCEPT ![r] = "slot"]
    /\ Goto(r, "slotted")
    /\ UNCHANGED <<intent, host, vm, job, met>>

(* attach_leased_slot: `ip tuntap add` refuses a device that exists.  The  *)
(* device of a clone is made, and goes, inside its namespace.              *)
AttachLeasedSlot(r) ==
    /\ pc[r] = "slotted"
    /\ \/ r \in net /\ UNCHANGED tap
       \/ r \notin Clones /\ tap = NoRoom /\ tap' = r
    /\ Goto(r, "attached")
    /\ UNCHANGED <<intent, token, lock, net, dir, vm, job, met>>

(* drive_to_ready: custody and /snapshot/load open the device; before the  *)
(* resume the clone's network and the staged files are verified again.     *)
LoadSnapshot(r) ==
    /\ pc[r] = "attached"
    /\ vm[r] = "started" /\ dir[r] # "none"
    /\ r \in net \/ tap = r
    /\ Goto(r, "loaded")
    /\ UNCHANGED <<intent, host, dir, vm, job, met>>

ResumeVm(r) ==
    /\ pc[r] = "loaded"
    /\ vm[r] = "started" /\ dir[r] # "none"
    /\ r \in Clones => r \in net
    /\ vm' = [vm EXCEPT ![r] = "running"]
    /\ Goto(r, "up")
    /\ UNCHANGED <<intent, host, dir, job, met>>

(* --keep: lease and tombstone stay with the room.                         *)
Keep(r) ==
    /\ pc[r] = "up"
    /\ Goto(r, "done")
    /\ UNCHANGED <<intent, host, dir, vm, job, met>>

(* Any error or cancellation of the launch, the refusals included; a ready *)
(* room whose ack or SSH never comes; the end of the workload.             *)
Abort(r) ==
    /\ pc[r] \in Launch \cup {"up"}
    /\ Goto(r, "abort")
    /\ UNCHANGED <<intent, host, dir, vm, job, met>>

(* The RoomGuard kills the child and does not wait for the exit that its   *)
(* SIGKILL forces; it never owns the leased device.  A shell behind the    *)
(* barrier is dead to every probe already.                                 *)
GuardKill(r) ==
    /\ pc[r] = "abort"
    /\ \E end \in {"killed", "dead"} :
         vm' = [vm EXCEPT ![r] = IF Lives(r) THEN end
                                 ELSE IF Exists(r) THEN "dead" ELSE @]
    /\ Goto(r, "reap")
    /\ UNCHANGED <<intent, host, dir, job, met>>

-----------------------------------------------------------------------------
(* finish_teardown, by the room's CLI, by gc or by kill.                   *)

(* reap_room_only does not signal anything.  A dir that survives is an     *)
(* error and keeps the tombstone.  A room.json without a slot is reaped as *)
(* an ordinary orphan: the dirs, nothing else.                             *)
ReapRoomOnly(a) ==
    LET r == job[a].room
    IN  /\ pc[a] = "reap"
        /\ \/ /\ dir' = [dir EXCEPT ![r] = "none"]
              /\ IF job[a].slot THEN Goto(a, "hold") /\ UNCHANGED job
                                ELSE Return(a)
           \/ /\ dir[r] # "none"
              /\ Return(a)
              /\ UNCHANGED dir
        /\ UNCHANGED <<intent, host, vm, met>>

(* Mutant: the slot's lock is kept, but the lessee is not compared.        *)
HoldLeaseAny(a) ==
    /\ pc[a] = "hold"
    /\ lock = NoActor
    /\ lock' = a
    /\ Goto(a, "net")
    /\ UNCHANGED <<intent, token, tap, net, dir, vm, job, met>>

(* hold_lease_for_teardown: the lock is kept only for one's own lease.     *)
HoldLease(a) ==
    /\ pc[a] = "hold"
    /\ lock = NoActor
    /\ lock' = IF Leases(job[a].room) THEN a ELSE lock
    /\ Goto(a, "net")
    /\ UNCHANGED <<intent, token, tap, net, dir, vm, job, met>>

(* Mutant: a failed clonenet::free is only warned about.                   *)
FreeCloneNetBestEffort(a) ==
    /\ pc[a] = "net"
    /\ net' = net \ {job[a].room} \/ UNCHANGED net
    /\ Goto(a, IF lock = a THEN "tap" ELSE "index")
    /\ UNCHANGED <<intent, token, lock, tap, dir, vm, job, met>>

(* clonenet::free, exact-owner guarded; an error keeps lease and intent.   *)
FreeCloneNet(a) ==
    LET r == job[a].room
    IN  /\ pc[a] = "net"
        /\ \/ /\ net' = net \ {r}
              /\ Goto(a, IF lock = a THEN "tap" ELSE "index")
              /\ UNCHANGED <<lock, job>>
           \/ /\ r \in Clones
              /\ Return(a)
              /\ Unlock(a)
              /\ UNCHANGED net
        /\ UNCHANGED <<intent, token, tap, dir, vm, met>>

(* remove_egress_and_tap, for a flat lease.                                *)
DeleteTap(a) ==
    LET r == job[a].room
    IN  /\ pc[a] = "tap"
        /\ \/ /\ tap' = IF r \in Clones THEN tap ELSE NoRoom
              /\ Goto(a, "return")
              /\ UNCHANGED <<lock, job>>
           \/ /\ r \notin Clones
              /\ Return(a)
              /\ Unlock(a)
              /\ UNCHANGED tap
        /\ UNCHANGED <<intent, token, net, dir, vm, met>>

(* return_to_reservation: the rewrite may fail and retain the lease.       *)
ReturnLease(a) ==
    /\ pc[a] = "return"
    /\ \/ /\ token' = AfterRelease(token, Snap, job[a].room)
          /\ Goto(a, "index")
          /\ UNCHANGED job
       \/ /\ Return(a)
          /\ UNCHANGED token
    /\ Unlock(a)
    /\ UNCHANGED <<intent, tap, net, dir, vm, met>>

FinishIndex(a) ==
    /\ pc[a] = "index"
    /\ intent' = [intent EXCEPT ![job[a].room] = "none"]
    /\ Return(a)
    /\ UNCHANGED <<host, dir, vm, met>>

-----------------------------------------------------------------------------
(* rooms gc and rooms kill                                                 *)

(* gc_reconcile has read all the intents before it judges the first: one   *)
(* with a pid to judge, one without is presumed never to have spawned.     *)
GcRead(g, r) ==
    /\ pc[g] = "idle"
    /\ intent[r] # "none"
    /\ job' = [job EXCEPT ![g] = [room |-> r, slot |-> TRUE, fenced |-> FALSE]]
    /\ Goto(g, IF intent[r] = "pre_spawn" THEN "presumed" ELSE "judge")
    /\ UNCHANGED <<intent, host, dir, vm, met>>

(* Mutant: an intent whose room dir is gone is taken for finished.         *)
ReconcileOneNeedsDir(g) ==
    /\ pc[g] \in {"judge", "presumed"}
    /\ IF ProbedAlive(job[g].room) \/ dir[job[g].room] = "none"
         THEN Return(g) /\ UNCHANGED met
         ELSE BeginReap(g, Launching(job[g].room) \/ Lives(job[g].room))
    /\ UNCHANGED <<intent, host, dir, vm>>

(* reconcile_one: no pid is torn down as it is; a recorded one must be     *)
(* conclusively dead.                                                      *)
ReconcileOne(g) ==
    /\ pc[g] \in {"judge", "presumed"}
    /\ IF pc[g] = "judge" /\ ProbedAlive(job[g].room)
         THEN Return(g) /\ UNCHANGED met
         ELSE BeginReap(g, Launching(job[g].room) \/ Lives(job[g].room))
    /\ UNCHANGED <<intent, host, dir, vm>>

(* gc's room loop: a room.json whose pid is dead; the lock, or a skip.     *)
ListDead(g, r) ==
    /\ pc[g] = "idle"
    /\ dir[r] \in {"meta", "slot"} /\ ~ProbedAlive(r)
    /\ job' = [job EXCEPT ![g] = [room |-> r, slot |-> dir[r] = "slot",
                                  fenced |-> TRUE]]
    /\ Goto(g, "listed")
    /\ UNCHANGED <<intent, host, dir, vm, met>>

ReapEntry(g) ==
    /\ pc[g] = "listed"
    /\ IF RoomLocked(job[g].room)
         THEN Return(g) /\ UNCHANGED met
         ELSE BeginReap(g, Launching(job[g].room) \/ Lives(job[g].room))
    /\ UNCHANGED <<intent, host, dir, vm>>

KillFind(g, r) ==
    /\ pc[g] = "idle"
    /\ ~RoomLocked(r)
    /\ dir[r] \in {"meta", "slot"} /\ ProbedAlive(r)
    /\ job' = [job EXCEPT ![g] = [room |-> r, slot |-> dir[r] = "slot",
                                  fenced |-> TRUE]]
    /\ Goto(g, "doomed")
    /\ UNCHANGED <<intent, host, dir, vm, met>>

(* terminate_by_identity: confirmed gone, or the room is left alone.       *)
KillTerminate(g) ==
    /\ pc[g] = "doomed"
    /\ \/ /\ vm' = [vm EXCEPT ![job[g].room] = "dead"]
          /\ BeginReap(g, Launching(job[g].room))
       \/ /\ Return(g)
          /\ UNCHANGED <<vm, met>>
    /\ UNCHANGED <<intent, host, dir>>

-----------------------------------------------------------------------------
(* The environment.                                                        *)

VmDies(r) ==
    /\ Exists(r)
    /\ vm' = [vm EXCEPT ![r] = "dead"]
    /\ UNCHANGED <<intent, host, dir, pc, job, met>>

(* The process dies; the kernel drops its lock, and a child that is still  *)
(* behind the barrier reads end-of-file and exits.                         *)
Crash(a) ==
    /\ pc[a] \notin Ended \cup {"new", "idle"}
    /\ Goto(a, IF a \in Rooms THEN "done" ELSE "idle")
    /\ job' = IF a \in Gcs THEN [job EXCEPT ![a] = NoJob] ELSE job
    /\ Unlock(a)
    /\ vm' = [r \in Rooms |-> IF r = a /\ vm[r] = "inert" THEN "dead" ELSE vm[r]]
    /\ UNCHANGED <<intent, token, tap, net, dir, met>>

-----------------------------------------------------------------------------
LaunchStep(r) ==
    \/ CreateIntent(r) \/ StageJail(r) \/ SpawnBarriered(r) \/ WriteRoomMeta(r)
    \/ RecordSpawned(r) \/ ReleaseBarrier(r) \/ TakeLease(r) \/ RecordLeased(r)
    \/ RecordSlot(r) \/ AttachLeasedSlot(r) \/ LoadSnapshot(r) \/ ResumeVm(r)
    \/ Keep(r) \/ Abort(r) \/ GuardKill(r)

TeardownStep(a) ==
    \/ ReapRoomOnly(a) \/ HoldLease(a) \/ FreeCloneNet(a) \/ DeleteTap(a)
    \/ ReturnLease(a) \/ FinishIndex(a)

GcStep(g) == ReconcileOne(g) \/ ReapEntry(g) \/ KillTerminate(g)

Next ==
    \/ \E r \in Rooms : LaunchStep(r) \/ VmDies(r)
    \/ \E a \in Actors : TeardownStep(a) \/ Crash(a)
    \/ \E g \in Gcs, r \in Rooms : GcRead(g, r) \/ ListDead(g, r) \/ KillFind(g, r)
    \/ \E g \in Gcs : GcStep(g)

Spec == Init /\ [][Next]_vars

(* A gc that is inside an item goes on with it.                            *)
GcContinue(g) == pc[g] # "idle" /\ (TeardownStep(g) \/ GcStep(g))

(* A gc is killed inside an item, or the host fails it and it gives up.    *)
GcFault(g) ==
    /\ pc[g] # "idle" /\ pc'[g] = "idle"
    /\ ~(ReconcileOne(g) \/ ReapEntry(g) \/ FinishIndex(g))

(* A CLI that holds the lock goes on or dies; `rooms gc` is run again and  *)
(* again and each pass visits every intent; from some point on no gc is    *)
(* killed and no clean-up fails.                                           *)
Fairness ==
    /\ \A r \in Rooms : WF_vars(lock = r /\ TeardownStep(r))
    /\ \A g \in Gcs :
         /\ \A r \in Rooms : SF_vars(GcRead(g, r))
         /\ SF_vars(GcContinue(g))
         /\ <>[][~GcFault(g)]_vars

FairSpec == Spec /\ Fairness

-----------------------------------------------------------------------------
(* The properties below speak of the rooms that no gc and no kill began to *)
(* tear down in their launch or alive.  Nothing in the code keeps gc and   *)
(* kill from doing that; what it costs is EveryRestoreFinished.            *)
Undisturbed == Rooms \ met

(* Network and lease stand together.  A resumed guest holds its lease on   *)
(* the frozen slot and its device, or its clone network, exists; and the   *)
(* device of the slot never outlives the lease it was made under, so that  *)
(* nobody meets or deletes another lessee's, whatever gc and kill do to    *)
(* other rooms (hold_lease_for_teardown across delete and return, gc's and *)
(* kill's proof of death, verify_clone_custody).                           *)
NetworkUnderLease ==
    \A r \in Undisturbed :
        /\ vm[r] = "running" => Leases(r) /\ (r \in net \/ tap = r)
        /\ tap = r => token = Leased(Snap, r)

(* Whatever a restore leaves on the host when its CLI dies is covered by   *)
(* its tombstone, from the first directory to the returned lease, and a    *)
(* child that passed the barrier can be judged from the tombstone alone:   *)
(* its pid is in it (create_intent_exclusive first, establish_lease writes *)
(* before it releases the child, finish_index last).                       *)
TombstoneCovers ==
    \A r \in Undisturbed :
        /\ dir[r] # "none" \/ Leases(r) \/ tap = r => intent[r] # "none"
        /\ Lives(r) => intent[r] \in {"spawned", "leased"}

(* A clone leaves the lease set only when its network is gone: a slot that *)
(* is back in reservation has no clone network left over from it           *)
(* (finish_teardown frees the network under the lease hold).               *)
CloneLeavesClean ==
    [][\A r \in Clones : Leases(r) /\ ~Leases(r)' => r \notin net]_vars

(* The lease of a restore whose CLI and VM are gone returns to the         *)
(* reservation, wherever they died (gc_reconcile from the tombstone).      *)
LeaseReturned ==
    \A r \in Rooms :
        Leases(r) /\ pc[r] \in Ended /\ ~Exists(r) /\ r \in Undisturbed
        ~> ~Leases(r)

(* What gc_reconcile promises: every conclusively dead restore is torn     *)
(* down, lease and device.  A gc or kill that met its launch breaks both:  *)
(* it removes the tombstone the launch has just rewritten, and the lease   *)
(* stays; or it returns the lease before attach_leased_slot makes the      *)
(* device, and the device stays.                                           *)
EveryRestoreFinished ==
    \A r \in Rooms :
        pc[r] \in Ended /\ ~Exists(r) /\ (Leases(r) \/ tap = r)
        ~> ~Leases(r) /\ tap # r
=============================================================================
