---------------------------- MODULE SnapshotTxn ----------------------------
(***************************************************************************)
(* `rooms snapshot --consume` as a durable transaction                     *)
(* (src/src/snapshot_exec.rs): an intent file per base room records the    *)
(* last boundary that was crossed; `snapshot` and `snapshot-recover` drive *)
(* it forward from there, or abort it, under a per-base try-lock.  kill    *)
(* and gc take the same lock and leave a base with an intent alone.  The   *)
(* claim on the base's slot turns into the snapshot's reservation, which   *)
(* restored rooms lease.                                                   *)
(*                                                                         *)
(* A base is consumed by its snapshot, so it has at most one: the base id  *)
(* also names the snapshot.  Every error path of the driver returns        *)
(* without undoing anything, like a crash; both are the action Stop.  The  *)
(* slot operations are atomic here, under the free-lock SlotPool details.  *)
(***************************************************************************)
EXTENDS SlotTokens

CONSTANTS
    Bases,    \* sealed neutral bases, each with a claimed slot
    Procs,    \* concurrent `rooms` invocations
    NoProc    \* nobody holds the base's snapshot lock

(* The rooms that lease a reservation, or claim the slot when it is free.  *)
Others == Rooms \ Bases

ASSUME TxnAssumption ==
    /\ Bases \subseteq Rooms
    /\ Bases \subseteq Snaps
    /\ NoProc \notin Procs
    /\ IsFiniteSet(Procs)

VARIABLES
    intent,  \* the intent file of each base
    slot,    \* the token in the slot file of each base
    tap,     \* who uses the device tap-fc<k> of that slot
    vm,      \* the base VM
    home,    \* jail and room dir of the base: both, only the room dir, none
    jail,    \* the artifact pair inside the jail
    host,    \* the artifact pair in the output directory
    seal,    \* that directory: immutable by a probe, with snapshot.json, sealed
    index,   \* what the attestation index holds for the snapshot
    lock,    \* holder of the base's snapshot lock
    pc,
    job,     \* the base and the intent each process has in memory
    crew     \* the commands of this behaviour: all, or one at a time

world == <<slot, tap, vm, home>>
files == <<jail, host, seal, index>>
vars == <<intent, slot, tap, vm, home, jail, host, seal, index, lock, pc, job,
          crew>>

(* Boundary, in its derived order; 0 stands for no intent file.            *)
Pending == 1
TargetsStaged == 2
Paused == 3
Collected == 4
ReservedSlot == 5
Reaped == 6
Published == 7

Intent == [at : 0..Published, aborted : BOOLEAN]
NoIntent == [at |-> 0, aborted |-> FALSE]

Phases == {"idle", "publish", "recover", "judge", "judged", "abort", "remove",
           "abort_dirs", "abort_tap", "record", "release", "drive", "copy",
           "dirs", "tap", "sealing", "attest", "receipt", "advance", "finish",
           "gc_dirs", "gc_free", "sweep"}

(* The index can hold a preflight probe, an unpublished temp, the receipt  *)
(* and its seal; a receipt is stale once the inode of the snapshot         *)
(* directory has changed since its identity was captured.                  *)
IndexFiles == {"probe", "temp", "record", "sealed", "stale"}

(* What the slot file of a base can hold.                                  *)
TxnToken ==
    {Free} \cup {Claimed(r) : r \in Rooms} \cup {Reserved(b) : b \in Bases}
           \cup {Leased(b, x) : b \in Bases, x \in Others}

(* The type of every variable; slot files hold well-formed tokens only.    *)
TypeOK ==
    /\ intent \in [Bases -> Intent]
    /\ slot \in [Bases -> TxnToken]
    /\ tap \in [Bases -> Rooms \cup {NoRoom}]
    /\ vm \in [Bases -> {"running", "paused", "dead"}]
    /\ home \in [Bases -> {"both", "room", "none"}]
    /\ jail \in [Bases -> {"absent", "empty", "full"}]
    /\ host \in [Bases -> {"none", "part", "pair"}]
    /\ seal \in [Bases -> {"none", "probe", "meta", "sealed"}]
    /\ index \in [Bases -> SUBSET IndexFiles]
    /\ lock \in [Bases -> Procs \cup {NoProc}]
    /\ pc \in [Procs -> Phases]
    /\ job \in [Procs -> [base : Bases, intent : Intent]]
    /\ crew \subseteq Procs

Init ==
    /\ intent = [b \in Bases |-> NoIntent]
    /\ slot = [b \in Bases |-> Claimed(b)]
    /\ tap = [b \in Bases |-> b]
    /\ vm = [b \in Bases |-> "running"]
    /\ home = [b \in Bases |-> "both"]
    /\ jail = [b \in Bases |-> "absent"]
    /\ host = [b \in Bases |-> "none"]
    /\ seal = [b \in Bases |-> "none"]
    /\ index = [b \in Bases |-> {}]
    /\ lock = [b \in Bases |-> NoProc]
    /\ pc = [p \in Procs |-> "idle"]
    /\ job \in [Procs -> [base : Bases, intent : {NoIntent}]]
    /\ crew = Procs \/ \E p \in Procs : crew = {p}

-----------------------------------------------------------------------------
(* Helpers.                                                                *)

At(p) == job[p].intent.at
Goto(p, phase) == pc' = [pc EXCEPT ![p] = phase]

Take(p, b, phase) ==
    /\ lock[b] = NoProc
    /\ lock' = [lock EXCEPT ![b] = p]
    /\ Goto(p, phase)

(* The command returns or dies; the kernel drops its lock.                 *)
Leave(p) ==
    /\ Goto(p, "idle")
    /\ job' = [job EXCEPT ![p].intent = NoIntent]
    /\ lock' = [b \in Bases |-> IF lock[b] = p THEN NoProc ELSE lock[b]]

(* any_artifact_nonempty                                                   *)
AnyArtifact(b) == jail[b] = "full" \/ host[b] # "none"

(* base_is_conclusively_dead: a missing room.json counts.                  *)
BaseDead(b) == home[b] = "none" \/ vm[b] = "dead"

(* snapshot.json exists in the output directory.                           *)
HasMeta(b) == seal[b] \in {"meta", "sealed"}

(* A changed flag moves the ctime in the identity that a receipt carries.  *)
Restamped(b) == IF "record" \in index[b] THEN index[b] \cup {"stale"} ELSE index[b]

(* preflight_output sets, verifies and clears the directory's immutable    *)
(* flag, whoever set it before; cut short, it leaves the flag set.         *)
Cleared(b) == [seal EXCEPT ![b] = IF HasMeta(b) THEN "meta" ELSE "none"]
Preflight(b) ==
    /\ seal' = Cleared(b)
    /\ index' = [index EXCEPT ![b] = Restamped(b)]
ProbeInterrupted(b) ==
    /\ seal' = [seal EXCEPT ![b] = IF HasMeta(b) THEN "sealed" ELSE "probe"]
    /\ index' = [index EXCEPT ![b] = Restamped(b)]

(* drive at Pending: the directory, then preflight_attestation_index,      *)
(* which refuses an index with a receipt and removes its own probe.        *)
PreflightAll(b) ==
    /\ seal' = Cleared(b)
    /\ index' = [index EXCEPT ![b] = IF "record" \in @ THEN Restamped(b)
                                      ELSE @ \ {"probe"}]

(* attested_rootfs_hash: restore takes the digest from a sealed receipt    *)
(* that names exactly these inodes, and hashes the image otherwise.        *)
Attested(b) == {"record", "sealed"} \subseteq index[b] /\ "stale" \notin index[b]

-----------------------------------------------------------------------------
(* create                                                                  *)

(* With the lock, an existing intent is resumed unless it needs recovery.  *)
CreateResume(p, b) ==
    /\ pc[p] = "idle"
    /\ intent[b] # NoIntent
    /\ ~intent[b].aborted
    /\ ~(intent[b].at = Paused /\ AnyArtifact(b))
    /\ Take(p, b, "drive")
    /\ job' = [job EXCEPT ![p] = [base |-> b, intent |-> intent[b]]]
    /\ UNCHANGED <<intent, world, files>>

(* No intent yet: build_intent wants the room dir, the jail and the drive  *)
(* image of the base, and hashes the image and the attached toolstore.     *)
CreateBegin(p, b) ==
    /\ pc[p] = "idle"
    /\ intent[b] = NoIntent
    /\ home[b] = "both"
    /\ Take(p, b, "publish")
    /\ job' = [job EXCEPT ![p] = [base |-> b, intent |-> NoIntent]]
    /\ UNCHANGED <<intent, world, files>>

(* ensure_targets_absent, then the exclusive publication of the intent.    *)
CreateIntent(p) ==
    LET b == job[p].base
        new == [at |-> Pending, aborted |-> FALSE]
    IN  /\ pc[p] = "publish"
        /\ jail[b] = "absent"
        /\ intent[b] = NoIntent
        /\ intent' = [intent EXCEPT ![b] = new]
        /\ job' = [job EXCEPT ![p].intent = new]
        /\ Goto(p, "drive")
        /\ UNCHANGED <<lock, world, files>>

-----------------------------------------------------------------------------
(* drive: one action per effect, and Advance for the durable boundary.     *)

Drives(p, boundary) == pc[p] = "drive" /\ At(p) = boundary

(* What each boundary's checks demand before anything is done.             *)
DriveOk(p) ==
    LET b == job[p].base
    IN  CASE At(p) = Pending       -> home[b] = "both" /\ jail[b] # "full"
                                        /\ "record" \notin index[b]
          [] At(p) = TargetsStaged -> home[b] = "both" /\ jail[b] = "empty"
                                        /\ vm[b] # "dead"
          [] At(p) = Paused        -> home[b] = "both" /\ jail[b] # "absent"
                                        /\ vm[b] = "paused"
          [] At(p) = Collected     -> ReserveOk(slot[b], b, b)
          [] At(p) = Reaped        -> host[b] = "pair" /\ seal[b] # "probe"
          [] OTHER                 -> TRUE

DriveRefused(p) ==
    /\ pc[p] = "drive"
    /\ ~DriveOk(p)
    /\ IF At(p) = Pending THEN PreflightAll(job[p].base)
                          ELSE UNCHANGED <<seal, index>>
    /\ Leave(p)
    /\ UNCHANGED <<intent, world, jail, host>>

StageTargets(p) ==
    /\ Drives(p, Pending) /\ DriveOk(p)
    /\ PreflightAll(job[p].base)
    /\ jail' = [jail EXCEPT ![job[p].base] = "empty"]
    /\ Goto(p, "advance")
    /\ UNCHANGED <<intent, lock, job, world, host>>

PauseVm(p) ==
    /\ Drives(p, TargetsStaged) /\ DriveOk(p)
    /\ vm' = [vm EXCEPT ![job[p].base] = "paused"]
    /\ Goto(p, "advance")
    /\ UNCHANGED <<intent, lock, job, slot, tap, home, files>>

CreateFullSnapshot(p) ==
    /\ Drives(p, Paused) /\ DriveOk(p)
    /\ jail' = [jail EXCEPT ![job[p].base] = "full"]
    /\ Goto(p, "copy")
    /\ UNCHANGED <<intent, lock, job, world, host, seal, index>>

CollectPair(p) ==
    /\ pc[p] = "copy"
    /\ seal[job[p].base] \notin {"probe", "sealed"}
    /\ host' = [host EXCEPT ![job[p].base] = "pair"]
    /\ Goto(p, "advance")
    /\ UNCHANGED <<intent, lock, job, world, jail, seal, index>>

ReserveSlot(p) ==
    LET b == job[p].base
    IN  /\ Drives(p, Collected) /\ DriveOk(p)
        /\ slot' = [slot EXCEPT ![b] = Reserved(b)]
        /\ Goto(p, "advance")
        /\ UNCHANGED <<intent, lock, job, tap, vm, home, files>>

(* Mutant: the signal is sent, nobody waits for the VM to be gone.         *)
TerminateBaseUnconfirmed(p) ==
    /\ Drives(p, ReservedSlot)
    /\ Goto(p, "dirs")
    /\ UNCHANGED <<intent, lock, job, world, files>>

(* reap_base: terminate by the recorded identity, if room.json is there.   *)
TerminateBase(p) ==
    LET b == job[p].base
    IN  /\ Drives(p, ReservedSlot)
        /\ vm' = [vm EXCEPT ![b] = IF home[b] # "none" THEN "dead" ELSE @]
        /\ Goto(p, "dirs")
        /\ UNCHANGED <<intent, lock, job, slot, tap, home, files>>

(* reap_room_only: the jail first, then the room dir; gone is success.     *)
ReapDirs(p) ==
    /\ pc[p] \in {"dirs", "abort_dirs", "gc_dirs"}
    /\ home' = [home EXCEPT ![job[p].base] = "none"]
    /\ jail' = [jail EXCEPT ![job[p].base] = "absent"]
    /\ Goto(p, CASE pc[p] = "dirs" -> "tap"
                  [] pc[p] = "abort_dirs" -> "abort_tap"
                  [] OTHER -> "gc_free")
    /\ UNCHANGED <<intent, lock, job, slot, tap, vm, host, seal, index>>

(* remove_egress_and_tap                                                   *)
DeleteTap(p) ==
    /\ pc[p] \in {"tap", "abort_tap"}
    /\ tap' = [tap EXCEPT ![job[p].base] = NoRoom]
    /\ Goto(p, IF pc[p] = "tap" THEN "advance" ELSE "record")
    /\ UNCHANGED <<intent, lock, job, slot, vm, home, files>>

(* ensure_snapshot_metadata: written once, or found as a crash left it.    *)
WriteMetadata(p) ==
    /\ Drives(p, Reaped) /\ DriveOk(p)
    /\ seal' = [seal EXCEPT ![job[p].base] = IF HasMeta(job[p].base) THEN @ ELSE "meta"]
    /\ Goto(p, "sealing")
    /\ UNCHANGED <<intent, lock, job, world, jail, host, index>>

(* Mutant: the flag is set again on an inode that has it.                  *)
SealSnapshotAgain(p) ==
    LET b == job[p].base
    IN  /\ pc[p] = "sealing"
        /\ seal' = [seal EXCEPT ![b] = "sealed"]
        /\ index' = [index EXCEPT ![b] = Restamped(b)]
        /\ Goto(p, "attest")
        /\ UNCHANGED <<intent, lock, job, world, jail, host>>

(* seal_snapshot, files first and the directory last; a sealed inode is    *)
(* left as it is.                                                          *)
SealSnapshot(p) ==
    LET b == job[p].base
    IN  /\ pc[p] = "sealing"
        /\ seal' = [seal EXCEPT ![b] = "sealed"]
        /\ index' = IF seal[b] = "sealed" THEN index
                    ELSE [index EXCEPT ![b] = Restamped(b)]
        /\ Goto(p, "attest")
        /\ UNCHANGED <<intent, lock, job, world, jail, host>>

(* ensure_attestation_file: a temp of an earlier attempt goes, the receipt *)
(* is published by a no-replace rename; one that is there must say exactly *)
(* what this transaction would write.                                      *)
PublishReceipt(p) ==
    LET b == job[p].base
    IN  /\ pc[p] = "attest" \/ Drives(p, Published)
        /\ "stale" \notin index[b]
        /\ index' = [index EXCEPT ![b] = IF "record" \in @ THEN @
                                         ELSE (@ \ {"temp"}) \cup {"record"}]
        /\ Goto(p, "receipt")
        /\ UNCHANGED <<intent, lock, job, world, jail, host, seal>>

ReceiptDisagrees(p) ==
    /\ pc[p] = "attest" \/ Drives(p, Published)
    /\ "stale" \in index[job[p].base]
    /\ Leave(p)
    /\ UNCHANGED <<intent, world, files>>

SealReceipt(p) ==
    /\ pc[p] = "receipt"
    /\ index' = [index EXCEPT ![job[p].base] = @ \cup {"sealed"}]
    /\ Goto(p, IF At(p) = Published THEN "finish" ELSE "advance")
    /\ UNCHANGED <<intent, lock, job, world, jail, host, seal>>

(* advance: the in-memory intent replaces the file, whatever it holds.     *)
Advance(p) ==
    LET next == [job[p].intent EXCEPT !.at = @ + 1]
    IN  /\ pc[p] = "advance"
        /\ intent' = [intent EXCEPT ![job[p].base] = next]
        /\ job' = [job EXCEPT ![p].intent = next]
        /\ Goto(p, IF next.at = Published THEN "finish" ELSE "drive")
        /\ UNCHANGED <<lock, world, files>>

FinishIndex(p) ==
    /\ pc[p] = "finish"
    /\ intent' = [intent EXCEPT ![job[p].base] = NoIntent]
    /\ Leave(p)
    /\ UNCHANGED <<world, files>>

-----------------------------------------------------------------------------
(* recover                                                                 *)

(* read_intents comes BEFORE acquire_lock: the intent may be stale when    *)
(* the lock is won.                                                        *)
RecoverRead(p, b) ==
    /\ pc[p] = "idle"
    /\ intent[b] # NoIntent
    /\ job' = [job EXCEPT ![p] = [base |-> b, intent |-> intent[b]]]
    /\ Goto(p, "recover")
    /\ UNCHANGED <<intent, lock, world, files>>

RecoverLock(p) ==
    /\ pc[p] = "recover"
    /\ \/ Take(p, job[p].base, "judge") /\ UNCHANGED job
       \/ lock[job[p].base] # NoProc /\ Leave(p)
    /\ UNCHANGED <<intent, world, files>>

(* Mutant: a Pending transaction is judged without the repeated probe.     *)
RecoverPreflightSkipped(p) ==
    /\ pc[p] = "judge" /\ At(p) = Pending
    /\ Goto(p, "judged")
    /\ UNCHANGED <<intent, lock, job, world, files>>

RecoverPreflight(p) ==
    /\ pc[p] = "judge" /\ At(p) = Pending
    /\ Preflight(job[p].base)
    /\ Goto(p, "judged")
    /\ UNCHANGED <<intent, lock, job, world, jail, host>>

(* Before Collected, a base whose create request may have run is           *)
(* terminated, and a dead base ends in an abort; all else is driven on.    *)
RecoverJudge(p) ==
    LET b == job[p].base
        ambiguous == At(p) = Paused /\ AnyArtifact(b)
    IN  /\ pc[p] = "judged" \/ (pc[p] = "judge" /\ At(p) # Pending)
        /\ vm' = [vm EXCEPT ![b] =
                     IF ambiguous /\ home[b] # "none" THEN "dead" ELSE @]
        /\ Goto(p, IF At(p) < Collected /\ (ambiguous \/ BaseDead(b))
                     THEN "abort" ELSE "drive")
        /\ UNCHANGED <<intent, lock, job, slot, tap, home, files>>

(* abort_dead_partial: the guards.                                         *)
AbortCheck(p) ==
    LET b == job[p].base
        allowed == /\ ~HasMeta(b)
                   /\ job[p].intent.aborted \/ slot[b] = Claimed(b)
    IN  /\ pc[p] = "abort"
        /\ \/ allowed /\ Goto(p, "remove") /\ UNCHANGED <<lock, job>>
           \/ ~allowed /\ Leave(p)
        /\ UNCHANGED <<intent, world, files>>

(* remove_partial_outputs ends with sync_dir on the jail directory, an     *)
(* error once the jail has been reaped.                                    *)
AbortRemove(p) ==
    LET b == job[p].base
    IN  /\ pc[p] = "remove"
        /\ seal[b] # "probe"
        /\ host' = [host EXCEPT ![b] = "none"]
        /\ jail' = [jail EXCEPT ![b] = "absent"]
        /\ \/ home[b] = "both" /\ Goto(p, "abort_dirs") /\ UNCHANGED <<lock, job>>
           \/ home[b] # "both" /\ Leave(p)
        /\ UNCHANGED <<intent, world, seal, index>>

(* record_abort: the marker is durable before the claim is released.       *)
AbortRecord(p) ==
    /\ pc[p] = "record"
    /\ intent' = IF job[p].intent.aborted THEN intent
                 ELSE [intent EXCEPT ![job[p].base] =
                         [job[p].intent EXCEPT !.aborted = TRUE]]
    /\ Goto(p, "release")
    /\ UNCHANGED <<lock, job, world, files>>

(* slot::free is exact-claim guarded; a reassigned slot is an error unless *)
(* this abort is a resumed one.                                            *)
AbortFree(p) ==
    LET b == job[p].base
        done == slot[b] \in {Claimed(b), Free} \/ job[p].intent.aborted
    IN  /\ pc[p] = "release"
        /\ slot' = [slot EXCEPT ![b] = IF @ = Claimed(b) THEN Free ELSE @]
        /\ \/ done /\ Goto(p, "finish") /\ UNCHANGED <<lock, job>>
           \/ ~done /\ Leave(p)
        /\ UNCHANGED <<intent, tap, vm, home, files>>

-----------------------------------------------------------------------------
(* registry: kill and gc on a base, and gc's pool-wide sweep.              *)

(* Mutant: the intent index is consulted without the lock.                 *)
ReapTakeUnlocked(p, b) ==
    /\ pc[p] = "idle"
    /\ intent[b] = NoIntent
    /\ home[b] # "none"
    /\ Goto(p, "gc_dirs")
    /\ vm' = [vm EXCEPT ![b] = "dead"]
    /\ job' = [job EXCEPT ![p] = [base |-> b, intent |-> NoIntent]]
    /\ UNCHANGED <<intent, lock, slot, tap, home, files>>

(* Both take the base's snapshot lock and refuse a base with an intent;    *)
(* the VM is dead, or kill makes it so, before the reap.                   *)
ReapTake(p, b) ==
    /\ pc[p] = "idle"
    /\ intent[b] = NoIntent
    /\ home[b] # "none"
    /\ Take(p, b, "gc_dirs")
    /\ vm' = [vm EXCEPT ![b] = "dead"]
    /\ job' = [job EXCEPT ![p] = [base |-> b, intent |-> NoIntent]]
    /\ UNCHANGED <<intent, slot, tap, home, files>>

(* The exact claim is freed with its device, or nothing is touched.        *)
FreeOwnClaim(b) ==
    /\ slot' = [slot EXCEPT ![b] = IF @ = Claimed(b) THEN Free ELSE @]
    /\ tap' = [tap EXCEPT ![b] = IF slot[b] = Claimed(b) THEN NoRoom ELSE @]

ReapFree(p) ==
    /\ pc[p] = "gc_free"
    /\ FreeOwnClaim(job[p].base)
    /\ Leave(p)
    /\ UNCHANGED <<intent, vm, home, files>>

(* Mutant: the sweep runs although transactions are pending.               *)
SweepBeginUnfenced(p) ==
    /\ pc[p] = "idle"
    /\ Goto(p, "sweep")
    /\ UNCHANGED <<intent, lock, job, world, files>>

(* gc samples pending_all once; the sweep runs only if it was empty.       *)
SweepBegin(p) ==
    /\ pc[p] = "idle"
    /\ \A b \in Bases : intent[b] = NoIntent
    /\ Goto(p, "sweep")
    /\ UNCHANGED <<intent, lock, job, world, files>>

(* slot::reconcile: the claimer has exited, no room dir remains.           *)
SweepClaim(p, b) ==
    /\ pc[p] = "sweep"
    /\ slot[b] = Claimed(b)
    /\ home[b] = "none"
    /\ FreeOwnClaim(b)
    /\ UNCHANGED <<intent, lock, pc, job, vm, home, files>>

SweepEnd(p) ==
    /\ pc[p] = "sweep"
    /\ Leave(p)
    /\ UNCHANGED <<intent, world, files>>

-----------------------------------------------------------------------------
(* The other rooms on the slot, and the environment.                       *)

(* A restore leases the reservation of a sealed snapshot and makes its     *)
(* device; a run claims a free index.                                      *)
OtherArrives(b, x) ==
    /\ tap[b] = NoRoom
    /\ \/ /\ seal[b] = "sealed" /\ slot[b] = Reserved(b)
          /\ slot' = [slot EXCEPT ![b] = Leased(b, x)]
       \/ /\ slot[b] = Free
          /\ slot' = [slot EXCEPT ![b] = Claimed(x)]
    /\ tap' = [tap EXCEPT ![b] = x]
    /\ UNCHANGED <<intent, lock, pc, job, vm, home, files>>

OtherLeaves(b, x) ==
    /\ \/ /\ slot[b] = Leased(b, x)
          /\ slot' = [slot EXCEPT ![b] = AfterRelease(@, b, x)]
       \/ /\ slot[b] = Claimed(x)
          /\ slot' = [slot EXCEPT ![b] = Free]
    /\ tap' = [tap EXCEPT ![b] = NoRoom]
    /\ UNCHANGED <<intent, lock, pc, job, vm, home, files>>

VmDies(b) ==
    /\ vm[b] # "dead"
    /\ vm' = [vm EXCEPT ![b] = "dead"]
    /\ UNCHANGED <<intent, lock, pc, job, slot, tap, home, files>>

(* A failed API call or copy that got part of the way: pause answers an    *)
(* error and the VM is resumed; a probe leaves its flag or its file;       *)
(* create or the copy leaves a part, the receipt its temp; the jail goes   *)
(* but the room dir survives.                                              *)
PartialFailure(p) ==
    LET b == job[p].base
    IN  /\ \/ /\ Drives(p, TargetsStaged) /\ DriveOk(p)
              /\ vm' = [vm EXCEPT ![b] = "running"]
              /\ UNCHANGED <<home, files>>
           \/ /\ Drives(p, Pending) \/ (pc[p] = "judge" /\ At(p) = Pending)
              /\ ProbeInterrupted(b)
              /\ UNCHANGED <<vm, home, jail, host>>
           \/ /\ Drives(p, Pending) /\ "record" \notin index[b]
              /\ seal' = Cleared(b)
              /\ index' = [index EXCEPT ![b] = @ \cup {"probe"}]
              /\ UNCHANGED <<vm, home, jail, host>>
           \/ /\ Drives(p, Paused) /\ DriveOk(p)
              /\ jail' = [jail EXCEPT ![b] = "full"]
              /\ UNCHANGED <<vm, home, host, seal, index>>
           \/ /\ pc[p] = "copy"
              /\ host' = [host EXCEPT ![b] = "part"]
              /\ UNCHANGED <<vm, home, jail, seal, index>>
           \/ /\ pc[p] = "attest" /\ "record" \notin index[b]
              /\ index' = [index EXCEPT ![b] = @ \cup {"temp"}]
              /\ UNCHANGED <<vm, home, jail, host, seal>>
           \/ /\ pc[p] \in {"dirs", "abort_dirs", "gc_dirs"}
              /\ home[b] = "both"
              /\ home' = [home EXCEPT ![b] = "room"]
              /\ jail' = [jail EXCEPT ![b] = "absent"]
              /\ UNCHANGED <<vm, host, seal, index>>
        /\ Leave(p)
        /\ UNCHANGED <<intent, slot, tap>>

(* Any error return that undoes nothing, and any crash.                    *)
Stop(p) ==
    /\ pc[p] # "idle"
    /\ Leave(p)
    /\ UNCHANGED <<intent, world, files>>

-----------------------------------------------------------------------------
Drive(p) ==
    \/ DriveRefused(p) \/ StageTargets(p) \/ PauseVm(p) \/ CreateFullSnapshot(p)
    \/ CollectPair(p) \/ ReserveSlot(p) \/ TerminateBase(p) \/ ReapDirs(p)
    \/ DeleteTap(p) \/ WriteMetadata(p) \/ SealSnapshot(p)
    \/ PublishReceipt(p) \/ ReceiptDisagrees(p) \/ SealReceipt(p) \/ Advance(p)
    \/ FinishIndex(p)

Recover(p) ==
    \/ RecoverLock(p) \/ RecoverPreflight(p) \/ RecoverJudge(p) \/ AbortCheck(p)
    \/ AbortRemove(p) \/ AbortRecord(p) \/ AbortFree(p)

Begin(p) ==
    \/ \E b \in Bases : CreateResume(p, b) \/ CreateBegin(p, b)
                         \/ RecoverRead(p, b) \/ ReapTake(p, b)
    \/ SweepBegin(p)

Continue(p) ==
    \/ CreateIntent(p) \/ Drive(p) \/ Recover(p) \/ ReapFree(p)
    \/ (\E b \in Bases : SweepClaim(p, b)) \/ SweepEnd(p)

Step ==
    \/ \E p \in crew : Begin(p) \/ Continue(p) \/ PartialFailure(p) \/ Stop(p)
    \/ \E b \in Bases : VmDies(b)
    \/ \E b \in Bases, x \in Others : OtherArrives(b, x) \/ OtherLeaves(b, x)

Next == Step /\ crew' = crew

Spec == Init /\ [][Next]_vars

(* A command that is inside a transaction goes on with it; the operator    *)
(* keeps running snapshot-recover while an intent is listed; from some     *)
(* point on nothing is killed and no host operation fails.                 *)
Fault(p) == pc[p] # "idle" /\ pc'[p] = "idle" /\ ~Continue(p)

Fairness ==
    \A p \in Procs :
        /\ WF_vars(Continue(p) /\ crew' = crew)
        /\ \A b \in Bases : SF_vars(p \in crew /\ RecoverRead(p, b) /\ crew' = crew)
        /\ <>[][~Fault(p)]_vars

FairSpec == Spec /\ Fairness

-----------------------------------------------------------------------------
Owned(b) == slot[b].kind \in {"reserved", "leased", "clones"} /\ slot[b].snap = b

(* snapshot.json appears only when the base is gone for good (VM           *)
(* terminated, dirs reaped), its slot is the snapshot's and the pair is    *)
(* complete: restore may trust a directory that has it (drive).  A receipt *)
(* that restore takes the image's digest from is of a sealed directory,    *)
(* also after a late recover has cleared the flag (attested_rootfs_hash).  *)
PublishedComplete ==
    \A b \in Bases :
        /\ HasMeta(b) => /\ Owned(b) /\ host[b] = "pair"
                         /\ vm[b] = "dead" /\ home[b] = "none"
        /\ Attested(b) => seal[b] = "sealed"

(* The base a kill or gc is reaping has no transaction: the fence is       *)
(* checked under the lock that create publishes the intent under           *)
(* (registry::reap_entry, kill, try_acquire_lock).                         *)
NoTxnUnderReap ==
    \A p \in Procs :
        pc[p] \in {"gc_dirs", "gc_free"} => intent[job[p].base] = NoIntent

(* Once reserved, a slot never goes back to the pool (reserve, lease,      *)
(* AfterRelease, the sweep's and the abort's exact-claim guards).          *)
ReservationPermanent ==
    [][\A b \in Bases : Owned(b) => Owned(b)']_vars

(* What follows holds of commands that run one after the other, crashes    *)
(* and retries included; the README says how concurrent ones break it.     *)
Serial == Cardinality(crew) = 1

(* A probe that died with the directory immutable never gets in the way of *)
(* the copy into it or the clean-up of it (drive's and recover's repeated  *)
(* preflight at Pending).                                                  *)
ProbeCleared ==
    Serial => \A p \in crew :
        pc[p] \in {"copy", "remove", "sealing"} => seal[job[p].base] # "probe"

(* Recovery of a transaction that reached Collected completes: the intent  *)
(* is retired and the snapshot is sealed with a receipt that agrees with   *)
(* it, from whatever step a crash left it at (drive's idempotent steps).   *)
RecoveryCompletes ==
    \A b \in Bases :
        Serial /\ intent[b].at >= Collected
            ~> intent[b] = NoIntent /\ seal[b] = "sealed" /\ Attested(b)

(* The slot keeps step with the transaction: as long as an intent may      *)
(* still be driven or aborted, the base's exact claim, or the reservation  *)
(* made of it, is in the pool ("a dead, already-unlinked base cannot lose  *)
(* its pre-reservation claim behind recovery", has_pending; record_abort   *)
(* before slot::free), and it is reserved only while the complete artifact *)
(* pair is on disk (drive's order, recover's Collected bound on aborting). *)
SlotFollowsTxn ==
    Serial => \A b \in Bases :
        /\ intent[b].at \in Pending..Collected /\ ~intent[b].aborted
             => slot[b] = Claimed(b) \/ Owned(b)
        /\ Owned(b) => host[b] = "pair"
=============================================================================
