# Verification of `rooms`

`rooms` runs untrusted workloads in Firecracker microVMs. Each command (`run`,
`snapshot`, `snapshot-recover`, `restore`, `clone`, `gc`, `kill`) is a short
lived process. There is no daemon: everything the commands know of each other is
in files under the state base and in host resources (taps, namespaces, firewall
chains, jails, processes). This project models the protocols by which those
processes share the host and what a single command tells its caller, checks them
with TLC and proves their safety with TLAPS.

All source paths below are relative to `src/src/`.

## 1. Inventory

| component | state it keeps | operations | interacts with |
|---|---|---|---|
| slot tokens and pool: `slot.rs`, `indexed_claim.rs` | `slots/<k>` files (claim, reservation, lease, clone lease set), `slots.lock` | claim, free, reserve, lease, lease_clone, release, reconcile, cleanup_if_unclaimed | every other component |
| boot and teardown: `firecracker.rs` | room dir, jail, `tap-fc<k>`, VM process, `room.json` | boot, RoomGuard cleanup, reap_orphan, terminate_by_identity, barriered restore launch | pool, registry |
| registry: `registry.rs`, sample in `doctor.rs` | none of its own | list, gc (sweeps + reap), kill | all of the above, both transactions |
| liveness: `room.rs` | `room.json`, `/proc` | probe, classify | registry, reconcile, restore |
| snapshot transaction: `snapshot_exec.rs`, `inode_seal.rs` | intent file with boundary, per-base lock, artifact pair in jail and output dir, immutable flags | create, drive, recover, abort | pool (reserve), firecracker (reap), gc/kill fence |
| restore transaction: `restore_exec.rs` | restore intent (tombstone) | restore_prepared, finish_teardown, gc_reconcile | pool (lease), clone network, firecracker |
| clone networks: `clonenet.rs` | `clonenets/<i>` claims, owner markers under `/run`, netns, veth, routes, binding rule | allocate, allocate_batch, free, reconcile, routing preflight | indexed_claim, restore, firewall |
| clone batches: `main.rs` | custody of each member, the first signal | allocate, restore, readiness barrier, commands, hand-over, cancel | restore, clonenet, runner |
| run orchestration: `main.rs`, `runner.rs`, `lifecycle.rs`, `artifacts.rs` | `result.json`, lifecycle stream, `--out` | exec race, collection, teardown, exit code | guest over SSH |
| guest protocols: `vsock.rs`, `scripts/lib/rooms-resume-apply.c` and the shell agents | one serving task and its endpoints per room | secrets, provisioning, resume | guest agent |
| network policy: `egress.rs`, `isolation.rs`, `veth_isolation.rs`, `egress_audit.rs`, `witness.rs`, `scripts/setup-tap.sh` | iptables chains, pcap | install, remove, verify, capture, classify | host |
| admission: `rootfs.rs`, `toolstore.rs`, `matrix.rs`, `snapshot.rs`, `restore.rs`, `preflight.rs`, `doctor.rs` | none | validate | CLI |

What is hard here is the same everywhere: several processes act on one index,
one device name, one chain or one directory; any of them dies between two steps;
most checks read something without the lock under which they later act; every
clean-up can fail half-way and is retried by someone else; and a signal, a
timeout and an answer race. `PROJECT.json` lists each such place under `hazards`.

What makes the parts correct:

* pool: a running VM keeps its slot and its device; a device never outlives the
  claim that names it; a claim goes only after its room; what gc can judge dead
  comes back to the pool;
* snapshot: what is published is complete and its base is gone; a reservation is
  for ever; a crash anywhere can be recovered from; kill and gc stay away from a
  base with a transaction;
* restore: a resumed guest holds its lease and network; whatever a dead restore
  left is named by its tombstone; leases return;
* clone networks: whatever is on the host is named by a claim; state directories
  that know nothing of each other share the host's indices exclusively; traffic
  for a clone reaches that clone;
* clone batch: success is all or nothing and linearised against signals; what is
  left is reported; nothing is torn down under a worker;
* guest protocols: secrets go to one peer; success means the guest did the work;
* run: stream, record, exit code and output tell one story; a bounded run ends;
* policy: the kernel enforces what was asked, and what is called contained was.

## 2. Modules

| module | models | extends / instantiates |
|---|---|---|
| `SlotTokens` | the token grammar and the decision of each operation of `slot.rs` | |
| `SlotPool` | claim files under the free-lock, boot, RoomGuard, gc sweeps, reap, kill | `SlotTokens` |
| `SnapshotTxn` | create, drive, recover, abort, and kill/gc on the base | `SlotTokens` |
| `RestoreTxn` | flat and clone restores on one frozen slot, finish_teardown, gc_reconcile, kill | `SlotTokens` |
| `HostNets` | abstract: an exclusive allocator of host network indices | |
| `CloneNetPool` | allocator, rollback, free and reconcile of clone networks | implements `HostNets` |
| `RoutePreflight` | the routing preflight against the kernel's lookup | |
| `CloneBatch` | one `rooms clone` process with its workers and signal listener | |
| `VsockSession` | host task, waiting command and guest agent of the three sessions | |
| `RunOutcome` | one `rooms run` from the claim to the exit code | |
| `Firewall` | egress policies on the shared filter table, and the audit | |
| `...Proofs` | theorems about `SlotPool`, `SnapshotTxn`, `RestoreTxn`, `CloneNetPool`, `CloneBatch`, `VsockSession`, `RunOutcome`, `Firewall` | the module of the same name; `CloneNetPoolProofs` also extends `RoutePreflight` |
| `MC...` | model values, symmetry and instance sets for TLC | the module of the same name |

### SlotTokens

A token is a record of kind, snapshot and set of rooms; the absent file is the
kind `free`, a file whose token is not yet complete is `partial`. The pid and
start time inside a claim identify the claiming process, which is the one that
runs the room, so the room id stands for them.

### SlotPool

One process per room is the `rooms run` CLI; `Gcs` are concurrent `gc`/`kill`
processes. Variables: `slot` (files), `lock` (`slots.lock`), `tap` (who made
each `tap-fc<k>`; `Stray` is a device no room of this base made), `dir` (room
dir: none, without or with `room.json`), `vm` (none, alive, sent a SIGKILL that
nobody waits for, dead), `pc`, `job` (what a process remembers, which may be stale).

* Claim: `ClaimCreate` is the O_EXCL create under the lock, `ClaimWrite` the
  token write that ends it; a crash between leaves a partial file.
* Boot: `PrepareRoomDir`, `CreateSlotTap`, `SpawnJailer`, `WriteRoomMeta`.
  `WriteRoomMeta` may fail and the boot goes on: the code only warns.
* Teardown (`cleanup_sync`, `reap_orphan`): `KillChild`, `RemoveRoomDir`,
  `FreeHold`, `FreeCleanup`, `FreeUnlink`. `kill_child_gracefully` polls after
  SIGTERM but returns after SIGKILL without confirming death, so the VM may still
  be there (`killed`) while its dir, device and claim go; `LiveRoomKeepsSlot` and
  `ClaimOutlivesRoom` are about VMs nobody has killed. The removal of a dir may fail
  at any time, which includes jails kept busy by a bind mount.
* gc: `ReconcileRead` without the lock, `ReconcileJudge`, then
  `DiscardPartial` or `ReconcileHold`/`Cleanup`/`Unlink` under it; the tap sweep
  samples files and links (`SampleUnclaimed`, `SampleTap`) and checks again
  (`SweepHold`). A pass treats its items in any order.
* `Crash(a)` kills any process anywhere; the kernel drops its lock.

### SnapshotTxn

The intent of a base is its boundary, 1 to 7, and the abort marker. `job`
holds the intent a process has in memory, which `Advance` writes over the file
as `write_intent_atomic` does. `drive` is one action per effect, followed by
`Advance`, so that `Stop` (a crash, or an error return that undoes nothing) falls
between an effect and its boundary; `PartialFailure` has the failures that leave
something behind. `RecoverRead` precedes `RecoverLock`, as in the code.
`seal` is the state of the output directory: flag left by a probe, with
`snapshot.json`, sealed. `index` is the set of files the attestation index has for the
snapshot; the receipt names inodes with their ctime, so any change of the
directory's flag afterwards makes it stale (`Restamped`): restore then hashes the image
(`Attested` fails), and a transaction that meets it stops (`ReceiptDisagrees`). kill and gc on a base are `ReapTake`, `ReapDirs`,
`ReapFree`; gc's pool-wide sweep is `SweepBegin` (the sample of `pending_all`),
`SweepClaim`, `SweepEnd`. Slot operations are single steps here: `SlotPool` has
their inside. `crew` is chosen at the start: all commands at once, or one after
the other; the properties that need the latter say `Serial`.

### RestoreTxn

`intent` is the boundary of each room's tombstone, `dir` distinguishes a
`room.json` with and without the slot, `vm` a child behind the barrier, released,
resumed, sent a SIGKILL nobody waits for (`GuardKill`, as in `SlotPool`), dead. `ProbedAlive` is what `room::probe` says: the launcher shell
behind the barrier is called `sh`, so it counts as dead; the instant between
its read and its exec is part of `ReleaseBarrier`. Launch is one action per
durable step of `spawn_restore` and `establish_lease`; `Abort` is any error or
cancellation, and the end of the workload. `finish_teardown` (`ReapRoomOnly` to
`FinishIndex`) is shared by the CLI, gc and kill. A clone has its device inside a
namespace (`net`), a flat restore has `tap`. `Crews` are the sets of processes
that may meet.

A gc or kill may take up any room at any time: no lock of the code separates it from
the room's own launch (`BeginReap`). The history variable `met` records the rooms that a
gc or kill began to tear down in their launch, or alive; no action depends on it.
`NetworkUnderLease`, `TombstoneCovers` and `LeaseReturned` are about the other rooms
(`Undisturbed`), whatever happens to the rooms that were met, which share the slot, the
device and the lock with them. What can happen to a room that was met is
`RestoreTxnGcRace`; `CloneLeavesClean` holds of it too.

### CloneNetPool and HostNets

A network is a namespace, a veth pair and a binding rule named by an index of the
host. The claim file belongs to one state directory and its lock; the owner
marker is host-wide. `allocate_with` is `ListRoutes`, `CheckRoutes`, `ClaimIndex`,
`ClaimGlobal`, `Create` (one device at a time), with `Rollback`,
`RollbackMarker`, `ReleaseClaim` without a lock, as in the code. `JoinWorkers` is
the end of `allocate_batch_with`. `free` and the teardown of `reconcile` share
`TeardownOwnership` to `FreeUnlink`. Every command may fail; a batch process, a
gc or the whole host may die; a reboot empties `/run` and the network.
`HostNets` says what all of them promise together: an index has one owner,
devices stand only under an owner and change hands only when the last owner's are gone.
`HostExclusive` is that specification with the marker as the owner.

The preflight lists the routes first and reads the markers afterwards, so a
concurrent teardown can make it refuse a healthy host: a spurious error, modelled,
and harmless. A claim whose index another state directory owns stays until that
owner is gone; `DeadClaimReclaimed` says so.

### RoutePreflight

Addresses have `Width` bits; the clone supernet is the `/3` with bits 101, so a
catch-all, a wider private net, the supernet, its parts and single hosts are
all distinct. `Lookup` is the kernel's: tables by rule, longest prefix, `throw` goes
on; of equal prefixes either may win. Routes that do not parse are foreign in the code,
the model has none. A `throw` route to the host's own address in table `local` ties
with the kernel's route and is accepted; only the host address is affected, so the
property is about the guest's. `Width` is at least 7, so that the supernet has the
two indices `RouteInit` uses. What changes between preflight and create is not
modelled.

### CloneBatch

One process: the main task (`phase`), one worker per member (`member`, `probe`,
`record`), the listener (`sig`, `listener`, `seen`, `commit`). `TakeSignal` closes
the request channel before `Publish`; `CommitSend` and `Acknowledge` are the two
ends of `commit_terminal_handoff`, so a signal may fall between them. Other batches
of the snapshot take and return leases, so a member may be refused at
`MAX_CLONE_LEASES`. `tree` is what the paths of snapshot and image name: `Rename`
moves it at any time, `OpenSource` and `Prepare` are the two ends of
`prepare_restore`, and each worker revalidates, stages whatever the paths name then,
and compares the jail and the paths before the lease and before the resume. Writes into
the files are excluded by the immutable flag, which every check requires. What an
allocation or a restore does to the host is `CloneNetPool` and `RestoreTxn`; here it
succeeds, fails, or leaves a teardown stuck. A probe ends with a login, between two
attempts, or by the deadline over an attempt: then its SSH child is killed and not
awaited (`lost`) and goes away some time later (`ChildExits`). `Handoff` has no failing
branch: the errors of `preserve_clone_batch` need a record without clone network or a
custody consumed before, neither of which a restored member has.

### VsockSession

Host and agent follow scripts (`HostScript`, `AgentScript`) of frames, records
and duties, one per session kind. The model has the agent's retried connections and
the host's retry window, the retirement of the endpoint before the payload, the two
challenges, the clock budget in ticks of half a second, the timeout of the waiting
command and the abort of a task that may still run. A hasty agent answers anything it
can form from what it has read; a faithful one may fail anywhere. In a provisioning
session the quiesced beacon may be queued before the first connection closes.

### RunOutcome

`stream` is the lifecycle stream, `result` the guest's `result.json` (torn by a killed
`cat >`), `dest` the host's `--out`, `capture` the witness. Each SSH session is one
action and may fail; the guest may wedge for good. `Interrupt` is what wins
`race_workload`; what the killed client may have done in the guest is a choice, and so
is how much of the record a failing `cat >` has written.

### Firewall

A rule is a record of the sets it matches, a chain a sequence. One action is one
iptables command of `install_locked`, `install_clone_*`, `remove_*`. `Decide` and
`Forwarded` are the kernel's walk, independent of the predicates over dumps
(`Isolates`, `FallsThrough`, `Verified`, ...), which are translated from the code. Initially
the chains are those of `setup-tap.sh --host`, or those with one rule removed,
swapped or inserted. `Classify` is the audit, judged against what the kernel does.
The history variable `raced` records the flat rooms for which another process took a
rule out of `ROOMS_FWD` between their dump and their jump (`Watch`); `EgressEnforced` and
`ContainedIsStopped` except them, nobody else. The dumps of a verification are one
step: between two of them another room can only change rules of its own interface.
Edited chains are met by single clones only, since a flat install verifies nothing and
what it gives on such a host depends on the edit. A room stops being `up` at the first
removal step; `release_tap` may remove the policy while a VM that was sent SIGKILL is not
yet gone. The FORWARD policy is ACCEPT; a clone's
sources exclude the flat supernet because its namespace masquerades it. Set-up
precedes the rooms: running `setup-tap.sh --host` again flushes `ROOMS_FWD` and restores
the bindings of the veths but no egress jump.

## 3. Runs

| run | instance | states | shows |
|---|---|---|---|
| `SlotPool` | 2 rooms, 1 gc, 1 slot, 1 snapshot, fair | 14,447 | safety of the pool; claims and partial files come back |
| `SnapshotTxn` | 1 base, 3 commands at once or one at a time, 1 other room, fair | 344,652 | published snapshots, fence, reservation, recovery |
| `RestoreTxn` | 2 flat under 1 gc or kill, 1 flat or 1 clone under 2, 2 clones, a flat and a clone | 1,854,760 | lease, device, tombstone, clone networks |
| `RestoreTxnLive` | 1 flat or 1 clone under 2 gcs, fair | 113,773 | leases return |
| `CloneNetPool` | 2 state directories, batches of 2 and 1, 1 index, 2 gcs, fair | 87,230 | accounting, exclusiveness (refinement), reclaim |
| `CloneBatch` | 3 members, lease bound 3, both signals, 2 source trees, fair | 1,045,784 | commit, residue, barrier, one source, end |
| `VsockSession` | 3 sessions, 2 candidates, half-second ticks, fair | 794,275 | one peer, earned success, fresh clock, end |
| `RunOutcome` | 5 jobs, 9 option sets, both signals, exit 0 or 300, fair | 645,246 | the surfaces of a run |
| `Firewall` | 2 taps, 2 veths, a pair of each combination, or 1 veth on edited chains | 234,884 | enforcement, isolation, audit |
| `RoutePreflight` | 7-bit addresses, every foreign route | 690,728 | routing |
| `FirewallRace` | 2 taps | violation | `FlatEnforced` |
| `RestoreTxnGcRace` | 1 flat, 1 gc, fair | violation | `EveryRestoreFinished` |

`CHECK_DEADLOCK FALSE` where rooms and commands run once and every behaviour ends.
`RunOutcome` has the end as a step of its own and checks deadlock.

Bounds. Rooms are minted fresh and never run twice, so two rooms are a
predecessor and a successor on an index, or two neighbours. The safety properties of
the modules of section 4 are proved for every instance, so their instances have
to be large enough for the liveness properties and the mutants only. In `RestoreTxn` a pair of
flat restores meets one gc or kill and a single restore two, which is a gc racing a gc or a
kill; two clones, and a flat restore and a clone, which exclude each other by the slot's
token, meet without one. Three processes on one base let a third command change
things between the read and the lock of a second. A base is consumed by its snapshot,
so bases do not interact except through the sweep's sample. With one host index
every allocation of two state directories is contended and the pool is full at once;
a batch of two then always has a failing and a succeeding member. Three clones give
a batch a first, a failing and a surviving member, and the lease bound is met when
another batch holds one. Exit code 300 is one that does not fit a byte. Two candidates are
the retry and its limit. Seven bits leave three indices inside the supernet.
Symmetry is used in `RestoreTxn` (restores of a kind, gcs) and `Firewall` (taps), which check
no liveness. A room of `Firewall` forgets its plan and its rank when it starts over: in the
code they are locals of the call that has returned.

Fairness. A process that holds a lock goes on or dies (the kernel then drops
it). `rooms gc` is run again and again and each pass visits every file and room
(strong fairness of the item's first step, since it may be busy with others). From
some point on no gc is killed in an item, `rm`/`ip` stop failing and the host stays up;
without that nothing could be promised. No CLI has to finish, and `kill` never has to
run. For snapshots, the operator repeats `snapshot-recover` while an intent is listed.
In `CloneBatch`, `VsockSession` and `RunOutcome` the runtime polls every task that can
go on and timers fire (weak fairness of the host's own steps); a guest, a command in
it and the operator owe nothing.

### What does not hold

The violation runs are statements of the repository's own comments; `findings` in
`PROJECT.json` quotes each line.

1. `FlatEnforced`: the lock around an iptables transaction is one process's. The rank
   at which a flat room's jump goes in is stale when another `rooms run` removes its
   own jump meanwhile. Clones verify afterwards, flat rooms do not
   (`room_egress_enforced` is used by tests only). `Firewall` and section 4 show that
   nothing else does harm: flat rooms to which this did not happen are enforced.
2. `EveryRestoreFinished`: gc takes a pre-spawn tombstone for a launch that never was. Either it
   removes the tombstone after the launch rewrote it, and the lease is lost when the
   CLI then dies; or its teardown falls between the lease and the device, returns the lease
   and clears the tombstone, and the launch makes a device that no lease and no
   tombstone covers. The shortest trace is the first; each half of the conclusion
   fails on its own.

### Known limits

Found while modelling; the models contain the behaviour, and the properties of the runs say
what still holds.

* Half-written slot files: `slot.rs:663-664` ("skip (never reclaim; a later pass
  re-checks)"), `slot.rs:695-697`, `docs/features/multi-room-pool/spec.md:118` and `:178` and
  `pool-slot-allocator.md:50` and `:67` say that gc skips an empty, short or unparseable
  token and never reclaims it. The code does the opposite: `discard_abandoned_partial`
  (`indexed_claim.rs:432-449`) takes the lock, reads again and removes the file, and the test
  at `slot.rs:1249` asks for that ("an abandoned partial claim must be reclaimed").
  `PartialFileFreed` states the code's behaviour, without which the index would be lost to
  the pool, against those texts; `WriterKeepsFile` states what they were written to
  protect, that no live claimer's file is taken. The texts are what is out of date.
* `slot.rs:659-661` says that reconcile needs no `room.json`, "so every pre-registry crash
  window is covered", and `spec.md:180` has it remove the room dir too. A CLI that dies
  between `prepare_room_dir` and `write_room_meta`, or whose write of `room.json` fails,
  leaves a dir that reconcile respects (`slot.rs:677`) and reap has no pid to judge
  by: the slot is kept until somebody removes the dir. `ReapableClaimFreed` is
  about the other claims, those gc can judge.
* `main.rs:3298-3301` and `:3324-3326` say that no SSH child holds a namespace during the
  teardown of a batch. The barrier awaits every probe, but a probe does not await the child of
  an attempt its deadline cut off (`runner.rs:201`, `kill_on_drop` at 259).
  `TeardownAfterWorkers` is about the probes.
* Concurrent snapshot commands: `recover` reads the intents at `snapshot_exec.rs:197`
  and takes the lock at 211 without reading again, so it may abort a transaction that has
  collected its pair meanwhile; a retried abort syncs a jail directory (1480) that the
  first attempt reaped, and errors every time; gc samples the pending transactions once
  (`registry.rs:293`) and may free the claim of one that begins later. Hence `Serial`.
* `snapshot_exec.rs:426-430` says of the receipt probe that a crash leaves it "for the same
  Pending recovery to clear and remove": when the base has died meanwhile, recovery aborts
  without driving, and nothing removes the (perhaps immutable) probe file.
* `main.rs:1937`: a network whose release fails in the drop of `AllocatedClone` is
  only logged, and a cancellation then reports no cleanup failure; gc reclaims the
  claim. `ResidueReported` excepts such bare claims.
* `main.rs:1841-1866`: a signal taken after the commit request was sent yields an
  internal error instead of the signal's code. It fails safe.
* A run whose secrets failed records exit 1 in `result.json` and emits no
  `workload_exited`, or the code of an interrupt that comes first; `SurfacesAgree`
  excepts it. SIGTERM followed by SIGINT may report 130 though 143 came first. The record
  of an interrupted finalisation drops `pushed_branch` and `patch_path`.
* `main.rs:4247` calls a failed collection "never fatal to the run"; `run_room_inner`
  returns its error, which `ZeroMeansDone` relies on.
* Packets between `Capture::stop` and the VM's end are not in a witness that calls
  itself complete; `WitnessHonest` is about those before the stop.
* A stopped DNS query to one resolver makes the audit call a host name contained
  although an allowlisted resolver may have answered. The gate judges closed runs only, where
  `ContainedIsStopped` holds.
* `rooms_fwd_isolates` in `isolation.rs` accepts an `-i tap-fc1 -j ACCEPT` above the drops;
  it is called by tests only.

## 4. Proofs

Every safety property of the passing runs is a theorem, for every value of the
constants that satisfies the module's `ASSUME` (TLC evaluates it on every run).
A proof module states an inductive invariant `IndInv`, one lemma per part of it or per
group of actions with one step per action, and the theorems. Type correctness is proved
(`TypeCorrect`) rather than checked by a run.

| module | theorems (property) | constants | assumed of them |
|---|---|---|---|
| `SlotPoolProofs` | `TypeCorrect`, `LiveRoomSafe`, `TapSafe`, `WriterSafe`, `ClaimSafe`, `ReservationSafe` | rooms, gcs, slots, snapshots | actors and null values are distinct, bounds are naturals |
| `SnapshotTxnProofs` | `TypeCorrect`, `PublishedSafe` (`PublishedComplete`), `ReapSafe` (`NoTxnUnderReap`), `ReservationSafe` (`ReservationPermanent`), `ProbeSafe` (`ProbeCleared`), `SlotSafe` (`SlotFollowsTxn`) | bases, rooms, commands | null values are distinct, commands are finitely many |
| `RestoreTxnProofs` | `TypeCorrect`, `CloneLeavesSafe` (`CloneLeavesClean`), `NetworkSafe` (`NetworkUnderLease`), `TombstoneSafe` (`TombstoneCovers`) | rooms, clones, gcs, crews | actors are distinct |
| `CloneNetPoolProofs` | `TypeCorrect`, `DevicesSafe` (`DevicesAccounted`), `NetworkSafe` (`NetworkInUseKept`), `PoolFullSafe` (`PoolFullIsClean`), `Refinement` (`HostExclusive`) | state directories, batches, members, gcs, indices | members and gcs are distinct, at least one index |
| `CloneNetPoolProofs` | `PreflightSafe` (`NetworksRouted`), `AnyHostRouted` of `RoutePreflight` | width of an address | 7 to 32 bits |
| `CloneBatchProofs` | `TypeCorrect`, `SuccessSafe` (`SuccessIsCommitted`), `ResidueSafe` (`ResidueReported`), `TeardownSafe` (`TeardownAfterWorkers`), `SourceSafe` (`OneSource`) | members, lease bound, signals | at least one member and no more than leases, as `parse_clone_count` enforces; signals are 130 and 143 |
| `VsockSessionProofs` | `TypeCorrect`, `PayloadSafe` (`PayloadToOne`), `SuccessSafe` (`SuccessIsEarned`), `ClockSafe` (`IngressClockFresh`) | candidates, connections, queue, ticks per second, budgets | positive numbers |
| `RunOutcomeProofs` | `TypeCorrect`, `StreamSafe` (`StreamOrdered`), `SurfacesSafe` (`SurfacesAgree`), `ZeroSafe` (`ZeroMeansDone`), `WitnessSafe` (`WitnessHonest`) | jobs, options, signals, guest exit codes | jobs and options are the CLI's; an exit code is an integer other than the sentinel `NoCode`, which stands for an absent one |
| `FirewallProofs` | `TypeCorrect`, `ClonesStayGuarded`, `ClonesAreIsolated` (`ClonesIsolated`), `ClonesAreEnforced`, `AnyTableVerified`, `FlatStaysReady`, `RoomsAreEnforced` (`EgressEnforced`), `ContainedRoomsAreStopped` (`ContainedIsStopped`) | taps, veths, crews, whether chains are edited | interfaces of rooms have names of their own, crews consist of them |

None of the properties is inductive alone; what the invariants add:

**SlotPool.** What each process may rely on between two steps.

* `LockInv`: a process inside a critical section holds the lock. This is what
  excludes two processes that both passed the owner comparison.
* `IndexInv`: a claim can only be in the index its CLI remembers.
* `BootInv`: how far a boot has got says which of dir, device and VM exist, and a
  booting CLI owns its claim as long as its VM has not died (a dead VM's room may
  be reaped by gc under a CLI that is still up).
* `LiveInv`: a running VM has its dir, its claim and its device.
* `TeardownInv`: a process past `RemoveRoomDir` knows the room has no VM and no dir,
  and a dir never comes back; past `FreeHold` the file is the room's claim.
* `GcInv`: a gc that judged a claim dead knows that its CLI has ended for good, so a
  claim found unchanged under the lock is still that room's; past `ReconcileHold`
  there is no dir and hence, by `LiveInv`, no VM.

**SnapshotTxn.** The intent a process has in memory may be stale, so the driver can rely
only on facts no later step takes back: a reserved slot stays the snapshot's, a dead VM
stays dead, a reaped home stays gone, a receipt stays in the index. `Reached` says which
of them a boundary implies, and holds of an intent wherever it is kept (`KeptStep`: no step
undoes it). `ProcInv` is what a process knows under the base's lock; `Moves` and `Quiet`
are the frame: a step leaves the files of a base that another process holds alone.
`SerialInv` is for crews of one command at a time and adds that memory and disk agree;
`ProbeCleared` and `SlotFollowsTxn` are about those crews (section 3, known limits).

**RestoreTxn.** `LockInv` is what the slot lock gives whatever gc and kill pick:
between `hold_lease_for_teardown` and `return_to_reservation` the lease stays with the room
whose network is freed. `CloneLeavesSafe` follows from it alone. The rest is about rooms
outside `met`: whoever else tears one down found it past its launch and dead, so no file, lease
or device of it comes back and no VM of it starts (`ActorInv`, `LaunchInv`); and a teardown
of a room inside `met`, however untimely, changes only what that room's own token, device
name and files allow (`HoldInv`). No theorem has a hypothesis on the constants beyond the `ASSUME`.

**CloneNetPool.** One actor at a time works on the network of a room: its own thread while
the process lives, afterwards whichever gc holds the lock of its state directory
(`Exclusive`). A step touches the claim, marker and devices of that room only (`Effect`),
so what all others rely on stands (`Frame`). For the refinement every step is sorted into one
that takes a marker, drops one, changes devices under a marker, or none (`MarkStep`,
`UnmarkStep`, `DevStep`), each a step of `HostNets` or a stutter.

**CloneBatch.** `MemberInv` says where a member may be in each phase of the process.
`SignalInv`: a listener that took a signal never acknowledges a commit and one that
acknowledged never takes a signal. `OutcomeInv` is what was reported, which is decided
from both in the last step.

**VsockSession.** `CandInv` and `AcceptInv`: the agent has at most one connection open, the last, and
it is the one the host accepted when it follows its script. `ToGuestInv`: the CLOCK frame is
in flight at most once, and never after the agent knows its challenge; `ToHostInv`: an answer in
flight is one its sender was entitled to, with a challenge it has read. `AgentInv` and `ClockInv`
tie the two positions together: past the clock step the guest's lag is within the
host's own measure of it (`Dated`), which `Validate` bounds by the budget, so the lag is below
budget plus truncation (`Fresh`) before CONTINUE leaves; and a clock that was measured is not
set again. The lengths and steps of the scripts are lemmas (`HostTable`, `AgentTable`), and so is
what a prefix of a script has done (`DoneGrows`).

**RunOutcome.** A run walks down one line of phases: `WorkInv` says what each
phase has decided, `StoryInv` what it has not yet emitted, `RecordInv` and `AgreeInv` what the
record may say, `CaptureInv` and `HonestInv` what the capture missed. The stream only grows, so
its order is kept by a step that emits nothing whose successor is already there
(`OrderStep`).

**Firewall.** A rule guards a room when every rule ahead of it is harmless to the room:
the guard itself, a drop or a log, or a rule the room's packets do not enter
(`Shields`); a packet that the guard matches then never meets an accept first
(`ShieldDecides`). A step puts in or takes out one rule of the acting room's own
interface (`StepTable`), so the guards of all other rooms stay (`ShieldKept`).
`CloneInv`: a clone that runs has its binding, the four drops, its jump and, under
`none`, its INPUT drop as guards, `FORWARD` reaches the clone chain, and the flat chain
lets its packets pass. Its own last step before running is a verification of the dumps, which
finds all of that (`VerifiedGuards`, from the shape that `rooms_veth_fwd_isolates` accepts).
Nothing here depends on what the host's chains were at first: `AnyTableVerified` starts
from any table. A flat room does not verify; `FlatInv` says that the ACCEPT of the supernet has
only drops and jumps of taps before it, that the rank a room computed is not below this
ACCEPT when it inserts, and hence that its jump is a guard. Clones do not touch
`ROOMS_FWD`. Another flat room's insertion moves the ACCEPT down, which does no harm
(`RankKept`); its removal moves the ACCEPT up, which is harmless before the dump and
after the jump, and in between puts the room in `raced`, the one exception of the
property. Any number of flat rooms may be driven at a time.

**RoutePreflight.** `RouteInv`: an accepted host has the default RPDB
(`RuleListsRefused`), every route is disjoint or a marked clone's, and every marked clone has its
link route. A route that covers the guest's address overlaps the supernet, so it was
judged: it is a throw in table `local`, a catch-all elsewhere, or the clone's own link
route (`GuestRoute`), and the lookup can only end at the last. The provers do not know
exponents with a variable, so the 33 powers of two are tabulated (`Powers`); the
quotients then become bounds. `AnyHostRouted` starts from any set of aligned routes.

The action properties (`ReservationPermanent`, `CloneLeavesClean`, those of `SlotPool`) are
proved from the invariant and one step.

Only model-checked:

* liveness: all leads-to and termination properties of the runs (fairness and `ENABLED` are
  outside the prover).

Not claimed:

* anything about a restore's lease, device and tombstone once a gc or kill has met it in its
  launch (`RestoreTxnGcRace`), or about the egress of a flat room whose
  chain was changed under its installation (`FirewallRace`): the code promises nothing
  there;
* anything about a flat room on a host whose chains differ from those of `setup-tap.sh`: its
  install proves nothing about them.

## 5. Not modelled

* The address arithmetic of `slot.rs`'s `derive` and the text of tokens, rules and routes.
  In `SlotPool` the device stands for itself and its egress chain; `Firewall` has the chain.
* The claim on the output directory of a snapshot; the compatibility rules of a restore
  (`restore::plan_restore`): a comparison of recorded digests and versions.
* API configuration of a booting VM, rendering, argument parsing, quoting.
* Admission of images, tools and matrices (`rootfs.rs`, `toolstore.rs`, `matrix.rs`): one
  pass over input files without state. `artifacts::load` and the pcap and change-set
  decoders, likewise.
* `doctor` and `preflight` beyond the sample gc acts on: they read and print.
* Resolution of allowlisted names; IPv6 (the policies and the substrate are about IPv4).
* Pid reuse: probe compares start times, so a recycled pid is a dead one.

## 6. Plan

Done: all modules above; the proofs of section 4.

Left, in the order of what it would say about the system:

1. Concurrent snapshot commands (`ProbeCleared` and `SlotFollowsTxn` are about crews of one
   command at a time; section 3, known limits).
2. The changes of the host between the routing preflight and the create plan.
3. Admission of images, tools and matrices, should it come to keep state.
