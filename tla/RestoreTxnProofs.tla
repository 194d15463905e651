-------------------------- MODULE RestoreTxnProofs --------------------------
(***************************************************************************)
(* Proofs about RestoreTxn for any number of restores, clones and gc or    *)
(* kill processes.                                                         *)
(*                                                                         *)
(* HoldInv is what the lock of the slot pool gives by itself: between      *)
(* hold_lease_for_teardown and return_to_reservation the lease stays with  *)
(* the room whose network is freed.  The rest of the invariant speaks of   *)
(* the rooms that no gc and no kill began to tear down untimely (met): a   *)
(* room of theirs that somebody tears down is past its launch, so no file, *)
(* lease or device of it comes back, and no VM of it starts; and what gc   *)
(* and kill do to the other rooms never reaches it.                        *)
(***************************************************************************)
EXTENDS RestoreTxn, FiniteSetTheorems, TLAPS

Unleased == {"new", "planned", "staged", "forked", "described", "spawned", "api"}
Barred   == Unleased \ {"api"}
Holding  == {"leased", "recorded", "slotted", "attached", "loaded"}

(* The lock protects a lease, and the network of the lessee is gone before *)
(* the lease is returned.                                                  *)
HoldInv(a) ==
    LET r == job[a].room IN
    /\ a \in Rooms => r = a
    /\ a \in Gcs /\ pc[a] \notin {"idle", "done"} => r \in Rooms
    /\ lock = a => pc[a] \in {"net", "tap", "return"} /\ Leases(r)
    /\ pc[a] \in {"tap", "return"} => lock = a /\ r \notin net

LockInv ==
    /\ TypeOK
    /\ IsFiniteSet(token.rooms)
    /\ \A a \in Actors : HoldInv(a)

(* What a process that tears r down may rely on.                           *)
ActorInv(a) ==
    LET r == job[a].room IN
    /\ a \in Gcs /\ pc[a] \notin {"idle", "done"} => pc[r] # "new"
    /\ r \notin met /\ pc[a] \in Teardown =>
         /\ a \in Gcs => pc[r] \notin Launch
         /\ ~Lives(r)
         /\ pc[a] # "reap" => dir[r] = "none"
         /\ pc[a] \in {"net", "index"} /\ lock # a => ~Leases(r)
         /\ pc[a] = "return" => tap # r

(* How far the launch of r came.                                           *)
LaunchInv(r) ==
    /\ pc[r] = "new" => intent[r] = "none" /\ dir[r] = "none" /\ ~Lives(r)
    /\ r \notin met =>
         /\ pc[r] = "planned" => dir[r] = "none"
         /\ pc[r] \in Launch => intent[r] # "none" /\ vm[r] # "running"
         /\ pc[r] \in Unleased => ~Leases(r)
         /\ pc[r] \in Barred => ~Lives(r)
         /\ pc[r] \in Holding \cup {"spawned", "api"} => intent[r] \in {"spawned", "leased"}
         /\ pc[r] \in Holding => Leases(r)
         /\ pc[r] = "loaded" => r \in net \/ tap = r

IndInv ==
    /\ LockInv
    /\ NetworkUnderLease
    /\ TombstoneCovers
    /\ \A a \in Actors : ActorInv(a)
    /\ \A r \in Rooms : LaunchInv(r)

-----------------------------------------------------------------------------
(* The operators on tokens                                                 *)

(* The slot stays frozen for Snap: to hold a lease is to be named.         *)
LEMMA TokenShape ==
    ASSUME NEW t \in FrozenToken
    PROVE  /\ \A r : LeasedBy(t, Snap, r) <=> r \in t.rooms
           /\ t.rooms \subseteq Rooms
           /\ \A r \in Rooms \ Clones : r \in t.rooms => t = Leased(Snap, r)
           /\ t.kind = "clones" => t.rooms \subseteq Clones
BY RestoreAssumption
   DEF FrozenToken, LeasedBy, Reserved, Leased, CloneLeases

(* The tokens the operations write are tokens of the snapshot.             *)
LEMMA FrozenMembers ==
    /\ Reserved(Snap) \in FrozenToken
    /\ \A r \in Rooms \ Clones : Leased(Snap, r) \in FrozenToken
    /\ \A rs \in SUBSET Clones : rs # {} => CloneLeases(Snap, rs) \in FrozenToken
<1>1. ASSUME NEW rs \in SUBSET Clones, rs # {}
      PROVE  CloneLeases(Snap, rs) \in {CloneLeases(Snap, x) : x \in (SUBSET Clones) \ {{}}}
  <2>1. rs \in (SUBSET Clones) \ {{}}
    BY <1>1
  <2> QED
    BY <2>1
<1> QED
  BY <1>1 DEF FrozenToken

(* A lease adds the room, and the set of clones stays within its bound.    *)
LEMMA LeaseToken ==
    ASSUME NEW t \in FrozenToken, IsFiniteSet(t.rooms),
           Cardinality(t.rooms) <= MaxCloneLeases, NEW r \in Rooms, NEW u,
           \/ r \notin Clones /\ LeaseOk(t, Snap, r) /\ u = Leased(Snap, r)
           \/ r \in Clones /\ LeaseCloneOk(t, Snap, r) /\ u = LeaseCloneToken(t, Snap, r)
    PROVE  /\ u \in FrozenToken /\ u.rooms = t.rooms \cup {r}
           /\ IsFiniteSet(u.rooms) /\ Cardinality(u.rooms) <= MaxCloneLeases
<1> USE TokenAssumption, RestoreAssumption
<1>1. CASE r \notin Clones
  <2>1. u = Leased(Snap, r) /\ (t = Reserved(Snap) \/ t = Leased(Snap, r))
    BY <1>1 DEF LeaseOk
  <2>2. u \in FrozenToken
    BY <1>1, <2>1, FrozenMembers
  <2>3. u.rooms = t.rooms \cup {r} /\ u.rooms = {r}
    BY <2>1 DEF Leased, Reserved
  <2>4. IsFiniteSet({r}) /\ Cardinality({r}) = 1
    BY FS_Singleton
  <2>5. 1 <= MaxCloneLeases
    OBVIOUS
  <2> QED
    BY <2>2, <2>3, <2>4, <2>5
<1>2. CASE r \in Clones
  <2>1. /\ u = CloneLeases(Snap, t.rooms \cup {r})
        /\ \/ t = Reserved(Snap)
           \/ t.kind = "clones" /\ (r \in t.rooms \/ Cardinality(t.rooms) < MaxCloneLeases)
    BY <1>2 DEF LeaseCloneOk, LeaseCloneToken
  <2>2. t.rooms \subseteq Clones
    BY <2>1, TokenShape DEF Reserved
  <2>3. u \in FrozenToken /\ u.rooms = t.rooms \cup {r}
    <3>1. t.rooms \cup {r} \in SUBSET Clones /\ t.rooms \cup {r} # {}
      BY <1>2, <2>2
    <3>2. CloneLeases(Snap, t.rooms \cup {r}) \in FrozenToken
      BY <3>1, FrozenMembers
    <3> QED
      BY <2>1, <3>2 DEF CloneLeases
  <2>4. /\ IsFiniteSet(u.rooms) /\ Cardinality(t.rooms) \in Nat
        /\ Cardinality(u.rooms) = IF r \in t.rooms THEN Cardinality(t.rooms)
                                                   ELSE Cardinality(t.rooms) + 1
    <3>1. PICK T : T = t.rooms
      OBVIOUS
    <3>2. IsFiniteSet(T)
      BY <3>1
    <3>3. /\ IsFiniteSet(T \cup {r})
          /\ Cardinality(T \cup {r}) = IF r \in T THEN Cardinality(T) ELSE Cardinality(T) + 1
      BY <3>2, FS_AddElement
    <3>4. Cardinality(T) \in Nat
      BY <3>2, FS_CardinalityType
    <3>5. u.rooms = T \cup {r}
      BY <2>3, <3>1
    <3> QED
      BY <3>1, <3>3, <3>4, <3>5, Zenon
  <2>5. t = Reserved(Snap) => Cardinality(t.rooms) = 0
    BY FS_EmptySet DEF Reserved
  <2>6. Cardinality(u.rooms) <= MaxCloneLeases
    <3> DEFINE n == Cardinality(t.rooms)  m == Cardinality(u.rooms)
    <3>1. /\ n \in Nat /\ n <= MaxCloneLeases
          /\ r \in t.rooms => m = n
          /\ r \notin t.rooms => m = n + 1
      <4>1. n \in Nat /\ n <= MaxCloneLeases
        BY <2>4
      <4>2. r \in t.rooms => m = n
        BY <2>4
      <4>3. r \notin t.rooms => m = n + 1
        BY <2>4
      <4> QED
        BY <4>1, <4>2, <4>3
    <3>2. n = 0 \/ r \in t.rooms \/ n < MaxCloneLeases
      BY <2>1, <2>5
    <3> HIDE DEF n, m
    <3>3. m <= MaxCloneLeases
      BY <3>1, <3>2
    <3> QED
      BY <3>3 DEF m
  <2> QED
    BY <2>3, <2>4, <2>6
<1> QED
  BY <1>1, <1>2

(* A release takes out the room and nobody else.                           *)
LEMMA ReleaseToken ==
    ASSUME NEW t \in FrozenToken, IsFiniteSet(t.rooms),
           Cardinality(t.rooms) <= MaxCloneLeases, NEW r \in t.rooms
    PROVE  LET u == AfterRelease(t, Snap, r) IN
           /\ u \in FrozenToken /\ u.rooms = t.rooms \ {r}
           /\ IsFiniteSet(u.rooms) /\ Cardinality(u.rooms) <= MaxCloneLeases
<1> USE TokenAssumption, RestoreAssumption
<1> DEFINE u == AfterRelease(t, Snap, r)
<1>1. u.rooms = t.rooms \ {r}
  BY DEF AfterRelease, Reserved, CloneLeases
<1>2. u \in FrozenToken
  <2>1. CASE t.rooms \ {r} = {}
    BY <2>1, FrozenMembers DEF AfterRelease
  <2>2. CASE t.rooms \ {r} # {}
    <3>1. t.rooms \subseteq Clones
      BY <2>2, TokenShape DEF FrozenToken, Reserved, Leased, CloneLeases
    <3> QED
      BY <2>2, <3>1, FrozenMembers DEF AfterRelease
  <2> QED
    BY <2>1, <2>2
<1>3. /\ IsFiniteSet(u.rooms) /\ Cardinality(u.rooms) = Cardinality(t.rooms) - 1
      /\ Cardinality(t.rooms) \in Nat
  BY <1>1, FS_RemoveElement, FS_CardinalityType
<1> HIDE DEF u
<1>4. Cardinality(u.rooms) <= MaxCloneLeases
  BY <1>3
<1> QED
  BY <1>1, <1>2, <1>3, <1>4 DEF u

-----------------------------------------------------------------------------
(* What the lock gives                                                     *)
USE TokenAssumption, RestoreAssumption
    DEF Actors, Launch, Looking, Teardown, Ended, VmStates, Goto, host

(* Nobody holds the lock at first.                                         *)
LEMMA LockInit == Init => LockInv
<1> SUFFICES ASSUME Init PROVE LockInv
  OBVIOUS
<1>1. token.rooms = {} /\ token \in FrozenToken
  BY FrozenMembers DEF Init, Reserved
<1>2. IsFiniteSet(token.rooms) /\ Cardinality(token.rooms) = 0
  BY <1>1, FS_EmptySet
<1>3. NoJob \in Jobs /\ \A a \in Rooms : [NoJob EXCEPT !.room = a, !.slot = TRUE] \in Jobs
  BY DEF NoJob, Jobs
<1>4. job \in [Actors -> Jobs] /\ \A a \in Rooms : job[a].room = a
  BY <1>3 DEF Init, NoJob
<1>5. PICK crew \in Crews :
        /\ net = Clones \cap crew
        /\ pc = [a \in Actors |-> CASE a \notin crew -> "done"
                                    [] a \in crew \cap Rooms -> "new"
                                    [] a \in crew \cap Gcs -> "idle"]
  BY DEF Init
<1>6. /\ DOMAIN pc = Actors
      /\ \A r \in Rooms : pc[r] \in {"done", "new"}
      /\ \A g \in Gcs : pc[g] \in {"done", "idle"}
  BY <1>5
<1>7. TypeOK
  <2>1. /\ intent \in [Rooms -> {"none", "pre_spawn", "spawned", "leased"}]
        /\ dir \in [Rooms -> {"none", "bare", "meta", "slot"}]
        /\ vm \in [Rooms -> VmStates]
        /\ lock = NoActor /\ tap = NoRoom /\ met = {}
    BY DEF Init
  <2>2. 0 <= MaxCloneLeases
    OBVIOUS
  <2> QED
    BY <1>1, <1>2, <1>4, <1>5, <1>6, <2>1, <2>2 DEF TypeOK
<1>8. ASSUME NEW a \in Actors PROVE HoldInv(a)
  BY <1>4, <1>6 DEF Init, HoldInv
<1> QED
  BY <1>2, <1>7, <1>8 DEF LockInv

(* A step of a leaves the holds of the others alone.                       *)
LEMMA LockFrame ==
    ASSUME LockInv, NEW a \in Actors, TypeOK', IsFiniteSet(token'.rooms), HoldInv(a)',
           \A c \in Actors \ {a} : /\ pc'[c] = pc[c] /\ job'[c] = job[c]
                                   /\ lock' = c <=> lock = c,
           net' \subseteq net, token' = token \/ lock \in {a, NoActor}
    PROVE  LockInv'
<1>1. ASSUME NEW c \in Actors \ {a} PROVE HoldInv(c)'
  <2>1. HoldInv(c)
    BY DEF LockInv
  <2>2. lock = c => token' = token
    BY <1>1
  <2> QED
    BY <2>1, <2>2 DEF HoldInv, Leases
<1> QED
  BY <1>1 DEF LockInv

(* A step of the launch: the launching CLI holds no lock over it.          *)
LEMMA LaunchLock ==
    ASSUME LockInv, NEW r \in Rooms, pc[r] \notin Teardown,
           NEW phase \in Launch \cup {"up", "done", "abort", "reap"}, Goto(r, phase),
           UNCHANGED <<lock, net, job>>,
           \/ token' = token
           \/ /\ lock = NoActor /\ token' \in FrozenToken /\ IsFiniteSet(token'.rooms)
              /\ Cardinality(token'.rooms) <= MaxCloneLeases,
           intent' \in [Rooms -> {"none", "pre_spawn", "spawned", "leased"}],
           tap' \in (Rooms \ Clones) \cup {NoRoom},
           dir' \in [Rooms -> {"none", "bare", "meta", "slot"}],
           vm' \in [Rooms -> VmStates], met' \subseteq Rooms
    PROVE  LockInv'
<1>1. /\ DOMAIN pc' = Actors /\ pc'[r] = phase
      /\ \A c \in Actors \ {r} : pc'[c] = pc[c]
  BY DEF LockInv, TypeOK
<1>2. TypeOK' /\ IsFiniteSet(token'.rooms)
  BY <1>1 DEF LockInv, TypeOK
<1>3. HoldInv(r)'
  <2>1. HoldInv(r)
    BY DEF LockInv
  <2> QED
    BY <1>1, <2>1 DEF HoldInv
<1> QED
  BY <1>1, <1>2, <1>3, LockFrame

(* A process is done with its item, with the lock or without.              *)
LEMMA ReturnLock ==
    ASSUME LockInv, NEW a \in Actors,
           Goto(a, IF a \in Rooms THEN "done" ELSE "idle"), Unlock(a),
           job' = IF a \in Gcs THEN [job EXCEPT ![a] = NoJob] ELSE job,
           net' \subseteq net,
           \/ token' = token
           \/ /\ lock = a /\ token' \in FrozenToken /\ IsFiniteSet(token'.rooms)
              /\ Cardinality(token'.rooms) <= MaxCloneLeases,
           intent' \in [Rooms -> {"none", "pre_spawn", "spawned", "leased"}],
           tap' \in (Rooms \ Clones) \cup {NoRoom},
           dir' \in [Rooms -> {"none", "bare", "meta", "slot"}],
           vm' \in [Rooms -> VmStates], met' \subseteq Rooms
    PROVE  LockInv'
<1>1. /\ DOMAIN pc' = Actors /\ pc'[a] = IF a \in Rooms THEN "done" ELSE "idle"
      /\ \A c \in Actors \ {a} : pc'[c] = pc[c]
  BY DEF LockInv, TypeOK
<1>2. /\ job' \in [Actors -> Jobs]
      /\ \A c \in Actors : c \notin Gcs \/ c # a => job'[c] = job[c]
  <2>1. NoJob \in Jobs
    BY DEF NoJob, Jobs
  <2> QED
    BY <2>1 DEF LockInv, TypeOK
<1>3. lock' \in Actors \cup {NoActor} /\ lock' # a /\ \A c \in Actors \ {a} : lock' = c <=> lock = c
  BY DEF LockInv, TypeOK, Unlock
<1>4. TypeOK' /\ IsFiniteSet(token'.rooms)
  BY <1>1, <1>2, <1>3 DEF LockInv, TypeOK
<1>5. HoldInv(a)'
  <2>1. HoldInv(a)
    BY DEF LockInv
  <2> QED
    BY <1>1, <1>2, <1>3, <2>1 DEF HoldInv
<1> QED
  BY <1>1, <1>2, <1>3, <1>4, <1>5, LockFrame

(* A gc picks room r, or goes on with it, before it takes the lock.        *)
LEMMA GcLock ==
    ASSUME LockInv, NEW g \in Gcs, pc[g] \notin Teardown,
           NEW r \in Rooms, NEW j \in Jobs, j.room = r,
           NEW phase \in Looking \cup {"reap"}, Goto(g, phase),
           job' = [job EXCEPT ![g] = j], UNCHANGED <<intent, host, dir>>,
           vm' \in [Rooms -> VmStates], met' \subseteq Rooms
    PROVE  LockInv'
<1>1. /\ DOMAIN pc' = Actors /\ pc'[g] = phase /\ \A c \in Actors \ {g} : pc'[c] = pc[c]
      /\ job' \in [Actors -> Jobs] /\ job'[g] = j
      /\ \A c \in Actors \ {g} : job'[c] = job[c]
  BY DEF LockInv, TypeOK
<1>2. TypeOK' /\ IsFiniteSet(token'.rooms)
  BY <1>1 DEF LockInv, TypeOK
<1>3. HoldInv(g)'
  <2>1. HoldInv(g)
    BY DEF LockInv
  <2> QED
    BY <1>1, <2>1 DEF HoldInv
<1> QED
  BY <1>1, <1>2, <1>3, LockFrame

(* A teardown goes on to its next phase.                                   *)
LEMMA TeardownLock ==
    ASSUME LockInv, NEW a \in Actors, pc[a] \in Teardown,
           NEW phase \in Teardown, Goto(a, phase), UNCHANGED <<intent, vm, job, met>>,
           lock' \in Actors \cup {NoActor},
           \A c \in Actors \ {a} : lock' = c <=> lock = c,
           net' \subseteq net,
           \/ token' = token
           \/ /\ lock = a /\ token' \in FrozenToken /\ IsFiniteSet(token'.rooms)
              /\ Cardinality(token'.rooms) <= MaxCloneLeases,
           tap' \in (Rooms \ Clones) \cup {NoRoom},
           dir' \in [Rooms -> {"none", "bare", "meta", "slot"}],
           lock' = a => phase \in {"net", "tap", "return"} /\ Leases(job[a].room)',
           phase \in {"tap", "return"} => lock' = a /\ job[a].room \notin net'
    PROVE  LockInv'
<1>1. DOMAIN pc' = Actors /\ pc'[a] = phase /\ \A c \in Actors \ {a} : pc'[c] = pc[c]
  BY DEF LockInv, TypeOK
<1>2. TypeOK' /\ IsFiniteSet(token'.rooms)
  BY <1>1 DEF LockInv, TypeOK
<1>3. HoldInv(a)'
  <2>1. HoldInv(a)
    BY DEF LockInv
  <2>2. a \in Gcs => job[a].room \in Rooms
    BY <2>1 DEF HoldInv
  <2> QED
    BY <1>1, <2>1, <2>2 DEF HoldInv, Leases
<1> QED
  BY <1>1, <1>2, <1>3, LockFrame

(* Every step of the launch keeps the lock's invariant.                    *)
LEMMA LaunchStepLock ==
    ASSUME LockInv, NEW r \in Rooms, LaunchStep(r)
    PROVE  LockInv'
<1>1. CASE TakeLease(r)
  <2>1. /\ token' \in FrozenToken /\ IsFiniteSet(token'.rooms)
        /\ Cardinality(token'.rooms) <= MaxCloneLeases
    BY <1>1, LeaseToken DEF TakeLease, LockInv, TypeOK
  <2>2. UNCHANGED <<intent, tap, dir, vm, lock, net, job, met>> /\ lock = NoActor
    BY <1>1 DEF TakeLease
  <2>3. pc[r] \notin Teardown /\ Goto(r, "leased")
    BY <1>1 DEF TakeLease
  <2> QED
    BY <2>1, <2>2, <2>3, LaunchLock DEF LockInv, TypeOK
<1>2. CASE ~TakeLease(r)
  <2>1. \E phase \in Launch \cup {"up", "done", "abort", "reap"} :
          pc[r] \notin Teardown /\ Goto(r, phase)
    BY <1>2 DEF LaunchStep, CreateIntent, StageJail, SpawnBarriered,
       WriteRoomMeta,
       RecordSpawned, ReleaseBarrier, RecordLeased, RecordSlot, AttachLeasedSlot,
       LoadSnapshot, ResumeVm, Keep, Abort, GuardKill
  <2>2. UNCHANGED <<token, lock, net, job, met>>
    BY <1>2 DEF LaunchStep, CreateIntent, StageJail, SpawnBarriered,
       WriteRoomMeta,
       RecordSpawned, ReleaseBarrier, RecordLeased, RecordSlot, AttachLeasedSlot,
       LoadSnapshot, ResumeVm, Keep, Abort, GuardKill
  <2>3. /\ intent' \in [Rooms -> {"none", "pre_spawn", "spawned", "leased"}]
        /\ tap' \in (Rooms \ Clones) \cup {NoRoom}
        /\ dir' \in [Rooms -> {"none", "bare", "meta", "slot"}]
        /\ vm' \in [Rooms -> VmStates] /\ met' \subseteq Rooms
    BY <1>2, <2>2 DEF LaunchStep, CreateIntent, StageJail, SpawnBarriered,
       WriteRoomMeta,
       RecordSpawned, ReleaseBarrier, RecordLeased, RecordSlot, AttachLeasedSlot,
       LoadSnapshot, ResumeVm, Keep, Abort, GuardKill, LockInv, TypeOK
  <2> QED
    BY <2>1, <2>2, <2>3, LaunchLock
<1> QED
  BY <1>1, <1>2

(* So does every step of a teardown.                                       *)
LEMMA TeardownStepLock ==
    ASSUME LockInv, NEW a \in Actors, TeardownStep(a)
    PROVE  LockInv'
<1> DEFINE r == job[a].room
<1>1. HoldInv(a) /\ TypeOK /\ IsFiniteSet(token.rooms)
  BY DEF LockInv
<1>2. pc[a] \in Teardown
  BY DEF TeardownStep, ReapRoomOnly, HoldLease, FreeCloneNet, DeleteTap,
     ReturnLease,
         FinishIndex
<1>3. r \in Rooms
  BY <1>1, <1>2 DEF HoldInv, TypeOK
<1>4. /\ dir \in [Rooms -> {"none", "bare", "meta", "slot"}]
      /\ intent \in [Rooms -> {"none", "pre_spawn", "spawned", "leased"}]
      /\ vm \in [Rooms -> VmStates]
      /\ tap \in (Rooms \ Clones) \cup {NoRoom} /\ net \subseteq Clones
      /\ lock \in Actors \cup {NoActor} /\ met \subseteq Rooms
  BY <1>1 DEF TypeOK
<1>5. CASE ReapRoomOnly(a)
  <2>1. lock # a /\ UNCHANGED <<intent, vm, token, lock, tap, net, met>>
    BY <1>1, <1>5 DEF ReapRoomOnly, HoldInv
  <2>2. dir' \in [Rooms -> {"none", "bare", "meta", "slot"}]
    BY <1>3, <1>4, <1>5 DEF ReapRoomOnly
  <2>3. \/ Goto(a, "hold") /\ UNCHANGED job
        \/ Return(a) /\ Unlock(a)
    BY <1>5, <2>1 DEF ReapRoomOnly, Unlock
  <2>4. CASE Goto(a, "hold") /\ UNCHANGED job
    BY <1>2, <1>4, <2>1, <2>2, <2>4, TeardownLock
  <2>5. CASE Return(a) /\ Unlock(a)
    BY <1>4, <2>1, <2>2, <2>5, ReturnLock DEF Return
  <2> QED
    BY <2>3, <2>4, <2>5
<1>6. CASE HoldLease(a)
  <2>1. UNCHANGED <<intent, token, tap, net, dir, vm, job, met>> /\ Goto(a, "net")
    BY <1>6 DEF HoldLease
  <2>2. /\ lock' \in Actors \cup {NoActor}
        /\ \A c \in Actors \ {a} : lock' = c <=> lock = c
        /\ lock' = a => Leases(r)
    BY <1>6 DEF HoldLease
  <2>3. lock' = a => Leases(r)'
    BY <2>1, <2>2 DEF Leases
  <2> QED
    BY <1>2, <1>4, <2>1, <2>2, <2>3, TeardownLock
<1>7. CASE FreeCloneNet(a)
  <2>1. UNCHANGED <<intent, token, tap, dir, vm, met>> /\ net' \subseteq net
    BY <1>7 DEF FreeCloneNet
  <2>2. \/ /\ net' = net \ {r} /\ UNCHANGED <<lock, job>>
           /\ Goto(a, IF lock = a THEN "tap" ELSE "index")
        \/ Return(a) /\ Unlock(a)
    BY <1>7 DEF FreeCloneNet
  <2>3. CASE /\ net' = net \ {r} /\ UNCHANGED <<lock, job>>
             /\ Goto(a, IF lock = a THEN "tap" ELSE "index")
    <3>1. lock = a => Leases(r)'
      BY <1>1, <2>1, <2>3 DEF HoldInv, Leases
    <3>2. CASE lock = a
      BY <1>2, <1>4, <2>1, <2>3, <3>1, <3>2, TeardownLock
    <3>3. CASE lock # a
      BY <1>2, <1>4, <2>1, <2>3, <3>3, TeardownLock
    <3> QED
      BY <3>2, <3>3
  <2>4. CASE Return(a) /\ Unlock(a)
    BY <1>4, <2>1, <2>4, ReturnLock DEF Return
  <2> QED
    BY <2>2, <2>3, <2>4
<1>8. CASE DeleteTap(a)
  <2>1. /\ UNCHANGED <<intent, token, net, dir, vm, met>>
        /\ tap' \in (Rooms \ Clones) \cup {NoRoom}
    BY <1>4, <1>8 DEF DeleteTap
  <2>2. \/ Goto(a, "return") /\ UNCHANGED <<lock, job>>
        \/ Return(a) /\ Unlock(a)
    BY <1>8 DEF DeleteTap
  <2>3. CASE Goto(a, "return") /\ UNCHANGED <<lock, job>>
    <3>1. lock = a /\ r \notin net
      BY <1>1, <1>8 DEF HoldInv, DeleteTap
    <3>2. Leases(r)'
      BY <1>1, <2>1, <2>3, <3>1 DEF HoldInv, Leases
    <3> QED
      BY <1>2, <1>4, <2>1, <2>3, <3>1, <3>2, TeardownLock
  <2>4. CASE Return(a) /\ Unlock(a)
    BY <1>4, <2>1, <2>4, ReturnLock DEF Return
  <2> QED
    BY <2>2, <2>3, <2>4
<1>9. CASE ReturnLease(a)
  <2>1. UNCHANGED <<intent, tap, net, dir, vm, met>> /\ Unlock(a) /\ lock = a
    BY <1>1, <1>9 DEF ReturnLease, HoldInv
  <2>2. r \in token.rooms /\ token \in FrozenToken
    BY <1>1, <2>1, TokenShape DEF HoldInv, Leases, TypeOK
  <2>3. CASE token' = AfterRelease(token, Snap, r) /\ Goto(a, "index") /\ UNCHANGED job
    <3>1. /\ token' \in FrozenToken /\ IsFiniteSet(token'.rooms)
          /\ Cardinality(token'.rooms) <= MaxCloneLeases
      BY <1>1, <2>2, <2>3, ReleaseToken DEF TypeOK
    <3>2. lock' = NoActor /\ \A c \in Actors \ {a} : lock' # c /\ lock # c
      BY <2>1 DEF Unlock
    <3>3. lock' \in Actors \cup {NoActor} /\ lock' # a
      BY <3>2
    <3> QED
      BY <1>2, <1>4, <2>1, <2>3, <3>1, <3>2, <3>3, TeardownLock
  <2>4. CASE Return(a) /\ UNCHANGED token
    BY <1>4, <2>1, <2>4, ReturnLock DEF Return
  <2> QED
    BY <1>9, <2>3, <2>4 DEF ReturnLease
<1>10. CASE FinishIndex(a)
  <2>1. lock # a /\ UNCHANGED <<token, lock, tap, net, dir, vm, met>> /\ Return(a)
    BY <1>1, <1>10 DEF FinishIndex, HoldInv
  <2>2. intent' \in [Rooms -> {"none", "pre_spawn", "spawned", "leased"}]
    BY <1>3, <1>4, <1>10 DEF FinishIndex
  <2> QED
    BY <1>4, <2>1, <2>2, ReturnLock DEF Return, Unlock
<1> QED
  BY <1>5, <1>6, <1>7, <1>8, <1>9, <1>10 DEF TeardownStep

(* So does a gc or kill that looks for work, whatever room it picks.       *)
LEMMA GcStepLock ==
    ASSUME LockInv, NEW g \in Gcs,
           GcStep(g) \/ \E r \in Rooms : GcRead(g, r) \/ ListDead(g, r) \/ KillFind(g, r)
    PROVE  LockInv'
<1>1. HoldInv(g) /\ TypeOK /\ job[g] \in Jobs
  BY DEF LockInv, TypeOK
<1>2. CASE \E r \in Rooms : GcRead(g, r) \/ ListDead(g, r) \/ KillFind(g, r)
  <2>1. PICK r \in Rooms : GcRead(g, r) \/ ListDead(g, r) \/ KillFind(g, r)
    BY <1>2
  <2>2. \E b1 \in BOOLEAN, b2 \in BOOLEAN :
          job' = [job EXCEPT ![g] = [room |-> r, slot |-> b1, fenced |-> b2]]
    BY <2>1 DEF GcRead, ListDead, KillFind
  <2>3. PICK j \in Jobs : j.room = r /\ job' = [job EXCEPT ![g] = j]
    BY <2>2 DEF Jobs
  <2>4. PICK phase \in Looking : Goto(g, phase)
    BY <2>1 DEF GcRead, ListDead, KillFind
  <2>5. pc[g] \notin Teardown /\ UNCHANGED <<intent, host, dir, vm, met>>
    BY <2>1 DEF GcRead, ListDead, KillFind
  <2> QED
    BY <1>1, <2>3, <2>4, <2>5, GcLock DEF TypeOK
<1>3. CASE GcStep(g)
  <2>1. /\ pc[g] \in Looking /\ UNCHANGED <<intent, host, dir>>
        /\ (Goto(g, "reap") /\ UNCHANGED job) \/ Return(g)
    BY <1>3 DEF GcStep, ReconcileOne, ReapEntry, KillTerminate, BeginReap
  <2>2. job[g].room \in Rooms /\ lock # g
    BY <1>1, <2>1 DEF HoldInv
  <2>3. vm' \in [Rooms -> VmStates] /\ met' \subseteq Rooms
    BY <1>1, <1>3, <2>2 DEF GcStep, ReconcileOne, ReapEntry, KillTerminate,
       BeginReap, TypeOK
  <2>4. CASE Goto(g, "reap") /\ UNCHANGED job
    <3>1. job' = [job EXCEPT ![g] = job[g]]
      BY <1>1, <2>4 DEF TypeOK
    <3> QED
      BY <1>1, <2>1, <2>2, <2>3, <2>4, <3>1, GcLock
  <2>5. CASE Return(g)
    BY <1>1, <2>1, <2>2, <2>3, <2>5, ReturnLock DEF Return, Unlock, TypeOK
  <2> QED
    BY <2>1, <2>4, <2>5
<1> QED
  BY <1>2, <1>3

(* Every step keeps the lock discipline, whatever gc and kill meet.         *)
LEMMA LockStep == LockInv /\ [Next]_vars => LockInv'
<1> SUFFICES ASSUME LockInv, [Next]_vars PROVE LockInv'
  OBVIOUS
<1>1. ASSUME NEW r \in Rooms, VmDies(r) PROVE LockInv'
  <2>1. UNCHANGED <<intent, token, lock, tap, net, dir, pc, job, met>>
    BY <1>1 DEF VmDies
  <2>2. vm' \in [Rooms -> VmStates]
    BY <1>1 DEF VmDies, LockInv, TypeOK
  <2> QED
    BY <2>1, <2>2 DEF LockInv, TypeOK, HoldInv, Leases
<1>2. ASSUME NEW a \in Actors, Crash(a) PROVE LockInv'
  <2>1. vm' \in [Rooms -> VmStates]
    BY <1>2 DEF Crash, LockInv, TypeOK
  <2> QED
    BY <1>2, <2>1, ReturnLock DEF Crash, LockInv, TypeOK
<1>3. CASE UNCHANGED vars
  BY <1>3 DEF vars, LockInv, TypeOK, HoldInv, Leases
<1> QED
  BY <1>1, <1>2, <1>3, LaunchStepLock, TeardownStepLock, GcStepLock DEF Next

(* Whatever gc picks, the invariant of the lock holds.                     *)
THEOREM LockInvariance == Spec => []LockInv
BY LockInit, LockStep, PTL DEF Spec

(* Every variable keeps its type: the slot stays frozen for its snapshot   *)
(* and the set of clones within MAX_CLONE_LEASES.                          *)
THEOREM TypeCorrect == Spec => []TypeOK
<1>1. LockInv => TypeOK
  BY DEF LockInv
<1> QED
  BY <1>1, LockInvariance, PTL

(* Only a holder's return takes the lease of a room.                       *)
LEMMA LeaseLost ==
    ASSUME LockInv, [Next]_vars, NEW r \in Rooms, Leases(r), ~Leases(r)'
    PROVE  \E a \in Actors : pc[a] = "return" /\ job[a].room = r
<1>1. token' # token /\ r \in token.rooms /\ token \in FrozenToken
  BY TokenShape DEF Leases, LockInv, TypeOK
<1>2. \/ \E q \in Rooms : TakeLease(q)
      \/ \E a \in Actors : ReturnLease(a)
  BY <1>1 DEF Next, vars, LaunchStep, TeardownStep, GcStep, CreateIntent,
     StageJail,
     SpawnBarriered, WriteRoomMeta, RecordSpawned, ReleaseBarrier, RecordLeased,
     RecordSlot, AttachLeasedSlot, LoadSnapshot, ResumeVm, Keep, Abort, GuardKill,
     ReapRoomOnly, HoldLease, FreeCloneNet, DeleteTap, FinishIndex, GcRead,
     ReconcileOne, ListDead, ReapEntry, KillFind, KillTerminate, VmDies, Crash
<1>3. CASE \E q \in Rooms : TakeLease(q)
  <2>1. PICK q \in Rooms : TakeLease(q)
    BY <1>3
  <2>2. token' \in FrozenToken /\ token'.rooms = token.rooms \cup {q}
    BY <2>1, LeaseToken DEF TakeLease, LockInv, TypeOK
  <2> QED
    BY <1>1, <2>2, TokenShape DEF Leases
<1>4. CASE \E a \in Actors : ReturnLease(a)
  <2>1. PICK a \in Actors : ReturnLease(a)
    BY <1>4
  <2>2. HoldInv(a)
    BY DEF LockInv
  <2>3. pc[a] = "return" /\ token' = AfterRelease(token, Snap, job[a].room)
    BY <1>1, <2>1 DEF ReturnLease
  <2>4. job[a].room \in token.rooms
    BY <1>1, <2>2, <2>3, TokenShape DEF HoldInv, Leases
  <2>5. token' \in FrozenToken /\ token'.rooms = token.rooms \ {job[a].room}
    BY <1>1, <2>3, <2>4, ReleaseToken DEF LockInv, TypeOK
  <2> QED
    BY <1>1, <2>3, <2>5, TokenShape DEF Leases
<1> QED
  BY <1>2, <1>3, <1>4

(* A clone leaves the lease set only when its network is gone, even when   *)
(* gc tears down a room that is still being launched.                      *)
THEOREM CloneLeavesSafe == Spec => CloneLeavesClean
<1>1. LockInv /\ [Next]_vars =>
        [\A r \in Clones : Leases(r) /\ ~Leases(r)' => r \notin net]_vars
  <2> SUFFICES ASSUME LockInv, [Next]_vars, NEW r \in Clones, Leases(r), ~Leases(r)'
               PROVE  r \notin net
    OBVIOUS
  <2>1. PICK a \in Actors : pc[a] = "return" /\ job[a].room = r
    BY LeaseLost
  <2> QED
    BY <2>1 DEF LockInv, HoldInv
<1> QED
  BY <1>1, LockInvariance, PTL DEF Spec, CloneLeavesClean

-----------------------------------------------------------------------------
(* What holds for the rooms that gc and kill did not disturb               *)

(* The state before any restore satisfies the invariant.                   *)
LEMMA InitInv == Init => IndInv
<1> SUFFICES ASSUME Init PROVE IndInv
  OBVIOUS
<1>1. LockInv
  BY LockInit
<1>2. \A r : ~Leases(r)
  BY DEF Init, Leases, LeasedBy, Reserved
<1>3. /\ \A r \in Rooms : pc[r] \in {"done", "new"}
      /\ \A g \in Gcs : pc[g] \in {"done", "idle"}
  BY DEF Init
<1>4. /\ tap = NoRoom
      /\ \A r \in Rooms : vm[r] = "none" /\ dir[r] = "none" /\ intent[r] = "none"
  BY DEF Init
<1>5. NetworkUnderLease /\ TombstoneCovers
  BY <1>2, <1>4 DEF NetworkUnderLease, TombstoneCovers, Undisturbed, Lives
<1>6. \A a \in Actors : ActorInv(a)
  BY <1>3 DEF ActorInv
<1>7. \A r \in Rooms : LaunchInv(r)
  BY <1>2, <1>3, <1>4 DEF LaunchInv, Lives, Holding
<1> QED
  BY <1>1, <1>5, <1>6, <1>7 DEF IndInv

(* What is known of r at any time, in terms of the token's rooms.          *)
LEMMA RoomFacts ==
    ASSUME IndInv, NEW r \in Rooms
    PROVE  /\ \A q : Leases(q) <=> q \in token.rooms
           /\ LaunchInv(r)
           /\ r \in Clones => tap # r
           /\ r \notin Clones => r \notin net
           /\ r \notin met =>
                /\ tap = r => r \in token.rooms
                /\ vm[r] = "running" => r \in token.rooms /\ (r \in net \/ tap = r)
                /\ dir[r] # "none" \/ r \in token.rooms => intent[r] # "none"
                /\ vm[r] \in {"started", "running"} => intent[r] \in {"spawned", "leased"}
<1>1. /\ \A q : Leases(q) <=> q \in token.rooms
      /\ tap \in (Rooms \ Clones) \cup {NoRoom} /\ net \subseteq Clones
  BY TokenShape DEF IndInv, LockInv, TypeOK, Leases
<1>2. r \notin met => (tap = r => r \in token.rooms)
  BY DEF IndInv, NetworkUnderLease, Undisturbed, Leased
<1>3. r \notin met =>
        /\ vm[r] = "running" => r \in token.rooms /\ (r \in net \/ tap = r)
        /\ dir[r] # "none" \/ r \in token.rooms => intent[r] # "none"
        /\ vm[r] \in {"started", "running"} => intent[r] \in {"spawned", "leased"}
  BY <1>1 DEF IndInv, NetworkUnderLease, TombstoneCovers, Undisturbed, Lives
<1> QED
  BY <1>1, <1>2, <1>3 DEF IndInv

(* A step of process a on behalf of room r: nobody else's room changes,    *)
(* only r can become disturbed, and once r is past its launch nothing of   *)
(* it comes back.                                                          *)
Effect(a, r) ==
    /\ a \in Rooms => r = a
    /\ \A c \in Actors \ {a} : /\ pc'[c] = pc[c] /\ job'[c] = job[c]
                               /\ lock' = c <=> lock = c
    /\ \A q \in Rooms \ {r} : /\ intent'[q] = intent[q] /\ dir'[q] = dir[q]
                              /\ vm'[q] = vm[q]
                              /\ q \in token'.rooms <=> q \in token.rooms
                              /\ q \in net' <=> q \in net
                              /\ q \in met' <=> q \in met
    /\ r \in met => r \in met'
    /\ tap' \in {tap, NoRoom, r}
    /\ tap' # tap => tap \in {r, NoRoom} \cup met
    /\ pc[r] # "new" => pc'[r] # "new"
    /\ pc[r] \notin Launch \cup {"new"} =>
         /\ pc'[r] \notin Launch
         /\ dir'[r] \in {dir[r], "none"} /\ vm'[r] \in {vm[r], "killed", "dead"}
         /\ r \in token'.rooms => r \in token.rooms
         /\ tap' = r => tap = r

(* What the step has to show for its own room.                             *)
OwnRoom(r) ==
    r \notin met' =>
        /\ vm'[r] = "running" => r \in token'.rooms /\ (r \in net' \/ tap' = r)
        /\ tap' = r => r \in token'.rooms
        /\ dir'[r] # "none" \/ r \in token'.rooms => intent'[r] # "none"
        /\ vm'[r] \in {"started", "running"} => intent'[r] \in {"spawned", "leased"}

(* A step of one actor on one room disturbs no other room or actor.        *)
LEMMA Frame ==
    ASSUME IndInv, LockInv', NEW a \in Actors, NEW r \in Rooms, Effect(a, r),
           OwnRoom(r), ActorInv(a)', LaunchInv(r)'
    PROVE  IndInv'
<1>1. /\ \A q : Leases(q) <=> q \in token.rooms
      /\ \A q : Leases(q)' <=> q \in token'.rooms
      /\ token \in FrozenToken /\ token' \in FrozenToken
  BY TokenShape DEF IndInv, LockInv, TypeOK, Leases
<1>2. tap \in (Rooms \ Clones) \cup {NoRoom} /\ tap' \in (Rooms \ Clones) \cup {NoRoom}
  BY DEF IndInv, LockInv, TypeOK
<1>3. ASSUME NEW q \in Rooms \ {r}, q \notin met'
      PROVE  /\ q \notin met
             /\ intent'[q] = intent[q] /\ dir'[q] = dir[q] /\ vm'[q] = vm[q]
             /\ q \in token'.rooms <=> q \in token.rooms
             /\ q \in net' <=> q \in net
             /\ tap = q <=> tap' = q
  BY <1>2, <1>3, TokenAssumption DEF Effect
<1>4. ASSUME NEW q \in Rooms, q \notin met'
      PROVE  /\ vm'[q] = "running" => q \in token'.rooms /\ (q \in net' \/ tap' = q)
             /\ tap' = q => q \in token'.rooms
             /\ dir'[q] # "none" \/ q \in token'.rooms => intent'[q] # "none"
             /\ vm'[q] \in {"started", "running"} => intent'[q] \in {"spawned", "leased"}
  <2>1. CASE q = r
    BY <1>4, <2>1 DEF OwnRoom
  <2>2. CASE q # r
    BY <1>3, <1>4, <2>2, RoomFacts
  <2> QED
    BY <2>1, <2>2
<1>5. NetworkUnderLease'
  <2> SUFFICES ASSUME NEW q \in Rooms, q \notin met'
               PROVE  /\ vm'[q] = "running" => q \in token'.rooms /\ (q \in net' \/ tap' = q)
                      /\ tap' = q => token' = Leased(Snap, q)
    BY <1>1 DEF NetworkUnderLease, Undisturbed
  <2>1. tap' = q => token' = Leased(Snap, q)
    BY <1>1, <1>2, <1>4, TokenShape
  <2> QED
    BY <1>4, <2>1
<1>6. TombstoneCovers'
  <2> SUFFICES ASSUME NEW q \in Rooms, q \notin met'
               PROVE  /\ dir'[q] # "none" \/ q \in token'.rooms \/ tap' = q => intent'[q] # "none"
                      /\ vm'[q] \in {"started", "running"} => intent'[q] \in {"spawned", "leased"}
    BY <1>1 DEF TombstoneCovers, Undisturbed, Lives
  <2> QED
    BY <1>4
<1>7. ASSUME NEW q \in Rooms PROVE LaunchInv(q)'
  <2>1. CASE q # r
    <3>1. LaunchInv(q) /\ q # a
      BY <2>1 DEF IndInv, Effect
    <3>2. /\ pc'[q] = pc[q] /\ intent'[q] = intent[q] /\ dir'[q] = dir[q]
          /\ vm'[q] = vm[q]
      BY <2>1, <3>1 DEF Effect
    <3>3. q \notin met' => /\ q \notin met /\ (q \in net' <=> q \in net)
                           /\ (Leases(q)' <=> Leases(q)) /\ (tap = q <=> tap' = q)
      BY <1>1, <1>3, <2>1
    <3> QED
      BY <3>1, <3>2, <3>3 DEF LaunchInv, Lives
  <2> QED
    BY <2>1
<1>8. ASSUME NEW c \in Actors \ {a} PROVE ActorInv(c)'
  <2> PICK q : q = job[c].room
    OBVIOUS
  <2>1. ActorInv(c) /\ HoldInv(c) /\ pc'[c] = pc[c] /\ job'[c] = job[c] /\ (lock' = c <=> lock = c)
    BY DEF IndInv, LockInv, Effect
  <2>2. CASE pc[c] \in {"idle", "done"}
    BY <2>1, <2>2 DEF ActorInv
  <2>3. CASE pc[c] \notin {"idle", "done"} /\ q = r
    <3>1. c \in Gcs => pc'[r] # "new"
      BY <2>1, <2>3 DEF ActorInv, Effect
    <3>2. CASE r \in met'
      BY <2>1, <2>3, <3>1, <3>2 DEF ActorInv
    <3>3. CASE r \notin met' /\ pc[c] \in Teardown
      <4>1. r \notin met
        BY <3>3 DEF Effect
      <4>2. pc[r] \notin Launch \cup {"new"}
        BY <2>1, <2>3, <3>3, <4>1 DEF ActorInv, HoldInv
      <4>3. /\ pc'[r] \notin Launch
            /\ dir'[r] \in {dir[r], "none"} /\ vm'[r] \in {vm[r], "killed", "dead"}
            /\ Leases(r)' => Leases(r)
            /\ tap' = r => tap = r
        BY <1>1, <4>2 DEF Effect
      <4> QED
        BY <2>1, <2>3, <3>1, <3>3, <4>1, <4>3 DEF ActorInv, Lives
    <3>4. CASE pc[c] \notin Teardown
      BY <2>1, <2>3, <3>1, <3>4 DEF ActorInv
    <3> QED
      BY <3>2, <3>3, <3>4
  <2>4. CASE pc[c] \notin {"idle", "done"} /\ q # r
    <3>1. q \in Rooms /\ q # a
      BY <2>1, <2>4 DEF HoldInv, Effect
    <3>2. pc'[q] = pc[q] /\ dir'[q] = dir[q] /\ vm'[q] = vm[q]
      BY <2>4, <3>1 DEF Effect
    <3>3. q \notin met' => q \notin met /\ (Leases(q)' <=> Leases(q)) /\ (tap = q <=> tap' = q)
      <4>1. q \in Rooms \ {r}
        BY <2>4, <3>1
      <4>2. q \notin met' => q \notin met /\ (q \in token'.rooms <=> q \in token.rooms) /\ (tap = q <=> tap' = q)
        BY <1>3, <4>1
      <4> QED
        BY <1>1, <4>2
    <3> QED
      BY <2>1, <2>4, <3>2, <3>3 DEF ActorInv, Lives
  <2> QED
    BY <2>2, <2>3, <2>4
<1> QED
  BY <1>5, <1>6, <1>7, <1>8 DEF IndInv

(* Nobody else's room changes.                                             *)
Others(a, r) ==
    /\ \A c \in Actors \ {a} : /\ pc'[c] = pc[c] /\ job'[c] = job[c]
                               /\ lock' = c <=> lock = c
    /\ \A q \in Rooms \ {r} : /\ intent'[q] = intent[q] /\ dir'[q] = dir[q]
                              /\ vm'[q] = vm[q]
                              /\ q \in token'.rooms <=> q \in token.rooms
                              /\ q \in net' <=> q \in net
                              /\ q \in met' <=> q \in met

(* Leases, devices and files of r only go.                                 *)
Shrinks(r) ==
    /\ pc[r] # "new" /\ pc'[r] # "new"
    /\ pc[r] \notin Launch => pc'[r] \notin Launch
    /\ dir'[r] \in {dir[r], "none"} /\ vm'[r] \in {vm[r], "killed", "dead"}
    /\ r \in token'.rooms => r \in token.rooms
    /\ tap' = tap \/ (tap' = NoRoom /\ tap \in {r, NoRoom} \cup met)
    /\ r \in met => r \in met'

(* An undisturbed room past its launch keeps its tombstone while anything  *)
(* of it is left, and its network while it runs.                           *)
Late(r) ==
    /\ pc[r] \notin Launch
    /\ \/ intent'[r] = intent[r]
       \/ dir'[r] = "none" /\ r \notin token'.rooms /\ vm'[r] \notin {"started", "running"}
    /\ tap' = r => r \in token'.rooms
    /\ vm'[r] = "running" => r \in token'.rooms /\ (r \in net => r \in net') /\ tap' = tap

(* Nothing of r changes.                                                   *)
Same(r) ==
    /\ pc'[r] = pc[r] /\ intent'[r] = intent[r] /\ dir'[r] = dir[r] /\ vm'[r] = vm[r]
    /\ r \in token'.rooms <=> r \in token.rooms
    /\ r \in net' <=> r \in net
    /\ tap' = tap

(* A step that can only take away from its room.                           *)
LEMMA LateFrame ==
    ASSUME IndInv, LockInv', NEW a \in Actors, NEW r \in Rooms, a \in Rooms => r = a,
           Others(a, r), Shrinks(r), r \notin met' => Late(r) \/ Same(r), ActorInv(a)'
    PROVE  IndInv'
<1>1. /\ tap' \in {tap, NoRoom, r} /\ (tap' # tap => tap \in {r, NoRoom} \cup met)
      /\ tap' = r => tap = r
  BY TokenAssumption DEF Shrinks
<1>2. Effect(a, r)
  BY <1>1 DEF Effect, Others, Shrinks
<1>3. /\ \A q : Leases(q) <=> q \in token.rooms
      /\ \A q : Leases(q)' <=> q \in token'.rooms
  BY TokenShape DEF IndInv, LockInv, TypeOK, Leases
<1>4. r \notin met' => r \notin met
  BY DEF Shrinks
<1>5. CASE r \in met'
  <2>1. OwnRoom(r) /\ LaunchInv(r)'
    BY <1>5 DEF OwnRoom, LaunchInv, Shrinks
  <2> QED
    BY <1>2, <2>1, Frame
<1>6. CASE r \notin met' /\ Late(r)
  <2>1. OwnRoom(r)
    BY <1>4, <1>6, RoomFacts DEF OwnRoom, Late, Shrinks
  <2>2. pc'[r] \notin Launch \cup {"new"}
    BY <1>6 DEF Late, Shrinks
  <2>3. LaunchInv(r)'
    BY <2>2 DEF LaunchInv, Holding, Unleased, Barred
  <2> QED
    BY <1>2, <2>1, <2>3, Frame
<1>7. CASE r \notin met' /\ Same(r)
  <2>1. OwnRoom(r)
    BY <1>4, <1>7, RoomFacts DEF OwnRoom, Same
  <2>2. LaunchInv(r)'
    BY <1>3, <1>4, <1>7, RoomFacts DEF LaunchInv, Same, Lives
  <2> QED
    BY <1>2, <2>1, <2>2, Frame
<1> QED
  BY <1>5, <1>6, <1>7

(* A process is done with its item, or dies in it.                         *)
LEMMA StopInv ==
    ASSUME IndInv, LockInv', NEW a \in Actors, NEW r \in Rooms, r = job[a].room,
           pc[r] # "new", a \in Rooms => pc[a] \notin Launch,
           Goto(a, IF a \in Rooms THEN "done" ELSE "idle"),
           job' = IF a \in Gcs THEN [job EXCEPT ![a] = NoJob] ELSE job,
           lock' = lock \/ Unlock(a), UNCHANGED <<token, tap, net, met>>,
           \A q \in Rooms \ {r} : intent'[q] = intent[q] /\ dir'[q] = dir[q] /\ vm'[q] = vm[q],
           dir'[r] \in {dir[r], "none"}, vm'[r] \in {vm[r], "dead"},
           r \notin met =>
             \/ intent'[r] = intent[r] /\ dir'[r] = dir[r] /\ vm'[r] = vm[r]
             \/ /\ pc[r] \notin Launch
                /\ \/ intent'[r] = intent[r]
                   \/ dir'[r] = "none" /\ r \notin token.rooms /\ ~Lives(r)
    PROVE  IndInv'
<1>1. HoldInv(a) /\ TypeOK
  BY DEF IndInv, LockInv
<1>2. /\ pc'[a] = (IF a \in Rooms THEN "done" ELSE "idle")
      /\ \A c \in Actors \ {a} : pc'[c] = pc[c] /\ job'[c] = job[c]
      /\ \A c \in Actors \ {a} : lock' = c <=> lock = c
  BY <1>1 DEF TypeOK, Unlock
<1>3. Others(a, r) /\ (a \in Rooms => r = a)
  BY <1>1, <1>2 DEF Others, HoldInv
<1>4. /\ pc'[r] # "new" /\ (pc[r] \notin Launch => pc'[r] \notin Launch)
      /\ pc[r] \in Launch => pc'[r] = pc[r]
  BY <1>2, <1>3
<1>5. Shrinks(r)
  BY <1>4 DEF Shrinks
<1>6. r \notin met' => Late(r) \/ Same(r)
  <2> SUFFICES ASSUME r \notin met PROVE Late(r) \/ Same(r)
    OBVIOUS
  <2>1. /\ tap = r => r \in token.rooms
        /\ vm'[r] = "running" => r \in token.rooms
    BY RoomFacts
  <2>2. CASE pc[r] \notin Launch
    BY <2>1, <2>2 DEF Late, Lives
  <2>3. CASE pc[r] \in Launch
    BY <1>4, <2>3 DEF Same
  <2> QED
    BY <2>2, <2>3
<1>7. ActorInv(a)'
  BY <1>2 DEF ActorInv
<1> QED
  BY <1>3, <1>5, <1>6, <1>7, LateFrame

(* A step of the launch of r.                                              *)
LEMMA LaunchFrame ==
    ASSUME IndInv, LockInv', NEW r \in Rooms, pc[r] \in Launch \cup {"new"},
           NEW phase \in Launch \cup {"up", "abort", "done"}, Goto(r, phase),
           UNCHANGED <<net, job, met>>, lock' = lock \/ Unlock(r),
           \A q \in Rooms \ {r} : /\ intent'[q] = intent[q] /\ dir'[q] = dir[q]
                                  /\ vm'[q] = vm[q]
                                  /\ q \in token'.rooms <=> q \in token.rooms,
           tap' = tap \/ (tap = NoRoom /\ tap' = r),
           OwnRoom(r), LaunchInv(r)'
    PROVE  IndInv'
<1>1. /\ pc'[r] = phase /\ \A c \in Actors \ {r} : pc'[c] = pc[c]
      /\ \A c \in Actors \ {r} : lock' = c <=> lock = c
  BY DEF IndInv, LockInv, TypeOK, Unlock
<1>2. Effect(r, r)
  BY <1>1 DEF Effect
<1>3. ActorInv(r)'
  BY <1>1 DEF ActorInv
<1> QED
  BY <1>2, <1>3, Frame

(* The steps up to the lease.                                              *)
LEMMA UnleasedStepInv ==
    ASSUME IndInv, LockInv', NEW r \in Rooms,
           \/ CreateIntent(r) \/ StageJail(r) \/ SpawnBarriered(r) \/ WriteRoomMeta(r)
           \/ RecordSpawned(r) \/ ReleaseBarrier(r)
    PROVE  IndInv'
<1>1. /\ UNCHANGED <<token, lock, tap, net, job, met>>
      /\ \A q \in Rooms \ {r} : intent'[q] = intent[q] /\ dir'[q] = dir[q] /\ vm'[q] = vm[q]
  BY DEF CreateIntent, StageJail, SpawnBarriered, WriteRoomMeta, RecordSpawned,
         ReleaseBarrier, IndInv, LockInv, TypeOK
<1>2. \A q : Leases(q)' <=> q \in token'.rooms
  BY TokenShape DEF LockInv, TypeOK, Leases
<1>3. CASE CreateIntent(r)
  <2>1. /\ pc[r] = "new" /\ pc'[r] = "planned" /\ Goto(r, "planned")
        /\ intent'[r] = "pre_spawn" /\ dir'[r] = dir[r] /\ vm'[r] = vm[r]
    BY <1>3 DEF CreateIntent, IndInv, LockInv, TypeOK
  <2>2. OwnRoom(r) /\ LaunchInv(r)'
    BY <1>1, <1>2, <2>1, RoomFacts
       DEF OwnRoom, LaunchInv, Lives, Holding, Unleased, Barred
  <2> QED
    BY <1>1, <2>1, <2>2, LaunchFrame
<1>4. CASE StageJail(r)
  <2>1. /\ pc[r] = "planned" /\ pc'[r] = "staged" /\ Goto(r, "staged")
        /\ intent'[r] = intent[r] /\ vm'[r] = vm[r]
    BY <1>4 DEF StageJail, IndInv, LockInv, TypeOK
  <2>2. OwnRoom(r) /\ LaunchInv(r)'
    BY <1>1, <1>2, <2>1, RoomFacts
       DEF OwnRoom, LaunchInv, Lives, Holding, Unleased, Barred
  <2> QED
    BY <1>1, <2>1, <2>2, LaunchFrame
<1>5. CASE SpawnBarriered(r)
  <2>1. /\ pc[r] = "staged" /\ pc'[r] = "forked" /\ Goto(r, "forked")
        /\ intent'[r] = intent[r] /\ dir'[r] = dir[r] /\ vm'[r] = "inert"
    BY <1>5 DEF SpawnBarriered, IndInv, LockInv, TypeOK
  <2>2. OwnRoom(r) /\ LaunchInv(r)'
    BY <1>1, <1>2, <2>1, RoomFacts
       DEF OwnRoom, LaunchInv, Lives, Holding, Unleased, Barred
  <2> QED
    BY <1>1, <2>1, <2>2, LaunchFrame
<1>6. CASE WriteRoomMeta(r)
  <2>1. /\ pc[r] = "forked" /\ pc'[r] = "described" /\ Goto(r, "described")
        /\ intent'[r] = intent[r] /\ vm'[r] = vm[r]
    BY <1>6 DEF WriteRoomMeta, IndInv, LockInv, TypeOK
  <2>2. OwnRoom(r) /\ LaunchInv(r)'
    BY <1>1, <1>2, <2>1, RoomFacts
       DEF OwnRoom, LaunchInv, Lives, Holding, Unleased, Barred
  <2> QED
    BY <1>1, <2>1, <2>2, LaunchFrame
<1>7. CASE RecordSpawned(r)
  <2>1. /\ pc[r] = "described" /\ pc'[r] = "spawned" /\ Goto(r, "spawned")
        /\ intent'[r] = "spawned" /\ dir'[r] = dir[r] /\ vm'[r] = vm[r]
    BY <1>7 DEF RecordSpawned, IndInv, LockInv, TypeOK
  <2>2. OwnRoom(r) /\ LaunchInv(r)'
    BY <1>1, <1>2, <2>1, RoomFacts
       DEF OwnRoom, LaunchInv, Lives, Holding, Unleased, Barred
  <2> QED
    BY <1>1, <2>1, <2>2, LaunchFrame
<1>8. CASE ReleaseBarrier(r)
  <2>1. /\ pc[r] = "spawned" /\ pc'[r] = "api" /\ Goto(r, "api")
        /\ intent'[r] = intent[r] /\ dir'[r] = dir[r] /\ vm'[r] = "started"
    BY <1>8 DEF ReleaseBarrier, IndInv, LockInv, TypeOK
  <2>2. OwnRoom(r) /\ LaunchInv(r)'
    BY <1>1, <1>2, <2>1, RoomFacts
       DEF OwnRoom, LaunchInv, Lives, Holding, Unleased, Barred
  <2> QED
    BY <1>1, <2>1, <2>2, LaunchFrame
<1> QED
  BY <1>3, <1>4, <1>5, <1>6, <1>7, <1>8

(* The lease and the steps under it.                                       *)
LEMMA LeasedStepInv ==
    ASSUME IndInv, LockInv', NEW r \in Rooms,
           \/ TakeLease(r) \/ RecordLeased(r) \/ RecordSlot(r) \/ AttachLeasedSlot(r)
           \/ LoadSnapshot(r) \/ ResumeVm(r)
    PROVE  IndInv'
<1>1. /\ UNCHANGED <<lock, net, job, met>>
      /\ \A q \in Rooms \ {r} : intent'[q] = intent[q] /\ dir'[q] = dir[q] /\ vm'[q] = vm[q]
  BY DEF TakeLease, RecordLeased, RecordSlot, AttachLeasedSlot, LoadSnapshot,
     ResumeVm,
         IndInv, LockInv, TypeOK
<1>2. \A q : Leases(q)' <=> q \in token'.rooms
  BY TokenShape DEF LockInv, TypeOK, Leases
<1>3. CASE TakeLease(r)
  <2>1. /\ pc[r] = "api" /\ pc'[r] = "leased" /\ Goto(r, "leased")
        /\ UNCHANGED <<intent, dir, vm, tap>>
    BY <1>3 DEF TakeLease, IndInv, LockInv, TypeOK
  <2>2. token'.rooms = token.rooms \cup {r}
    BY <1>3, LeaseToken DEF TakeLease, IndInv, LockInv, TypeOK
  <2>3. OwnRoom(r) /\ LaunchInv(r)'
    BY <1>1, <1>2, <2>1, <2>2, RoomFacts
       DEF OwnRoom, LaunchInv, Lives, Holding, Unleased, Barred
  <2> QED
    BY <1>1, <2>1, <2>2, <2>3, LaunchFrame
<1>4. CASE RecordLeased(r)
  <2>1. /\ pc[r] = "leased" /\ pc'[r] = "recorded" /\ Goto(r, "recorded")
        /\ intent'[r] = "leased" /\ UNCHANGED <<dir, vm, tap, token>>
    BY <1>4 DEF RecordLeased, IndInv, LockInv, TypeOK
  <2>2. OwnRoom(r) /\ LaunchInv(r)'
    BY <1>1, <1>2, <2>1, RoomFacts
       DEF OwnRoom, LaunchInv, Lives, Holding, Unleased, Barred
  <2> QED
    BY <1>1, <2>1, <2>2, LaunchFrame
<1>5. CASE RecordSlot(r)
  <2>1. /\ pc[r] = "recorded" /\ pc'[r] = "slotted" /\ Goto(r, "slotted")
        /\ UNCHANGED <<intent, vm, tap, token>>
    BY <1>5 DEF RecordSlot, IndInv, LockInv, TypeOK
  <2>2. OwnRoom(r) /\ LaunchInv(r)'
    BY <1>1, <1>2, <2>1, RoomFacts
       DEF OwnRoom, LaunchInv, Lives, Holding, Unleased, Barred
  <2> QED
    BY <1>1, <2>1, <2>2, LaunchFrame
<1>6. CASE AttachLeasedSlot(r)
  <2>1. /\ pc[r] = "slotted" /\ pc'[r] = "attached" /\ Goto(r, "attached")
        /\ UNCHANGED <<intent, dir, vm, token>>
        /\ tap' = tap \/ (tap = NoRoom /\ tap' = r)
    BY <1>6 DEF AttachLeasedSlot, IndInv, LockInv, TypeOK
  <2>2. r \notin met => r \in token.rooms
    BY <2>1, RoomFacts DEF LaunchInv, Holding
  <2>3. OwnRoom(r) /\ LaunchInv(r)'
    BY <1>1, <1>2, <2>1, <2>2, RoomFacts
       DEF OwnRoom, LaunchInv, Lives, Holding, Unleased, Barred
  <2> QED
    BY <1>1, <2>1, <2>2, <2>3, LaunchFrame
<1>7. CASE LoadSnapshot(r)
  <2>1. /\ pc[r] = "attached" /\ pc'[r] = "loaded" /\ Goto(r, "loaded")
        /\ UNCHANGED <<intent, dir, vm, token, tap>> /\ (r \in net \/ tap = r)
    BY <1>7 DEF LoadSnapshot, IndInv, LockInv, TypeOK
  <2>2. OwnRoom(r) /\ LaunchInv(r)'
    BY <1>1, <1>2, <2>1, RoomFacts
       DEF OwnRoom, LaunchInv, Lives, Holding, Unleased, Barred
  <2> QED
    BY <1>1, <2>1, <2>2, LaunchFrame
<1>8. CASE ResumeVm(r)
  <2>1. /\ pc[r] = "loaded" /\ pc'[r] = "up" /\ Goto(r, "up")
        /\ UNCHANGED <<intent, dir, token, tap>> /\ vm'[r] = "running"
    BY <1>8 DEF ResumeVm, IndInv, LockInv, TypeOK
  <2>2. OwnRoom(r) /\ LaunchInv(r)'
    BY <1>1, <1>2, <2>1, RoomFacts
       DEF OwnRoom, LaunchInv, Lives, Holding, Unleased, Barred
  <2> QED
    BY <1>1, <2>1, <2>2, LaunchFrame
<1> QED
  BY <1>3, <1>4, <1>5, <1>6, <1>7, <1>8

(* The launch ends: kept, aborted, killed by its guard or crashed; or the  *)
(* VM dies by itself.                                                      *)
LEMMA EndStepInv ==
    ASSUME IndInv, LockInv', NEW r \in Rooms,
           Keep(r) \/ Abort(r) \/ GuardKill(r) \/ VmDies(r) \/ Crash(r)
    PROVE  IndInv'
<1>1. /\ UNCHANGED <<intent, token, tap, net, dir, job, met>> /\ (lock' = lock \/ Unlock(r))
      /\ \A q \in Rooms \ {r} : vm'[q] = vm[q]
      /\ vm'[r] \in {vm[r], "killed", "dead"}
      /\ \A c \in Actors \ {r} : pc'[c] = pc[c] /\ (lock' = c <=> lock = c)
  BY DEF Keep, Abort, GuardKill, VmDies, Crash, Unlock, IndInv, LockInv, TypeOK
<1>2. \A q : Leases(q)' <=> q \in token'.rooms
  BY TokenShape DEF LockInv, TypeOK, Leases
<1>3. \/ pc'[r] = pc[r]
      \/ pc'[r] \in {"done", "abort"}
      \/ pc'[r] = "reap" /\ vm'[r] \notin {"started", "running"} /\ pc[r] = "abort"
  BY DEF Keep, Abort, GuardKill, VmDies, Crash, Exists, Lives, IndInv, LockInv, TypeOK
<1>4. HoldInv(r) /\ ActorInv(r) /\ LaunchInv(r)
  BY DEF IndInv, LockInv
<1>5. LaunchInv(r)'
  BY <1>1, <1>2, <1>3, <1>4, RoomFacts
     DEF LaunchInv, Lives, Holding, Unleased, Barred
<1>6. OwnRoom(r)
  BY <1>1, RoomFacts DEF OwnRoom
<1>7. /\ pc[r] # "new" => pc'[r] # "new"
      /\ pc[r] \notin Launch \cup {"new"} => pc'[r] \notin Launch
  BY <1>3
<1>8. Effect(r, r)
  BY <1>1, <1>7 DEF Effect
<1>9. ActorInv(r)'
  <2>1. CASE pc'[r] = pc[r]
    <3>1. lock' = lock
      BY <2>1 DEF Keep, Abort, GuardKill, VmDies, Crash, IndInv, LockInv, TypeOK
    <3> QED
      BY <1>1, <1>2, <1>4, <2>1, <3>1, RoomFacts DEF ActorInv, HoldInv,
         Lives
  <2>2. CASE pc'[r] \in {"done", "abort"}
    BY <2>2 DEF ActorInv
  <2>3. CASE pc'[r] = "reap" /\ vm'[r] \notin {"started", "running"}
    BY <1>1, <1>4, <2>3 DEF ActorInv, HoldInv, Lives
  <2> QED
    BY <1>3, <2>1, <2>2, <2>3
<1> QED
  BY <1>5, <1>6, <1>8, <1>9, Frame

(* The teardown, by whoever runs it.                                       *)
LEMMA TeardownStepInv ==
    ASSUME IndInv, LockInv', NEW a \in Actors, TeardownStep(a)
    PROVE  IndInv'
<1> PICK r : r = job[a].room
  OBVIOUS
<1>1. HoldInv(a) /\ ActorInv(a) /\ TypeOK /\ token \in FrozenToken
  BY DEF IndInv, LockInv, TypeOK
<1>2. pc[a] \in Teardown /\ met' = met
  BY DEF TeardownStep, ReapRoomOnly, HoldLease, FreeCloneNet, DeleteTap,
     ReturnLease,
         FinishIndex
<1>3. /\ r \in Rooms /\ (a \in Rooms => r = a /\ pc[r] \notin Launch)
      /\ pc[r] # "new"
      /\ r \notin met => pc[r] \notin Launch /\ vm[r] \notin {"started", "running"}
  BY <1>1, <1>2 DEF HoldInv, ActorInv, Lives, TypeOK
<1>4. /\ \A q : Leases(q) <=> q \in token.rooms
      /\ \A q : Leases(q)' <=> q \in token'.rooms
  BY TokenShape DEF IndInv, LockInv, TypeOK, Leases
<1>5. r \notin met => (tap = r => r \in token.rooms)
  BY <1>3, RoomFacts
<1>6. ASSUME NEW phase, Goto(a, phase), phase \in Teardown
      PROVE  /\ pc'[a] = phase /\ \A c \in Actors \ {a} : pc'[c] = pc[c]
             /\ pc'[r] # "new" /\ (pc[r] \notin Launch => pc'[r] \notin Launch)
  BY <1>1, <1>3, <1>6 DEF TypeOK
<1>7. ASSUME Return(a), UNCHANGED <<token, tap, net, vm>>, lock' = lock \/ Unlock(a),
             \/ UNCHANGED intent
             \/ /\ intent' = [intent EXCEPT ![r] = "none"]
                /\ r \notin met => dir[r] = "none" /\ r \notin token.rooms,
             dir' = dir \/ dir' = [dir EXCEPT ![r] = "none"]
      PROVE  IndInv'
  <2>1. /\ Goto(a, IF a \in Rooms THEN "done" ELSE "idle")
        /\ job' = IF a \in Gcs THEN [job EXCEPT ![a] = NoJob] ELSE job
    BY <1>7 DEF Return
  <2>2. /\ \A q \in Rooms \ {r} : intent'[q] = intent[q] /\ dir'[q] = dir[q] /\ vm'[q] = vm[q]
        /\ dir'[r] \in {dir[r], "none"} /\ vm'[r] \in {vm[r], "dead"}
        /\ r \notin met =>
             /\ pc[r] \notin Launch
             /\ \/ intent'[r] = intent[r]
                \/ dir'[r] = "none" /\ r \notin token.rooms /\ ~Lives(r)
    BY <1>1, <1>3, <1>7 DEF TypeOK, Lives
  <2>3. a \in Rooms => pc[a] \notin Launch
    BY <1>3
  <2> QED
    BY <1>2, <1>3, <1>7, <2>1, <2>2, <2>3, StopInv
<1>8. CASE ReapRoomOnly(a)
  <2>1. UNCHANGED <<intent, vm, token, lock, tap, net>>
    BY <1>8 DEF ReapRoomOnly
  <2>2. \/ dir' = [dir EXCEPT ![r] = "none"] /\ Goto(a, "hold") /\ UNCHANGED job
        \/ Return(a) /\ (dir' = dir \/ dir' = [dir EXCEPT ![r] = "none"])
    BY <1>8 DEF ReapRoomOnly
  <2>3. CASE dir' = [dir EXCEPT ![r] = "none"] /\ Goto(a, "hold") /\ UNCHANGED job
    <3>1. dir'[r] = "none" /\ \A q \in Rooms \ {r} : dir'[q] = dir[q]
      BY <1>1, <1>3, <2>3 DEF TypeOK
    <3>2. Others(a, r) /\ Shrinks(r) /\ (r \notin met => Late(r))
      BY <1>2, <1>3, <1>5, <1>6, <2>1, <2>3, <3>1 DEF Others, Shrinks, Late
    <3>3. ActorInv(a)'
      <4>1. /\ pc'[a] = "hold" /\ pc'[r] # "new"
            /\ r \notin met => pc'[r] \notin Launch
        BY <1>3, <1>6, <2>3
      <4> QED
        BY <1>2, <1>3, <2>1, <2>3, <3>1, <4>1 DEF ActorInv, Lives
    <3> QED
      BY <1>2, <1>3, <3>2, <3>3, LateFrame
  <2>4. CASE Return(a) /\ (dir' = dir \/ dir' = [dir EXCEPT ![r] = "none"])
    BY <1>7, <2>1, <2>4
  <2> QED
    BY <2>2, <2>3, <2>4
<1>9. CASE HoldLease(a)
  <2>1. /\ UNCHANGED <<intent, token, tap, net, dir, vm, job>> /\ Goto(a, "net")
        /\ pc[a] = "hold" /\ \A c \in Actors \ {a} : lock' = c <=> lock = c
        /\ lock' # a => ~Leases(r)
    BY <1>9 DEF HoldLease
  <2>2. Others(a, r) /\ Shrinks(r) /\ (r \notin met => Late(r))
    BY <1>2, <1>3, <1>5, <1>6, <2>1 DEF Others, Shrinks, Late
  <2>3. ActorInv(a)'
    BY <1>1, <1>2, <1>3, <1>4, <1>6, <2>1 DEF ActorInv, Lives
  <2> QED
    BY <1>2, <1>3, <2>2, <2>3, LateFrame
<1>10. CASE FreeCloneNet(a)
  <2>1. /\ UNCHANGED <<intent, token, tap, dir, vm>> /\ pc[a] = "net"
        /\ \/ /\ net' = net \ {r} /\ UNCHANGED <<lock, job>>
              /\ Goto(a, IF lock = a THEN "tap" ELSE "index")
           \/ Return(a) /\ Unlock(a) /\ UNCHANGED net
    BY <1>10 DEF FreeCloneNet
  <2>2. CASE /\ net' = net \ {r} /\ UNCHANGED <<lock, job>>
             /\ Goto(a, IF lock = a THEN "tap" ELSE "index")
    <3>1. pc'[a] = (IF lock = a THEN "tap" ELSE "index")
      BY <1>6, <2>2
    <3>2. Others(a, r) /\ Shrinks(r) /\ (r \notin met => Late(r))
      BY <1>2, <1>3, <1>5, <1>6, <2>1, <2>2 DEF Others, Shrinks, Late
    <3>3. ActorInv(a)'
      BY <1>1, <1>2, <1>3, <1>4, <1>6, <2>1, <2>2, <3>1 DEF ActorInv, Lives
    <3> QED
      BY <1>2, <1>3, <3>2, <3>3, LateFrame
  <2>3. CASE Return(a) /\ Unlock(a) /\ UNCHANGED net
    BY <1>7, <2>1, <2>3
  <2> QED
    BY <2>1, <2>2, <2>3
<1>11. CASE DeleteTap(a)
  <2>1. /\ UNCHANGED <<intent, token, net, dir, vm>> /\ pc[a] = "tap"
        /\ \/ /\ tap' = (IF r \in Clones THEN tap ELSE NoRoom) /\ UNCHANGED <<lock, job>>
              /\ Goto(a, "return")
           \/ Return(a) /\ Unlock(a) /\ UNCHANGED tap
    BY <1>11 DEF DeleteTap
  <2>2. CASE /\ tap' = (IF r \in Clones THEN tap ELSE NoRoom) /\ UNCHANGED <<lock, job>>
             /\ Goto(a, "return")
    <3>1. r \in token.rooms /\ lock = a
      BY <1>1, <1>4, <2>1 DEF HoldInv
    <3>2. r \notin Clones => tap \in {r, NoRoom} \cup met
      <4>1. r \notin Clones => token = Leased(Snap, r)
        BY <1>1, <1>3, <3>1, TokenShape
      <4>2. tap # NoRoom => tap \in Rooms
        BY <1>1 DEF TypeOK
      <4>3. tap # NoRoom /\ tap \notin met => token = Leased(Snap, tap)
        BY <4>2 DEF IndInv, NetworkUnderLease, Undisturbed
      <4> QED
        BY <4>1, <4>3 DEF Leased
    <3>3. r \in Clones => tap # r
      BY <1>1 DEF TypeOK
    <3>4. Others(a, r) /\ Shrinks(r) /\ (r \notin met => Late(r))
      BY <1>2, <1>3, <1>5, <1>6, <2>1, <2>2, <3>1, <3>2 DEF Others, Shrinks, Late
    <3>5. tap' # r
      BY <1>3, <2>2, <3>3
    <3>6. ActorInv(a)'
      BY <1>1, <1>2, <1>3, <1>4, <1>6, <2>1, <2>2, <3>1, <3>5 DEF ActorInv, Lives
    <3> QED
      BY <1>2, <1>3, <3>4, <3>6, LateFrame
  <2>3. CASE Return(a) /\ Unlock(a) /\ UNCHANGED tap
    BY <1>7, <2>1, <2>3
  <2> QED
    BY <2>1, <2>2, <2>3
<1>12. CASE ReturnLease(a)
  <2>1. /\ UNCHANGED <<intent, tap, net, dir, vm>> /\ pc[a] = "return" /\ Unlock(a)
        /\ \/ token' = AfterRelease(token, Snap, r) /\ Goto(a, "index") /\ UNCHANGED job
           \/ Return(a) /\ UNCHANGED token
    BY <1>12 DEF ReturnLease
  <2>2. CASE token' = AfterRelease(token, Snap, r) /\ Goto(a, "index") /\ UNCHANGED job
    <3>1. r \in token.rooms /\ lock = a
      BY <1>1, <1>4, <2>1 DEF HoldInv
    <3>2. token'.rooms = token.rooms \ {r}
      BY <1>1, <2>2, <3>1, ReleaseToken DEF IndInv, LockInv, TypeOK
    <3>3. r \notin met => tap # r
      BY <1>1, <2>1 DEF ActorInv
    <3>4. \A c \in Actors \ {a} : lock' # c /\ lock # c
      BY <2>1, <3>1 DEF Unlock
    <3>5. Others(a, r) /\ Shrinks(r) /\ (r \notin met => Late(r))
      BY <1>2, <1>3, <1>6, <2>1, <2>2, <3>2, <3>3, <3>4 DEF Others, Shrinks, Late
    <3>6. ActorInv(a)'
      BY <1>1, <1>2, <1>3, <1>4, <1>6, <2>1, <2>2, <3>2 DEF ActorInv, Lives
    <3> QED
      BY <1>2, <1>3, <3>5, <3>6, LateFrame
  <2>3. CASE Return(a) /\ UNCHANGED token
    BY <1>7, <2>1, <2>3
  <2> QED
    BY <2>1, <2>2, <2>3
<1>13. CASE FinishIndex(a)
  <2>1. /\ UNCHANGED <<token, lock, tap, net, dir, vm>> /\ pc[a] = "index" /\ Return(a)
        /\ intent' = [intent EXCEPT ![r] = "none"]
    BY <1>13 DEF FinishIndex
  <2>2. r \notin met => dir[r] = "none" /\ r \notin token.rooms
    BY <1>1, <1>4, <2>1 DEF ActorInv, HoldInv
  <2> QED
    BY <1>7, <2>1, <2>2
<1> QED
  BY <1>8, <1>9, <1>10, <1>11, <1>12, <1>13 DEF TeardownStep

(* gc and kill pick a room and judge it.  One that they begin to tear down *)
(* in its launch, or alive, is disturbed from then on; any other is past   *)
(* its launch and dead.                                                    *)
LEMMA GcStepInv ==
    ASSUME IndInv, LockInv', NEW g \in Gcs,
           GcStep(g) \/ \E r \in Rooms : GcRead(g, r) \/ ListDead(g, r) \/ KillFind(g, r)
    PROVE  IndInv'
<1>1. HoldInv(g) /\ ActorInv(g) /\ TypeOK /\ g \notin Rooms
  BY DEF IndInv, LockInv
<1>2. ASSUME NEW r \in Rooms, GcRead(g, r) \/ ListDead(g, r) \/ KillFind(g, r)
      PROVE  IndInv'
  <2>1. /\ UNCHANGED <<intent, token, lock, tap, net, dir, vm, met>>
        /\ pc'[g] \in Looking
        /\ \A c \in Actors \ {g} : pc'[c] = pc[c] /\ job'[c] = job[c]
        /\ job'[g].room = r
    BY <1>1, <1>2 DEF GcRead, ListDead, KillFind, TypeOK
  <2>2. pc[r] # "new" /\ pc'[r] = pc[r]
    <3>1. intent[r] # "none" \/ dir[r] # "none"
      BY <1>2 DEF GcRead, ListDead, KillFind
    <3> QED
      BY <1>1, <2>1, <3>1, RoomFacts DEF LaunchInv
  <2>3. Others(g, r) /\ Shrinks(r) /\ Same(r)
    BY <2>1, <2>2 DEF Others, Shrinks, Same
  <2>4. ActorInv(g)'
    BY <2>1, <2>2 DEF ActorInv
  <2> QED
    BY <1>1, <2>3, <2>4, LateFrame
<1>3. CASE GcStep(g)
  <2> PICK r : r = job[g].room
    OBVIOUS
  <2>1. /\ pc[g] \in Looking
        /\ UNCHANGED <<intent, token, lock, tap, net, dir>>
    BY <1>3 DEF GcStep, ReconcileOne, ReapEntry, KillTerminate
  <2>2. r \in Rooms /\ pc[r] # "new" /\ r # g
    BY <1>1, <2>1 DEF HoldInv, ActorInv
  <2>3. vm'[r] \in {vm[r], "dead"} /\ \A q \in Rooms \ {r} : vm'[q] = vm[q]
    BY <1>1, <1>3, <2>2 DEF GcStep, ReconcileOne, ReapEntry, KillTerminate,
       TypeOK
  <2>4. \/ Return(g) /\ vm' = vm /\ met' = met
        \/ /\ Goto(g, "reap") /\ UNCHANGED job
           /\ \/ met' = met \cup {r}
              \/ met' = met /\ pc[r] \notin Launch /\ vm'[r] \notin {"started", "running"}
    <3>1. CASE ReconcileOne(g)
      BY <3>1 DEF ReconcileOne, BeginReap, Launching, Lives
    <3>2. CASE ReapEntry(g)
      BY <3>2 DEF ReapEntry, BeginReap, Launching, Lives
    <3>3. CASE KillTerminate(g)
      BY <1>1, <2>2, <3>3 DEF KillTerminate, BeginReap, Launching, TypeOK
    <3> QED
      BY <1>3, <3>1, <3>2, <3>3 DEF GcStep
  <2>5. ASSUME Goto(g, "reap"), UNCHANGED job,
               \/ met' = met \cup {r}
               \/ met' = met /\ pc[r] \notin Launch /\ vm'[r] \notin {"started", "running"}
        PROVE  IndInv'
    <3>1. pc'[g] = "reap" /\ (\A c \in Actors \ {g} : pc'[c] = pc[c]) /\ pc'[r] = pc[r]
      BY <1>1, <2>2, <2>5 DEF TypeOK
    <3>2. r \notin met' => r \notin met /\ pc[r] \notin Launch /\ vm'[r] \notin {"started", "running"}
      BY <2>5
    <3>3. Others(g, r) /\ Shrinks(r)
      BY <2>1, <2>2, <2>3, <2>5, <3>1 DEF Others, Shrinks
    <3>4. r \notin met' => Late(r)
      BY <2>1, <2>2, <3>2, RoomFacts DEF Late
    <3>5. ActorInv(g)'
      BY <1>1, <2>1, <2>2, <2>5, <3>1, <3>2 DEF ActorInv, Lives
    <3> QED
      BY <1>1, <2>2, <3>3, <3>4, <3>5, LateFrame
  <2>6. ASSUME Return(g), vm' = vm, met' = met
        PROVE  IndInv'
    <3>1. /\ Goto(g, IF g \in Rooms THEN "done" ELSE "idle")
          /\ job' = IF g \in Gcs THEN [job EXCEPT ![g] = NoJob] ELSE job
      BY <2>6 DEF Return
    <3>2. /\ \A q \in Rooms : intent'[q] = intent[q] /\ dir'[q] = dir[q] /\ vm'[q] = vm[q]
          /\ UNCHANGED <<token, tap, net, met>> /\ lock' = lock
      BY <2>1, <2>6
    <3>3. /\ \A q \in Rooms \ {r} : intent'[q] = intent[q] /\ dir'[q] = dir[q] /\ vm'[q] = vm[q]
          /\ dir'[r] \in {dir[r], "none"} /\ vm'[r] \in {vm[r], "dead"}
          /\ intent'[r] = intent[r] /\ dir'[r] = dir[r] /\ vm'[r] = vm[r]
      BY <2>2, <3>2
    <3> QED
      BY <1>1, <2>2, <3>1, <3>2, <3>3, StopInv
  <2> QED
    BY <2>4, <2>5, <2>6
<1> QED
  BY <1>2, <1>3

(* Every step keeps the invariant.                                         *)
LEMMA StepInv == IndInv /\ [Next]_vars => IndInv'
<1> SUFFICES ASSUME IndInv, [Next]_vars PROVE IndInv'
  OBVIOUS
<1>1. LockInv'
  BY LockStep DEF IndInv
<1>2. ASSUME NEW r \in Rooms, LaunchStep(r) \/ VmDies(r) PROVE IndInv'
  BY <1>1, <1>2, UnleasedStepInv, LeasedStepInv, EndStepInv DEF LaunchStep
<1>3. ASSUME NEW g \in Gcs, Crash(g) PROVE IndInv'
  <2>1. HoldInv(g) /\ ActorInv(g) /\ TypeOK /\ g \notin Rooms
    BY DEF IndInv, LockInv
  <2>2. job[g].room \in Rooms /\ pc[job[g].room] # "new"
    BY <1>3, <2>1 DEF Crash, HoldInv, ActorInv
  <2>3. /\ UNCHANGED <<intent, token, tap, net, dir, met>> /\ Unlock(g)
        /\ Goto(g, IF g \in Rooms THEN "done" ELSE "idle")
        /\ job' = IF g \in Gcs THEN [job EXCEPT ![g] = NoJob] ELSE job
        /\ \A q \in Rooms : vm'[q] = vm[q]
    BY <1>3, <2>1 DEF Crash
  <2> QED
    BY <1>1, <2>1, <2>2, <2>3, StopInv
<1>4. CASE UNCHANGED vars
  BY <1>1, <1>4 DEF vars, IndInv, NetworkUnderLease, TombstoneCovers, ActorInv,
                    LaunchInv, Leases, Lives, Undisturbed
<1> QED
  BY <1>1, <1>2, <1>3, <1>4, EndStepInv, TeardownStepInv, GcStepInv DEF Next

(* The inductive invariant, whatever gc and kill meet.                     *)
THEOREM Invariance == Spec => []IndInv
BY InitInv, StepInv, PTL DEF Spec

(* A resumed guest holds its lease and its network, and the device of the  *)
(* slot never outlives the lease it was made under, for every room that no *)
(* gc and no kill began to tear down in its launch or alive, whatever they *)
(* do to the others.                                                       *)
THEOREM NetworkSafe == Spec => []NetworkUnderLease
<1>1. IndInv => NetworkUnderLease
  BY DEF IndInv
<1> QED
  BY <1>1, Invariance, PTL

(* Whatever such a room leaves when its CLI dies is covered by its         *)
(* tombstone, and a child past the barrier can be judged from it.          *)
THEOREM TombstoneSafe == Spec => []TombstoneCovers
<1>1. IndInv => TombstoneCovers
  BY DEF IndInv
<1> QED
  BY <1>1, Invariance, PTL
=============================================================================
