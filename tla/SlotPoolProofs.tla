--------------------------- MODULE SlotPoolProofs ---------------------------
(***************************************************************************)
(* Proofs about SlotPool for any number of rooms, gc processes, snapshots  *)
(* and slots.  IndInv is the inductive invariant; the safety properties    *)
(* the runs check follow from it.                                          *)
(***************************************************************************)
EXTENDS SlotPool, TLAPS

LockPhases == {"writing", "held", "clean", "reclaim", "reclaimed", "sweep"}
Early      == {"new", "writing", "claimed"}
Booting    == {"claimed", "staged", "tapped", "spawned", "up", "unwind"}
Past       == {"up", "unwind", "killed", "release", "held", "clean",
               "done", "crashed"}

(* The free-lock is held exactly inside the critical sections.             *)
LockInv == \A a \in Actors : lock = a <=> pc[a] \in LockPhases

(* The index a CLI works on is the one index its claim can be in.          *)
IndexInv ==
    /\ \A r \in Rooms :
         /\ job[r].room = r
         /\ job[r].k \notin Slots =>
              pc[r] \in {"new", "done"} /\ dir[r] = "none" /\ vm[r] = "none"
    /\ \A r \in Rooms, k \in Slots :
         slot[k] = Claimed(r) =>
            job[r].k = k /\ pc[r] \notin {"new", "writing"}

(* How far a boot has got says what exists.                                *)
BootInv == \A r \in Rooms :
    /\ pc[r] \in Early => dir[r] = "none"
    /\ pc[r] \in {"staged", "tapped"} => dir[r] # "none"
    /\ pc[r] \in Early \cup {"staged", "tapped"} => vm[r] = "none"
    /\ pc[r] = "spawned" => vm[r] # "none"
    /\ pc[r] \in Early \cup {"staged"} => \A k \in Slots : tap[k] # r
    /\ pc[r] = "tapped" => tap[job[r].k] = r
    /\ pc[r] \in Booting /\ vm[r] # "dead" => slot[job[r].k] = Claimed(r)
    /\ dir[r] = "meta" => pc[r] \in Past /\ vm[r] # "none"

(* A running VM has its dir, its claim and its tap.                        *)
LiveInv == \A r \in Rooms : vm[r] = "alive" =>
    /\ pc[r] \in {"spawned", "up", "unwind", "done", "crashed"}
    /\ dir[r] # "none"
    /\ slot[job[r].k] = Claimed(r)
    /\ tap[job[r].k] = r

(* Whoever tears a room down has made sure that it is over.                *)
TeardownInv ==
    /\ \A r \in Rooms :
         pc[r] \in {"killed", "release", "held", "clean"} => vm[r] # "alive"
    /\ \A a \in Actors :
         /\ pc[a] \in {"release", "held", "clean"} => dir[job[a].room] = "none"
         /\ pc[a] \in {"held", "clean"} =>
              slot[job[a].k] = Claimed(job[a].room)
         /\ pc[a] = "clean" => tap[job[a].k] = NoRoom

(* What a gc process knows of the item it is working on.                   *)
GcInv == \A g \in Gcs :
    /\ pc[g] # "idle" => job[g].k \in Slots
    /\ pc[g] = "read" => job[g].seen.kind \in {"partial", "claimed"}
    /\ pc[g] = "partial" => job[g].seen = InProgress
    /\ pc[g] \in {"listed", "doomed", "reap", "release", "held", "clean"} =>
         /\ job[g].room \in Rooms
         /\ job[g].k = job[job[g].room].k
         /\ pc[job[g].room] \in Past
         /\ vm[job[g].room] # "none"
    /\ pc[g] \in {"listed", "reap", "release", "held", "clean"} =>
         vm[job[g].room] = "dead"
    /\ pc[g] \in {"dead", "reclaim", "reclaimed"} =>
         /\ job[g].room \in Rooms
         /\ job[g].seen = Claimed(job[g].room)
         /\ pc[job[g].room] \in Ended
    /\ pc[g] \in {"reclaim", "reclaimed"} =>
         slot[job[g].k] = job[g].seen /\ dir[job[g].room] = "none"
    /\ pc[g] = "reclaimed" => tap[job[g].k] = NoRoom
    /\ pc[g] = "sweep" => slot[job[g].k] = Free

IndInv ==
    /\ TypeOK
    /\ LockInv /\ IndexInv /\ BootInv /\ LiveInv /\ TeardownInv /\ GcInv
    /\ WriterKeepsFile
    /\ TapUnderClaim

(* A process stops here: it returns, skips its item or is killed, and the  *)
(* kernel drops the lock.                                                  *)
Abandon(a) ==
    /\ pc[a] \notin Ended \cup {"new"}
    /\ \E phase \in IF a \in Rooms THEN Ended ELSE {"idle"} : Goto(a, phase)
    /\ job' = IF a \in Gcs THEN [job EXCEPT ![a] = NoJob] ELSE job
    /\ lock' = IF lock = a THEN NoActor ELSE lock
    /\ UNCHANGED <<slot, tap, dir, vm>>

-----------------------------------------------------------------------------
(* Tokens that differ in kind or room are different file bodies.           *)
LEMMA TokenFacts ==
    /\ \A r, q \in Rooms : Claimed(r) = Claimed(q) => r = q
    /\ \A r \in Rooms :
         /\ Claimed(r) # Free /\ Claimed(r) # InProgress
         /\ Claimed(r).kind = "claimed" /\ Claimed(r).rooms = {r}
         /\ \A s \in Snaps : Claimed(r) # Reserved(s)
    /\ \A s \in Snaps : /\ Reserved(s).kind = "reserved"
                        /\ Reserved(s) # Free /\ Reserved(s) # InProgress
    /\ Free.kind = "free" /\ Free # InProgress
    /\ InProgress.kind = "partial" /\ InProgress.rooms = {}
BY DEF Claimed, Free, InProgress, Reserved

(* The initial states satisfy the invariant.                               *)
LEMMA InitInv == Init => IndInv
<1> SUFFICES ASSUME Init PROVE IndInv
  OBVIOUS
<1> USE TokenFacts, TokenAssumption, PoolAssumption
    DEF Init, Actors, PoolToken, Jobs, Slots, CliPhases, GcPhases
<1>1. TypeOK
  BY DEF TypeOK, LockPhases, Early, Booting, Past, Ended
<1>2. LockInv
  BY DEF LockInv, LockPhases, Early, Booting, Past, Ended
<1>3. IndexInv
  BY DEF IndexInv, LockPhases, Early, Booting, Past, Ended
<1>4. BootInv
  BY DEF BootInv, LockPhases, Early, Booting, Past, Ended
<1>5. LiveInv
  BY DEF LiveInv, LockPhases, Early, Booting, Past, Ended
<1>6. TeardownInv
  BY DEF TeardownInv, LockPhases, Early, Booting, Past, Ended
<1>7. GcInv
  BY DEF GcInv, LockPhases, Early, Booting, Past, Ended
<1>8. WriterKeepsFile
  BY DEF WriterKeepsFile, LockPhases, Early, Booting, Past, Ended
<1>9. TapUnderClaim
  BY DEF TapUnderClaim, LockPhases, Early, Booting, Past, Ended
<1> QED
  BY <1>1, <1>2, <1>3, <1>4, <1>5, <1>6, <1>7, <1>8, <1>9 DEF IndInv

-----------------------------------------------------------------------------
(* One lemma per action.                                                   *)
USE TokenFacts, TokenAssumption, PoolAssumption
    DEF Goto, Actors, Jobs, PoolToken, CliPhases, GcPhases,
        LockPhases, Early, Booting, Past, Ended

(* Stopping anywhere is safe: nothing was released that is still needed.    *)
LEMMA AbandonInv ==
    ASSUME IndInv, NEW a \in Actors, Abandon(a)
    PROVE  IndInv'
<1> USE DEF IndInv, Abandon, NoJob
<1> PICK phase \in IF a \in Rooms THEN Ended ELSE {"idle"} : Goto(a, phase)
  OBVIOUS
<1>1. TypeOK'
  <2>1. job' \in [Actors -> Jobs]
    BY DEF TypeOK
  <2>2. /\ pc' \in [Actors -> CliPhases \cup GcPhases]
        /\ \A q \in Rooms : pc'[q] \in CliPhases
        /\ \A g \in Gcs : pc'[g] \in GcPhases
    BY DEF TypeOK
  <2> QED
    BY <2>1, <2>2 DEF TypeOK
<1>2. LockInv' /\ WriterKeepsFile' /\ TapUnderClaim'
  BY DEF TypeOK, LockInv, WriterKeepsFile, TapUnderClaim
<1>3. IndexInv'
  <2>1. \A q \in Rooms : job'[q] = job[q] /\ (pc'[q] = pc[q] \/ pc'[q] \in Ended)
    BY DEF TypeOK
  <2>2. a \in Rooms => job[a].k \in Slots
    BY DEF IndexInv
  <2> QED
    BY <2>1, <2>2 DEF TypeOK, IndexInv
<1>4. BootInv' /\ LiveInv'
  BY DEF TypeOK, BootInv, LiveInv
<1>5. TeardownInv' /\ GcInv'
  BY DEF TypeOK, TeardownInv, GcInv
<1> QED
  BY <1>1, <1>2, <1>3, <1>4, <1>5

(* Taking a free index disturbs no claim that exists.                       *)
LEMMA ClaimCreateInv ==
    ASSUME IndInv, NEW r \in Rooms, ClaimCreate(r)
    PROVE  IndInv'
<1> USE DEF IndInv, ClaimCreate, WalkFree, Lock
<1>1. TypeOK'
  <2> PICK k \in WalkFree : /\ slot' = [slot EXCEPT ![k] = InProgress]
                           /\ job' = [job EXCEPT ![r].k = k]
    OBVIOUS
  <2>1. [job[r] EXCEPT !.k = k] \in Jobs
    BY DEF TypeOK
  <2>2. job' \in [Actors -> Jobs]
    BY <2>1 DEF TypeOK
  <2> QED
    BY <2>2 DEF TypeOK
<1>2. LockInv' /\ IndexInv' /\ WriterKeepsFile' /\ TapUnderClaim'
  BY DEF TypeOK, LockInv, IndexInv, WriterKeepsFile, TapUnderClaim
<1>3. BootInv' /\ LiveInv'
  BY DEF TypeOK, BootInv, LiveInv
<1>4. TeardownInv' /\ GcInv'
  BY DEF TypeOK, LockInv, TeardownInv, GcInv
<1> QED
  BY <1>1, <1>2, <1>3, <1>4

(* A full pool changes nothing.                                             *)
LEMMA ClaimPoolFullInv ==
    ASSUME IndInv, NEW r \in Rooms, ClaimPoolFull(r)
    PROVE  IndInv'
<1> USE DEF IndInv, ClaimPoolFull
<1>1. TypeOK'
  BY DEF TypeOK
<1>2. LockInv' /\ IndexInv' /\ WriterKeepsFile' /\ TapUnderClaim'
  BY DEF TypeOK, LockInv, IndexInv, WriterKeepsFile, TapUnderClaim
<1>3. BootInv' /\ LiveInv'
  BY DEF TypeOK, BootInv, LiveInv
<1>4. TeardownInv' /\ GcInv'
  BY DEF TypeOK, TeardownInv, GcInv
<1> QED
  BY <1>1, <1>2, <1>3, <1>4

(* The token lands in the file its writer still holds the lock for.         *)
LEMMA ClaimWriteInv ==
    ASSUME IndInv, NEW r \in Rooms, ClaimWrite(r)
    PROVE  IndInv'
<1> USE DEF IndInv, ClaimWrite, Unlock
<1>1. TypeOK'
  BY DEF TypeOK
<1>2. LockInv' /\ IndexInv' /\ WriterKeepsFile' /\ TapUnderClaim'
  BY DEF TypeOK, LockInv, IndexInv, WriterKeepsFile, TapUnderClaim
<1>3. BootInv' /\ LiveInv'
  BY DEF TypeOK, IndexInv, BootInv, LiveInv, WriterKeepsFile
<1>4. TeardownInv' /\ GcInv'
  BY DEF TypeOK, LockInv, TeardownInv, GcInv
<1> QED
  BY <1>1, <1>2, <1>3, <1>4

(* Only the writer's own partial file is removed.                           *)
LEMMA ClaimWriteFailInv ==
    ASSUME IndInv, NEW r \in Rooms, ClaimWriteFail(r)
    PROVE  IndInv'
<1> USE DEF IndInv, ClaimWriteFail, Unlock
<1>1. TypeOK'
  BY DEF TypeOK
<1>2. LockInv' /\ IndexInv' /\ WriterKeepsFile' /\ TapUnderClaim'
  BY DEF TypeOK, LockInv, IndexInv, WriterKeepsFile, TapUnderClaim
<1>3. BootInv' /\ LiveInv'
  BY DEF TypeOK, BootInv, LiveInv, WriterKeepsFile
<1>4. TeardownInv' /\ GcInv'
  BY DEF TypeOK, LockInv, TeardownInv, GcInv
<1> QED
  BY <1>1, <1>2, <1>3, <1>4

(* The claim is freed before there is a dir, a tap or a VM.                 *)
LEMMA BootRefusedInv ==
    ASSUME IndInv, NEW r \in Rooms, BootRefused(r)
    PROVE  IndInv'
<1> USE DEF IndInv, BootRefused
<1>1. TypeOK'
  BY DEF TypeOK
<1>2. LockInv' /\ IndexInv' /\ WriterKeepsFile' /\ TapUnderClaim'
  BY DEF TypeOK, LockInv, IndexInv, BootInv, WriterKeepsFile, TapUnderClaim
<1>3. BootInv' /\ LiveInv'
  BY DEF TypeOK, BootInv, LiveInv
<1>4. TeardownInv' /\ GcInv'
  BY DEF TypeOK, IndexInv, TeardownInv, GcInv
<1> QED
  BY <1>1, <1>2, <1>3, <1>4

(* The room dir appears under the claim.                                    *)
LEMMA PrepareRoomDirInv ==
    ASSUME IndInv, NEW r \in Rooms, PrepareRoomDir(r)
    PROVE  IndInv'
<1> USE DEF IndInv, PrepareRoomDir
<1>1. TypeOK'
  BY DEF TypeOK
<1>2. LockInv' /\ IndexInv' /\ WriterKeepsFile' /\ TapUnderClaim'
  BY DEF TypeOK, LockInv, IndexInv, WriterKeepsFile, TapUnderClaim
<1>3. BootInv' /\ LiveInv'
  BY DEF TypeOK, BootInv, LiveInv
<1>4. TeardownInv' /\ GcInv'
  BY DEF TypeOK, IndexInv, BootInv, TeardownInv, GcInv
<1> QED
  BY <1>1, <1>2, <1>3, <1>4

(* The device is made under the creator's own claim.                        *)
LEMMA CreateSlotTapInv ==
    ASSUME IndInv, NEW r \in Rooms, CreateSlotTap(r)
    PROVE  IndInv'
<1> USE DEF IndInv, CreateSlotTap
<1>1. TypeOK'
  <2> PICK phase \in {"tapped", "unwind"} : pc' = [pc EXCEPT ![r] = phase]
    OBVIOUS
  <2> QED
    BY DEF TypeOK
<1>2. LockInv' /\ IndexInv' /\ WriterKeepsFile' /\ TapUnderClaim'
  BY DEF TypeOK, LockInv, IndexInv, BootInv, WriterKeepsFile, TapUnderClaim
<1>3. BootInv' /\ LiveInv'
  BY DEF TypeOK, IndexInv, BootInv, LiveInv
<1>4. TeardownInv' /\ GcInv'
  BY DEF TypeOK, IndexInv, BootInv, TeardownInv, GcInv
<1> QED
  BY <1>1, <1>2, <1>3, <1>4

(* A VM starts with its dir, its claim and its tap in place.                *)
LEMMA SpawnJailerInv ==
    ASSUME IndInv, NEW r \in Rooms, SpawnJailer(r)
    PROVE  IndInv'
<1> USE DEF IndInv, SpawnJailer
<1>1. TypeOK'
  BY DEF TypeOK
<1>2. LockInv' /\ IndexInv' /\ WriterKeepsFile' /\ TapUnderClaim'
  BY DEF TypeOK, LockInv, IndexInv, WriterKeepsFile, TapUnderClaim
<1>3. BootInv' /\ LiveInv'
  BY DEF TypeOK, BootInv, LiveInv
<1>4. TeardownInv' /\ GcInv'
  BY DEF TypeOK, TeardownInv, GcInv
<1> QED
  BY <1>1, <1>2, <1>3, <1>4

(* room.json appears only for a VM that was started.                        *)
LEMMA WriteRoomMetaInv ==
    ASSUME IndInv, NEW r \in Rooms, WriteRoomMeta(r)
    PROVE  IndInv'
<1> USE DEF IndInv, WriteRoomMeta
<1>1. TypeOK'
  <2> PICK d \in {"bare", "meta"} : dir' = [dir EXCEPT ![r] = d]
    OBVIOUS
  <2> QED
    BY DEF TypeOK
<1>2. LockInv' /\ IndexInv' /\ WriterKeepsFile' /\ TapUnderClaim'
  BY DEF TypeOK, LockInv, IndexInv, WriterKeepsFile, TapUnderClaim
<1>3. BootInv' /\ LiveInv'
  BY DEF TypeOK, BootInv, LiveInv
<1>4. TeardownInv'
  <2>1. \A a \in Actors : pc[a] \in {"release", "held", "clean"} => job[a].room # r
    BY DEF Actors, IndexInv, GcInv, Past
  <2> QED
    BY <2>1 DEF TypeOK, TeardownInv
<1>5. GcInv'
  BY DEF TypeOK, GcInv
<1> QED
  BY <1>1, <1>2, <1>3, <1>4, <1>5

(* The guard takes over with everything still in place.                     *)
LEMMA UnwindInv ==
    ASSUME IndInv, NEW r \in Rooms, Unwind(r)
    PROVE  IndInv'
<1> USE DEF IndInv, Unwind
<1>1. TypeOK'
  BY DEF TypeOK
<1>2. LockInv' /\ IndexInv' /\ WriterKeepsFile' /\ TapUnderClaim'
  BY DEF TypeOK, LockInv, IndexInv, WriterKeepsFile, TapUnderClaim
<1>3. BootInv' /\ LiveInv'
  BY DEF TypeOK, BootInv, LiveInv
<1>4. TeardownInv' /\ GcInv'
  BY DEF TypeOK, TeardownInv, GcInv
<1> QED
  BY <1>1, <1>2, <1>3, <1>4

(* After the kill the VM of this CLI is dead or has its SIGKILL.            *)
LEMMA KillChildInv ==
    ASSUME IndInv, NEW r \in Rooms, KillChild(r)
    PROVE  IndInv'
<1> USE DEF IndInv, KillChild
<1>1. TypeOK'
  <2> PICK end \in {"killed", "dead"} :
               vm' = [vm EXCEPT ![r] = IF @ = "alive" THEN end ELSE @]
    OBVIOUS
  <2>1. pc' \in [Actors -> CliPhases \cup GcPhases]
    BY DEF TypeOK, Goto, CliPhases
  <2> QED
    BY <2>1 DEF TypeOK
<1>2. LockInv' /\ IndexInv' /\ WriterKeepsFile' /\ TapUnderClaim'
  BY DEF TypeOK, LockInv, IndexInv, WriterKeepsFile, TapUnderClaim
<1>3. BootInv' /\ LiveInv'
  BY DEF TypeOK, BootInv, LiveInv
<1>4. TeardownInv' /\ GcInv'
  BY DEF TypeOK, TeardownInv, GcInv
<1> QED
  BY <1>1, <1>2, <1>3, <1>4

(* A VM that dies by itself leaves all evidence behind.                     *)
LEMMA VmDiesInv ==
    ASSUME IndInv, NEW r \in Rooms, VmDies(r)
    PROVE  IndInv'
<1> USE DEF IndInv, VmDies
<1>1. TypeOK'
  BY DEF TypeOK
<1>2. LockInv' /\ IndexInv' /\ WriterKeepsFile' /\ TapUnderClaim'
  BY DEF TypeOK, LockInv, IndexInv, WriterKeepsFile, TapUnderClaim
<1>3. BootInv' /\ LiveInv'
  BY DEF TypeOK, BootInv, LiveInv
<1>4. TeardownInv' /\ GcInv'
  BY DEF TypeOK, TeardownInv, GcInv
<1> QED
  BY <1>1, <1>2, <1>3, <1>4

(* A kept room is a CLI that stops.                                         *)
LEMMA KeepInv ==
    ASSUME IndInv, NEW r \in Rooms, Keep(r)
    PROVE  IndInv'
<1>1. Abandon(r)
  BY PoolAssumption DEF Keep, Abandon, Goto, Ended, Actors, IndInv, LockInv,
     LockPhases
<1> QED
  BY <1>1, AbandonInv DEF Actors

(* A killed process is one that stops.                                      *)
LEMMA CrashInv ==
    ASSUME IndInv, NEW a \in Actors, Crash(a)
    PROVE  IndInv'
<1>1. Abandon(a)
  BY DEF Crash, Abandon, Goto, Ended
<1> QED
  BY <1>1, AbandonInv

(* The dir goes only once the VM is over.                                   *)
LEMMA RemoveRoomDirInv ==
    ASSUME IndInv, NEW a \in Actors, RemoveRoomDir(a)
    PROVE  IndInv'
<1> USE DEF IndInv
<1>a. CASE Abandon(a)
  BY <1>a, AbandonInv
<1>b. CASE ~Abandon(a)
  <2> SUFFICES ASSUME pc[a] \in {"killed", "reap"},
                        dir' = [dir EXCEPT ![job[a].room] = "none"],
                        Goto(a, "release"),
                        UNCHANGED <<slot, lock, tap, vm, job>>
               PROVE  IndInv'
    BY <1>b DEF RemoveRoomDir, Abandon, Return, Home, Unlock, LockInv, GcInv,
       TypeOK
  <2>1. TypeOK'
    BY DEF TypeOK
  <2>2. LockInv' /\ IndexInv' /\ WriterKeepsFile' /\ TapUnderClaim'
    BY DEF TypeOK, LockInv, IndexInv, TeardownInv, WriterKeepsFile, TapUnderClaim
  <2> DEFINE room == job[a].room
  <2>5. /\ room \in Rooms
        /\ vm[room] # "alive"
        /\ pc[room] \in Past
        /\ a \in Gcs => vm[room] = "dead"
    <3>1. CASE a \in Rooms
      <4>1. pc[a] = "killed" /\ a \notin Gcs
        BY <3>1, PoolAssumption DEF TypeOK
      <4>2. room = a /\ vm[a] # "alive"
        BY <3>1, <4>1 DEF IndexInv, TeardownInv
      <4> QED
        BY <3>1, <4>1, <4>2
    <3>2. CASE a \in Gcs
      <4>1. pc[a] = "reap"
        BY <3>2 DEF TypeOK
      <4> QED
        BY <3>2, <4>1 DEF GcInv
    <3> QED
      BY <3>1, <3>2 DEF Actors
  <2> HIDE DEF room
  <2>6. dir'[room] = "none" /\ \A q \in Rooms : q # room => dir'[q] = dir[q]
    BY <2>5 DEF TypeOK, room
  <2>3. BootInv' /\ LiveInv'
    BY <2>5, <2>6 DEF TypeOK, BootInv, LiveInv
  <2>4. TeardownInv' /\ GcInv'
    BY <2>5, <2>6 DEF TypeOK, LockInv, TeardownInv, GcInv, room
  <2> QED
    BY <2>1, <2>2, <2>3, <2>4
<1> QED
  BY <1>a, <1>b

(* The owner comparison under the lock fixes whose claim is freed.          *)
LEMMA FreeHoldInv ==
    ASSUME IndInv, NEW a \in Actors, FreeHold(a)
    PROVE  IndInv'
<1> USE DEF IndInv
<1>a. CASE Abandon(a)
  BY <1>a, AbandonInv
<1>b. CASE ~Abandon(a)
  <2> SUFFICES ASSUME pc[a] = "release", lock = NoActor, lock' = a,
                        slot[job[a].k] = Claimed(job[a].room),
                        Goto(a, "held"),
                        UNCHANGED <<slot, tap, dir, vm, job>>
               PROVE  IndInv'
    BY <1>b DEF FreeHold, Abandon, Return, Home, Unlock, LockInv, GcInv, TypeOK
  <2>1. TypeOK'
    BY DEF TypeOK
  <2>2. LockInv' /\ IndexInv' /\ WriterKeepsFile' /\ TapUnderClaim'
    BY DEF TypeOK, LockInv, IndexInv, WriterKeepsFile, TapUnderClaim
  <2>3. BootInv' /\ LiveInv'
    BY DEF TypeOK, BootInv, LiveInv
  <2>4. TeardownInv' /\ GcInv'
    BY DEF TypeOK, TeardownInv, GcInv
  <2> QED
    BY <2>1, <2>2, <2>3, <2>4
<1> QED
  BY <1>a, <1>b

(* The device is deleted while the claim is held.                           *)
LEMMA FreeCleanupInv ==
    ASSUME IndInv, NEW a \in Actors, FreeCleanup(a)
    PROVE  IndInv'
<1> USE DEF IndInv
<1>a. CASE Abandon(a)
  BY <1>a, AbandonInv
<1>b. CASE ~Abandon(a)
  <2> SUFFICES ASSUME pc[a] = "held",
                        tap' = [tap EXCEPT ![job[a].k] = NoRoom],
                        Goto(a, "clean"),
                        UNCHANGED <<slot, lock, dir, vm, job>>
               PROVE  IndInv'
    BY <1>b DEF FreeCleanup, Abandon, Return, Home, Unlock, LockInv, GcInv, TypeOK
  <2>1. TypeOK'
    BY DEF TypeOK
  <2>2. LockInv' /\ IndexInv' /\ WriterKeepsFile' /\ TapUnderClaim'
    BY DEF TypeOK, LockInv, IndexInv, WriterKeepsFile, TapUnderClaim
  <2>3. BootInv' /\ LiveInv'
    BY DEF TypeOK, IndexInv, BootInv, LiveInv, TeardownInv, GcInv
  <2>4. TeardownInv' /\ GcInv'
    BY DEF TypeOK, IndexInv, TeardownInv, GcInv
  <2> QED
    BY <2>1, <2>2, <2>3, <2>4
<1> QED
  BY <1>a, <1>b

(* gc holds a dead claimer's unchanged claim that has no room dir.          *)
LEMMA ReconcileHoldInv ==
    ASSUME IndInv, NEW g \in Gcs, ReconcileHold(g)
    PROVE  IndInv'
<1> USE DEF IndInv
<1>a. CASE Abandon(g)
  BY <1>a, AbandonInv
<1>b. CASE ~Abandon(g)
  <2> SUFFICES ASSUME pc[g] = "dead", lock = NoActor, lock' = g,
                        slot[job[g].k] = job[g].seen,
                        dir[job[g].room] = "none",
                        Goto(g, "reclaim"),
                        UNCHANGED <<slot, tap, dir, vm, job>>
               PROVE  IndInv'
    BY <1>b DEF ReconcileHold, ReconcileIf, Abandon, Return, Home, Unlock,
       LockInv, GcInv, TypeOK
  <2>1. TypeOK'
    BY DEF TypeOK
  <2>2. LockInv' /\ IndexInv' /\ WriterKeepsFile' /\ TapUnderClaim'
    BY DEF TypeOK, LockInv, IndexInv, WriterKeepsFile, TapUnderClaim
  <2>3. BootInv' /\ LiveInv'
    BY DEF TypeOK, BootInv, LiveInv
  <2>4. TeardownInv' /\ GcInv'
    BY DEF TypeOK, TeardownInv, GcInv
  <2> QED
    BY <2>1, <2>2, <2>3, <2>4
<1> QED
  BY <1>a, <1>b

(* gc deletes the device while the claim is held.                           *)
LEMMA ReconcileCleanupInv ==
    ASSUME IndInv, NEW g \in Gcs, ReconcileCleanup(g)
    PROVE  IndInv'
<1> USE DEF IndInv
<1>a. CASE Abandon(g)
  BY <1>a, AbandonInv
<1>b. CASE ~Abandon(g)
  <2> SUFFICES ASSUME pc[g] = "reclaim",
                        tap' = [tap EXCEPT ![job[g].k] = NoRoom],
                        Goto(g, "reclaimed"),
                        UNCHANGED <<slot, lock, dir, vm, job>>
               PROVE  IndInv'
    BY <1>b DEF ReconcileCleanup, Abandon, Return, Home, Unlock, LockInv, GcInv,
       TypeOK
  <2>1. TypeOK'
    BY DEF TypeOK
  <2>2. LockInv' /\ IndexInv' /\ WriterKeepsFile' /\ TapUnderClaim'
    BY DEF TypeOK, LockInv, IndexInv, WriterKeepsFile, TapUnderClaim
  <2>3. BootInv' /\ LiveInv'
    BY DEF TypeOK, BootInv, LiveInv, GcInv
  <2>4. TeardownInv' /\ GcInv'
    BY DEF TypeOK, TeardownInv, GcInv
  <2> QED
    BY <2>1, <2>2, <2>3, <2>4
<1> QED
  BY <1>a, <1>b

(* A sample is only a hint.                                                 *)
LEMMA SampleTapInv ==
    ASSUME IndInv, NEW g \in Gcs, SampleTap(g)
    PROVE  IndInv'
<1> USE DEF IndInv
<1>a. CASE Abandon(g)
  BY <1>a, AbandonInv
<1>b. CASE ~Abandon(g)
  <2> SUFFICES ASSUME pc[g] = "unclaimed", Goto(g, "orphan"),
                        UNCHANGED <<slot, lock, tap, dir, vm, job>>
               PROVE  IndInv'
    BY <1>b DEF SampleTap, Abandon, Return, Home, Unlock, LockInv, GcInv, TypeOK
  <2>1. TypeOK'
    BY DEF TypeOK
  <2>2. LockInv' /\ IndexInv' /\ WriterKeepsFile' /\ TapUnderClaim'
    BY DEF TypeOK, LockInv, IndexInv, WriterKeepsFile, TapUnderClaim
  <2>3. BootInv' /\ LiveInv'
    BY DEF TypeOK, BootInv, LiveInv
  <2>4. TeardownInv' /\ GcInv'
    BY DEF TypeOK, TeardownInv, GcInv
  <2> QED
    BY <2>1, <2>2, <2>3, <2>4
<1> QED
  BY <1>a, <1>b

(* The sample is confirmed under the lock.                                  *)
LEMMA SweepHoldInv ==
    ASSUME IndInv, NEW g \in Gcs, SweepHold(g)
    PROVE  IndInv'
<1> USE DEF IndInv
<1>a. CASE Abandon(g)
  BY <1>a, AbandonInv
<1>b. CASE ~Abandon(g)
  <2> SUFFICES ASSUME pc[g] = "orphan", lock = NoActor, lock' = g,
                        slot[job[g].k] = Free, Goto(g, "sweep"),
                        UNCHANGED <<slot, tap, dir, vm, job>>
               PROVE  IndInv'
    BY <1>b DEF SweepHold, Abandon, Return, Home, Unlock, LockInv, GcInv, TypeOK
  <2>1. TypeOK'
    BY DEF TypeOK
  <2>2. LockInv' /\ IndexInv' /\ WriterKeepsFile' /\ TapUnderClaim'
    BY DEF TypeOK, LockInv, IndexInv, WriterKeepsFile, TapUnderClaim
  <2>3. BootInv' /\ LiveInv'
    BY DEF TypeOK, BootInv, LiveInv
  <2>4. TeardownInv' /\ GcInv'
    BY DEF TypeOK, TeardownInv, GcInv
  <2> QED
    BY <2>1, <2>2, <2>3, <2>4
<1> QED
  BY <1>a, <1>b

(* A listed room with a dead VM stays dead.                                 *)
LEMMA ReapBeginInv ==
    ASSUME IndInv, NEW g \in Gcs, ReapBegin(g)
    PROVE  IndInv'
<1> USE DEF IndInv
<1>a. CASE Abandon(g)
  BY <1>a, AbandonInv
<1>b. CASE ~Abandon(g)
  <2> SUFFICES ASSUME pc[g] = "listed", Goto(g, "reap"),
                        UNCHANGED <<slot, lock, tap, dir, vm, job>>
               PROVE  IndInv'
    BY <1>b DEF ReapBegin, Abandon, Return, Home, Unlock, LockInv, GcInv, TypeOK
  <2>1. TypeOK'
    BY DEF TypeOK
  <2>2. LockInv' /\ IndexInv' /\ WriterKeepsFile' /\ TapUnderClaim'
    BY DEF TypeOK, LockInv, IndexInv, WriterKeepsFile, TapUnderClaim
  <2>3. BootInv' /\ LiveInv'
    BY DEF TypeOK, BootInv, LiveInv
  <2>4. TeardownInv' /\ GcInv'
    BY DEF TypeOK, TeardownInv, GcInv
  <2> QED
    BY <2>1, <2>2, <2>3, <2>4
<1> QED
  BY <1>a, <1>b

(* A terminated VM is dead when its reap begins.                            *)
LEMMA KillTerminateInv ==
    ASSUME IndInv, NEW g \in Gcs, KillTerminate(g)
    PROVE  IndInv'
<1> USE DEF IndInv
<1>a. CASE Abandon(g)
  BY <1>a, AbandonInv
<1>b. CASE ~Abandon(g)
  <2> SUFFICES ASSUME pc[g] = "doomed",
                        vm' = [vm EXCEPT ![job[g].room] = "dead"],
                        Goto(g, "reap"),
                        UNCHANGED <<slot, lock, tap, dir, job>>
               PROVE  IndInv'
    BY <1>b DEF KillTerminate, Abandon, Return, Home, Unlock, LockInv, GcInv,
       TypeOK
  <2>1. TypeOK'
    BY DEF TypeOK
  <2>2. LockInv' /\ IndexInv' /\ WriterKeepsFile' /\ TapUnderClaim'
    BY DEF TypeOK, LockInv, IndexInv, GcInv, WriterKeepsFile, TapUnderClaim
  <2>3. BootInv' /\ LiveInv'
    BY DEF TypeOK, BootInv, LiveInv, GcInv
  <2>4. TeardownInv' /\ GcInv'
    BY DEF TypeOK, TeardownInv, GcInv
  <2> QED
    BY <2>1, <2>2, <2>3, <2>4
<1> QED
  BY <1>a, <1>b

(* The file goes after the device.                                          *)
LEMMA FreeUnlinkInv ==
    ASSUME IndInv, NEW a \in Actors, FreeUnlink(a)
    PROVE  IndInv'
<1> USE DEF IndInv, FreeUnlink, Return, Home, Unlock, NoJob
<1>1. TypeOK'
  BY DEF TypeOK
<1>2. LockInv' /\ IndexInv' /\ WriterKeepsFile' /\ TapUnderClaim'
  BY DEF TypeOK, LockInv, IndexInv, TeardownInv, WriterKeepsFile, TapUnderClaim
<1>3. BootInv' /\ LiveInv'
  BY DEF TypeOK, IndexInv, BootInv, LiveInv, TeardownInv, GcInv
<1>4. TeardownInv' /\ GcInv'
  BY DEF TypeOK, LockInv, TeardownInv, GcInv
<1> QED
  BY <1>1, <1>2, <1>3, <1>4

(* An unchanged partial file under the lock has no writer.                  *)
LEMMA DiscardPartialInv ==
    ASSUME IndInv, NEW g \in Gcs, DiscardPartial(g)
    PROVE  IndInv'
<1> USE DEF IndInv, DiscardPartial, Return, Home, Unlock, NoJob
<1>1. TypeOK'
  BY DEF TypeOK
<1>2. LockInv' /\ IndexInv' /\ WriterKeepsFile' /\ TapUnderClaim'
  BY DEF TypeOK, LockInv, IndexInv, GcInv, WriterKeepsFile, TapUnderClaim
<1>3. BootInv' /\ LiveInv'
  BY DEF TypeOK, BootInv, LiveInv, GcInv
<1>4. TeardownInv' /\ GcInv'
  BY DEF TypeOK, IndexInv, TeardownInv, GcInv
<1> QED
  BY <1>1, <1>2, <1>3, <1>4

(* gc unlinks the file after the device.                                    *)
LEMMA ReconcileUnlinkInv ==
    ASSUME IndInv, NEW g \in Gcs, ReconcileUnlink(g)
    PROVE  IndInv'
<1> USE DEF IndInv, ReconcileUnlink, Return, Home, Unlock, NoJob
<1>1. TypeOK'
  BY DEF TypeOK
<1>2. LockInv' /\ IndexInv' /\ WriterKeepsFile' /\ TapUnderClaim'
  BY DEF TypeOK, LockInv, IndexInv, GcInv, WriterKeepsFile, TapUnderClaim
<1>3. BootInv' /\ LiveInv'
  BY DEF TypeOK, BootInv, LiveInv, GcInv
<1>4. TeardownInv' /\ GcInv'
  BY DEF TypeOK, LockInv, TeardownInv, GcInv
<1> QED
  BY <1>1, <1>2, <1>3, <1>4

(* A device is swept only from a free index.                                *)
LEMMA SweepTapInv ==
    ASSUME IndInv, NEW g \in Gcs, SweepTap(g)
    PROVE  IndInv'
<1> USE DEF IndInv, SweepTap, Return, Home, Unlock, NoJob
<1>1. TypeOK'
  BY DEF TypeOK
<1>2. LockInv' /\ IndexInv' /\ WriterKeepsFile' /\ TapUnderClaim'
  BY DEF TypeOK, LockInv, IndexInv, WriterKeepsFile, TapUnderClaim
<1>3. BootInv' /\ LiveInv'
  BY DEF TypeOK, BootInv, LiveInv, GcInv
<1>4. TeardownInv' /\ GcInv'
  BY DEF TypeOK, TeardownInv, GcInv
<1> QED
  BY <1>1, <1>2, <1>3, <1>4

(* A judged claim names a process that has ended, or no process.            *)
LEMMA ReconcileJudgeInv ==
    ASSUME IndInv, NEW g \in Gcs, ReconcileJudge(g)
    PROVE  IndInv'
<1> USE DEF IndInv
<1>1. CASE Abandon(g)
  BY <1>1, AbandonInv
<1>2. CASE job[g].seen.rooms = {} /\ Goto(g, "partial") /\ UNCHANGED job
  <2> USE <1>2
  <2>1. pc[g] = "read" /\ UNCHANGED <<slot, lock, tap, dir, vm>>
    BY DEF ReconcileJudge
  <2>2. job[g].seen = InProgress
    <3>1. job[g].seen \in PoolToken /\ job[g].seen.kind \in {"partial", "claimed"}
      BY <2>1 DEF TypeOK, GcInv
    <3>2. \A q \in Rooms : job[g].seen # Claimed(q)
      BY <1>2
    <3> QED
      BY <3>1, <3>2
  <2>3. TypeOK'
    BY <2>1 DEF TypeOK
  <2>4. LockInv' /\ IndexInv' /\ WriterKeepsFile' /\ TapUnderClaim'
    BY <2>1 DEF TypeOK, LockInv, IndexInv, WriterKeepsFile, TapUnderClaim
  <2>5. BootInv' /\ LiveInv'
    BY <2>1 DEF TypeOK, BootInv, LiveInv
  <2>6. TeardownInv' /\ GcInv'
    BY <2>1, <2>2 DEF TypeOK, TeardownInv, GcInv
  <2> QED
    BY <2>3, <2>4, <2>5, <2>6
<1>3. ASSUME NEW r \in job[g].seen.rooms, pc[r] \in Ended,
             Goto(g, "dead"), job' = [job EXCEPT ![g].room = r]
      PROVE  IndInv'
  <2>1. pc[g] = "read" /\ UNCHANGED <<slot, lock, tap, dir, vm>>
    BY DEF ReconcileJudge
  <2>2. r \in Rooms /\ job[g].seen = Claimed(r) 
    BY <2>1 DEF TypeOK, GcInv
  <2>3. TypeOK'
    BY <1>3, <2>1, <2>2 DEF TypeOK
  <2>4. LockInv' /\ IndexInv' /\ WriterKeepsFile' /\ TapUnderClaim'
    BY <1>3, <2>1, <2>2 DEF TypeOK, LockInv, IndexInv, WriterKeepsFile,
       TapUnderClaim
  <2>5. BootInv' /\ LiveInv'
    BY <1>3, <2>1, <2>2 DEF TypeOK, BootInv, LiveInv
  <2>6. TeardownInv' /\ GcInv'
    BY <1>3, <2>1, <2>2 DEF TypeOK, TeardownInv, GcInv
  <2> QED
    BY <2>3, <2>4, <2>5, <2>6
<1> QED
  BY <1>1, <1>2, <1>3 DEF ReconcileJudge, Abandon, Return, Home, TypeOK, LockInv

(* Reading without the lock records what was there.                         *)
LEMMA ReconcileReadInv ==
    ASSUME IndInv, NEW g \in Gcs, NEW k \in Slots, ReconcileRead(g, k)
    PROVE  IndInv'
<1> USE DEF IndInv, ReconcileRead
<1>1. TypeOK'
  BY DEF TypeOK
<1>2. LockInv' /\ IndexInv' /\ WriterKeepsFile' /\ TapUnderClaim'
  BY DEF TypeOK, LockInv, IndexInv, WriterKeepsFile, TapUnderClaim
<1>3. BootInv' /\ LiveInv'
  BY DEF TypeOK, BootInv, LiveInv
<1>4. TeardownInv' /\ GcInv'
  BY DEF TypeOK, TeardownInv, GcInv
<1> QED
  BY <1>1, <1>2, <1>3, <1>4

(* Reading without the lock records what was there.                         *)
LEMMA SampleUnclaimedInv ==
    ASSUME IndInv, NEW g \in Gcs, NEW k \in Slots, SampleUnclaimed(g, k)
    PROVE  IndInv'
<1> USE DEF IndInv, SampleUnclaimed
<1>1. TypeOK'
  <2>1. [job[g] EXCEPT !.k = k] \in Jobs
    BY DEF TypeOK
  <2>2. job' \in [Actors -> Jobs]
    BY <2>1 DEF TypeOK
  <2> QED
    BY <2>2 DEF TypeOK
<1>2. LockInv' /\ IndexInv' /\ WriterKeepsFile' /\ TapUnderClaim'
  BY DEF TypeOK, LockInv, IndexInv, WriterKeepsFile, TapUnderClaim
<1>3. BootInv' /\ LiveInv'
  BY DEF TypeOK, BootInv, LiveInv
<1>4. TeardownInv' /\ GcInv'
  BY DEF TypeOK, TeardownInv, GcInv
<1> QED
  BY <1>1, <1>2, <1>3, <1>4

(* A listed room has been through its boot and its VM is dead.              *)
LEMMA ListDeadInv ==
    ASSUME IndInv, NEW g \in Gcs, NEW r \in Rooms, ListDead(g, r)
    PROVE  IndInv'
<1> USE DEF IndInv, ListDead
<1>1. TypeOK'
  BY DEF TypeOK
<1>2. LockInv' /\ IndexInv' /\ WriterKeepsFile' /\ TapUnderClaim'
  BY DEF TypeOK, LockInv, IndexInv, WriterKeepsFile, TapUnderClaim
<1>3. BootInv' /\ LiveInv'
  BY DEF TypeOK, BootInv, LiveInv
<1>4. TeardownInv' /\ GcInv'
  BY DEF TypeOK, IndexInv, BootInv, TeardownInv, GcInv
<1> QED
  BY <1>1, <1>2, <1>3, <1>4

(* A room to be killed has been through its boot.                           *)
LEMMA KillFindInv ==
    ASSUME IndInv, NEW g \in Gcs, NEW r \in Rooms, KillFind(g, r)
    PROVE  IndInv'
<1> USE DEF IndInv, KillFind
<1>1. TypeOK'
  BY DEF TypeOK
<1>2. LockInv' /\ IndexInv' /\ WriterKeepsFile' /\ TapUnderClaim'
  BY DEF TypeOK, LockInv, IndexInv, WriterKeepsFile, TapUnderClaim
<1>3. BootInv' /\ LiveInv'
  BY DEF TypeOK, BootInv, LiveInv
<1>4. TeardownInv' /\ GcInv'
  BY DEF TypeOK, IndexInv, BootInv, TeardownInv, GcInv
<1> QED
  BY <1>1, <1>2, <1>3, <1>4

HIDE DEF Goto, Actors, Jobs, PoolToken, CliPhases, GcPhases,
         LockPhases, Early, Booting, Past, Ended

-----------------------------------------------------------------------------
(* Every step of every process preserves the invariant.                    *)
LEMMA StepInv == IndInv /\ [Next]_vars => IndInv'
<1> SUFFICES ASSUME IndInv, [Next]_vars PROVE IndInv'
  OBVIOUS
<1>1. ASSUME NEW r \in Rooms, RunStep(r) PROVE IndInv'
  BY <1>1, ClaimCreateInv, ClaimPoolFullInv, ClaimWriteInv, ClaimWriteFailInv,
     BootRefusedInv, PrepareRoomDirInv,
     CreateSlotTapInv, SpawnJailerInv, WriteRoomMetaInv, KeepInv, UnwindInv,
     KillChildInv DEF RunStep
<1>2. ASSUME NEW a \in Actors, ReleaseStep(a) PROVE IndInv'
  BY <1>2, RemoveRoomDirInv, FreeHoldInv, FreeCleanupInv, FreeUnlinkInv
     DEF ReleaseStep
<1>3. ASSUME NEW g \in Gcs, SweepStep(g) PROVE IndInv'
  BY <1>3, ReconcileReadInv, SampleUnclaimedInv, ReconcileJudgeInv,
     DiscardPartialInv, ReconcileHoldInv,
     ReconcileCleanupInv, ReconcileUnlinkInv, SampleTapInv, SweepHoldInv,
     SweepTapInv DEF SweepStep
<1>4. ASSUME NEW g \in Gcs, ReapStep(g) PROVE IndInv'
  BY <1>4, ListDeadInv, KillFindInv, ReapBeginInv, KillTerminateInv DEF ReapStep
<1>5. CASE UNCHANGED vars
  BY <1>5 DEF vars, IndInv, TypeOK, LockInv, IndexInv, BootInv, LiveInv,
              TeardownInv, GcInv, WriterKeepsFile, TapUnderClaim
<1> QED
  BY <1>1, <1>2, <1>3, <1>4, <1>5, VmDiesInv, CrashInv DEF Next

(* The inductive invariant holds in every reachable state.                 *)
THEOREM Invariance == Spec => []IndInv
BY InitInv, StepInv, PTL DEF Spec

(* Every variable keeps its type; slot files only ever hold well-formed    *)
(* tokens of the pool (indexed_claim.rs, slot.rs).                         *)
THEOREM TypeCorrect == Spec => []TypeOK
<1>1. IndInv => TypeOK
  BY DEF IndInv
<1> QED
  BY <1>1, Invariance, PTL

(* For any number of CLIs, gc and kill processes and slots, a running VM   *)
(* keeps its slot file and its tap (free_with, reconcile_dead,             *)
(* cleanup_if_unclaimed, RoomGuard).                                       *)
THEOREM LiveRoomSafe == Spec => []LiveRoomKeepsSlot
<1>1. IndInv => LiveRoomKeepsSlot
  BY DEF IndInv, LiveInv, IndexInv, LiveRoomKeepsSlot
<1> QED
  BY <1>1, Invariance, PTL

(* A room's tap never outlives its claim, so no claimer meets the device   *)
(* of its predecessor (free_with and reconcile_dead clean before unlink).  *)
THEOREM TapSafe == Spec => []TapUnderClaim
<1>1. IndInv => TapUnderClaim
  BY DEF IndInv
<1> QED
  BY <1>1, Invariance, PTL

(* No gc unlinks the half-written token of a live claimer (try_claim,      *)
(* discard_abandoned_partial).                                             *)
THEOREM WriterSafe == Spec => []WriterKeepsFile
<1>1. IndInv => WriterKeepsFile
  BY DEF IndInv
<1> QED
  BY <1>1, Invariance, PTL

-----------------------------------------------------------------------------
(* Only five actions write a slot file that is not free; what each of them *)
(* overwrites is fixed by the invariant.                                   *)
LEMMA SlotWrites ==
    ASSUME IndInv, [Next]_vars, NEW k \in Slots, slot'[k] # slot[k],
           slot[k] # Free
    PROVE  \/ slot[k] = InProgress
           \/ \E r \in Rooms : /\ slot[k] = Claimed(r)
                              /\ vm[r] # "alive" /\ dir[r] = "none"
<1> DEFINE Goal == \/ slot[k] = InProgress
                   \/ \E r \in Rooms : /\ slot[k] = Claimed(r)
                                      /\ vm[r] # "alive" /\ dir[r] = "none"
<1> USE DEF IndInv
<1>1. ASSUME NEW r \in Rooms, RunStep(r) PROVE Goal
  <2>1. CASE ClaimCreate(r)
    BY <2>1 DEF ClaimCreate, WalkFree, TypeOK
  <2>2. CASE ClaimWrite(r) \/ ClaimWriteFail(r)
    BY <2>2 DEF ClaimWrite, ClaimWriteFail, WriterKeepsFile, TypeOK
  <2>3. CASE BootRefused(r)
    BY <2>3 DEF BootRefused, BootInv, Early, TypeOK
  <2> QED
    BY <1>1, <2>1, <2>2, <2>3
       DEF RunStep, ClaimPoolFull, PrepareRoomDir, CreateSlotTap, SpawnJailer,
           WriteRoomMeta, Keep, Unwind, KillChild
<1>2. ASSUME NEW a \in Actors, ReleaseStep(a) PROVE Goal
  <2>1. CASE FreeUnlink(a)
    <3>1. job[a].room \in Rooms /\ vm[job[a].room] # "alive"
      BY <2>1 DEF FreeUnlink, TeardownInv, IndexInv, GcInv, Actors
    <3> QED
      BY <2>1, <3>1 DEF FreeUnlink, TeardownInv, TypeOK
  <2> QED
    BY <1>2, <2>1 DEF ReleaseStep, RemoveRoomDir, FreeHold, FreeCleanup
<1>3. ASSUME NEW g \in Gcs, SweepStep(g) PROVE Goal
  <2>1. CASE DiscardPartial(g)
    BY <2>1 DEF DiscardPartial, GcInv, TypeOK
  <2>2. CASE ReconcileUnlink(g)
    BY <2>2 DEF ReconcileUnlink, GcInv, LiveInv, TypeOK
  <2> QED
    BY <1>3, <2>1, <2>2
       DEF SweepStep, ReconcileRead, SampleUnclaimed, ReconcileJudge,
           ReconcileHold, ReconcileIf, ReconcileCleanup, SampleTap, SweepHold,
           SweepTap
<1>4. ASSUME NEW g \in Gcs, ReapStep(g) PROVE Goal
  BY <1>4 DEF ReapStep, ListDead, KillFind, ReapBegin, KillTerminate
<1> QED
  BY <1>1, <1>2, <1>3, <1>4 DEF Next, VmDies, Crash, vars

(* A claim is given up only for a room with no running VM and no dir: the  *)
(* release paths of CLI and gc all pass the reap-clean gate first.         *)
THEOREM ClaimSafe == Spec => ClaimOutlivesRoom
<1>1. IndInv /\ [Next]_vars => [ReleaseOnlyFinished]_vars
  BY SlotWrites, TokenFacts DEF ReleaseOnlyFinished
<1> QED
  BY <1>1, Invariance, PTL DEF Spec, ClaimOutlivesRoom

(* No walk, sweep or teardown touches a snapshot's reservation.            *)
THEOREM ReservationSafe == Spec => ReservationsKept
<1>1. IndInv /\ [Next]_vars => [KeepReservations]_vars
  BY SlotWrites, TokenFacts DEF KeepReservations
<1> QED
  BY <1>1, Invariance, PTL DEF Spec, ReservationsKept
=============================================================================
