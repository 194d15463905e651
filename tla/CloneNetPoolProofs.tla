------------------------- MODULE CloneNetPoolProofs -------------------------
(***************************************************************************)
(* Proofs about CloneNetPool for any number of state directories, batches, *)
(* members, gc processes and indices: the safety invariants of the run,    *)
(* and the refinement of HostNets; and about the routing preflight an      *)
(* allocation passes (RoutePreflight, at the end), for any address width.  *)
(*                                                                         *)
(* The argument: at any time one actor works on the network of a room,     *)
(* the room's own thread while its process lives and afterwards whichever  *)
(* gc holds the lock of the room's state directory (Exclusive).  A step of *)
(* that actor touches the claim, the marker and the devices of that room   *)
(* only, so what every other actor relies on stands (Frame), and each      *)
(* action has to show only what it establishes for its own actor.          *)
(***************************************************************************)
EXTENDS CloneNetPool, RoutePreflight, Integers, Sequences, TLAPS, WellFoundedInduction

Unclaimed == {"new", "routed", "lock", "walk"}
InUse     == {"created", "allocated", "owned"}
Building  == {"create", "undo", "unmark"} \cup InUse

(* Phases in which an actor works under the claim of its room.             *)
Working   == Building \cup {"mark", "release"} \cup (Freeing \ {"free"})

(* The devices of room r up to the n-th.                                   *)
Built(r, n) == {<<Devices[k], r>> : k \in 1..n}

(* A claim stands in the room's own state directory, at the one index the  *)
(* room works with, and not before or after the room's life in the pool.   *)
ClaimInv ==
    \A b \in Bases, i \in Indices, r \in Rooms : claim[b][i] = r =>
        /\ b = Base(r) /\ i = job[r].idx
        /\ pc[r] \notin Unclaimed \cup {"done"}
        /\ ~(pc[r] = "failed" /\ fail[r] = "full")

(* What an actor that works on a room may rely on.                         *)
ActorInv(a) ==
    LET r == job[a].room  i == job[a].idx IN
    /\ a \in Rooms => r = a
    /\ pc[a] \in Working \cup {"free", "judge"} =>
         /\ r \in Rooms /\ Base(r) = Base(a)
         /\ i \in Indices /\ i = job[r].idx
         /\ a \in Gcs => proc[BatchOf[r]] = "gone"
    /\ pc[a] \in Working => claim[Base(a)][i] = r
    /\ pc[a] \in Building \cup {"probe", "delete", "drop"} => marker[i] = r
    /\ pc[a] \in {"mark", "release", "unlink"} => marker[i] # r
    /\ pc[a] \in {"unmark", "probe", "drop"} => dev[i] = {}

(* The network of r is complete and its process lives.                     *)
HasNetwork(r) ==
    pc[r] \in InUse \/ (pc[r] = "kept" /\ proc[BatchOf[r]] = "live")

(* What a member's thread may rely on besides.                             *)
MemberInv(r) ==
    LET i == job[r].idx IN
    /\ proc[BatchOf[r]] = "gone" => pc[r] \in Ended
    /\ dir[r] => pc[r] \in {"owned"} \cup Ended /\ i \in Indices
    /\ pc[r] \in Unclaimed \cup {"mark"} => stage[r] = 0
    /\ pc[r] \in {"create", "undo"} => dev[i] = Built(r, stage[r])
    /\ HasNetwork(r) =>
         /\ i \in Indices /\ claim[Base(r)][i] = r
         /\ marker[i] = r /\ dev[i] = Built(r, 3)

IndInv ==
    /\ TypeOK
    /\ DevicesAccounted
    /\ ClaimInv
    /\ \A a \in Actors : ActorInv(a)
    /\ \A r \in Rooms : MemberInv(r)

(* A step of actor a touches only what belongs to the room it works on.    *)
Effect(a) ==
    LET r == job[a].room IN
    /\ \A c \in Actors \ {a} : pc'[c] = pc[c] /\ job'[c] = job[c]
    /\ \A q \in Rooms \ {a} : stage'[q] = stage[q] /\ (dir'[q] => dir[q])
    /\ proc' = proc
    /\ a \in Rooms /\ pc[a] \in Ended => job'[a] = job[a]
    /\ \A b \in Bases, i \in Indices : claim'[b][i] # claim[b][i] =>
         claim[b][i] = NoRoom \/ (pc[a] \in Working /\ claim[b][i] = r)
    /\ \A i \in Indices : marker'[i] # marker[i] =>
         /\ pc[a] \in Working
         /\ marker[i] \in {r, NoRoom} /\ marker'[i] \in {r, NoRoom}
    /\ \A i \in Indices : dev'[i] # dev[i] => pc[a] \in Working /\ marker[i] = r

-----------------------------------------------------------------------------
(* The least element of a set of indices is one of them.                   *)
LEMMA MinOfIndices ==
    ASSUME NEW S \in SUBSET Indices, S # {}
    PROVE  Min(S) \in S
<1>1. S \subseteq Nat
  BY NetAssumption DEF Indices
<1>2. PICK x \in S : \A y \in S : ~(<<y, x>> \in OpToRel(<, Nat))
  BY <1>1, WFMin, NatLessThanWellFounded
<1>3. OpToRel(<, Nat) = {ss \in Nat \X Nat : ss[1] < ss[2]}
  BY DEF OpToRel
<1>4. ASSUME NEW y \in S
      PROVE  x =< y
  <2>1. x \in Nat /\ y \in Nat
    BY <1>1
  <2>2. ~(<<y, x>> \in {ss \in Nat \X Nat : ss[1] < ss[2]})
    BY <1>2, <1>3
  <2>3. ~(y < x)
    BY <2>1, <2>2
  <2> QED
    BY <2>1, <2>3
<1> QED
  BY <1>4 DEF Min

(* Every actor has a state directory and every member a batch.             *)
LEMMA BaseType ==
    /\ \A a \in Actors : Base(a) \in Bases
    /\ \A r \in Rooms : BatchOf[r] \in Batches
BY NetAssumption DEF Base, Actors

(* Nobody else works on the room that an actor works on.                   *)
LEMMA Exclusive ==
    ASSUME IndInv, NEW a \in Actors, NEW c \in Actors,
           pc[a] \in Working, pc[c] \in Working, job[a].room = job[c].room
    PROVE  a = c
<1> USE DEF IndInv, Actors
<1>1. CASE a \in Rooms /\ c \in Rooms
  BY <1>1 DEF ActorInv
<1>2. CASE a \in Rooms /\ c \in Gcs
  BY <1>2 DEF ActorInv, MemberInv, Working, Building, InUse, Freeing, Ended
<1>3. CASE a \in Gcs /\ c \in Rooms
  BY <1>3 DEF ActorInv, MemberInv, Working, Building, InUse, Freeing, Ended
<1>4. CASE a \in Gcs /\ c \in Gcs
  <2>1. pc[a] \in Locked /\ pc[c] \in Locked
    BY <1>4 DEF TypeOK, Working, Building, InUse, Freeing, Locked
  <2> QED
    BY <1>4, <2>1 DEF TypeOK, ActorInv
<1> QED
  BY <1>1, <1>2, <1>3, <1>4

(* What the other actors rely on survives a step of a.                     *)
LEMMA Frame ==
    ASSUME IndInv, NEW a \in Actors, Effect(a)
    PROVE  /\ \A c \in Actors \ {a} : ActorInv(c)'
           /\ \A q \in Rooms \ {a} : MemberInv(q)'
<1> USE NetAssumption, BaseType DEF Actors
<1>1. ASSUME NEW c \in Actors \ {a}
      PROVE  ActorInv(c)'
  <2> DEFINE r == job[c].room  i == job[c].idx
  <2>1. pc'[c] = pc[c] /\ job'[c] = job[c] /\ proc' = proc
    BY DEF Effect
  <2>2. pc[c] \in Working => job[a].room # r \/ pc[a] \notin Working
    BY Exclusive DEF IndInv
  <2>3. ActorInv(c)
    BY DEF IndInv
  <2>4. pc[c] \in Working \cup {"free", "judge"} => job'[r].idx = job[r].idx
    <3>1. CASE c \in Rooms
      BY <2>1, <2>3, <3>1 DEF ActorInv
    <3>2. CASE c \in Gcs /\ r = a
      BY <2>3, <3>2 DEF ActorInv, IndInv, MemberInv, Effect
    <3>3. CASE c \in Gcs /\ r # a
      BY <2>3, <3>3 DEF ActorInv, Effect
    <3> QED
      BY <3>1, <3>2, <3>3
  <2>5. pc[c] \in Working => claim'[Base(c)][i] = r
    BY <2>2, <2>3 DEF ActorInv, Effect
  <2>6. pc[c] \in Building \cup {"probe", "delete", "drop"} => marker'[i] = r
    BY <2>2, <2>3 DEF ActorInv, Effect, Working, Freeing
  <2>7. pc[c] \in {"mark", "release", "unlink"} => marker'[i] # r
    BY <2>2, <2>3 DEF ActorInv, Effect, Working, Freeing
  <2>8. pc[c] \in {"unmark", "probe", "drop"} => dev'[i] = {}
    BY <2>2, <2>3 DEF ActorInv, Effect, Working, Building, Freeing
  <2> QED
    BY <2>1, <2>3, <2>4, <2>5, <2>6, <2>7, <2>8 DEF ActorInv
<1>2. ASSUME NEW q \in Rooms \ {a}
      PROVE  MemberInv(q)'
  <2> DEFINE i == job[q].idx
  <2>1. /\ pc'[q] = pc[q] /\ job'[q] = job[q] /\ proc' = proc
        /\ stage'[q] = stage[q] /\ (dir'[q] => dir[q])
    BY DEF Effect
  <2>2. MemberInv(q) /\ ActorInv(q) /\ ActorInv(a)
    BY DEF IndInv
  <2>3. pc[a] \in Working /\ job[a].room = q => proc[BatchOf[q]] = "gone"
    BY <2>2 DEF ActorInv
  <2>4. proc[BatchOf[q]] = "gone" => pc[q] \in Ended
    BY <2>2 DEF MemberInv
  <2>5. HasNetwork(q) => i \in Indices
    BY <2>2 DEF MemberInv
  <2>6. pc[q] \in {"create", "undo"} => dev'[i] = dev[i]
    BY <2>2, <2>3, <2>4 DEF ActorInv, Effect, Working, Building, Ended
  <2>7. HasNetwork(q) =>
          dev'[i] = dev[i] /\ marker'[i] = marker[i]
            /\ claim'[Base(q)][i] = claim[Base(q)][i]
    BY <2>2, <2>3, <2>4, <2>5 DEF MemberInv, HasNetwork, Effect, InUse, Ended
  <2> QED
    BY <2>1, <2>2, <2>6, <2>7 DEF MemberInv, HasNetwork
<1> QED
  BY <1>1, <1>2

(* A step of a preserves the invariant when it does so for a itself.       *)
LEMMA OwnStep ==
    ASSUME IndInv, NEW a \in Actors, Effect(a),
           TypeOK', DevicesAccounted', ClaimInv', ActorInv(a)',
           a \in Rooms => MemberInv(a)'
    PROVE  IndInv'
<1>1. (\A c \in Actors : ActorInv(c))'
  BY Frame
<1>2. (\A q \in Rooms : MemberInv(q))'
  BY Frame
<1> QED
  BY <1>1, <1>2 DEF IndInv

(* The initial states satisfy the invariant.                               *)
LEMMA InitInv == Init => IndInv
<1> SUFFICES ASSUME Init PROVE IndInv
  OBVIOUS
<1> USE NetAssumption, BaseType DEF Init, Actors, Indices
<1>1. TypeOK
  BY DEF TypeOK, Allocating, Freeing, Ended, Locked
<1>2. DevicesAccounted /\ ClaimInv
  BY DEF DevicesAccounted, ClaimInv
<1>3. \A a \in Actors : ActorInv(a)
  BY DEF ActorInv, Working, Building, InUse, Freeing
<1>4. \A r \in Rooms : MemberInv(r)
  BY DEF MemberInv, HasNetwork, InUse, Unclaimed
<1> QED
  BY <1>1, <1>2, <1>3, <1>4 DEF IndInv

-----------------------------------------------------------------------------
(* One lemma per action.                                                   *)
USE NetAssumption, BaseType
    DEF Goto, Actors, Indices, Allocating, Freeing, Ended, Locked, Unclaimed,
        InUse, Building, Working

(* A claim file is written or removed; the other files stay.               *)
LEMMA ClaimSet ==
    ASSUME TypeOK, NEW b \in Bases, NEW i \in Indices,
           NEW r \in Rooms \cup {NoRoom}, SetClaim(b, i, r)
    PROVE  /\ claim' \in [Bases -> [Indices -> Rooms \cup {NoRoom}]]
           /\ \A c \in Bases, j \in Indices :
                claim'[c][j] = IF c = b /\ j = i THEN r ELSE claim[c][j]
BY DEF TypeOK, SetClaim

(* The claims stand as they are while the phase of nobody calls them off.  *)
LEMMA ClaimsKept ==
    ASSUME ClaimInv, UNCHANGED claim, \A r \in Rooms : job'[r] = job[r],
           \A r \in Rooms : \/ pc'[r] = pc[r] /\ fail'[r] = fail[r]
                            \/ /\ pc'[r] \notin Unclaimed \cup {"done"}
                               /\ ~(pc'[r] = "failed" /\ fail'[r] = "full")
    PROVE  ClaimInv'
BY DEF ClaimInv

(* A claim without a marker may go.                                        *)
LEMMA ClaimGone ==
    ASSUME TypeOK, DevicesAccounted, NEW b \in Bases, NEW i \in Indices,
           marker[i] # claim[b][i], UNCHANGED <<marker, dev>>,
           \A c \in Bases, j \in Indices : (c = b /\ j = i) \/ claim'[c][j] = claim[c][j]
    PROVE  DevicesAccounted'
<1>1. ASSUME NEW j \in Indices, marker[j] # NoRoom
      PROVE  claim'[Base(marker[j])][j] = marker[j]
  <2>1. marker[j] \in Rooms /\ claim[Base(marker[j])][j] = marker[j]
    <3>1. marker[j] \in Rooms \cup {NoRoom}
      BY <1>1 DEF TypeOK
    <3>2. claim[Base(marker[j])][j] = marker[j]
      BY <1>1, Zenon DEF DevicesAccounted
    <3> QED
      BY <1>1, <3>1, <3>2
  <2>2. Base(marker[j]) \in Bases
    BY <2>1
  <2>3. ~(Base(marker[j]) = b /\ j = i)
    BY <2>1
  <2> QED
    BY <2>1, <2>2, <2>3
<1> QED
  BY <1>1 DEF DevicesAccounted

(* A thread moves on to another index.                                     *)
LEMMA JobSet ==
    ASSUME TypeOK, NEW r \in Rooms, NEW k \in 1..MaxNet + 1,
           job' = [job EXCEPT ![r].idx = k]
    PROVE  /\ job' \in [Actors -> [room : Rooms \cup {NoRoom}, idx : 1..MaxNet + 1]]
           /\ job'[r].room = job[r].room /\ job'[r].idx = k
           /\ \A c \in Actors \ {r} : job'[c] = job[c]
<1> DEFINE Job == [room : Rooms \cup {NoRoom}, idx : 1..MaxNet + 1]
<1>1. job \in [Actors -> Job] /\ r \in Actors
  BY DEF TypeOK
<1>2. [job[r] EXCEPT !.idx = k] \in Job
  BY <1>1
<1>3. job' = [job EXCEPT ![r] = [job[r] EXCEPT !.idx = k]]
  BY <1>1
<1>4. [job[r] EXCEPT !.idx = k].room = job[r].room /\ [job[r] EXCEPT !.idx = k].idx = k
  BY <1>1
<1> HIDE DEF Job
<1>5. job' \in [Actors -> Job]
  BY <1>1, <1>2, <1>3
<1>6. job'[r] = [job[r] EXCEPT !.idx = k] /\ \A c \in Actors \ {r} : job'[c] = job[c]
  BY <1>1, <1>3
<1> QED
  BY <1>4, <1>5, <1>6 DEF Job

(* The preflight reads the host and changes nothing on it.                 *)
LEMMA ListRoutesInv ==
    ASSUME IndInv, NEW r \in Rooms, ListRoutes(r)
    PROVE  IndInv'
<1> USE DEF IndInv, ListRoutes, host
<1>1. TypeOK'
  <2>1. seen' \in [Rooms -> SUBSET Indices]
    BY DEF TypeOK
  <2> QED
    BY <2>1 DEF TypeOK
<1>2. Effect(r)
  BY DEF Effect, TypeOK
<1>3. DevicesAccounted' /\ ClaimInv'
  BY DEF DevicesAccounted, ClaimInv, TypeOK
<1>4. ActorInv(r)' /\ MemberInv(r)'
  BY DEF ActorInv, MemberInv, HasNetwork, TypeOK
<1> QED
  BY <1>1, <1>2, <1>3, <1>4, OwnStep

(* Accepted or refused, the preflight leaves the host as it was.           *)
LEMMA CheckRoutesInv ==
    ASSUME IndInv, NEW r \in Rooms, CheckRoutes(r)
    PROVE  IndInv'
<1> USE DEF IndInv, host
<1>1. PICK phase \in {"lock", "failed"}, why \in {"none", "full", "error"} :
        /\ pc' = [pc EXCEPT ![r] = phase] /\ fail' = [fail EXCEPT ![r] = why]
        /\ pc[r] = "routed" /\ seen' = [seen EXCEPT ![r] = {}]
        /\ UNCHANGED <<host, dir, proc, job, stage>>
  BY DEF CheckRoutes, Failed, TypeOK
<1>2. TypeOK'
  <2>1. pc' = [pc EXCEPT ![r] = phase] /\ UNCHANGED lock
    BY <1>1
  <2>2. fail' \in [Rooms -> {"none", "full", "error"}]
    BY <1>1 DEF TypeOK
  <2>3. seen' \in [Rooms -> SUBSET Indices]
    BY <1>1 DEF TypeOK
  <2> QED
    BY <1>1, <2>1, <2>2, <2>3 DEF TypeOK
<1>3. Effect(r)
  BY <1>1 DEF Effect, TypeOK
<1>4. DevicesAccounted' /\ ClaimInv'
  BY <1>1 DEF DevicesAccounted, ClaimInv, TypeOK
<1>5. ActorInv(r)' /\ MemberInv(r)'
  BY <1>1 DEF ActorInv, MemberInv, HasNetwork, TypeOK
<1> QED
  BY <1>2, <1>3, <1>4, <1>5, OwnStep

(* The lock goes to a thread that claims nothing yet.                      *)
LEMMA TakeLockInv ==
    ASSUME IndInv, NEW r \in Rooms, TakeLock(r)
    PROVE  IndInv'
<1> USE DEF IndInv, TakeLock
<1>1. TypeOK'
  BY DEF TypeOK
<1>2. Effect(r)
  BY DEF Effect, TypeOK
<1>3. DevicesAccounted' /\ ClaimInv'
  BY DEF DevicesAccounted, ClaimInv, TypeOK
<1>4. ActorInv(r)' /\ MemberInv(r)'
  BY DEF ActorInv, MemberInv, HasNetwork, TypeOK
<1> QED
  BY <1>1, <1>2, <1>3, <1>4, OwnStep

(* The file is made at an index without one, for a room without a claim.   *)
LEMMA ClaimIndexInv ==
    ASSUME IndInv, NEW r \in Rooms, ClaimIndex(r)
    PROVE  IndInv'
<1> DEFINE k == Min(WalkFree(r))
<1> USE DEF IndInv
<1>1. k \in Indices /\ claim[Base(r)][k] = NoRoom
  BY MinOfIndices DEF WalkFree, ClaimIndex
<1>2. /\ pc[r] = "walk" /\ pc' = [pc EXCEPT ![r] = "mark"]
      /\ UNCHANGED <<lock, marker, dev, dir, proc, stage, seen, fail>>
  BY DEF ClaimIndex
<1> HIDE DEF k
<1>3. /\ claim' \in [Bases -> [Indices -> Rooms \cup {NoRoom}]]
      /\ \A c \in Bases, j \in Indices :
           claim'[c][j] = IF c = Base(r) /\ j = k THEN r ELSE claim[c][j]
  BY <1>1, ClaimSet DEF ClaimIndex, k
<1>4. /\ job' \in [Actors -> [room : Rooms \cup {NoRoom}, idx : 1..MaxNet + 1]]
      /\ job'[r].room = job[r].room /\ job'[r].idx = k
      /\ \A c \in Actors \ {r} : job'[c] = job[c]
  <2>1. k \in 1..MaxNet + 1 /\ job' = [job EXCEPT ![r].idx = k]
    BY <1>1 DEF ClaimIndex, k
  <2> QED
    BY <2>1, JobSet
<1>5. TypeOK'
  BY <1>1, <1>2, <1>3, <1>4 DEF TypeOK
<1>6. Effect(r)
  BY <1>1, <1>2, <1>3, <1>4 DEF Effect, TypeOK
<1>7. DevicesAccounted'
  BY <1>1, <1>2, <1>3 DEF DevicesAccounted, TypeOK
<1>8. ClaimInv'
  BY <1>1, <1>2, <1>3, <1>4 DEF ClaimInv, TypeOK
<1>9. marker[k] # r
  BY <1>1, <1>2 DEF DevicesAccounted, ClaimInv
<1>10. ActorInv(r)'
  BY <1>1, <1>2, <1>3, <1>4, <1>9 DEF ActorInv, TypeOK
<1>11. MemberInv(r)'
  BY <1>1, <1>2, <1>4 DEF MemberInv, HasNetwork, TypeOK
<1> QED
  BY <1>5, <1>6, <1>7, <1>8, <1>10, <1>11, OwnStep

(* A full pool refuses a room that has claimed nothing.                    *)
LEMMA ClaimPoolFullInv ==
    ASSUME IndInv, NEW r \in Rooms, ClaimPoolFull(r)
    PROVE  IndInv'
<1> USE DEF IndInv, ClaimPoolFull, Failed, Unlock
<1>1. TypeOK'
  BY DEF TypeOK
<1>2. Effect(r)
  BY DEF Effect, TypeOK
<1>3. DevicesAccounted' /\ ClaimInv'
  BY DEF DevicesAccounted, ClaimInv, TypeOK
<1>4. ActorInv(r)' /\ MemberInv(r)'
  BY DEF ActorInv, MemberInv, HasNetwork, TypeOK
<1> QED
  BY <1>1, <1>2, <1>3, <1>4, OwnStep

(* The marker is made under the claim; without it the claim goes.          *)
LEMMA ClaimGlobalInv ==
    ASSUME IndInv, NEW r \in Rooms, ClaimGlobal(r)
    PROVE  IndInv'
<1> DEFINE i == job[r].idx
<1> USE DEF IndInv
<1>1. /\ pc[r] = "mark" /\ i \in Indices /\ job[r].room = r
      /\ claim[Base(r)][i] = r /\ marker[i] # r /\ lock[Base(r)] = r
      /\ UNCHANGED <<dev, dir, proc, stage, seen>>
  BY DEF ClaimGlobal, ActorInv, TypeOK
<1>2. CASE /\ marker[i] = NoRoom /\ marker' = [marker EXCEPT ![i] = r]
           /\ Goto(r, "create") /\ Unlock(r) /\ UNCHANGED <<claim, job, fail>>
  <2>1. TypeOK'
    BY <1>1, <1>2 DEF TypeOK, Unlock
  <2>2. Effect(r)
    BY <1>1, <1>2 DEF Effect, TypeOK
  <2>3. DevicesAccounted' /\ ClaimInv'
    BY <1>1, <1>2 DEF DevicesAccounted, ClaimInv, TypeOK
  <2>4. ActorInv(r)'
    BY <1>1, <1>2 DEF ActorInv, TypeOK
  <2>5. Built(r, 0) = {} /\ dev[i] = {} /\ stage[r] = 0
    BY <1>1, <1>2 DEF Built, DevicesAccounted, TypeOK, MemberInv
  <2>6. MemberInv(r)'
    BY <1>1, <1>2, <2>5 DEF MemberInv, HasNetwork, TypeOK
  <2> QED
    BY <2>1, <2>2, <2>3, <2>4, <2>6, OwnStep
<1>3. CASE \E phase \in {"walk", "failed"}, why \in {"error", fail[r]} :
              /\ SetClaim(Base(r), i, NoRoom)
              /\ job' = [job EXCEPT ![r].idx = IF phase = "walk" THEN i + 1 ELSE i]
              /\ Goto(r, phase) /\ fail' = [fail EXCEPT ![r] = why]
              /\ lock' = IF phase = "walk" THEN lock ELSE [lock EXCEPT ![Base(r)] = NoActor]
              /\ UNCHANGED marker
  <2>1. PICK phase \in {"walk", "failed"}, why \in {"error", fail[r]} :
              /\ SetClaim(Base(r), i, NoRoom)
              /\ job' = [job EXCEPT ![r].idx = IF phase = "walk" THEN i + 1 ELSE i]
              /\ Goto(r, phase) /\ fail' = [fail EXCEPT ![r] = why]
              /\ lock' = IF phase = "walk" THEN lock ELSE [lock EXCEPT ![Base(r)] = NoActor]
              /\ UNCHANGED marker
    BY <1>3
  <2>2. /\ claim' \in [Bases -> [Indices -> Rooms \cup {NoRoom}]]
        /\ \A c \in Bases, j \in Indices :
             claim'[c][j] = IF c = Base(r) /\ j = i THEN NoRoom ELSE claim[c][j]
    BY <1>1, <2>1, ClaimSet
  <2>3. /\ job' \in [Actors -> [room : Rooms \cup {NoRoom}, idx : 1..MaxNet + 1]]
        /\ job'[r].room = r
        /\ \A c \in Actors \ {r} : job'[c] = job[c]
    <3>1. i \in 1..MaxNet + 1 /\ i + 1 \in 1..MaxNet + 1
      BY <1>1
    <3> QED
      BY <1>1, <2>1, <3>1, JobSet
  <2>4. TypeOK'
    BY <1>1, <2>1, <2>2, <2>3 DEF TypeOK
  <2>5. Effect(r)
    BY <1>1, <2>1, <2>2, <2>3 DEF Effect, TypeOK
  <2>6. DevicesAccounted'
    <3>1. \A c \in Bases, j \in Indices :
            (c = Base(r) /\ j = i) \/ claim'[c][j] = claim[c][j]
      BY <2>2
    <3>2. marker[i] # claim[Base(r)][i] /\ UNCHANGED <<marker, dev>>
      BY <1>1, <2>1
    <3> QED
      BY <1>1, <3>1, <3>2, ClaimGone
  <2>7. ClaimInv'
    BY <1>1, <2>1, <2>2, <2>3 DEF ClaimInv, TypeOK
  <2>8. ActorInv(r)'
    BY <1>1, <2>1, <2>3 DEF ActorInv, TypeOK
  <2>9. MemberInv(r)'
    BY <1>1, <2>1, <2>3 DEF MemberInv, HasNetwork, TypeOK
  <2> QED
    BY <2>4, <2>5, <2>6, <2>7, <2>8, <2>9, OwnStep
<1> QED
  BY <1>1, <1>2, <1>3 DEF ClaimGlobal, Failed, Unlock, TypeOK

(* The next device is the creator's own.                                   *)
LEMMA CreateInv ==
    ASSUME IndInv, NEW r \in Rooms, Create(r)
    PROVE  IndInv'
<1> DEFINE i == job[r].idx  n == stage[r]
<1> USE DEF IndInv
<1>1. /\ pc[r] = "create" /\ n \in 0..2 /\ i \in Indices /\ job[r].room = r
      /\ claim[Base(r)][i] = r /\ marker[i] = r /\ dev[i] = Built(r, n)
      /\ UNCHANGED <<claim, lock, marker, dir, proc, pc, job, seen, fail>>
  BY DEF Create, ActorInv, MemberInv, TypeOK
<1>2. stage' = [stage EXCEPT ![r] = n + 1]
  BY DEF Create
<1>3. dev' = [dev EXCEPT ![i] = Built(r, n + 1)]
  <2>1. Built(r, n) \cup {<<Devices[n + 1], r>>} = Built(r, n + 1)
    BY <1>1 DEF Built
  <2> QED
    BY <1>1, <2>1 DEF Create
<1>4. TypeOK'
  <2>1. Built(r, n + 1) \subseteq {Devices[k] : k \in 1..3} \X Rooms
    BY <1>1 DEF Built
  <2> QED
    BY <1>1, <1>2, <1>3, <2>1 DEF TypeOK
<1>5. Effect(r)
  BY <1>1, <1>2, <1>3 DEF Effect, TypeOK
<1>6. DevicesAccounted'
  <2>1. \A d \in Built(r, n + 1) : d[2] = r
    BY DEF Built
  <2> QED
    BY <1>1, <1>3, <2>1 DEF DevicesAccounted, TypeOK
<1>7. ClaimInv'
  <2>1. UNCHANGED <<claim, pc, job, fail>>
    BY <1>1
  <2> QED
    BY <2>1 DEF ClaimInv
<1>8. ActorInv(r)'
  BY <1>1, <1>2, <1>3 DEF ActorInv, TypeOK
<1>9. MemberInv(r)'
  <2>1. stage'[r] = n + 1 /\ dev'[i] = Built(r, n + 1)
    BY <1>1, <1>2, <1>3 DEF TypeOK
  <2>2. MemberInv(r) /\ pc[r] = "create" /\ UNCHANGED <<dir, proc, pc, job>>
    BY <1>1
  <2> QED
    BY <2>1, <2>2 DEF MemberInv, HasNetwork
<1> QED
  BY <1>4, <1>5, <1>6, <1>7, <1>8, <1>9, OwnStep

(* All three devices stand.                                                *)
LEMMA CreateDoneInv ==
    ASSUME IndInv, NEW r \in Rooms, CreateDone(r)
    PROVE  IndInv'
<1> USE DEF IndInv, CreateDone, host
<1>1. TypeOK'
  BY DEF TypeOK
<1>2. Effect(r)
  BY DEF Effect, TypeOK
<1>3. DevicesAccounted' /\ ClaimInv'
  BY DEF DevicesAccounted, ClaimInv, TypeOK
<1>4. ActorInv(r)'
  BY DEF ActorInv, TypeOK
<1>5. MemberInv(r)'
  <2>1. MemberInv(r) /\ ActorInv(r) /\ pc[r] = "create" /\ stage[r] = 3
    OBVIOUS
  <2>2. pc'[r] = "created" /\ UNCHANGED <<claim, marker, dev, dir, proc, job>>
    BY DEF TypeOK
  <2> QED
    BY <2>1, <2>2 DEF MemberInv, ActorInv
<1> QED
  BY <1>1, <1>2, <1>3, <1>4, <1>5, OwnStep

(* The rollback starts from what the stage reached.                        *)
LEMMA CreateFailsInv ==
    ASSUME IndInv, NEW r \in Rooms, CreateFails(r)
    PROVE  IndInv'
<1> USE DEF IndInv, CreateFails, host
<1>1. TypeOK'
  BY DEF TypeOK
<1>2. Effect(r)
  BY DEF Effect, TypeOK
<1>3. DevicesAccounted' /\ ClaimInv'
  BY DEF DevicesAccounted, ClaimInv, TypeOK
<1>4. ActorInv(r)' /\ MemberInv(r)'
  BY DEF ActorInv, MemberInv, HasNetwork, TypeOK
<1> QED
  BY <1>1, <1>2, <1>3, <1>4, OwnStep

(* A rollback that reaches its end has deleted every device.               *)
LEMMA RollbackInv ==
    ASSUME IndInv, NEW r \in Rooms, Rollback(r)
    PROVE  IndInv'
<1> DEFINE i == job[r].idx
<1> USE DEF IndInv
<1>1. /\ pc[r] = "undo" /\ i \in Indices /\ job[r].room = r
      /\ claim[Base(r)][i] = r /\ marker[i] = r /\ dev[i] = Built(r, stage[r])
      /\ stage' = [stage EXCEPT ![r] = 0]
      /\ UNCHANGED <<claim, lock, marker, dir, proc, job, seen>>
  BY DEF Rollback, ActorInv, MemberInv, TypeOK
<1>2. PICK n \in 0..stage[r], phase \in {"unmark", "failed"},
           why \in {"none", "full", "error"} :
        /\ dev' = [dev EXCEPT ![i] = AfterDeletes(i, n)]
        /\ phase = "unmark" => n = stage[r]
        /\ phase = "failed" => why = "error"
        /\ pc' = [pc EXCEPT ![r] = phase] /\ fail' = [fail EXCEPT ![r] = why]
  <2>1. PICK n \in 0..stage[r] :
          /\ dev' = [dev EXCEPT ![i] = AfterDeletes(i, n)]
          /\ \/ n = stage[r] /\ Goto(r, "unmark") /\ UNCHANGED fail
             \/ Failed(r, "error")
    BY DEF Rollback
  <2>2. CASE n = stage[r] /\ Goto(r, "unmark") /\ UNCHANGED fail
    <3>1. fail[r] \in {"none", "full", "error"} /\ fail' = [fail EXCEPT ![r] = fail[r]]
      BY <2>2 DEF TypeOK
    <3> QED
      BY <2>1, <2>2, <3>1
  <2>3. CASE Failed(r, "error")
    BY <2>1, <2>3 DEF Failed
  <2> QED
    BY <2>1, <2>2, <2>3
<1>3. AfterDeletes(i, n) \subseteq dev[i]
  BY DEF AfterDeletes
<1>4. phase = "unmark" => AfterDeletes(i, n) = {}
  BY <1>1, <1>2 DEF AfterDeletes, Built
<1>5. TypeOK'
  <2>1. dev' \in [Indices -> SUBSET ({Devices[k] : k \in 1..3} \X Rooms)]
    BY <1>1, <1>2, <1>3 DEF TypeOK
  <2>2. fail' \in [Rooms -> {"none", "full", "error"}]
    BY <1>2 DEF TypeOK
  <2>3. stage' \in [Rooms -> 0..3]
    BY <1>1 DEF TypeOK
  <2> QED
    BY <1>1, <1>2, <2>1, <2>2, <2>3 DEF TypeOK
<1>6. Effect(r)
  BY <1>1, <1>2 DEF Effect, TypeOK
<1>7. DevicesAccounted'
  BY <1>1, <1>2, <1>3 DEF DevicesAccounted, TypeOK
<1>8. ClaimInv'
  <2>1. pc'[r] \in {"unmark", "failed"} /\ (pc'[r] = "failed" => fail'[r] = "error")
    BY <1>2 DEF TypeOK
  <2>2. \A q \in Rooms \ {r} : pc'[q] = pc[q] /\ fail'[q] = fail[q]
    BY <1>2 DEF TypeOK
  <2>3. UNCHANGED <<claim, job>>
    BY <1>1
  <2> QED
    BY <1>1, <2>1, <2>2, <2>3 DEF ClaimInv
<1>9. ActorInv(r)'
  BY <1>1, <1>2, <1>4 DEF ActorInv, TypeOK
<1>10. MemberInv(r)'
  BY <1>1, <1>2 DEF MemberInv, HasNetwork, TypeOK
<1> QED
  BY <1>5, <1>6, <1>7, <1>8, <1>9, <1>10, OwnStep

(* The marker goes when no device is left.                                 *)
LEMMA RollbackMarkerInv ==
    ASSUME IndInv, NEW r \in Rooms, RollbackMarker(r)
    PROVE  IndInv'
<1> DEFINE i == job[r].idx
<1> USE DEF IndInv
<1>1. /\ pc[r] = "unmark" /\ i \in Indices /\ job[r].room = r
      /\ claim[Base(r)][i] = r /\ marker[i] = r /\ dev[i] = {}
      /\ marker' = [marker EXCEPT ![i] = NoRoom] /\ pc' = [pc EXCEPT ![r] = "release"]
      /\ UNCHANGED <<claim, lock, dev, dir, proc, job, stage, seen, fail>>
  BY DEF RollbackMarker, Unmarked, ActorInv, TypeOK
<1>2. TypeOK'
  BY <1>1 DEF TypeOK
<1>3. Effect(r)
  BY <1>1 DEF Effect, TypeOK
<1>4. DevicesAccounted' /\ ClaimInv'
  BY <1>1 DEF DevicesAccounted, ClaimInv, TypeOK
<1>5. ActorInv(r)'
  BY <1>1 DEF ActorInv, TypeOK
<1>6. MemberInv(r)'
  <2>1. pc'[r] = "release" /\ UNCHANGED <<dir, proc, job>> /\ MemberInv(r)
    BY <1>1 DEF TypeOK
  <2> QED
    BY <1>1, <2>1 DEF MemberInv, HasNetwork
<1> QED
  BY <1>2, <1>3, <1>4, <1>5, <1>6, OwnStep

(* The claim goes when no marker is left.                                  *)
LEMMA ReleaseClaimInv ==
    ASSUME IndInv, NEW r \in Rooms, ReleaseClaim(r)
    PROVE  IndInv'
<1> DEFINE i == job[r].idx
<1> USE DEF IndInv
<1>1. /\ pc[r] = "release" /\ i \in Indices /\ job[r].room = r
      /\ claim[Base(r)][i] = r /\ marker[i] # r
      /\ pc' = [pc EXCEPT ![r] = "failed"] /\ fail' = [fail EXCEPT ![r] = "error"]
      /\ UNCHANGED <<lock, marker, dev, dir, proc, job, stage, seen>>
  BY DEF ReleaseClaim, Failed, ActorInv, TypeOK
<1>2. PICK q \in {r, NoRoom} :
        /\ claim' \in [Bases -> [Indices -> Rooms \cup {NoRoom}]]
        /\ \A c \in Bases, j \in Indices :
             claim'[c][j] = IF c = Base(r) /\ j = i THEN q ELSE claim[c][j]
  <2>1. CASE SetClaim(Base(r), i, NoRoom)
    BY <1>1, <2>1, ClaimSet
  <2>2. CASE UNCHANGED claim
    BY <1>1, <2>2 DEF TypeOK
  <2> QED
    BY <2>1, <2>2 DEF ReleaseClaim
<1>3. TypeOK'
  BY <1>1, <1>2 DEF TypeOK
<1>4. Effect(r)
  BY <1>1, <1>2 DEF Effect, TypeOK
<1>5. DevicesAccounted'
  <2>1. \A c \in Bases, j \in Indices :
          (c = Base(r) /\ j = i) \/ claim'[c][j] = claim[c][j]
    BY <1>2
  <2>2. marker[i] # claim[Base(r)][i] /\ UNCHANGED <<marker, dev>>
    BY <1>1
  <2> QED
    BY <1>1, <2>1, <2>2, ClaimGone
<1>6. ClaimInv'
  BY <1>1, <1>2 DEF ClaimInv, TypeOK
<1>7. ActorInv(r)' /\ MemberInv(r)'
  BY <1>1 DEF ActorInv, MemberInv, HasNetwork, TypeOK
<1> QED
  BY <1>3, <1>4, <1>5, <1>6, <1>7, OwnStep

(* The restore takes the network over, or leaves it to be freed.           *)
LEMMA UseNetworkInv ==
    ASSUME IndInv, NEW r \in Rooms, UseNetwork(r)
    PROVE  IndInv'
<1> USE DEF IndInv, host
<1>1. PICK d \in BOOLEAN, phase \in {"owned", "free"} :
        /\ pc[r] = "allocated" /\ (d /\ ~dir[r] => phase = "owned")
        /\ dir' = [dir EXCEPT ![r] = d] /\ pc' = [pc EXCEPT ![r] = phase]
        /\ UNCHANGED <<host, proc, job, stage, seen, fail>>
  <2>1. CASE dir' = dir /\ Goto(r, "free")
    <3>1. dir' = [dir EXCEPT ![r] = dir[r]] /\ dir[r] \in BOOLEAN
      BY <2>1 DEF TypeOK
    <3> QED
      BY <2>1, <3>1 DEF UseNetwork
  <2>2. CASE dir' = [dir EXCEPT ![r] = TRUE] /\ Goto(r, "owned")
    BY <2>2 DEF UseNetwork
  <2> QED
    BY <2>1, <2>2 DEF UseNetwork
<1>2. TypeOK'
  BY <1>1 DEF TypeOK
<1>3. Effect(r)
  BY <1>1 DEF Effect, TypeOK
<1>4. DevicesAccounted' /\ ClaimInv'
  BY <1>1 DEF DevicesAccounted, ClaimInv, TypeOK
<1>5. ActorInv(r)'
  BY <1>1 DEF ActorInv, TypeOK
<1>6. MemberInv(r)'
  <2>1. pc'[r] = phase /\ dir'[r] = d /\ UNCHANGED <<claim, marker, dev, proc, job>>
    BY <1>1 DEF TypeOK
  <2>2. MemberInv(r) /\ ActorInv(r) /\ ~dir[r] /\ pc[r] = "allocated"
    BY <1>1 DEF MemberInv
  <2> QED
    BY <1>1, <2>1, <2>2 DEF MemberInv, ActorInv, HasNetwork
<1> QED
  BY <1>2, <1>3, <1>4, <1>5, <1>6, OwnStep

(* A room ends, or stays with its network.                                 *)
LEMMA FinishRoomInv ==
    ASSUME IndInv, NEW r \in Rooms, FinishRoom(r)
    PROVE  IndInv'
<1> USE DEF IndInv, host
<1>1. PICK d \in BOOLEAN, phase \in {"kept", "free"} :
        /\ pc[r] = "owned" /\ (d => phase = "kept")
        /\ dir' = [dir EXCEPT ![r] = d] /\ pc' = [pc EXCEPT ![r] = phase]
        /\ UNCHANGED <<host, proc, job, stage, seen, fail>>
  <2>1. CASE dir' = dir /\ Goto(r, "kept")
    <3>1. dir' = [dir EXCEPT ![r] = dir[r]] /\ dir[r] \in BOOLEAN
      BY <2>1 DEF TypeOK
    <3> QED
      BY <2>1, <3>1 DEF FinishRoom
  <2>2. CASE dir' = [dir EXCEPT ![r] = FALSE] /\ Goto(r, "free")
    BY <2>2 DEF FinishRoom
  <2> QED
    BY <2>1, <2>2 DEF FinishRoom
<1>2. TypeOK'
  BY <1>1 DEF TypeOK
<1>3. Effect(r)
  BY <1>1 DEF Effect, TypeOK
<1>4. DevicesAccounted' /\ ClaimInv'
  BY <1>1 DEF DevicesAccounted, ClaimInv, TypeOK
<1>5. ActorInv(r)'
  BY <1>1 DEF ActorInv, TypeOK
<1>6. MemberInv(r)'
  <2>1. pc'[r] = phase /\ dir'[r] = d /\ UNCHANGED <<claim, marker, dev, proc, job>>
    BY <1>1 DEF TypeOK
  <2>2. MemberInv(r) /\ ActorInv(r) /\ pc[r] = "owned"
    BY <1>1
  <2> QED
    BY <1>1, <2>1, <2>2 DEF MemberInv, ActorInv, HasNetwork
<1> QED
  BY <1>2, <1>3, <1>4, <1>5, <1>6, OwnStep

-----------------------------------------------------------------------------
(* The free path, by a member's thread or by a gc.                         *)

(* The actor is done with its room, or gives it up.                        *)
Stop(a, phase) ==
    /\ Goto(a, IF a \in Gcs THEN "idle" ELSE phase)
    /\ Unlock(a)
    /\ Forget(a)

(* Stopping needs nothing of the host but its types.                       *)
LEMMA StopStep ==
    ASSUME IndInv, NEW a \in Actors, pc[a] \in Freeing \cup {"judge"},
           NEW phase \in {"done", "stuck"}, Stop(a, phase),
           UNCHANGED <<dir, proc, stage, seen, fail>>,
           claim' \in [Bases -> [Indices -> Rooms \cup {NoRoom}]],
           marker' \in [Indices -> Rooms \cup {NoRoom}],
           dev' \in [Indices -> SUBSET ({Devices[n] : n \in 1..3} \X Rooms)]
    PROVE  /\ TypeOK' /\ ActorInv(a)' /\ (a \in Rooms => MemberInv(a)')
           /\ \A c \in Actors \ {a} : pc'[c] = pc[c] /\ job'[c] = job[c]
           /\ \A r \in Rooms : job'[r] = job[r]
           /\ pc'[a] = IF a \in Gcs THEN "idle" ELSE phase
<1> USE DEF IndInv
<1>1. /\ pc'[a] = IF a \in Gcs THEN "idle" ELSE phase
      /\ DOMAIN pc' = Actors
      /\ \A c \in Actors \ {a} : pc'[c] = pc[c]
  BY DEF Stop, TypeOK
<1>2. /\ job' \in [Actors -> [room : Rooms \cup {NoRoom}, idx : 1..MaxNet + 1]]
      /\ \A c \in Actors \ {a} : job'[c] = job[c]
      /\ \A r \in Rooms : job'[r] = job[r]
  <2>1. [room |-> NoRoom, idx |-> 1] \in [room : Rooms \cup {NoRoom}, idx : 1..MaxNet + 1]
    OBVIOUS
  <2> QED
    BY <2>1 DEF Stop, Forget, TypeOK
<1>3. /\ lock' \in [Bases -> Actors \cup {NoActor}] /\ lock'[Base(a)] # a
      /\ \A c \in Actors \ {a} : lock'[Base(c)] = c <=> lock[Base(c)] = c
  BY DEF Stop, Unlock, TypeOK
<1>4. TypeOK'
  <2>1. /\ \A r \in Rooms :
             pc'[r] \in Allocating \cup Freeing \cup Ended \cup {"allocated", "owned"}
        /\ \A g \in Gcs : pc'[g] \in {"idle", "judge"} \cup Freeing
    <3>1. \A r \in Rooms : r # a => pc'[r] = pc[r]
      BY <1>1
    <3>2. \A g \in Gcs : g # a => pc'[g] = pc[g]
      BY <1>1
    <3>3. a \in Rooms => pc'[a] \in Ended
      BY <1>1
    <3>4. a \in Gcs => pc'[a] = "idle"
      BY <1>1
    <3>5. /\ \A r \in Rooms :
               pc[r] \in Allocating \cup Freeing \cup Ended \cup {"allocated", "owned"}
          /\ \A g \in Gcs : pc[g] \in {"idle", "judge"} \cup Freeing
      BY DEF TypeOK
    <3>6. \A r \in Rooms :
            pc'[r] \in Allocating \cup Freeing \cup Ended \cup {"allocated", "owned"}
      BY <3>1, <3>3, <3>5
    <3>7. \A g \in Gcs : pc'[g] \in {"idle", "judge"} \cup Freeing
      BY <3>2, <3>4, <3>5
    <3> QED
      BY <3>6, <3>7
  <2>2. \A c \in Actors : (pc'[c] \in Locked) <=> (lock'[Base(c)] = c)
    BY <1>1, <1>3 DEF TypeOK
  <2>3. UNCHANGED <<dir, proc, stage, seen, fail>>
    OBVIOUS
  <2> QED
    BY <1>1, <1>2, <1>3, <2>1, <2>2, <2>3 DEF TypeOK
<1>5. ActorInv(a)'
  BY <1>1, <1>2 DEF ActorInv
<1>6. a \in Rooms => MemberInv(a)'
  BY <1>1, <1>2 DEF MemberInv, HasNetwork
<1> QED
  BY <1>1, <1>2, <1>4, <1>5, <1>6

(* The claim is still the room's, or there is nothing to free.             *)
LEMMA FreeHoldInv ==
    ASSUME IndInv, NEW a \in Actors, FreeHold(a)
    PROVE  IndInv'
<1> DEFINE i == job[a].idx  r == job[a].room
<1> USE DEF IndInv
<1>1. /\ pc[a] = "free" /\ lock[Base(a)] = NoActor /\ i \in Indices /\ r \in Rooms
      /\ Base(r) = Base(a) /\ i = job[r].idx
      /\ UNCHANGED <<claim, marker, dev, dir, proc, stage, seen, fail>>
  BY DEF FreeHold, ActorInv
<1>2. CASE /\ claim[Base(a)][i] = r
           /\ lock' = [lock EXCEPT ![Base(a)] = a] /\ Goto(a, "own") /\ UNCHANGED job
  <2>1. TypeOK'
    BY <1>1, <1>2 DEF TypeOK
  <2>2. Effect(a)
    BY <1>1, <1>2 DEF Effect, TypeOK
  <2>3. DevicesAccounted' /\ ClaimInv'
    BY <1>1, <1>2 DEF DevicesAccounted, ClaimInv, TypeOK
  <2>4. ActorInv(a)'
    BY <1>1, <1>2 DEF ActorInv, TypeOK
  <2>5. a \in Rooms => MemberInv(a)'
    <3>1. pc'[a] = "own" /\ pc[a] = "free" /\ UNCHANGED <<dir, proc, job>>
      BY <1>1, <1>2 DEF TypeOK
    <3> QED
      BY <3>1 DEF MemberInv, HasNetwork
  <2> QED
    BY <2>1, <2>2, <2>3, <2>4, <2>5, OwnStep
<1>3. CASE claim[Base(a)][i] # r /\ Return(a)
  <2>1. Stop(a, "done")
    BY <1>3 DEF Return, Stop
  <2>2. /\ TypeOK' /\ ActorInv(a)' /\ (a \in Rooms => MemberInv(a)')
        /\ \A c \in Actors \ {a} : pc'[c] = pc[c] /\ job'[c] = job[c]
        /\ \A q \in Rooms : job'[q] = job[q]
        /\ pc'[a] = IF a \in Gcs THEN "idle" ELSE "done"
    BY <1>1, <2>1, StopStep DEF TypeOK
  <2>3. Effect(a)
    BY <1>1, <2>2 DEF Effect
  <2>4. DevicesAccounted'
    BY <1>1 DEF DevicesAccounted
  <2>5. ClaimInv'
    BY <1>1, <1>3, <2>2 DEF ClaimInv, ActorInv
  <2> QED
    BY <2>2, <2>3, <2>4, <2>5, OwnStep
<1> QED
  BY <1>1, <1>2, <1>3 DEF FreeHold

(* The room is given up: what it has stays on the host.                    *)
LEMMA GiveUpInv ==
    ASSUME IndInv, NEW a \in Actors, pc[a] \in Working \cap Freeing, GiveUp(a),
           UNCHANGED <<claim, marker, dir, proc, stage, seen, fail>>,
           dev' \in [Indices -> SUBSET ({Devices[n] : n \in 1..3} \X Rooms)],
           \A j \in Indices : dev'[j] = dev[j] \/ (marker[j] = job[a].room /\ dev'[j] \subseteq dev[j])
    PROVE  IndInv'
<1> USE DEF IndInv
<1>1. Stop(a, "stuck")
  BY DEF GiveUp, Stop
<1>2. /\ TypeOK' /\ ActorInv(a)' /\ (a \in Rooms => MemberInv(a)')
      /\ \A c \in Actors \ {a} : pc'[c] = pc[c] /\ job'[c] = job[c]
      /\ \A q \in Rooms : job'[q] = job[q]
      /\ pc'[a] = IF a \in Gcs THEN "idle" ELSE "stuck"
  BY <1>1, StopStep DEF TypeOK
<1>3. Effect(a)
  BY <1>2 DEF Effect
<1>4. DevicesAccounted'
  BY DEF DevicesAccounted
<1>5. ClaimInv'
  BY <1>2 DEF ClaimInv
<1> QED
  BY <1>2, <1>3, <1>4, <1>5, OwnStep

(* An unmarked index is marked again for its claimant; a foreign one stops *)
(* the teardown.                                                           *)
LEMMA TeardownOwnershipInv ==
    ASSUME IndInv, NEW a \in Actors, TeardownOwnership(a)
    PROVE  IndInv'
<1> DEFINE i == job[a].idx  r == job[a].room
<1> USE DEF IndInv
<1>1. /\ pc[a] = "own" /\ lock[Base(a)] = a /\ i \in Indices /\ r \in Rooms
      /\ Base(r) = Base(a) /\ i = job[r].idx /\ claim[Base(a)][i] = r
      /\ UNCHANGED <<claim, dev, dir, proc, stage, seen, fail>>
  BY DEF TeardownOwnership, ActorInv, TypeOK
<1>2. CASE \E phase \in {"delete", "probe"} :
             /\ marker[i] \in {r, NoRoom} /\ (phase = "probe" => marker[i] = NoRoom)
             /\ marker' = [marker EXCEPT ![i] = r] /\ Goto(a, phase)
             /\ UNCHANGED <<lock, job>>
  <2>1. PICK phase \in {"delete", "probe"} :
             /\ marker[i] \in {r, NoRoom} /\ (phase = "probe" => marker[i] = NoRoom)
             /\ marker' = [marker EXCEPT ![i] = r] /\ Goto(a, phase)
             /\ UNCHANGED <<lock, job>>
    BY <1>2
  <2>2. marker[i] = NoRoom => dev[i] = {}
    BY <1>1 DEF DevicesAccounted, TypeOK
  <2>3. TypeOK'
    BY <1>1, <2>1 DEF TypeOK
  <2>4. Effect(a)
    BY <1>1, <2>1 DEF Effect, TypeOK
  <2>5. DevicesAccounted'
    BY <1>1, <2>1, <2>2 DEF DevicesAccounted, TypeOK
  <2>6. ClaimInv'
    <3>1. \A q \in Rooms : pc'[q] = pc[q] \/ pc'[q] \in {"delete", "probe"}
      BY <2>1 DEF TypeOK
    <3> QED
      BY <1>1, <2>1, <3>1, ClaimsKept
  <2>7. ActorInv(a)'
    BY <1>1, <2>1, <2>2, SMTT(30) DEF ActorInv, TypeOK
  <2>8. a \in Rooms => MemberInv(a)'
    <3>1. pc'[a] = phase /\ pc[a] = "own" /\ UNCHANGED <<dir, proc, job>>
      BY <1>1, <2>1 DEF TypeOK
    <3> QED
      BY <3>1 DEF MemberInv, HasNetwork
  <2> QED
    BY <2>3, <2>4, <2>5, <2>6, <2>7, <2>8, OwnStep
<1>3. CASE GiveUp(a) /\ UNCHANGED marker
  BY <1>1, <1>3, GiveUpInv DEF TypeOK
<1> QED
  <2>1. marker[i] = r => marker = [marker EXCEPT ![i] = r]
    BY <1>1 DEF TypeOK
  <2> QED
    BY <1>1, <1>2, <1>3, <2>1 DEF TeardownOwnership

(* Under the invariant nothing can stand at an index that was unmarked:    *)
(* the probe finds nothing.                                                *)
LEMMA ProbeReservedInv ==
    ASSUME IndInv, NEW a \in Actors, ProbeReserved(a)
    PROVE  IndInv'
<1> DEFINE i == job[a].idx  r == job[a].room
<1> USE DEF IndInv
<1>1. /\ pc[a] = "probe" /\ i \in Indices /\ r \in Rooms /\ dev[i] = {}
      /\ Base(r) = Base(a) /\ i = job[r].idx
      /\ claim[Base(a)][i] = r /\ marker[i] = r
      /\ UNCHANGED <<claim, dev, dir, proc, stage, seen, fail>>
  BY DEF ProbeReserved, ActorInv
<1>2. pc' = [pc EXCEPT ![a] = "delete"] /\ UNCHANGED <<marker, lock, job>>
  BY <1>1 DEF ProbeReserved
<1>3. TypeOK'
  BY <1>1, <1>2 DEF TypeOK
<1>4. Effect(a)
  BY <1>1, <1>2 DEF Effect, TypeOK
<1>5. DevicesAccounted' /\ ClaimInv'
  BY <1>1, <1>2 DEF DevicesAccounted, ClaimInv, TypeOK
<1>6. ActorInv(a)'
  BY <1>1, <1>2 DEF ActorInv, TypeOK
<1>7. a \in Rooms => MemberInv(a)'
  <2>1. pc'[a] = "delete" /\ UNCHANGED <<dir, proc, job>>
    BY <1>1, <1>2 DEF TypeOK
  <2> QED
    BY <1>1, <2>1 DEF MemberInv, HasNetwork
<1> QED
  BY <1>3, <1>4, <1>5, <1>6, <1>7, OwnStep

(* After the last command nothing is left; an earlier failure gives up.    *)
LEMMA TeardownDevicesInv ==
    ASSUME IndInv, NEW a \in Actors, TeardownDevices(a)
    PROVE  IndInv'
<1> DEFINE i == job[a].idx  r == job[a].room
<1> USE DEF IndInv
<1>1. /\ pc[a] = "delete" /\ i \in Indices /\ r \in Rooms
      /\ Base(r) = Base(a) /\ i = job[r].idx
      /\ claim[Base(a)][i] = r /\ marker[i] = r
      /\ UNCHANGED <<claim, marker, dir, proc, stage, seen, fail>>
  BY DEF TeardownDevices, ActorInv
<1>2. PICK n \in 0..3 :
        /\ dev' = [dev EXCEPT ![i] = AfterDeletes(i, n)]
        /\ \/ n = 3 /\ Goto(a, "drop") /\ UNCHANGED <<lock, job>>
           \/ n < 3 /\ GiveUp(a)
  BY DEF TeardownDevices
<1>3. AfterDeletes(i, n) \subseteq dev[i]
  BY DEF AfterDeletes
<1> DEFINE All == {Devices[k] : k \in 1..3} \X Rooms
<1>0. /\ dev \in [Indices -> SUBSET All] /\ dev'[i] = AfterDeletes(i, n)
      /\ \A j \in Indices : j # i => dev'[j] = dev[j]
      /\ dev' = [j \in Indices |-> IF j = i THEN AfterDeletes(i, n) ELSE dev[j]]
  <2>1. dev \in [Indices -> SUBSET All]
    BY DEF TypeOK
  <2> HIDE DEF All
  <2>2. ASSUME NEW f \in [Indices -> SUBSET All], NEW k \in Indices, NEW A, NEW g,
               g = [f EXCEPT ![k] = A]
        PROVE  /\ g[k] = A /\ \A j \in Indices : j # k => g[j] = f[j]
               /\ g = [j \in Indices |-> IF j = k THEN A ELSE f[j]]
    BY <2>2
  <2>3. dev' = [dev EXCEPT ![i] = AfterDeletes(i, n)] /\ i \in Indices
    BY <1>1, <1>2
  <2> QED
    BY <2>1, <2>2, <2>3
<1> HIDE DEF All
<1>4. dev' \in [Indices -> SUBSET All]
  BY <1>0, <1>1, <1>3
<1>5. \A j \in Indices :
        dev'[j] = dev[j] \/ (marker[j] = job[a].room /\ dev'[j] \subseteq dev[j])
  BY <1>0, <1>1, <1>3
<1>6. CASE GiveUp(a)
  BY <1>1, <1>4, <1>5, <1>6, GiveUpInv DEF All
<1>7. CASE n = 3 /\ Goto(a, "drop") /\ UNCHANGED <<lock, job>>
  <2>1. AfterDeletes(i, n) = {}
    BY <1>1, <1>7 DEF AfterDeletes, TypeOK
  <2>2. TypeOK'
    BY <1>1, <1>4, <1>7 DEF TypeOK, All
  <2>3. Effect(a)
    BY <1>1, <1>5, <1>7 DEF Effect, TypeOK
  <2>4. DevicesAccounted'
    BY <1>1, <1>5 DEF DevicesAccounted
  <2>5. ClaimInv'
    <3>1. \A q \in Rooms : pc'[q] = pc[q] \/ pc'[q] = "drop"
      BY <1>7 DEF TypeOK
    <3> QED
      BY <1>1, <1>7, <3>1, ClaimsKept
  <2>6. ActorInv(a)'
    <3>1. dev'[i] = {} /\ pc'[a] = "drop" /\ UNCHANGED <<claim, marker, proc, job>>
      <4>1. pc'[a] = "drop"
        BY <1>7 DEF TypeOK
      <4> QED
        BY <1>0, <1>1, <1>7, <2>1, <4>1
    <3>2. ActorInv(a)
      OBVIOUS
    <3> QED
      BY <1>1, <3>1, <3>2 DEF ActorInv
  <2>7. a \in Rooms => MemberInv(a)'
    <3>1. pc'[a] = "drop" /\ UNCHANGED <<dir, proc, job>>
      BY <1>1, <1>7 DEF TypeOK
    <3> QED
      BY <1>1, <3>1 DEF MemberInv, HasNetwork
  <2> QED
    BY <2>2, <2>3, <2>4, <2>5, <2>6, <2>7, OwnStep
<1> QED
  BY <1>2, <1>6, <1>7

(* The marker goes after the devices.                                      *)
LEMMA TeardownMarkerInv ==
    ASSUME IndInv, NEW a \in Actors, TeardownMarker(a)
    PROVE  IndInv'
<1> DEFINE i == job[a].idx  r == job[a].room
<1> USE DEF IndInv
<1>1. /\ pc[a] = "drop" /\ i \in Indices /\ r \in Rooms /\ dev[i] = {}
      /\ Base(r) = Base(a) /\ i = job[r].idx
      /\ claim[Base(a)][i] = r /\ marker[i] = r
      /\ marker' = [marker EXCEPT ![i] = NoRoom] /\ pc' = [pc EXCEPT ![a] = "unlink"]
      /\ UNCHANGED <<claim, lock, dev, dir, proc, job, stage, seen, fail>>
  BY DEF TeardownMarker, Unmarked, ActorInv, TypeOK
<1>2. TypeOK'
  BY <1>1 DEF TypeOK
<1>3. Effect(a)
  BY <1>1 DEF Effect, TypeOK
<1>4. DevicesAccounted'
  BY <1>1 DEF DevicesAccounted, TypeOK
<1>5. ClaimInv'
  <2>1. \A q \in Rooms : pc'[q] = pc[q] \/ pc'[q] = "unlink"
    BY <1>1 DEF TypeOK
  <2> QED
    BY <1>1, <2>1, ClaimsKept
<1>6. ActorInv(a)'
  BY <1>1 DEF ActorInv, TypeOK
<1>7. a \in Rooms => MemberInv(a)'
  <2>1. pc'[a] = "unlink" /\ UNCHANGED <<dir, proc, job>>
    BY <1>1 DEF TypeOK
  <2> QED
    BY <1>1, <2>1 DEF MemberInv, HasNetwork
<1> QED
  BY <1>2, <1>3, <1>4, <1>5, <1>6, <1>7, OwnStep

(* The claim goes last.                                                    *)
LEMMA FreeUnlinkInv ==
    ASSUME IndInv, NEW a \in Actors, FreeUnlink(a)
    PROVE  IndInv'
<1> DEFINE i == job[a].idx  r == job[a].room
<1> USE DEF IndInv
<1>1. /\ pc[a] = "unlink" /\ i \in Indices /\ r \in Rooms
      /\ Base(r) = Base(a) /\ i = job[r].idx
      /\ claim[Base(a)][i] = r /\ marker[i] # r
      /\ UNCHANGED <<marker, dev, dir, proc, stage, seen, fail>>
  BY DEF FreeUnlink, ActorInv
<1>2. /\ claim' \in [Bases -> [Indices -> Rooms \cup {NoRoom}]]
      /\ \A c \in Bases, j \in Indices :
           claim'[c][j] = IF c = Base(a) /\ j = i THEN NoRoom ELSE claim[c][j]
  BY <1>1, ClaimSet DEF FreeUnlink
<1>3. Stop(a, "done")
  BY DEF FreeUnlink, Return, Stop
<1>4. /\ TypeOK' /\ ActorInv(a)' /\ (a \in Rooms => MemberInv(a)')
      /\ \A c \in Actors \ {a} : pc'[c] = pc[c] /\ job'[c] = job[c]
      /\ \A q \in Rooms : job'[q] = job[q]
      /\ pc'[a] = IF a \in Gcs THEN "idle" ELSE "done"
  BY <1>1, <1>2, <1>3, StopStep DEF TypeOK
<1>5. Effect(a)
  BY <1>1, <1>2, <1>4 DEF Effect
<1>6. DevicesAccounted'
  <2>1. PICK b \in Bases : b = Base(a)
    OBVIOUS
  <2>2. /\ marker[i] # claim[b][i] /\ UNCHANGED <<marker, dev>>
        /\ \A c \in Bases, j \in Indices :
             (c = b /\ j = i) \/ claim'[c][j] = claim[c][j]
    BY <1>1, <1>2, <2>1
  <2> HIDE DEF i
  <2>3. i \in Indices /\ TypeOK /\ DevicesAccounted
    BY <1>1
  <2> QED
    BY <2>2, <2>3, ClaimGone
<1>7. ClaimInv'
  <2>1. a \in Rooms => r = a
    BY DEF ActorInv
  <2> QED
    <3> SUFFICES ASSUME NEW c \in Bases, NEW j \in Indices, NEW q \in Rooms,
                        claim'[c][j] = q
                 PROVE  /\ c = Base(q) /\ j = job'[q].idx
                        /\ pc'[q] \notin Unclaimed \cup {"done"}
                        /\ ~(pc'[q] = "failed" /\ fail'[q] = "full")
      BY DEF ClaimInv
    <3>1. claim[c][j] = q /\ ~(c = Base(a) /\ j = i)
      BY <1>2
    <3>2. c = Base(q) /\ j = job[q].idx
      BY <3>1 DEF ClaimInv
    <3>3. q # a
      BY <1>1, <2>1, <3>1, <3>2
    <3> QED
      BY <1>1, <1>4, <3>1, <3>3 DEF ClaimInv
<1> QED
  BY <1>4, <1>5, <1>6, <1>7, OwnStep

-----------------------------------------------------------------------------
(* Batches, gc processes and the environment.                              *)

(* The members that succeeded go on together, or to their rollback.        *)
LEMMA JoinWorkersInv ==
    ASSUME IndInv, NEW p \in Batches, JoinWorkers(p)
    PROVE  IndInv'
<1> USE DEF IndInv
<1>1. UNCHANGED <<claim, lock, marker, dev, dir, proc, job, stage, seen, fail>>
  BY DEF JoinWorkers, host
<1>2. /\ DOMAIN pc' = Actors
      /\ \A c \in Actors :
           pc'[c] = pc[c] \/ (c \in Rooms /\ pc[c] = "created" /\ pc'[c] \in {"free", "allocated"})
  BY DEF JoinWorkers, Members
<1>3. TypeOK'
  BY <1>1, <1>2 DEF TypeOK
<1>4. DevicesAccounted'
  BY <1>1 DEF DevicesAccounted
<1>5. ClaimInv'
  BY <1>1, <1>2, ClaimsKept
<1>6. ASSUME NEW c \in Actors
      PROVE  ActorInv(c)'
  BY <1>1, <1>2 DEF ActorInv
<1>7. ASSUME NEW r \in Rooms
      PROVE  MemberInv(r)'
  BY <1>1, <1>2 DEF MemberInv, HasNetwork
<1> QED
  BY <1>3, <1>4, <1>5, <1>6, <1>7

(* A process exits when all its members have ended.                        *)
LEMMA ExitInv ==
    ASSUME IndInv, NEW p \in Batches, Exit(p)
    PROVE  IndInv'
<1> USE DEF IndInv
<1>1. /\ UNCHANGED <<claim, lock, marker, dev, dir, pc, job, stage, seen, fail>>
      /\ proc' = [proc EXCEPT ![p] = "gone"]
      /\ \A r \in Rooms : BatchOf[r] = p => pc[r] \in Ended
  BY DEF Exit, Members, host
<1>2. /\ proc' \in [Batches -> {"live", "gone"}]
      /\ \A q \in Batches : proc'[q] = IF q = p THEN "gone" ELSE proc[q]
  BY <1>1 DEF TypeOK
<1>3. TypeOK'
  BY <1>1, <1>2 DEF TypeOK
<1>4. DevicesAccounted' /\ ClaimInv'
  BY <1>1, ClaimsKept DEF DevicesAccounted
<1>5. ASSUME NEW c \in Actors
      PROVE  ActorInv(c)'
  BY <1>1, <1>2 DEF ActorInv
<1>6. ASSUME NEW r \in Rooms
      PROVE  MemberInv(r)'
  BY <1>1, <1>2 DEF MemberInv, HasNetwork
<1> QED
  BY <1>3, <1>4, <1>5, <1>6

(* Whoever dies, dies with its locks; what its room has stays or goes with *)
(* the host's memory.                                                      *)
LEMMA KillInv ==
    ASSUME IndInv, NEW ps \in SUBSET Batches, NEW gs \in SUBSET Gcs, Kill(ps, gs),
           \/ UNCHANGED <<marker, dev>>
           \/ /\ ps = Batches /\ gs = Gcs
              /\ marker' = [i \in Indices |-> NoRoom] /\ dev' = [i \in Indices |-> {}]
    PROVE  IndInv'
<1> USE DEF IndInv
<1>1. /\ DOMAIN pc' = Actors
      /\ \A g \in Gcs : pc'[g] = IF g \in gs THEN "idle" ELSE pc[g]
      /\ \A r \in Rooms : pc'[r] = IF BatchOf[r] \in ps /\ pc[r] \notin Ended
                                   THEN "dead" ELSE pc[r]
  BY DEF Kill
<1>2. /\ proc' \in [Batches -> {"live", "gone"}]
      /\ \A q \in Batches : proc'[q] = IF q \in ps THEN "gone" ELSE proc[q]
  BY DEF Kill, TypeOK
<1>3. /\ job' \in [Actors -> [room : Rooms \cup {NoRoom}, idx : 1..MaxNet + 1]]
      /\ \A c \in Actors : c \notin gs => job'[c] = job[c]
  <2>1. [room |-> NoRoom, idx |-> 1] \in [room : Rooms \cup {NoRoom}, idx : 1..MaxNet + 1]
    OBVIOUS
  <2> QED
    BY <2>1 DEF Kill, TypeOK
<1>4. /\ lock' \in [Bases -> Actors \cup {NoActor}]
      /\ \A b \in Bases, c \in Actors : lock'[b] = c <=>
           lock[b] = c /\ ~(c \in gs \/ (c \in Rooms /\ BatchOf[c] \in ps))
  BY DEF Kill, TypeOK
<1>5. /\ stage' \in [Rooms -> 0..3]
      /\ \A r \in Rooms : stage'[r] = IF BatchOf[r] \in ps THEN 0 ELSE stage[r]
  BY DEF Kill, TypeOK
<1>6. /\ fail' \in [Rooms -> {"none", "full", "error"}]
      /\ \A r \in Rooms : fail'[r] \in {fail[r], "none"}
  BY DEF Kill, TypeOK
<1>7. seen' \in [Rooms -> SUBSET Indices] /\ UNCHANGED <<claim, dir>>
  BY DEF Kill, TypeOK
<1>8. /\ marker' \in [Indices -> Rooms \cup {NoRoom}]
      /\ dev' \in [Indices -> SUBSET ({Devices[n] : n \in 1..3} \X Rooms)]
  BY DEF TypeOK
<1>9. TypeOK'
  <2>1. /\ \A r \in Rooms :
             pc'[r] \in Allocating \cup Freeing \cup Ended \cup {"allocated", "owned"}
        /\ \A g \in Gcs : pc'[g] \in {"idle", "judge"} \cup Freeing
    BY <1>1 DEF TypeOK
  <2>2. ASSUME NEW c \in Actors
        PROVE  (pc'[c] \in Locked) <=> (lock'[Base(c)] = c)
    <3>1. (pc[c] \in Locked) <=> (lock[Base(c)] = c)
      BY DEF TypeOK
    <3>2. (lock'[Base(c)] = c) <=>
             lock[Base(c)] = c /\ ~(c \in gs \/ (c \in Rooms /\ BatchOf[c] \in ps))
      BY <1>4
    <3>3. CASE c \in Rooms
      BY <1>1, <3>1, <3>2, <3>3
    <3>4. CASE c \in Gcs
      BY <1>1, <3>1, <3>2, <3>4
    <3> QED
      BY <3>3, <3>4
  <2> QED
    BY <1>1, <1>2, <1>3, <1>4, <1>5, <1>6, <1>7, <1>8, <2>1, <2>2 DEF TypeOK
<1>10. DevicesAccounted'
  BY <1>7 DEF DevicesAccounted
<1>11. ClaimInv'
  <2> SUFFICES ASSUME NEW b \in Bases, NEW i \in Indices, NEW r \in Rooms,
                      claim'[b][i] = r
               PROVE  /\ b = Base(r) /\ i = job'[r].idx
                      /\ pc'[r] \notin Unclaimed \cup {"done"}
                      /\ ~(pc'[r] = "failed" /\ fail'[r] = "full")
    BY DEF ClaimInv
  <2>1. claim[b][i] = r /\ job'[r] = job[r]
    BY <1>3, <1>7
  <2>2. /\ b = Base(r) /\ i = job[r].idx
        /\ pc[r] \notin Unclaimed \cup {"done"}
        /\ ~(pc[r] = "failed" /\ fail[r] = "full")
    BY <2>1 DEF ClaimInv
  <2>3. pc'[r] \in {pc[r], "dead"} /\ fail'[r] \in {fail[r], "none"}
    BY <1>1, <1>6
  <2> QED
    BY <2>1, <2>2, <2>3 DEF Unclaimed
<1>12. ASSUME NEW c \in Actors
       PROVE  ActorInv(c)'
  <2>1. CASE pc'[c] \in Working \cup {"free", "judge"}
    <3>1. pc'[c] = pc[c] /\ job'[c] = job[c]
      BY <1>1, <1>3, <2>1
    <3>2. UNCHANGED <<marker, dev>>
      BY <1>1, <2>1
    <3>3. job[c].room \in Rooms /\ job'[job[c].room] = job[job[c].room]
      BY <1>3, <2>1, <3>1 DEF ActorInv
    <3> QED
      BY <1>2, <1>7, <3>1, <3>2, <3>3 DEF ActorInv
  <2>2. CASE pc'[c] \notin Working \cup {"free", "judge"}
    BY <1>3, <2>2 DEF ActorInv
  <2> QED
    BY <2>1, <2>2
<1>13. ASSUME NEW r \in Rooms
       PROVE  MemberInv(r)'
  <2>1. job'[r] = job[r]
    BY <1>3
  <2>2. CASE BatchOf[r] \in ps
    BY <1>1, <1>2, <1>5, <1>7, <2>1, <2>2 DEF MemberInv, HasNetwork
  <2>3. CASE BatchOf[r] \notin ps
    <3>1. UNCHANGED <<marker, dev>>
      BY <2>3
    <3>2. pc'[r] = pc[r] /\ stage'[r] = stage[r] /\ proc'[BatchOf[r]] = proc[BatchOf[r]]
      BY <1>1, <1>2, <1>5, <2>3
    <3> QED
      BY <1>7, <2>1, <3>1, <3>2 DEF MemberInv, HasNetwork
  <2> QED
    BY <2>2, <2>3
<1> QED
  BY <1>9, <1>10, <1>11, <1>12, <1>13

(* A gc picks an item: no step of it touches the host.                     *)
LEMMA GcPickInv ==
    ASSUME IndInv, NEW g \in Gcs, NEW r \in Rooms, pc[g] = "idle",
           NEW phase \in {"judge", "free"}, Goto(g, phase),
           NEW i \in Indices, job' = [job EXCEPT ![g] = [room |-> r, idx |-> i]],
           i = job[r].idx, Base(r) = Base(g), proc[BatchOf[r]] = "gone",
           dir' \in [Rooms -> BOOLEAN], \A q \in Rooms : dir'[q] => dir[q],
           UNCHANGED <<claim, lock, marker, dev, proc, stage, seen, fail>>
    PROVE  IndInv'
<1> USE DEF IndInv
<1>1. /\ job' \in [Actors -> [room : Rooms \cup {NoRoom}, idx : 1..MaxNet + 1]]
      /\ \A c \in Actors \ {g} : job'[c] = job[c]
      /\ job'[g].room = r /\ job'[g].idx = i
  <2>1. [room |-> r, idx |-> i] \in [room : Rooms \cup {NoRoom}, idx : 1..MaxNet + 1]
    OBVIOUS
  <2> QED
    BY <2>1 DEF TypeOK
<1>2. DOMAIN pc' = Actors /\ pc'[g] = phase /\ \A c \in Actors \ {g} : pc'[c] = pc[c]
  BY DEF TypeOK
<1>3. TypeOK'
  BY <1>1, <1>2 DEF TypeOK
<1>4. Effect(g)
  BY <1>1, <1>2 DEF Effect
<1>5. DevicesAccounted' /\ ClaimInv'
  BY <1>1, <1>2, ClaimsKept DEF DevicesAccounted
<1>6. ActorInv(g)'
  BY <1>1, <1>2 DEF ActorInv
<1> QED
  BY <1>3, <1>4, <1>5, <1>6, OwnStep

(* A claim names its index, and its claimer is gone.                       *)
LEMMA GcReadInv ==
    ASSUME IndInv, NEW g \in Gcs, NEW i \in Indices, GcRead(g, i)
    PROVE  IndInv'
<1> DEFINE r == claim[Base(g)][i]
<1>1. r \in Rooms /\ i = job[r].idx /\ Base(r) = Base(g)
  BY DEF GcRead, IndInv, TypeOK, ClaimInv
<1> QED
  BY <1>1, GcPickInv DEF GcRead, host, IndInv, TypeOK

(* The room directory goes first; the index is in the intent.              *)
LEMMA ReapRoomInv ==
    ASSUME IndInv, NEW g \in Gcs, NEW r \in Rooms, ReapRoom(g, r)
    PROVE  IndInv'
<1>1. job[r] = [room |-> r, idx |-> job[r].idx] /\ job[r].idx \in Indices
  BY DEF ReapRoom, IndInv, TypeOK, ActorInv, MemberInv
<1>2. dir' \in [Rooms -> BOOLEAN] /\ \A q \in Rooms : dir'[q] => dir[q]
  BY DEF ReapRoom, IndInv, TypeOK
<1> QED
  BY <1>1, <1>2, GcPickInv DEF ReapRoom, host

(* Under the lock the claim is still that of the dead claimer.             *)
LEMMA ReconcileInv ==
    ASSUME IndInv, NEW g \in Gcs, Reconcile(g)
    PROVE  IndInv'
<1> DEFINE i == job[g].idx  r == job[g].room
<1> USE DEF IndInv
<1>1. /\ pc[g] = "judge" /\ lock[Base(g)] = NoActor /\ i \in Indices /\ r \in Rooms
      /\ UNCHANGED <<claim, marker, dev, dir, proc, stage, seen, fail>>
  BY DEF Reconcile, ActorInv
<1>2. CASE /\ claim[Base(g)][i] = r
           /\ lock' = [lock EXCEPT ![Base(g)] = g] /\ Goto(g, "own") /\ UNCHANGED job
  <2>1. TypeOK'
    BY <1>1, <1>2 DEF TypeOK
  <2>2. Effect(g)
    BY <1>1, <1>2 DEF Effect, TypeOK
  <2>3. DevicesAccounted' /\ ClaimInv'
    BY <1>1, <1>2 DEF DevicesAccounted, ClaimInv, TypeOK
  <2>4. ActorInv(g)'
    BY <1>1, <1>2 DEF ActorInv, TypeOK
  <2> QED
    BY <2>1, <2>2, <2>3, <2>4, OwnStep
<1>3. CASE Return(g)
  <2>1. Stop(g, "done")
    BY <1>3 DEF Return, Stop
  <2>2. /\ TypeOK' /\ ActorInv(g)'
        /\ \A c \in Actors \ {g} : pc'[c] = pc[c] /\ job'[c] = job[c]
        /\ \A q \in Rooms : job'[q] = job[q]
    BY <1>1, <2>1, StopStep DEF TypeOK
  <2>3. Effect(g)
    BY <1>1, <2>2 DEF Effect
  <2>4. DevicesAccounted' /\ ClaimInv'
    BY <1>1, <2>2, ClaimsKept DEF DevicesAccounted
  <2> QED
    BY <2>2, <2>3, <2>4, OwnStep
<1> QED
  BY <1>1, <1>2, <1>3 DEF Reconcile

(* A gc dies inside an item: the claim is still there for the next.        *)
LEMMA GcCrashInv ==
    ASSUME IndInv, NEW g \in Gcs, GcCrash(g)
    PROVE  IndInv'
<1> USE DEF IndInv
<1>1. Stop(g, "done") /\ UNCHANGED <<claim, marker, dev, dir, proc, stage, seen, fail>>
  BY DEF GcCrash, Return, Stop
<1>2. pc[g] \in Freeing \cup {"judge"}
  BY DEF GcCrash, TypeOK
<1>3. /\ TypeOK' /\ ActorInv(g)'
      /\ \A c \in Actors \ {g} : pc'[c] = pc[c] /\ job'[c] = job[c]
      /\ \A q \in Rooms : job'[q] = job[q]
  BY <1>1, <1>2, StopStep DEF TypeOK
<1>4. Effect(g)
  BY <1>1, <1>3 DEF Effect
<1>5. DevicesAccounted' /\ ClaimInv'
  BY <1>1, <1>3, ClaimsKept DEF DevicesAccounted
<1> QED
  BY <1>3, <1>4, <1>5, OwnStep

-----------------------------------------------------------------------------
(* Every step keeps the inductive invariant.                               *)
LEMMA StepInv == IndInv /\ [Next]_vars => IndInv'
<1> SUFFICES ASSUME IndInv, [Next]_vars PROVE IndInv'
  OBVIOUS
<1>1. CASE \E r \in Rooms : AllocateStep(r) \/ UseNetwork(r) \/ FinishRoom(r)
  BY <1>1, ListRoutesInv, CheckRoutesInv, TakeLockInv, ClaimIndexInv,
     ClaimPoolFullInv, ClaimGlobalInv, CreateInv, CreateDoneInv, CreateFailsInv,
     RollbackInv, RollbackMarkerInv, ReleaseClaimInv, UseNetworkInv, FinishRoomInv
     DEF AllocateStep
<1>2. CASE \E a \in Actors : FreeStep(a)
  BY <1>2, FreeHoldInv, TeardownOwnershipInv, ProbeReservedInv,
     TeardownDevicesInv, TeardownMarkerInv, FreeUnlinkInv DEF FreeStep
<1>3. CASE \E p \in Batches : JoinWorkers(p) \/ Exit(p) \/ Crash(p)
  <2>1. ASSUME NEW p \in Batches, Crash(p) PROVE IndInv'
    <3>1. {p} \in SUBSET Batches /\ {} \in SUBSET Gcs
      OBVIOUS
    <3> QED
      BY <2>1, <3>1, KillInv DEF Crash
  <2> QED
    BY <1>3, <2>1, JoinWorkersInv, ExitInv
<1>4. CASE \E g \in Gcs : \/ \E i \in Indices : GcRead(g, i)
                          \/ \E r \in Rooms : ReapRoom(g, r)
                          \/ Reconcile(g) \/ GcCrash(g)
  BY <1>4, GcReadInv, ReapRoomInv, ReconcileInv, GcCrashInv
<1>5. CASE Reboot
  <2>1. Batches \in SUBSET Batches /\ Gcs \in SUBSET Gcs
    OBVIOUS
  <2> QED
    BY <1>5, <2>1, KillInv DEF Reboot
<1>6. CASE UNCHANGED vars
  BY <1>6 DEF vars, IndInv, TypeOK, DevicesAccounted, ClaimInv, ActorInv,
              MemberInv, HasNetwork
<1> QED
  BY <1>1, <1>2, <1>3, <1>4, <1>5, <1>6 DEF Next

(* The inductive invariant holds in every reachable state.                 *)
THEOREM Invariance == Spec => []IndInv
BY InitInv, StepInv, PTL DEF Spec

(* Every variable keeps its type, and whoever is inside a claim or a free  *)
(* holds the lock of its state directory.                                  *)
THEOREM TypeCorrect == Spec => []TypeOK
<1>1. IndInv => TypeOK
  BY DEF IndInv
<1> QED
  BY <1>1, Invariance, PTL

(* Whatever a crash, a kill or a failed command leaves on the host is      *)
(* named by a claim that gc can find.                                      *)
THEOREM DevicesSafe == Spec => []DevicesAccounted
<1>1. IndInv => DevicesAccounted
  BY DEF IndInv
<1> QED
  BY <1>1, Invariance, PTL

(* No actor takes a device from under a room that was handed its network   *)
(* and whose process lives.                                                *)
THEOREM NetworkSafe == Spec => []NetworkInUseKept
<1>1. IndInv => NetworkInUseKept
  BY DEF IndInv, MemberInv, HasNetwork, Built, NetworkInUseKept
<1> QED
  BY <1>1, Invariance, PTL

(* A batch that is refused for want of capacity has left nothing behind.   *)
THEOREM PoolFullSafe == Spec => []PoolFullIsClean
<1>1. IndInv => PoolFullIsClean
  <2> SUFFICES ASSUME IndInv, NEW p \in Batches, PoolFullCap(p),
                      NEW r \in Members(p), NEW i \in Indices
               PROVE  /\ claim[Base(r)][i] # r /\ marker[i] # r
                      /\ \A d \in dev[i] : d[2] # r
    BY DEF PoolFullIsClean
  <2>1. r \in Rooms /\ (pc[r] = "done" \/ (pc[r] = "failed" /\ fail[r] = "full"))
    BY DEF PoolFullCap, Members
  <2>2. \A b \in Bases : claim[b][i] # r
    BY <2>1 DEF IndInv, ClaimInv
  <2>3. Base(r) \in Bases
    BY <2>1
  <2> QED
    BY <2>1, <2>2, <2>3 DEF IndInv, DevicesAccounted
<1> QED
  BY <1>1, Invariance, PTL

-----------------------------------------------------------------------------
(* The refinement of HostNets.                                             *)

(* The room ids whose devices stand at each index.                         *)
Builders == [i \in Indices |-> {d[2] : d \in dev[i]}]

(* A new marker reserves an index at which no device stands.               *)
LEMMA MarkStep ==
    ASSUME IndInv, NEW i \in Indices, NEW r \in Rooms, marker[i] = NoRoom,
           marker' = [marker EXCEPT ![i] = r], UNCHANGED dev
    PROVE  Abstract!Next
<1>1. \A d \in dev[i] : d[2] \in Rooms /\ d[2] = NoRoom
  BY DEF IndInv, TypeOK, DevicesAccounted
<1>2. dev[i] = {}
  BY <1>1
<1>3. Builders[i] = {} /\ Builders' = Builders
  BY <1>2 DEF Builders
<1>4. Abstract!Reserve(i, r)
  BY <1>3 DEF Abstract!Reserve, Builders
<1> QED
  BY <1>4 DEF Abstract!Next

(* A marker goes only when no device stands at its index.                  *)
LEMMA UnmarkStep ==
    ASSUME IndInv, NEW i \in Indices, NEW r \in Rooms, dev[i] = {},
           marker[i] = r, marker' = Unmarked(i, r), UNCHANGED dev
    PROVE  Abstract!Next
<1>1. Builders[i] = {} /\ Builders' = Builders
  BY DEF Builders
<1>2. marker' = [marker EXCEPT ![i] = NoRoom]
  BY DEF Unmarked
<1>3. Abstract!Release(i)
  BY <1>1, <1>2 DEF Abstract!Release, Builders
<1> QED
  BY <1>3 DEF Abstract!Next

(* Devices change at one index: its owner builds, or the last one goes.    *)
LEMMA DevStep ==
    ASSUME IndInv, IndInv', NEW i \in Indices, NEW D,
           dev' = [dev EXCEPT ![i] = D], UNCHANGED marker
    PROVE  Abstract!Next
<1>1. /\ DOMAIN dev = Indices /\ DOMAIN dev' = Indices
      /\ \A d \in dev'[i] : d[2] \in Rooms /\ d[2] = marker[i]
  BY DEF IndInv, TypeOK, DevicesAccounted
<1>2. \A j \in Indices \ {i} : dev'[j] = dev[j]
  BY <1>1
<1>3. CASE dev'[i] = {}
  <2>1. {d[2] : d \in dev'[i]} = {}
    BY <1>3
  <2>2. Builders' = [Builders EXCEPT ![i] = {}]
    BY <1>2, <2>1 DEF Builders
  <2>3. Abstract!Clear(i)
    BY <2>2 DEF Abstract!Clear, Builders
  <2> QED
    BY <2>3 DEF Abstract!Next
<1>4. CASE dev'[i] # {}
  <2>1. {d[2] : d \in dev'[i]} = {marker[i]} /\ marker[i] # NoRoom
    BY <1>1, <1>4
  <2>2. Builders' = [Builders EXCEPT ![i] = {marker[i]}]
    BY <1>2, <2>1 DEF Builders
  <2>3. Abstract!Build(i)
    BY <2>1, <2>2 DEF Abstract!Build, Builders
  <2> QED
    BY <2>3 DEF Abstract!Next
<1> QED
  BY <1>3, <1>4

(* The steps of an allocation.                                             *)
LEMMA AllocateRefines ==
    ASSUME IndInv, IndInv', NEW r \in Rooms,
           AllocateStep(r) \/ UseNetwork(r) \/ FinishRoom(r)
    PROVE  Abstract!Next \/ UNCHANGED <<marker, dev>>
<1> DEFINE i == job[r].idx
<1>1. job[r].room = r
  BY DEF IndInv, ActorInv
<1>2. CASE \/ ListRoutes(r) \/ CheckRoutes(r) \/ TakeLock(r) \/ ClaimIndex(r)
           \/ ClaimPoolFull(r) \/ CreateDone(r) \/ CreateFails(r)
           \/ ReleaseClaim(r) \/ UseNetwork(r) \/ FinishRoom(r)
  BY <1>2 DEF ListRoutes, CheckRoutes, TakeLock, ClaimIndex, ClaimPoolFull,
              CreateDone, CreateFails, ReleaseClaim, UseNetwork, FinishRoom, host
<1>3. CASE ClaimGlobal(r)
  <2>1. i \in Indices
    BY <1>1, <1>3 DEF ClaimGlobal, IndInv, ActorInv
  <2>2. \/ marker[i] = NoRoom /\ marker' = [marker EXCEPT ![i] = r] /\ UNCHANGED dev
        \/ UNCHANGED <<marker, dev>>
    BY <1>3 DEF ClaimGlobal
  <2> QED
    BY <2>1, <2>2, MarkStep
<1>4. CASE Create(r) \/ Rollback(r)
  <2>1. i \in Indices
    BY <1>1, <1>4 DEF Create, Rollback, IndInv, ActorInv
  <2>2. UNCHANGED marker /\ \E D : dev' = [dev EXCEPT ![i] = D]
    BY <1>4 DEF Create, Rollback
  <2> QED
    BY <2>1, <2>2, DevStep
<1>5. CASE RollbackMarker(r)
  <2>1. i \in Indices /\ marker[i] = r /\ dev[i] = {}
    BY <1>1, <1>5 DEF RollbackMarker, IndInv, ActorInv
  <2>2. marker' = Unmarked(i, r) /\ UNCHANGED dev
    BY <1>5 DEF RollbackMarker
  <2> QED
    BY <2>1, <2>2, UnmarkStep
<1> QED
  BY <1>2, <1>3, <1>4, <1>5 DEF AllocateStep

(* The steps of a free or a reconciliation.                                *)
LEMMA FreeRefines ==
    ASSUME IndInv, IndInv', NEW a \in Actors, FreeStep(a)
    PROVE  Abstract!Next \/ UNCHANGED <<marker, dev>>
<1> DEFINE i == job[a].idx  r == job[a].room
<1>1. CASE FreeHold(a) \/ FreeUnlink(a)
  BY <1>1 DEF FreeHold, FreeUnlink
<1>2. CASE TeardownOwnership(a)
  <2>1. i \in Indices /\ r \in Rooms
    BY <1>2 DEF TeardownOwnership, IndInv, ActorInv
  <2>2. \/ marker[i] = NoRoom /\ marker' = [marker EXCEPT ![i] = r] /\ UNCHANGED dev
        \/ UNCHANGED <<marker, dev>>
    BY <1>2 DEF TeardownOwnership
  <2> QED
    BY <2>1, <2>2, MarkStep
<1>3. CASE ProbeReserved(a)
  <2>1. dev[i] = {}
    BY <1>3 DEF ProbeReserved, IndInv, ActorInv
  <2> QED
    BY <1>3, <2>1 DEF ProbeReserved
<1>4. CASE TeardownDevices(a)
  <2>1. i \in Indices
    BY <1>4 DEF TeardownDevices, IndInv, ActorInv
  <2>2. UNCHANGED marker /\ \E D : dev' = [dev EXCEPT ![i] = D]
    BY <1>4 DEF TeardownDevices
  <2> QED
    BY <2>1, <2>2, DevStep
<1>5. CASE TeardownMarker(a)
  <2>1. i \in Indices /\ r \in Rooms /\ marker[i] = r /\ dev[i] = {}
    BY <1>5 DEF TeardownMarker, IndInv, ActorInv
  <2>2. marker' = Unmarked(i, r) /\ UNCHANGED dev
    BY <1>5 DEF TeardownMarker
  <2> QED
    BY <2>1, <2>2, UnmarkStep
<1> QED
  BY <1>1, <1>2, <1>3, <1>4, <1>5 DEF FreeStep

(* Every step is a step of the exclusive allocator of host indices, or     *)
(* leaves the markers and the devices alone.                               *)
LEMMA StepRefines ==
    IndInv /\ IndInv' /\ [Next]_vars => [Abstract!Next]_<<marker, Builders>>
<1> SUFFICES ASSUME IndInv, IndInv', [Next]_vars
             PROVE  Abstract!Next \/ UNCHANGED <<marker, dev>>
  BY DEF Builders
<1>1. CASE \E p \in Batches : JoinWorkers(p) \/ Exit(p) \/ Crash(p)
  BY <1>1 DEF JoinWorkers, Exit, Crash, host
<1>2. CASE \E g \in Gcs : \/ \E i \in Indices : GcRead(g, i)
                          \/ \E r \in Rooms : ReapRoom(g, r)
                          \/ Reconcile(g) \/ GcCrash(g)
  BY <1>2 DEF GcRead, ReapRoom, Reconcile, GcCrash, host
<1>3. CASE Reboot
  <2>1. marker' = [i \in Indices |-> NoRoom] /\ dev' = [i \in Indices |-> {}]
    BY <1>3 DEF Reboot
  <2>2. Builders' = [i \in Indices |-> {}]
    BY <2>1 DEF Builders
  <2>3. Abstract!Reboot
    BY <2>1, <2>2 DEF Abstract!Reboot, Builders
  <2> QED
    BY <2>3 DEF Abstract!Next
<1>4. CASE UNCHANGED vars
  BY <1>4 DEF vars
<1> QED
  BY <1>1, <1>2, <1>3, <1>4, AllocateRefines, FreeRefines DEF Next

(* The pools of all state directories together implement the exclusive     *)
(* allocator of host indices: an index changes hands only after the last   *)
(* device of its owner is gone.                                            *)
THEOREM Refinement == Spec => HostExclusive
<1>1. Init => Abstract!Init
  BY DEF Init, Abstract!Init
<1>2. IndInv /\ IndInv' /\ [Next]_vars
        => [Abstract!Next]_<<marker, [i \in Indices |-> {d[2] : d \in dev[i]}]>>
  BY StepRefines DEF Builders
<1> QED
  BY <1>1, <1>2, Invariance, PTL DEF Spec, HostExclusive, Abstract!Spec

-----------------------------------------------------------------------------
(* The routing preflight (RoutePreflight), which an allocation passes.     *)

(* The powers of two of an IPv4 address: positive, from 2^2 on multiples   *)
(* of four.                                                                *)
LEMMA Powers ==
    ASSUME NEW k \in 0..32
    PROVE  /\ 2^k \in Nat /\ 2^k > 0
           /\ k >= 2 => \E m \in Nat : 2^k = 4 * m
           /\ k >= 4 => 2^k >= 16
<1>1. /\ 2^0 = 1 /\ 2^1 = 2 /\ 2^2 = 4
      /\ 2^3 = 8 /\ 2^4 = 16 /\ 2^5 = 32
      /\ 2^6 = 64 /\ 2^7 = 128 /\ 2^8 = 256
      /\ 2^9 = 512 /\ 2^10 = 1024 /\ 2^11 = 2048
      /\ 2^12 = 4096 /\ 2^13 = 8192 /\ 2^14 = 16384
      /\ 2^15 = 32768 /\ 2^16 = 65536 /\ 2^17 = 131072
      /\ 2^18 = 262144 /\ 2^19 = 524288 /\ 2^20 = 1048576
      /\ 2^21 = 2097152 /\ 2^22 = 4194304 /\ 2^23 = 8388608
      /\ 2^24 = 16777216 /\ 2^25 = 33554432 /\ 2^26 = 67108864
      /\ 2^27 = 134217728 /\ 2^28 = 268435456 /\ 2^29 = 536870912
      /\ 2^30 = 1073741824 /\ 2^31 = 2147483648 /\ 2^32 = 4294967296
  OBVIOUS
<1>2. PICK f : f = [j \in 0..32 |-> 2^j]
  OBVIOUS
<1>3. /\ f[0] = 1 /\ f[1] = 2 /\ f[2] = 4
      /\ f[3] = 8 /\ f[4] = 16 /\ f[5] = 32
      /\ f[6] = 64 /\ f[7] = 128 /\ f[8] = 256
      /\ f[9] = 512 /\ f[10] = 1024 /\ f[11] = 2048
      /\ f[12] = 4096 /\ f[13] = 8192 /\ f[14] = 16384
      /\ f[15] = 32768 /\ f[16] = 65536 /\ f[17] = 131072
      /\ f[18] = 262144 /\ f[19] = 524288 /\ f[20] = 1048576
      /\ f[21] = 2097152 /\ f[22] = 4194304 /\ f[23] = 8388608
      /\ f[24] = 16777216 /\ f[25] = 33554432 /\ f[26] = 67108864
      /\ f[27] = 134217728 /\ f[28] = 268435456 /\ f[29] = 536870912
      /\ f[30] = 1073741824 /\ f[31] = 2147483648 /\ f[32] = 4294967296
  BY <1>1, <1>2
<1>4. \A j \in 0..32 : f[j] \in Nat /\ f[j] > 0
  BY <1>3
<1>5. \A j \in 0..32 : j >= 2 => f[j] = 4 * (f[j] \div 4) /\ f[j] \div 4 \in Nat
  BY <1>3
<1>6. \A j \in 0..32 : j >= 4 => f[j] >= 16
  BY <1>3
<1>7. 2^k = f[k]
  BY <1>2
<1>8. PICK w : w = 2^k
  OBVIOUS
<1>9. /\ w \in Nat /\ w > 0
      /\ k >= 2 => w = 4 * (w \div 4) /\ w \div 4 \in Nat
      /\ k >= 4 => w >= 16
  BY <1>4, <1>5, <1>6, <1>7, <1>8
<1>10. k >= 2 => \E m \in Nat : w = 4 * m
  BY <1>9
<1> QED
  BY <1>8, <1>9, <1>10, Zenon

(* A route as the kernel keeps it: its network is a multiple of its size.  *)
Aligned(r) ==
    /\ r.prefix \in PrefixLengths
    /\ \E k \in Nat : r.network = k * Size(r.prefix)

(* The route by which a packet for the guest of clone n leaves.            *)
LinkRoute(n) ==
    Route("unicast", BaseIp(n), LinkPrefix, "main", n, n)

(* What the preflight established, and the creation of a network keeps.    *)
RouteInv ==
    /\ marked \subseteq NetIndices
    /\ \A r \in routes : Aligned(r)
    /\ \A n \in marked : LinkRoute(n) \in routes
    /\ rules = DefaultPolicyRules \/ rules \in RuleLists
    /\ step \in {"accepted", "created"} =>
         /\ rules = DefaultPolicyRules
         /\ \A r \in routes : ClassifyRoute(r) \in {Disjoint} \cup marked

(* The sizes of prefixes; that of the supernet is a multiple of a link's.  *)
LEMMA Sizes ==
    ASSUME Width \in 7..32
    PROVE  /\ \A p \in PrefixLengths :
                 Size(p) \in Nat /\ Size(p) > 0
           /\ Size(Width) = 1 /\ Size(LinkPrefix) = 4
           /\ \E m \in Nat : m >= 4 /\ Size(3) = 4 * m
<1>1. ASSUME NEW p \in PrefixLengths
      PROVE  Size(p) \in Nat /\ Size(p) > 0
  <2>1. Width - p \in 0..32
    BY DEF PrefixLengths
  <2> QED
    BY <2>1, Powers DEF Size
<1>2. Size(Width) = 1
  <2>1. Width - Width = 0 /\ 2^0 = 1
    OBVIOUS
  <2> QED
    BY <2>1 DEF Size
<1>3. Size(LinkPrefix) = 4
  <2>1. Width - LinkPrefix = 2 /\ 2^2 = 4
    BY DEF LinkPrefix
  <2> QED
    BY <2>1 DEF Size
<1>4. \E m \in Nat : m >= 4 /\ Size(3) = 4 * m
  <2>1. PICK k \in 0..32 : k = Width - 3
    OBVIOUS
  <2>2. PICK w : w = 2^k
    OBVIOUS
  <2>3. w \in Nat /\ w >= 16 /\ \E m \in Nat : w = 4 * m
    <3>1. k >= 4 /\ k >= 2
      BY <2>1
    <3>2. 2^k \in Nat /\ 2^k >= 16 /\ \E m \in Nat : 2^k = 4 * m
      BY <3>1, Powers, Zenon
    <3> QED
      BY <2>2, <3>2, Zenon
  <2>4. \E m \in Nat : m >= 4 /\ w = 4 * m
    BY <2>3
  <2>5. Size(3) = w
    BY <2>1, <2>2, Zenon DEF Size
  <2> QED
    BY <2>4, <2>5
<1> QED
  BY <1>1, <1>2, <1>3, <1>4

(* Where the supernet and the networks of the clones lie.                  *)
LEMMA Layout ==
    ASSUME Width \in 7..32
    PROVE  \E m \in Nat : /\ m >= 4 /\ Size(3) = 4 * m
                          /\ NetIndices = 1..(m - 1)
                          /\ Supernet.network = 20 * m /\ Supernet.prefix = 3
                          /\ \A n \in Nat : BaseIp(n) = 20 * m + 4 * n
<1>1. PICK m \in Nat : m >= 4 /\ Size(3) = 4 * m
  BY Sizes
<1>2. Supernet.network = 20 * m /\ Supernet.prefix = 3
  BY <1>1 DEF Supernet
<1>3. NetIndices = 1..(m - 1)
  <2>1. (4 * m) \div 4 = m
    OBVIOUS
  <2> QED
    BY <1>1, <2>1 DEF NetIndices
<1>4. \A n \in Nat : BaseIp(n) = 20 * m + 4 * n
  BY <1>2 DEF BaseIp
<1> QED
  BY <1>1, <1>2, <1>3, <1>4

(* A route whose prefix covers the guest of clone n overlaps the supernet; *)
(* a host route is one to that guest and a link route is that of n.        *)
LEMMA GuestAddress ==
    ASSUME Width \in 7..32, NEW n \in NetIndices, NEW r, Aligned(r),
           Within(BaseIp(n) + 2, r)
    PROVE  /\ Overlaps(r)
           /\ r.prefix = Width => r.network = BaseIp(n) + 2
           /\ \A k \in NetIndices :
                 r.prefix = LinkPrefix /\ r.network = BaseIp(k) => k = n
<1>1. PICK m \in Nat : /\ m >= 4 /\ Size(3) = 4 * m
                       /\ NetIndices = 1..(m - 1)
                       /\ Supernet.network = 20 * m /\ Supernet.prefix = 3
                       /\ \A k \in Nat : BaseIp(k) = 20 * m + 4 * k
  BY Layout
<1>2. n \in Nat /\ n >= 1 /\ n =< m - 1
  BY <1>1
<1>3. PICK a \in Nat : a = BaseIp(n) + 2 /\ a = 20 * m + 4 * n + 2
  BY <1>1, <1>2
<1>4. PICK S \in Nat : S = Size(r.prefix) /\ S > 0
  BY Sizes DEF Aligned
<1>5. PICK k \in Nat : r.network = k * S
  BY <1>4 DEF Aligned
<1>6. k * S =< a /\ a < k * S + S
  <2>1. a \div S = (k * S) \div S
    BY <1>3, <1>4, <1>5 DEF Within
  <2>2. ASSUME NEW b \in Nat, NEW s \in Nat, s > 0, NEW q \in Nat,
               b \div s = (q * s) \div s
        PROVE  q * s =< b /\ b < q * s + s
    BY <2>2
  <2> QED
    BY <1>4, <2>1, <2>2
<1>7. Overlaps(r)
  <2>1. PICK w : w = r.network
    OBVIOUS
  <2>2. w \in Nat /\ w =< a /\ a < w + S
    BY <1>5, <1>6, <2>1
  <2>3. w =< 20 * m + 4 * m - 1 /\ 20 * m =< w + S - 1
    BY <1>2, <1>3, <1>4, <2>2
  <2> QED
    BY <1>1, <1>4, <2>1, <2>3 DEF Overlaps
<1>8. ASSUME r.prefix = Width
      PROVE  r.network = BaseIp(n) + 2
  <2>1. S = 1
    BY <1>4, <1>8, Sizes
  <2>2. k * S = k /\ k = a
    BY <1>6, <2>1
  <2> QED
    BY <1>3, <1>5, <2>2
<1>9. ASSUME NEW j \in NetIndices, r.prefix = LinkPrefix,
             r.network = BaseIp(j)
      PROVE  j = n
  <2>1. S = 4
    BY <1>4, <1>9, Sizes
  <2>2. PICK w : w = r.network
    OBVIOUS
  <2>3. j \in Nat /\ w = 20 * m + 4 * j
    BY <1>1, <1>9, <2>2
  <2>4. w =< a /\ a < w + 4
    BY <1>5, <1>6, <2>1, <2>2
  <2> QED
    BY <1>2, <1>3, <2>3, <2>4
<1> QED
  BY <1>7, <1>8, <1>9

(* An accepted route that covers the guest of clone n is a throw of table  *)
(* local, a catch-all of another table, or the link route of n.            *)
LEMMA GuestRoute ==
    ASSUME Width \in 7..32, marked \subseteq NetIndices,
           NEW n \in NetIndices, NEW r,
           Aligned(r), ClassifyRoute(r) \in {Disjoint} \cup marked,
           Within(BaseIp(n) + 2, r)
    PROVE  \/ r.kind = "throw" /\ r.table = "local"
           \/ r.prefix =< 1 /\ r.table # "local"
           \/ r.kind = "unicast" /\ r.prefix = LinkPrefix /\ r.dev = n
<1>1. PICK m \in Nat : /\ NetIndices = 1..(m - 1)
                       /\ \A k \in Nat : BaseIp(k) = 20 * m + 4 * k
  BY Layout
<1>2. /\ Overlaps(r)
      /\ r.prefix = Width => r.network = BaseIp(n) + 2
      /\ \A k \in NetIndices :
            r.prefix = LinkPrefix /\ r.network = BaseIp(k) => k = n
  BY GuestAddress
<1>3. CASE r.kind = "throw" /\ r.table = "local"
  BY <1>3
<1>4. CASE r.prefix =< 1 /\ r.table # "local"
  BY <1>4
<1>5. CASE /\ ~(r.kind = "throw" /\ r.table = "local")
           /\ ~(r.prefix =< 1 /\ r.table # "local")
  <2>1. RoomsRouteIndex(r) \in {Disjoint} \cup marked
    BY <1>2, <1>5 DEF ClassifyRoute, InLocalTable
  <2>2. RoomsRouteIndex(r) # 0
    BY <1>1, <2>1 DEF Disjoint
  <2>3. PICK k : k = r.dev
    OBVIOUS
  <2>4. /\ k \in NetIndices
        /\ \/ /\ r.kind = "unicast" /\ r.prefix = LinkPrefix
              /\ r.network = BaseIp(k)
           \/ r.kind = "local" /\ r.prefix = Width /\ r.network = HostIp(k)
           \/ /\ r.kind = "broadcast" /\ r.prefix = Width
              /\ r.network \in {BaseIp(k), BaseIp(k) + 3}
    BY <2>2, <2>3 DEF RoomsRouteIndex
  <2>5. k \in Nat /\ n \in Nat
    BY <1>1, <2>4
  <2>6. /\ BaseIp(n) + 2 # BaseIp(k) + 1
        /\ BaseIp(n) + 2 # BaseIp(k)
        /\ BaseIp(n) + 2 # BaseIp(k) + 3
    <3>1. BaseIp(n) = 20 * m + 4 * n /\ BaseIp(k) = 20 * m + 4 * k
      BY <1>1, <2>5
    <3>2. ASSUME NEW i \in Nat, NEW j \in Nat
          PROVE  4 * i + 2 # 4 * j + 1 /\ 4 * i + 2 # 4 * j /\ 4 * i + 2 # 4 * j + 3
      OBVIOUS
    <3> QED
      BY <2>5, <3>1, <3>2
  <2> QED
    BY <1>2, <2>3, <2>4, <2>6 DEF HostIp
<1> QED
  BY <1>3, <1>4, <1>5

(* So the lookup ends in table local or main, at the link route of n.      *)
LEMMA GuestRouted ==
    ASSUME Width \in 7..32, RouteInv
    PROVE  NetworksRouted
<1> SUFFICES ASSUME step \in {"accepted", "created"}, NEW n \in marked
             PROVE  Lookup(BaseIp(n) + 2) = {<<"out", n>>}
  BY DEF NetworksRouted
<1> DEFINE a == BaseIp(n) + 2
           out == <<"out", n>>
           hits(t) == {r \in routes : r.table = t /\ Within(a, r)}
<1>1. n \in NetIndices /\ rules = <<"local", "main", "default">>
  BY DEF RouteInv, DefaultPolicyRules
<1>2. ASSUME NEW r \in routes, Within(a, r)
      PROVE  /\ r.prefix \in Int
             /\ \/ r.kind = "throw" /\ r.table = "local"
                \/ r.prefix =< 1 /\ r.table # "local"
                \/ r.kind = "unicast" /\ r.prefix = LinkPrefix /\ r.dev = n
  <2>1. /\ Aligned(r) /\ marked \subseteq NetIndices
        /\ ClassifyRoute(r) \in {Disjoint} \cup marked
    BY DEF RouteInv
  <2> QED
    BY <1>1, <1>2, <2>1, GuestRoute DEF Aligned, PrefixLengths
<1>3. LinkPrefix \in Int /\ LinkPrefix > 1
  BY DEF LinkPrefix
<1>4. LinkRoute(n) \in hits("main")
  <2>1. LinkRoute(n) \in routes
    BY DEF RouteInv
  <2>2. Within(a, LinkRoute(n))
    <3>1. Size(LinkPrefix) = 4
      BY Sizes
    <3>2. PICK m \in Nat : /\ NetIndices = 1..(m - 1)
                           /\ \A k \in Nat : BaseIp(k) = 20 * m + 4 * k
      BY Layout
    <3>3. n \in Nat
      BY <1>1, <3>2
    <3>4. (20 * m + 4 * n + 2) \div 4 = (20 * m + 4 * n) \div 4
      BY <3>3
    <3> QED
      BY <3>1, <3>2, <3>3, <3>4 DEF Within, LinkRoute, Route
  <2> QED
    BY <2>1, <2>2 DEF LinkRoute, Route
<1>5. /\ Best(a, "main") # {}
      /\ \A r \in Best(a, "main") : r.kind = "unicast" /\ r.dev = n
  <2>1. ASSUME NEW r \in hits("main")
        PROVE  /\ r.prefix \in Int /\ r.prefix =< LinkPrefix
               /\ r.prefix = LinkPrefix => r.kind = "unicast" /\ r.dev = n
    BY <1>2, <1>3
  <2>2. LinkRoute(n).prefix = LinkPrefix
    BY DEF LinkRoute, Route
  <2>3. Best(a, "main") =
          {r \in hits("main") : \A q \in hits("main") : q.prefix =< r.prefix}
    BY DEF Best
  <2> HIDE DEF hits
  <2>4. LinkRoute(n) \in Best(a, "main")
    BY <1>4, <2>1, <2>2, <2>3
  <2>5. ASSUME NEW r \in Best(a, "main")
        PROVE  r.prefix = LinkPrefix /\ r \in hits("main")
    BY <1>3, <1>4, <2>1, <2>2, <2>3
  <2> QED
    BY <2>1, <2>4, <2>5
<1>6. \A r \in Best(a, "local") :
         r.kind = "throw" \/ (r.kind = "unicast" /\ r.dev = n)
  BY <1>2 DEF Best
<1>7. ASSUME NEW r, r.kind = "unicast", r.dev = n
      PROVE  Deliver(r) = out
  BY <1>7 DEF Deliver
<1> DEFINE passes(k) == \/ Best(a, rules[k]) = {}
                        \/ \E r \in Best(a, rules[k]) : r.kind = "throw"
           reached(k) == \A j \in 1..(k - 1) : passes(j)
           ending(k) == {r \in Best(a, rules[k]) : r.kind # "throw"}
<1>8. Lookup(a) =
        (UNION {{Deliver(r) : r \in ending(k)} :
                    k \in {j \in DOMAIN rules : reached(j)}})
        \cup (IF reached(Len(rules) + 1) THEN {<<"nowhere", 0>>} ELSE {})
  BY DEF Lookup
<1>9. /\ DOMAIN rules = 1..3 /\ Len(rules) = 3
      /\ rules[1] = "local" /\ rules[2] = "main"
  BY <1>1
<1>10. ~passes(2) /\ ending(2) # {}
  BY <1>5, <1>9
<1>11. /\ \A r \in ending(1) : Deliver(r) = out
       /\ \A r \in ending(2) : Deliver(r) = out
  BY <1>5, <1>6, <1>7, <1>9
<1>12. ~passes(1) => ending(1) # {}
  BY <1>9
<1> HIDE DEF passes, ending, a, out
<1>13. ~reached(3) /\ ~reached(4) /\ reached(1) /\ (passes(1) => reached(2))
  BY <1>10
<1>14. {j \in DOMAIN rules : reached(j)} = IF passes(1) THEN {1, 2} ELSE {1}
  <2>1. ~passes(1) => ~reached(2)
    OBVIOUS
  <2> HIDE DEF reached
  <2> QED
    BY <1>9, <1>13, <2>1
<1> HIDE DEF reached
<1>15. Lookup(a) = UNION {{Deliver(r) : r \in ending(k)} :
                             k \in IF passes(1) THEN {1, 2} ELSE {1}}
  BY <1>8, <1>9, <1>13, <1>14
<1>16. \A v : v \in Lookup(a) <=>
         \E k \in (IF passes(1) THEN {1, 2} ELSE {1}) :
             \E r \in ending(k) : v = Deliver(r)
  BY <1>15
<1>17. \A v \in Lookup(a) : v = out
  BY <1>11, <1>16
<1>18. out \in Lookup(a)
  BY <1>10, <1>11, <1>12, <1>16
<1>19. Lookup(a) = {out}
  BY <1>17, <1>18
<1> QED
  BY <1>19 DEF a, out

(* A list of three with one more.                                          *)
LEMMA ListInsert ==
    ASSUME NEW S, NEW d \in Seq(S), Len(d) = 3, NEW t \in S, NEW k \in 1..4,
           NEW u, u = InsertAt(d, k, t)
    PROVE  /\ DOMAIN u = 1..4 /\ u[k] = t
           /\ \A j \in 1..3 : u[IF j < k THEN j ELSE j + 1] = d[j]
<1>1. CASE k = 1
  BY <1>1 DEF InsertAt
<1>2. CASE k = 2
  BY <1>2 DEF InsertAt
<1>3. CASE k = 3
  BY <1>3 DEF InsertAt
<1>4. CASE k = 4
  BY <1>4 DEF InsertAt
<1> QED
  BY <1>1, <1>2, <1>3, <1>4

(* A list of three with one less.                                          *)
LEMMA ListRemove ==
    ASSUME NEW S, NEW d \in Seq(S), Len(d) = 3, NEW k \in 1..3,
           NEW u, u = RemoveAt(d, k)
    PROVE  /\ DOMAIN u = 1..2
           /\ \A j \in 1..2 : u[j] = d[IF j < k THEN j ELSE j + 1]
<1>1. CASE k = 1
  BY <1>1 DEF RemoveAt
<1>2. CASE k = 2
  BY <1>2 DEF RemoveAt
<1>3. CASE k = 3
  BY <1>3 DEF RemoveAt
<1> QED
  BY <1>1, <1>2, <1>3

(* validate_policy_rules accepts the default RPDB only.                    *)
LEMMA RuleListsRefused ==
    ASSUME rules \in RuleLists
    PROVE  ~ValidPolicyRules
<1> DEFINE at(t) == {k \in DOMAIN rules : rules[k] = t}
<1>1. PICK d : d = DefaultPolicyRules
  OBVIOUS
<1>2. /\ d \in Seq(Tables) /\ Len(d) = 3 /\ DOMAIN d = 1..3
      /\ d[1] = "local" /\ d[2] = "main" /\ d[3] = "default"
  BY <1>1 DEF DefaultPolicyRules, Tables
<1>3. ASSUME NEW t \in {"local", "main", "default"},
             \/ at(t) = {}
             \/ \E i, j \in at(t) : i # j
      PROVE  ~ValidPolicyRules
  <2>1. t \in ToSet(DefaultPolicyRules)
    BY <1>1, <1>2 DEF ToSet
  <2>2. ~\E k \in DOMAIN rules : \A j \in DOMAIN rules : rules[j] = t <=> j = k
    BY <1>3
  <2> QED
    BY <2>1, <2>2 DEF ValidPolicyRules
<1>4. CASE \E k \in 1..3 : rules = RemoveAt(DefaultPolicyRules, k)
  <2>1. PICK k \in 1..3 : rules = RemoveAt(d, k)
    BY <1>1, <1>4
  <2>2. /\ DOMAIN rules = 1..2
        /\ \A j \in 1..2 : rules[j] = d[IF j < k THEN j ELSE j + 1]
    BY <1>2, <2>1, ListRemove
  <2>3. at(d[k]) = {}
    BY <1>2, <2>2
  <2>4. d[k] \in {"local", "main", "default"}
    BY <1>2
  <2> QED
    BY <1>3, <2>2, <2>3, <2>4
<1>5. CASE \E k \in 1..4, t \in Tables :
             rules = InsertAt(DefaultPolicyRules, k, t)
  <2>1. PICK k \in 1..4, t \in Tables : rules = InsertAt(d, k, t)
    BY <1>1, <1>5
  <2>2. /\ DOMAIN rules = 1..4 /\ rules[k] = t
        /\ \A j \in 1..3 : rules[IF j < k THEN j ELSE j + 1] = d[j]
    BY <1>2, <2>1, ListInsert
  <2>3. CASE t = "other"
    <3>1. ~Contains(DefaultPolicyRules, rules[k])
      BY <1>1, <1>2, <2>2, <2>3 DEF Contains
    <3> QED
      BY <2>2, <3>1 DEF ValidPolicyRules
  <2>4. CASE t # "other"
    <3>1. PICK j \in 1..3 : d[j] = t
      BY <1>2, <2>4 DEF Tables
    <3>2. PICK i : i = IF j < k THEN j ELSE j + 1
      OBVIOUS
    <3>3. i \in 1..4 /\ i # k /\ rules[i] = t
      BY <2>2, <3>1, <3>2
    <3>4. i \in at(t) /\ k \in at(t)
      BY <2>2, <3>3
    <3> QED
      BY <1>3, <2>2, <2>4, <3>3, <3>4 DEF Tables
  <2> QED
    BY <2>3, <2>4
<1> QED
  BY <1>4, <1>5 DEF RuleLists

(* The routes of a clone are aligned.                                      *)
LEMMA OwnAligned ==
    ASSUME Width \in 7..32, NEW n \in Nat, NEW r \in OwnRoutes(n)
    PROVE  Aligned(r)
<1>1. PICK m \in Nat : \A k \in Nat : BaseIp(k) = 20 * m + 4 * k
  BY Layout
<1>2. Size(Width) = 1 /\ Size(LinkPrefix) = 4
  BY Sizes
<1>3. Width \in PrefixLengths /\ LinkPrefix \in PrefixLengths
  BY DEF PrefixLengths, LinkPrefix
<1>4. /\ BaseIp(n) \in Nat /\ HostIp(n) \in Nat
      /\ BaseIp(n) + 3 \in Nat
  BY <1>1 DEF HostIp
<1>5. 5 * m + n \in Nat /\ BaseIp(n) = (5 * m + n) * 4
  BY <1>1
<1>6. CASE r.prefix = LinkPrefix /\ r.network = BaseIp(n)
  BY <1>2, <1>3, <1>5, <1>6 DEF Aligned
<1>7. CASE r.prefix = Width /\ r.network \in Nat
  BY <1>2, <1>3, <1>7 DEF Aligned
<1> QED
  BY <1>4, <1>6, <1>7 DEF OwnRoutes, Route

(* classify_route takes the routes of a clone for what they are.           *)
LEMMA OwnClassified ==
    ASSUME NEW n \in NetIndices, NEW r \in OwnRoutes(n)
    PROVE  ClassifyRoute(r) \in {Disjoint, n}
<1>1. RoomsRouteIndex(r) = n
  BY DEF OwnRoutes, Route, RoomsRouteIndex
<1> QED
  BY <1>1 DEF ClassifyRoute

(* A host before the preflight, with any set of routes in any tables, as   *)
(* long as the networks that have a marker have their link routes.         *)
AnyHost ==
    /\ marked \subseteq NetIndices
    /\ \A r \in routes : Aligned(r)
    /\ \A n \in marked : LinkRoute(n) \in routes
    /\ rules = DefaultPolicyRules \/ rules \in RuleLists
    /\ step = "check"

(* The host of RoutePreflight is one of them.                              *)
LEMMA InitRoutes ==
    ASSUME Width \in 7..32, RouteInit
    PROVE  AnyHost
<1>1. marked \subseteq NetIndices
  <2>1. PICK m \in Nat : m >= 4 /\ NetIndices = 1..(m - 1)
    BY Layout
  <2>2. 1 \in NetIndices /\ 2 \in NetIndices
    BY <2>1
  <2> QED
    BY <2>2 DEF RouteInit
<1>2. PICK own : /\ own = (UNION {OwnRoutes(n) : n \in marked})
                             \cup {HostDefault}
                 /\ \/ \E r \in ForeignRoutes : routes = own \cup {r}
                    \/ routes = own \cup {[HostDefault EXCEPT !.table = "other"]}
  BY DEF RouteInit
<1>3. marked \subseteq Nat
  BY DEF RouteInit
<1>4. ASSUME NEW r, r.prefix = 0, r.network = 0
      PROVE  Aligned(r)
  <2>1. 0 \in PrefixLengths /\ Size(0) \in Nat
    BY Sizes DEF PrefixLengths
  <2>2. 0 = 0 * Size(0)
    BY <2>1
  <2> QED
    BY <1>4, <2>1, <2>2 DEF Aligned
<1>5. \A r \in own : Aligned(r)
  <2>1. Aligned(HostDefault)
    BY <1>4 DEF HostDefault, Route
  <2>2. ASSUME NEW n \in marked, NEW r \in OwnRoutes(n)
        PROVE  Aligned(r)
    BY <1>3, OwnAligned
  <2>3. ASSUME NEW r \in own
        PROVE  r = HostDefault \/ \E n \in marked : r \in OwnRoutes(n)
    BY <1>2
  <2> QED
    BY <2>1, <2>2, <2>3
<1>6. ASSUME NEW r \in ForeignRoutes
      PROVE  Aligned(r)
  <2>1. PICK c \in Cidrs : r.network = c.network /\ r.prefix = c.prefix
    BY DEF ForeignRoutes
  <2>2. PICK p \in PrefixLengths :
          \E w \in CidrsOf(p) : c = [network |-> w, prefix |-> p]
    BY DEF Cidrs
  <2>3. PICK w \in CidrsOf(p) : c = [network |-> w, prefix |-> p]
    BY <2>2
  <2>4. PICK k \in Nat : w = k * Size(p)
    BY DEF CidrsOf
  <2> QED
    BY <2>1, <2>3, <2>4 DEF Aligned
<1>7. Aligned([HostDefault EXCEPT !.table = "other"])
  BY <1>4 DEF HostDefault, Route
<1>8. \A r \in routes : Aligned(r)
  BY <1>2, <1>5, <1>6, <1>7
<1>9. \A n \in marked : LinkRoute(n) \in routes
  <2>1. \A n : LinkRoute(n) \in OwnRoutes(n)
    BY DEF LinkRoute, OwnRoutes
  <2> QED
    BY <1>2, <2>1
<1> QED
  BY <1>1, <1>8, <1>9 DEF RouteInit, AnyHost

(* The preflight establishes what its acceptance means.                    *)
LEMMA CheckKeeps ==
    ASSUME RouteInv, CheckSubnet
    PROVE  RouteInv'
<1>1. UNCHANGED <<rules, routes, marked>>
  BY DEF CheckSubnet
<1>2. ASSUME step' \in {"accepted", "created"}
      PROVE  /\ rules = DefaultPolicyRules
             /\ \A r \in routes : ClassifyRoute(r) \in {Disjoint} \cup marked
  <2>1. SubnetAvailable
    BY <1>2 DEF CheckSubnet
  <2> QED
    BY <2>1, RuleListsRefused DEF SubnetAvailable, RouteInv
<1> QED
  BY <1>1, <1>2 DEF RouteInv

(* Another network replaces none of the link routes.                       *)
LEMMA CreateKeeps ==
    ASSUME Width \in 7..32, RouteInv, NEW n \in NetIndices, CreateNet(n)
    PROVE  RouteInv'
<1>1. /\ step = "accepted" /\ n \notin marked /\ marked' = marked \cup {n}
      /\ UNCHANGED rules
      /\ routes' = OwnRoutes(n) \cup
           {r \in routes : ~(r.table = "main" /\ r.prefix = LinkPrefix
                                              /\ r.network = BaseIp(n))}
  BY DEF CreateNet
<1>2. PICK m \in Nat : /\ NetIndices = 1..(m - 1)
                       /\ \A k \in Nat : BaseIp(k) = 20 * m + 4 * k
  BY Layout
<1>3. n \in Nat
  BY <1>2
<1>4. marked' \subseteq NetIndices
  BY <1>1 DEF RouteInv
<1>5. \A r \in routes' : Aligned(r)
  BY <1>1, <1>3, OwnAligned DEF RouteInv
<1>6. ASSUME NEW k \in marked'
      PROVE  LinkRoute(k) \in routes'
  <2>1. CASE k = n
    BY <1>1, <2>1 DEF LinkRoute, OwnRoutes
  <2>2. CASE k # n
    <3>1. k \in marked /\ k \in Nat /\ LinkRoute(k) \in routes
      BY <1>1, <1>2, <2>2 DEF RouteInv
    <3>2. BaseIp(k) # BaseIp(n)
      BY <1>2, <1>3, <2>2, <3>1
    <3>3. LinkRoute(k).network = BaseIp(k)
      BY DEF LinkRoute, Route
    <3> QED
      BY <1>1, <3>1, <3>2, <3>3
  <2> QED
    BY <2>1, <2>2
<1>7. \A r \in routes' : ClassifyRoute(r) \in {Disjoint} \cup marked'
  BY <1>1, OwnClassified DEF RouteInv
<1>8. rules' = DefaultPolicyRules
  BY <1>1 DEF RouteInv
<1> QED
  BY <1>4, <1>5, <1>6, <1>7, <1>8 DEF RouteInv

(* On a host that the preflight accepted, what is sent to the guest of a   *)
(* clone leaves by the veth of that clone, whatever other routes the host  *)
(* has and in whichever tables (classify_route, validate_policy_rules).    *)
(* A width of 7 is the least at which the supernet has two indices.        *)
THEOREM AnyHostRouted ==
    AnyHost /\ [][RouteNext]_routeVars => []NetworksRouted
<1>0. Width \in 7..32
  BY RouteAssumption
<1>1. AnyHost => RouteInv
  BY DEF AnyHost, RouteInv
<1>2. RouteInv /\ [RouteNext]_routeVars => RouteInv'
  <2> SUFFICES ASSUME RouteInv, [RouteNext]_routeVars
               PROVE  RouteInv'
    OBVIOUS
  <2>1. CASE UNCHANGED routeVars
    BY <2>1 DEF routeVars, RouteInv
  <2> QED
    BY <1>0, <2>1, CheckKeeps, CreateKeeps DEF RouteNext
<1>3. RouteInv => NetworksRouted
  BY <1>0, GuestRouted
<1> QED
  BY <1>1, <1>2, <1>3, PTL

(* The same of the specification that TLC checks, with one foreign route.  *)
THEOREM PreflightSafe == RouteSpec => []NetworksRouted
<1>1. RouteInit => AnyHost
  BY RouteAssumption, InitRoutes
<1>2. AnyHost /\ [][RouteNext]_routeVars => []NetworksRouted
  BY AnyHostRouted
<1> QED
  BY <1>1, <1>2, PTL DEF RouteSpec
=============================================================================
