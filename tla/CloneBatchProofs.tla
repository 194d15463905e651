-------------------------- MODULE CloneBatchProofs --------------------------
(***************************************************************************)
(* Proofs about CloneBatch for any number of members, any bound on the     *)
(* leases and any set of signals.                                          *)
(*                                                                         *)
(* The argument: the phases of the process are a line with few branches,   *)
(* and each phase says where every member may be (MemberInv).  The signal  *)
(* listener is a small machine of its own: once it has taken a signal it   *)
(* never acknowledges a commit, and once it has acknowledged it never      *)
(* takes one (SignalInv).  What the process reports follows from both at   *)
(* the step that ends it and nothing changes it afterwards (OutcomeInv).   *)
(***************************************************************************)
EXTENDS CloneBatch, FiniteSetTheorems, WellFoundedInduction, TLAPS

(* The listener: taken, published and committed exclude each other.        *)
SignalInv ==
    /\ seen # NoSignal <=> listener = "published"
    /\ listener \in {"took", "published"} => sig # NoSignal
    /\ commit = "acked" <=> listener = "committed"
    /\ why = "cancelled" => listener = "published"

(* Where member m is in each phase, and what is on record about it.        *)
MemberInv(m) ==
    /\ phase \in {"source", "prepare"} => member[m] = "none"
    /\ phase = "restore" => member[m] = "alloc"
    /\ phase = "collect" => /\ member[m] \in Working \cup {"held", "gone", "stuck"}
                            /\ member[m] \in {"gone", "stuck"} => m \in failed
    /\ phase \in {"probe", "barrier", "handoff", "commit_failed"} => member[m] = "held"
    /\ phase = "commit_kept" => member[m] = "kept"
    /\ phase \in {"command", "teardown"} => member[m] \in {"held", "gone", "stuck"}
    /\ phase = "commit_ran" => member[m] \in {"gone", "stuck"}
    /\ phase = "reap" => member[m] \in {"kept", "gone", "stuck"}
    /\ phase = "ended" => IF outcome.kind = "kept" THEN member[m] = "kept"
                          ELSE member[m] \in {"gone", "stuck", "leaked"}
    /\ member[m] = "stuck" => m \in failed \cup cleanup
    /\ m \in lease => member[m] \in {"leased", "held", "kept", "stuck"}
    /\ member[m] \in {"leased", "held", "kept"} => m \in lease
    /\ member[m] \in {"held", "kept"} => staged[m] = checked
    /\ probe[m] = "running" => phase = "barrier"
    /\ phase = "barrier" => probe[m] # "none"
    /\ phase \in {"handoff", "commit_kept"} => probe[m] = "ok"
    /\ phase \in {"command", "commit_ran"} =>
         /\ member[m] = "gone" => record[m] # NoCode \/ m \in failed
         /\ member[m] = "stuck" => m \in failed
    /\ record[m] \in {130, 143} => listener = "published"

(* What the process reported.                                              *)
OutcomeInv ==
    /\ outcome.kind = "none" <=> phase # "ended"
    /\ outcome.kind = "kept" =>
         listener = "committed" /\ \A m \in Members : probe[m] = "ok"
    /\ outcome.kind = "ran" =>
         /\ listener = "committed" /\ failed = {}
         /\ \A m \in Members : member[m] = "gone" /\ record[m] \in {0, 1}
         /\ outcome.code = 0 <=> \A m \in Members : record[m] = 0
    /\ outcome.kind = "cancelled" =>
         /\ sig # NoSignal
         /\ outcome.code = sig => \A m \in Members : member[m] # "stuck"

IndInv ==
    /\ TypeOK
    /\ SignalInv
    /\ \A m \in Members : MemberInv(m)
    /\ OutcomeInv

-----------------------------------------------------------------------------
USE BatchAssumption
    DEF Members, Code, NoCode, Trees, NoTree, Working, Custody, NoOutcome, Committing,
        signals, source, fleet

(* The least element of a set of members is one of them.                   *)
LEMMA MinOfMembers ==
    ASSUME NEW S \in SUBSET Members, S # {}
    PROVE  Min(S) \in S
<1>1. S \subseteq Nat
  OBVIOUS
<1>2. PICK x \in S : \A y \in S : ~(<<y, x>> \in OpToRel(<, Nat))
  BY <1>1, WFMin, NatLessThanWellFounded
<1>3. OpToRel(<, Nat) = {ss \in Nat \X Nat : ss[1] < ss[2]}
  BY DEF OpToRel
<1>4. ASSUME NEW y \in S PROVE x =< y
  <2>1. x \in Nat /\ y \in Nat
    BY <1>1
  <2>2. ~(<<y, x>> \in {ss \in Nat \X Nat : ss[1] < ss[2]})
    BY <1>2, <1>3
  <2>3. ~(y < x)
    BY <2>1, <2>2
  <2> QED
    BY <2>1, <2>3
<1> QED
  BY <1>4 DEF Min

(* The lease set is finite, and how its size changes.                      *)
LEMMA LeaseCount ==
    ASSUME NEW S \in SUBSET Members, NEW m \in Members
    PROVE  /\ Cardinality(S) \in Nat
           /\ Cardinality(S \ {m}) \in Nat /\ Cardinality(S \ {m}) <= Cardinality(S)
           /\ Cardinality(S \cup {m}) \in Nat /\ Cardinality(S \cup {m}) <= Cardinality(S) + 1
<1>1. IsFiniteSet(Members)
  BY FS_Interval
<1>2. IsFiniteSet(S) /\ Cardinality(S) \in Nat
  BY <1>1, FS_Subset, FS_CardinalityType
<1>3. /\ IsFiniteSet(S \cup {m})
      /\ Cardinality(S \cup {m}) = IF m \in S THEN Cardinality(S) ELSE Cardinality(S) + 1
  BY <1>2, FS_AddElement
<1>4. /\ IsFiniteSet(S \ {m})
      /\ Cardinality(S \ {m}) = IF m \in S THEN Cardinality(S) - 1 ELSE Cardinality(S)
  BY <1>2, FS_RemoveElement
<1>5. Cardinality(S \cup {m}) \in Nat /\ Cardinality(S \ {m}) \in Nat
  BY <1>3, <1>4, FS_CardinalityType
<1>6. Cardinality(S \ {m}) <= Cardinality(S)
  BY <1>2, <1>4
<1>7. Cardinality(S \cup {m}) <= Cardinality(S) + 1
  BY <1>2, <1>3
<1> QED
  BY <1>2, <1>5, <1>6, <1>7

(* A batch that has not begun satisfies the invariant.                     *)
LEMMA InitInv == Init => IndInv
<1> SUFFICES ASSUME Init PROVE IndInv
  OBVIOUS
<1>1. Cardinality({}) = 0
  BY FS_EmptySet
<1>2. others \in Nat /\ Cardinality(lease) + others <= MaxCloneLeases
  BY <1>1 DEF Init
<1>3. TypeOK
  BY <1>2 DEF Init, TypeOK, ProbeStates
<1>4. SignalInv
  BY DEF Init, SignalInv
<1>5. ASSUME NEW m \in Members PROVE MemberInv(m)
  BY <1>5 DEF Init, MemberInv
<1>6. OutcomeInv
  BY DEF Init, OutcomeInv
<1> QED
  BY <1>3, <1>4, <1>5, <1>6 DEF IndInv

-----------------------------------------------------------------------------
(* The listener and the request to commit: the fleet stands still.         *)
LEMMA SignalStepInv ==
    ASSUME IndInv,
           Deliver \/ TakeSignal \/ Publish \/ Acknowledge \/ CommitSend
    PROVE  IndInv'
<1> USE DEF IndInv
<1>1. UNCHANGED <<mode, phase, member, lease, others, tree, checked, staged, probe, record,
                  failed, cleanup, why, outcome>>
  BY DEF Deliver, TakeSignal, Publish, Acknowledge, CommitSend
<1>2. /\ sig' \in Signals \cup {NoSignal} /\ seen' \in {sig', NoSignal}
      /\ listener' \in {"armed", "took", "published", "committed"}
      /\ commit' \in {"idle", "sent", "acked", "closed", "dropped"}
  BY DEF Deliver, TakeSignal, Publish, Acknowledge, CommitSend, TypeOK
<1>3. /\ sig # NoSignal => sig' = sig
      /\ listener = "published" => listener' = "published"
      /\ listener = "committed" => listener' = "committed"
  BY DEF Deliver, TakeSignal, Publish, Acknowledge, CommitSend
<1>4. TypeOK'
  BY <1>1, <1>2 DEF TypeOK
<1>5. SignalInv'
  BY <1>1 DEF Deliver, TakeSignal, Publish, Acknowledge, CommitSend, TypeOK,
     SignalInv
<1>6. ASSUME NEW m \in Members PROVE MemberInv(m)'
  BY <1>1, <1>3 DEF MemberInv
<1>7. OutcomeInv'
  BY <1>1, <1>3 DEF OutcomeInv
<1> QED
  BY <1>4, <1>5, <1>6, <1>7

(* A step that leaves the phase and the signals alone.                     *)
LEMMA WorkFrame ==
    ASSUME IndInv, phase # "ended", TypeOK', \A m \in Members : MemberInv(m)',
           UNCHANGED <<phase, sig, listener, seen, commit, why, outcome>>
    PROVE  IndInv'
BY DEF IndInv, SignalInv, OutcomeInv

(* The restore of a member.                                                *)
LEMMA RestoreStepInv ==
    ASSUME IndInv, NEW m \in Members,
           \/ OpenForMember(m) \/ StageMember(m) \/ LeaseMember(m) \/ RestoreOk(m)
           \/ RestoreFails(m)
    PROVE  IndInv'
<1> USE DEF IndInv
<1>1. /\ UNCHANGED <<mode, phase, others, tree, checked, probe, record, cleanup, sig,
                     listener, seen, commit, why, outcome>>
      /\ phase = "collect" /\ member[m] \in Working
      /\ \A k \in Members \ {m} : member'[k] = member[k] /\ staged'[k] = staged[k]
      /\ \A k \in Members \ {m} : (k \in lease' <=> k \in lease) /\ (k \in failed' <=> k \in failed)
  BY DEF OpenForMember, StageMember, LeaseMember, RestoreOk, RestoreFails,
     TypeOK
<1>2. /\ member' \in [Members -> Custody] /\ staged' \in [Members -> Trees \cup {NoTree}]
      /\ failed' \subseteq Members
  <2>1. failed' \in {failed, failed \cup {m}} /\ failed \subseteq Members
    BY DEF OpenForMember, StageMember, LeaseMember, RestoreOk, RestoreFails,
       TypeOK
  <2>2. \E c \in Custody : member' = [member EXCEPT ![m] = c]
    BY DEF OpenForMember, StageMember, LeaseMember, RestoreOk, RestoreFails
  <2>3. staged' = staged \/ staged' = [staged EXCEPT ![m] = tree]
    BY DEF OpenForMember, StageMember, LeaseMember, RestoreOk, RestoreFails
  <2> QED
    BY <2>1, <2>2, <2>3 DEF TypeOK
<1>3. lease' \subseteq Members /\ Cardinality(lease') + others <= MaxCloneLeases
  <2>1. lease' = lease \/ lease' = lease \ {m} \/ (lease' = lease \cup {m} /\ LeaseFree)
    BY DEF OpenForMember, StageMember, LeaseMember, RestoreOk, RestoreFails
  <2>2. others \in Nat /\ Cardinality(lease) + others <= MaxCloneLeases /\ lease \in SUBSET Members
    BY DEF TypeOK
  <2>3. CASE lease' = lease
    BY <2>2, <2>3
  <2>4. CASE lease' = lease \ {m}
    BY <2>2, <2>4, LeaseCount
  <2>5. CASE lease' = lease \cup {m} /\ LeaseFree
    BY <2>2, <2>5, LeaseCount DEF LeaseFree
  <2> QED
    BY <2>1, <2>3, <2>4, <2>5
<1>4. TypeOK'
  BY <1>1, <1>2, <1>3 DEF TypeOK
<1>5. ASSUME NEW k \in Members, k # m PROVE MemberInv(k)'
  BY <1>1, <1>5 DEF MemberInv
<1>6. MemberInv(m)'
  <2>1. \/ /\ member'[m] \in {"opened", "spawned"} /\ member[m] \notin {"leased"}
           /\ UNCHANGED <<lease, failed>>
        \/ member'[m] = "leased" /\ m \in lease' /\ UNCHANGED <<failed, staged>>
        \/ /\ member'[m] = "held" /\ member[m] = "leased" /\ staged[m] = checked
           /\ UNCHANGED <<lease, failed, staged>>
        \/ member'[m] = "gone" /\ m \notin lease' /\ m \in failed' /\ UNCHANGED staged
        \/ member'[m] = "stuck" /\ m \in failed' /\ UNCHANGED staged
    BY DEF OpenForMember, StageMember, LeaseMember, RestoreOk, RestoreFails,
       Verified, TypeOK
  <2>2. MemberInv(m)
    OBVIOUS
  <2> QED
    BY <1>1, <2>1, <2>2 DEF MemberInv
<1> QED
  BY <1>1, <1>4, <1>5, <1>6, WorkFrame

(* Probes and commands of a member.                                        *)
LEMMA ProbeEndsInv ==
    ASSUME IndInv, NEW m \in Members, ProbeEnds(m)
    PROVE  IndInv'
<1> USE DEF IndInv
<1>1. /\ UNCHANGED <<mode, phase, member, lease, others, tree, checked, staged, record, failed,
                     cleanup, sig, listener, seen, commit, why, outcome>>
      /\ phase = "barrier" /\ probe' \in [Members -> ProbeStates]
      /\ \A k \in Members : probe'[k] \in {probe[k], "ok", "failed", "lost"}
  BY DEF ProbeEnds, TypeOK, ProbeStates
<1>2. TypeOK'
  BY <1>1 DEF TypeOK
<1>3. ASSUME NEW k \in Members PROVE MemberInv(k)'
  BY <1>1 DEF MemberInv
<1> QED
  BY <1>1, <1>2, <1>3, WorkFrame

(* An SSH child that was killed goes away, in any phase: its probe had     *)
(* failed already.                                                         *)
LEMMA ChildExitsInv ==
    ASSUME IndInv, NEW m \in Members, ChildExits(m)
    PROVE  IndInv'
<1> USE DEF IndInv
<1>1. /\ UNCHANGED <<mode, phase, member, lease, others, tree, checked, staged, record, failed,
                     cleanup, sig, listener, seen, commit, why, outcome>>
      /\ probe[m] = "lost" /\ probe' \in [Members -> ProbeStates]
      /\ \A k \in Members : probe'[k] = probe[k] \/ (probe[k] = "lost" /\ probe'[k] = "failed")
  BY DEF ChildExits, TypeOK, ProbeStates
<1>2. TypeOK'
  BY <1>1 DEF TypeOK
<1>3. SignalInv'
  BY <1>1 DEF SignalInv
<1>4. ASSUME NEW k \in Members PROVE MemberInv(k)'
  BY <1>1 DEF MemberInv
<1>5. OutcomeInv'
  BY <1>1 DEF OutcomeInv
<1> QED
  BY <1>2, <1>3, <1>4, <1>5

(* A command that ends, in a member or by the signal, keeps the invariant. *)
LEMMA CommandStepInv ==
    ASSUME IndInv, NEW m \in Members, CommandEnds(m) \/ CommandCancelled(m)
    PROVE  IndInv'
<1> USE DEF IndInv
<1>1. /\ UNCHANGED <<mode, phase, member, lease, others, tree, checked, staged, probe, cleanup,
                     sig, listener, seen, commit, why, outcome>>
      /\ phase = "command" /\ member[m] = "held" /\ failed' \in {failed, failed \cup {m}}
  BY DEF CommandEnds, CommandCancelled
<1>2. /\ record' \in [Members -> Code \cup {NoCode}]
      /\ \A k \in Members \ {m} : record'[k] = record[k]
      /\ record'[m] \in {130, 143} => seen # NoSignal \/ record'[m] = record[m]
  <2>1. \/ record' = record
        \/ \E c \in {0, 1} : record' = [record EXCEPT ![m] = c]
        \/ seen # NoSignal /\ record' = [record EXCEPT ![m] = seen]
    BY DEF CommandEnds, CommandCancelled
  <2>2. seen # NoSignal => seen \in {130, 143}
    BY DEF TypeOK
  <2>3. record \in [Members -> Code \cup {NoCode}]
    BY DEF TypeOK
  <2>4. CASE record' = record
    BY <2>3, <2>4
  <2>5. CASE \E c \in {0, 1} : record' = [record EXCEPT ![m] = c]
    BY <2>3, <2>5
  <2>6. CASE seen # NoSignal /\ record' = [record EXCEPT ![m] = seen]
    BY <2>2, <2>3, <2>6
  <2> QED
    BY <2>1, <2>4, <2>5, <2>6
<1>3. TypeOK'
  BY <1>1, <1>2 DEF TypeOK
<1>4. ASSUME NEW k \in Members PROVE MemberInv(k)'
  BY <1>1, <1>2 DEF MemberInv, SignalInv
<1> QED
  BY <1>1, <1>3, <1>4, WorkFrame

(* A member is torn down: by its worker, by the teardown or by the reap.   *)
LEMMA MemberEnds ==
    ASSUME IndInv, phase \in {"command", "teardown", "reap"}, NEW m \in Members,
           member[m] \in {"held", "kept"},
           phase = "command" => record[m] # NoCode \/ m \in failed,
           UNCHANGED <<mode, phase, others, tree, checked, staged, probe, record,
                       sig, listener, seen, commit, why, outcome>>,
           failed' \in {failed, failed \cup {m}}, cleanup' \in {cleanup, cleanup \cup {m}},
           \/ member' = [member EXCEPT ![m] = "gone"] /\ lease' = lease \ {m}
           \/ /\ member' = [member EXCEPT ![m] = "stuck"] /\ lease' = lease
              /\ m \in failed' \cup cleanup' /\ (phase = "command" => m \in failed')
    PROVE  IndInv'
<1> USE DEF IndInv
<1>1. lease' \subseteq Members /\ Cardinality(lease') + others <= MaxCloneLeases
  <2>1. others \in Nat /\ Cardinality(lease) + others <= MaxCloneLeases /\ lease \in SUBSET Members
    BY DEF TypeOK
  <2>2. CASE lease' = lease
    BY <2>1, <2>2
  <2>3. CASE lease' = lease \ {m}
    BY <2>1, <2>3, LeaseCount
  <2> QED
    BY <2>2, <2>3
<1>2. /\ member' \in [Members -> Custody]
      /\ \A k \in Members \ {m} : member'[k] = member[k] /\ (k \in lease' <=> k \in lease)
      /\ \/ member'[m] = "gone" /\ m \notin lease'
         \/ /\ member'[m] = "stuck" /\ m \in failed' \cup cleanup'
            /\ phase = "command" => m \in failed'
  BY DEF TypeOK
<1>3. TypeOK'
  BY <1>1, <1>2 DEF TypeOK
<1>4. ASSUME NEW k \in Members PROVE MemberInv(k)'
  BY <1>2 DEF MemberInv
<1> QED
  BY <1>3, <1>4, WorkFrame

(* Tearing a member down, whole or not, keeps the invariant.               *)
LEMMA TeardownStepInv ==
    ASSUME IndInv,
           TeardownOne \/ \E m \in Members : CommandTeardown(m) \/ ReapOne(m)
    PROVE  IndInv'
<1>1. CASE TeardownOne
  <2> DEFINE m == Min(HeldMembers)
  <2>1. HeldMembers \in SUBSET Members /\ HeldMembers # {} /\ phase = "teardown"
    BY <1>1 DEF TeardownOne, HeldMembers
  <2>2. m \in Members /\ member[m] = "held"
    BY <2>1, MinOfMembers DEF HeldMembers
  <2>3. /\ UNCHANGED <<mode, phase, others, tree, checked, staged, probe, record, failed,
                       sig, listener, seen, commit, why, outcome>>
        /\ \/ member' = [member EXCEPT ![m] = "gone"] /\ lease' = lease \ {m} /\ cleanup' = cleanup
           \/ /\ member' = [member EXCEPT ![m] = "stuck"] /\ lease' = lease
              /\ cleanup' = cleanup \cup {m}
    BY <1>1 DEF TeardownOne
  <2> HIDE DEF m
  <2> QED
    BY <2>1, <2>2, <2>3, MemberEnds
<1>2. ASSUME NEW m \in Members, CommandTeardown(m) PROVE IndInv'
  BY <1>2, MemberEnds DEF CommandTeardown
<1>3. ASSUME NEW m \in Members, ReapOne(m) PROVE IndInv'
  BY <1>3, MemberEnds DEF ReapOne
<1> QED
  BY <1>1, <1>2, <1>3

(* What others do to the slot and to the paths.                            *)
LEMMA EnvironmentInv ==
    ASSUME IndInv, OtherLease \/ Rename
    PROVE  IndInv'
<1> USE DEF IndInv
<1>1. /\ UNCHANGED <<mode, phase, member, lease, checked, staged, probe, record, failed,
                     cleanup, sig, listener, seen, commit, why, outcome>>
      /\ phase # "ended" /\ tree' \in Trees
  BY DEF OtherLease, Rename, TypeOK
<1>2. others' \in Nat /\ Cardinality(lease) + others' <= MaxCloneLeases
  <2>1. Cardinality(lease) \in Nat
    <3>1. 1 \in Members /\ lease \in SUBSET Members
      BY DEF TypeOK
    <3> QED
      BY <3>1, LeaseCount
  <2> QED
    BY <2>1 DEF OtherLease, Rename, LeaseFree, TypeOK
<1>3. TypeOK'
  BY <1>1, <1>2 DEF TypeOK
<1>4. ASSUME NEW k \in Members PROVE MemberInv(k)'
  BY <1>1 DEF MemberInv
<1> QED
  BY <1>1, <1>3, <1>4, WorkFrame

-----------------------------------------------------------------------------
(* The process goes on to another phase.                                   *)
LEMMA MoveFrame ==
    ASSUME IndInv, phase # "ended", phase' # "ended",
           phase' \in {"source", "prepare", "restore", "collect", "probe", "barrier",
                       "handoff", "command", "commit_failed", "commit_kept", "commit_ran",
                       "teardown", "reap", "ended"},
           UNCHANGED <<mode, lease, others, tree, staged, record, failed, cleanup,
                       sig, listener, seen, commit, outcome>>,
           why' \in {"none", "cancelled", "failed"},
           why' = "cancelled" => listener = "published",
           member' \in [Members -> Custody], checked' \in Trees \cup {NoTree},
           probe' \in [Members -> ProbeStates],
           \A m \in Members : MemberInv(m)'
    PROVE  IndInv'
<1> USE DEF IndInv
<1>1. TypeOK'
  BY DEF TypeOK
<1>2. SignalInv' /\ OutcomeInv'
  BY DEF SignalInv, OutcomeInv
<1> QED
  BY <1>1, <1>2

(* The process ends and reports.                                           *)
LEMMA EndFrame ==
    ASSUME IndInv, phase # "ended",
           NEW kind \in {"kept", "ran", "failed", "cancelled", "fatal"},
           NEW code \in Code \cup {2}, End(kind, code),
           UNCHANGED <<mode, lease, others, tree, checked, staged, probe, record, failed,
                       cleanup, sig, listener, seen, commit, why>>,
           member' \in [Members -> Custody],
           kind = "kept" => listener = "committed" /\ \A m \in Members : probe[m] = "ok",
           kind = "ran" => /\ listener = "committed" /\ failed = {}
                           /\ \A m \in Members : member'[m] = "gone" /\ record[m] \in {0, 1}
                           /\ code = 0 <=> \A m \in Members : record[m] = 0,
           kind = "cancelled" => /\ listener = "published"
                                 /\ code = sig => \A m \in Members : member'[m] # "stuck",
           \A m \in Members :
              /\ IF kind = "kept" THEN member'[m] = "kept"
                                  ELSE member'[m] \in {"gone", "stuck", "leaked"}
              /\ member'[m] = "stuck" => m \in failed \cup cleanup
              /\ m \in lease => member'[m] \in {"kept", "stuck"}
              /\ member'[m] = "kept" => m \in lease /\ staged[m] = checked
              /\ probe[m] # "running"
    PROVE  IndInv'
<1> USE DEF IndInv
<1>1. outcome' = [kind |-> kind, code |-> code] /\ phase' = "ended"
  BY DEF End
<1>2. outcome'.kind = kind /\ outcome'.code = code
  BY <1>1
<1>3. outcome' \in [kind : {"none", "kept", "ran", "failed", "cancelled", "fatal"},
                    code : Code \cup {2, NoCode}]
  BY <1>1
<1>4. TypeOK'
  BY <1>1, <1>3 DEF TypeOK
<1>5. SignalInv'
  BY DEF SignalInv
<1>6. ASSUME NEW m \in Members PROVE MemberInv(m)'
  BY <1>1, <1>2 DEF MemberInv
<1>7. OutcomeInv'
  <2>1. kind = "cancelled" => sig # NoSignal
    BY DEF SignalInv
  <2> QED
    BY <1>1, <1>2, <2>1 DEF OutcomeInv
<1> QED
  BY <1>4, <1>5, <1>6, <1>7

(* The exit code of a cancellation tells whether a teardown failed.        *)
LEMMA CancelFacts ==
    ASSUME IndInv, listener = "published"
    PROVE  /\ sig \in {130, 143}
           /\ CancelCode \in Code \cup {2}
           /\ CancelCode = sig => \A m \in Members : member[m] # "stuck"
<1>1. sig \in {130, 143}
  BY DEF IndInv, TypeOK, SignalInv
<1>2. CancelCode = sig => failed \cup cleanup = {}
  BY <1>1 DEF CancelCode
<1> QED
  BY <1>1, <1>2 DEF CancelCode, IndInv, MemberInv

(* What a verdict of commit_terminal_handoff rests on.                     *)
LEMMA VerdictFacts ==
    /\ Verdict = "signal" => seen # NoSignal
    /\ Verdict = "committed" => commit = "acked"
<1>1. CASE commit \in {"idle", "closed"} /\ seen # NoSignal
  BY <1>1 DEF Verdict
<1>2. CASE ~(commit \in {"idle", "closed"} /\ seen # NoSignal)
  BY <1>2 DEF Verdict
<1> QED
  BY <1>1, <1>2

(* The teardown begins: nothing works on a member any more.                *)
LEMMA TeardownBegins ==
    ASSUME IndInv, NEW reason \in {"cancelled", "failed"}, Teardown(reason),
           reason = "cancelled" => seen # NoSignal,
           phase \in {"collect", "probe", "barrier", "handoff", "commit_failed"},
           \A m \in Members : member[m] \notin Working /\ probe[m] # "running",
           UNCHANGED <<mode, member, lease, others, tree, checked, staged, probe, record,
                       failed, cleanup, sig, listener, seen, commit>>
    PROVE  IndInv'
<1>1. phase' = "teardown" /\ why' = reason /\ UNCHANGED outcome
  BY DEF Teardown
<1>2. ASSUME NEW m \in Members PROVE MemberInv(m)'
  BY <1>1 DEF IndInv, MemberInv
<1>3. why' = "cancelled" => listener = "published"
  BY <1>1 DEF IndInv, SignalInv
<1>4. /\ member \in [Members -> Custody] /\ checked \in Trees \cup {NoTree}
      /\ probe \in [Members -> ProbeStates]
  BY DEF IndInv, TypeOK
<1> QED
  BY <1>1, <1>2, <1>3, <1>4, MoveFrame

(* Up to the restores.                                                     *)
LEMMA PrepareStepInv ==
    ASSUME IndInv, OpenSource \/ Prepare \/ StartRestores
    PROVE  IndInv'
<1>1. /\ UNCHANGED <<mode, lease, others, tree, staged, probe, record, failed, cleanup,
                     sig, listener, seen, commit, why>>
      /\ phase \in {"source", "prepare", "restore"}
  BY DEF OpenSource, Prepare, StartRestores
<1>2. /\ lease = {} /\ \A m \in Members : /\ member[m] \in {"none", "alloc"}
                                          /\ probe[m] # "running"
      /\ phase # "restore" => \A m \in Members : member[m] = "none"
  <2>1. lease \subseteq Members
    BY DEF IndInv, TypeOK
  <2> QED
    BY <1>1, <2>1 DEF IndInv, MemberInv
<1>3. /\ member \in [Members -> Custody] /\ checked \in Trees \cup {NoTree} /\ tree \in Trees
      /\ probe \in [Members -> ProbeStates]
      /\ why \in {"none", "cancelled", "failed"}
      /\ why = "cancelled" => listener = "published"
      /\ seen # NoSignal => listener = "published"
  BY DEF IndInv, TypeOK, SignalInv
<1>4. CASE seen # NoSignal
  <2>1. sig \in {130, 143} /\ CancelCode \in Code \cup {2}
    BY <1>3, <1>4, CancelFacts
  <2>2. /\ phase' = "ended" /\ UNCHANGED checked
        /\ End("cancelled", sig) \/ End("cancelled", CancelCode)
    BY <1>4 DEF OpenSource, Prepare, StartRestores, End
  <2>3. /\ member' \in [Members -> Custody]
        /\ \A m \in Members : member'[m] \in {"gone", "leaked"}
    BY <1>4 DEF OpenSource, Prepare, StartRestores, DropAllocations
  <2> QED
    BY <1>1, <1>2, <1>3, <1>4, <2>1, <2>2, <2>3, EndFrame
<1>5. CASE seen = NoSignal /\ phase' = "ended"
  <2>1. UNCHANGED checked /\ End("failed", 2) /\ DropAllocations
    BY <1>5 DEF OpenSource, Prepare, StartRestores
  <2>2. /\ member' \in [Members -> Custody]
        /\ \A m \in Members : member'[m] \in {"gone", "leaked"}
    BY <2>1 DEF DropAllocations
  <2> QED
    BY <1>1, <1>2, <1>3, <2>1, <2>2, EndFrame
<1>6. CASE seen = NoSignal /\ phase' # "ended"
  <2>1. /\ UNCHANGED outcome /\ checked' \in {checked, tree}
        /\ \/ phase = "source" /\ phase' = "prepare" /\ UNCHANGED member
           \/ /\ phase = "prepare" /\ phase' = "restore" /\ checked' = checked
              /\ member' = [m \in Members |-> "alloc"]
           \/ /\ phase = "restore" /\ phase' = "collect" /\ checked' = checked
              /\ member' = [m \in Members |-> "restoring"]
    BY <1>6 DEF OpenSource, Prepare, StartRestores, End
  <2>2. member' \in [Members -> Custody] /\ checked' \in Trees \cup {NoTree}
    BY <1>3, <2>1
  <2>3. ASSUME NEW m \in Members PROVE MemberInv(m)'
    BY <1>1, <1>2, <2>1 DEF IndInv, MemberInv
  <2> QED
    BY <1>1, <1>3, <2>1, <2>2, <2>3, MoveFrame
<1> QED
  BY <1>4, <1>5, <1>6

(* The workers are joined.                                                 *)
LEMMA CollectRestoresInv ==
    ASSUME IndInv, CollectRestores
    PROVE  IndInv'
<1>1. /\ UNCHANGED <<mode, member, lease, others, tree, checked, staged, probe, record,
                     failed, cleanup, sig, listener, seen, commit>>
      /\ phase = "collect"
      /\ \A m \in Members : member[m] \notin Working /\ probe[m] # "running"
  BY DEF CollectRestores, IndInv, MemberInv
<1>2. CASE seen # NoSignal \/ failed # {}
  BY <1>1, <1>2, TeardownBegins DEF CollectRestores
<1>3. CASE seen = NoSignal /\ failed = {}
  <2>1. /\ phase' \in {"probe", "command"} /\ UNCHANGED <<why, outcome>>
    BY <1>3 DEF CollectRestores
  <2>2. ASSUME NEW m \in Members PROVE MemberInv(m)'
    BY <1>1, <1>3, <2>1 DEF IndInv, MemberInv
  <2>3. /\ member \in [Members -> Custody] /\ checked \in Trees \cup {NoTree}
        /\ probe \in [Members -> ProbeStates]
        /\ why \in {"none", "cancelled", "failed"}
        /\ why = "cancelled" => listener = "published"
    BY DEF IndInv, TypeOK, SignalInv
  <2> QED
    BY <1>1, <2>1, <2>2, <2>3, MoveFrame
<1> QED
  BY <1>2, <1>3

(* keep: the readiness barrier and the hand-over.                          *)
LEMMA KeepStepInv ==
    ASSUME IndInv, StartProbes \/ BarrierDone \/ CommitFailed \/ Handoff \/ CommitKept
    PROVE  IndInv'
<1>1. /\ UNCHANGED <<mode, lease, others, tree, checked, staged, record, failed, cleanup,
                     sig, listener, seen, commit>>
      /\ phase \in {"probe", "barrier", "commit_failed", "handoff", "commit_kept"}
  BY DEF StartProbes, BarrierDone, CommitFailed, Handoff, CommitKept
<1>2. \A m \in Members : /\ member[m] \in {"held", "kept"}
                         /\ phase # "commit_kept" => member[m] = "held"
                         /\ phase # "barrier" => probe[m] # "running"
  BY <1>1 DEF IndInv, MemberInv
<1>3. /\ member \in [Members -> Custody] /\ checked \in Trees \cup {NoTree}
      /\ probe \in [Members -> ProbeStates]
      /\ why \in {"none", "cancelled", "failed"}
      /\ why = "cancelled" => listener = "published"
      /\ seen # NoSignal => listener = "published"
      /\ commit = "acked" => listener = "committed"
  BY DEF IndInv, TypeOK, SignalInv
<1>4. CASE phase' = "teardown"
  <2>1. /\ UNCHANGED <<member, probe>> /\ phase # "commit_kept"
        /\ \A m \in Members : probe[m] # "running"
        /\ \/ Teardown("cancelled") /\ seen # NoSignal
           \/ Teardown("failed")
    BY <1>2, <1>4, VerdictFacts
       DEF StartProbes, BarrierDone, CommitFailed, Handoff, CommitKept, End
  <2> QED
    BY <1>1, <1>2, <2>1, TeardownBegins
<1>5. CASE StartProbes /\ phase' # "teardown"
  <2>1. /\ phase = "probe" /\ phase' = "barrier" /\ UNCHANGED <<member, why, outcome>>
        /\ probe' = [m \in Members |-> "running"]
    BY <1>5 DEF StartProbes, Teardown
  <2>2. ASSUME NEW m \in Members PROVE MemberInv(m)'
    BY <1>1, <2>1 DEF IndInv, MemberInv
  <2> QED
    BY <1>1, <1>3, <2>1, <2>2, MoveFrame DEF ProbeStates
<1>6. CASE BarrierDone /\ phase' # "teardown"
  <2>1. /\ phase = "barrier" /\ UNCHANGED <<member, probe, why, outcome>>
        /\ \A m \in Members : probe[m] # "running"
        /\ phase' = IF \E m \in Members : probe[m] # "ok"
                    THEN "commit_failed" ELSE "handoff"
    BY <1>6 DEF BarrierDone, Teardown
  <2>2. \A m \in Members : probe[m] \in {"ok", "failed", "lost"}
    BY <1>3, <2>1 DEF IndInv, MemberInv, ProbeStates
  <2>3. ASSUME NEW m \in Members PROVE MemberInv(m)'
    BY <1>1, <2>1, <2>2 DEF IndInv, MemberInv
  <2> QED
    BY <1>1, <1>3, <2>1, <2>3, MoveFrame
<1>7. CASE Handoff /\ phase' # "teardown"
  <2>1. /\ phase = "handoff" /\ phase' = "commit_kept" /\ UNCHANGED <<probe, why, outcome>>
        /\ member' = [m \in Members |-> "kept"]
    BY <1>7 DEF Handoff, Teardown
  <2>2. ASSUME NEW m \in Members PROVE MemberInv(m)'
    BY <1>1, <2>1 DEF IndInv, MemberInv
  <2> QED
    BY <1>1, <1>3, <2>1, <2>2, MoveFrame
<1>8. CASE CommitKept /\ phase' = "ended"
  <2>1. /\ phase = "commit_kept" /\ End("kept", 0) /\ UNCHANGED <<member, probe, why>>
        /\ listener = "committed"
    BY <1>3, <1>8, VerdictFacts DEF CommitKept
  <2>2. \A m \in Members : /\ member[m] = "kept" /\ probe[m] = "ok" /\ m \in lease
                           /\ staged[m] = checked
    BY <2>1 DEF IndInv, MemberInv
  <2> QED
    BY <1>1, <1>3, <2>1, <2>2, EndFrame
<1>9. CASE CommitKept /\ phase' # "ended"
  <2>1. /\ phase = "commit_kept" /\ phase' = "reap" /\ UNCHANGED <<member, probe, outcome>>
        /\ why' \in {"cancelled", "failed"} /\ (why' = "cancelled" => seen # NoSignal)
    BY <1>9, VerdictFacts DEF CommitKept, End
  <2>2. ASSUME NEW m \in Members PROVE MemberInv(m)'
    BY <1>1, <2>1 DEF IndInv, MemberInv
  <2> QED
    BY <1>1, <1>3, <2>1, <2>2, MoveFrame
<1>10. CommitFailed => phase' = "teardown"
  BY DEF CommitFailed, Teardown
<1> QED
  BY <1>4, <1>5, <1>6, <1>7, <1>8, <1>9, <1>10

(* The last member is torn down, and the process reports.                  *)
LEMMA TeardownEndsInv ==
    ASSUME IndInv, TeardownDone \/ ReapDone
    PROVE  IndInv'
<1>1. /\ UNCHANGED <<mode, member, lease, others, tree, checked, staged, probe, record,
                     failed, cleanup, sig, listener, seen, commit, why>>
      /\ phase \in {"teardown", "reap"}
      /\ \/ why = "cancelled" /\ End("cancelled", CancelCode)
         \/ End("failed", 2)
         \/ End("fatal", 2)
  BY DEF TeardownDone, ReapDone
<1>2. \A m \in Members : member[m] \notin {"held", "kept"}
  <2>1. CASE TeardownDone
    BY <2>1 DEF TeardownDone, HeldMembers, IndInv, MemberInv
  <2>2. CASE ReapDone
    BY <2>2 DEF ReapDone, IndInv, MemberInv
  <2> QED
    BY <2>1, <2>2
<1>3. \A m \in Members : /\ member[m] \in {"gone", "stuck"} /\ probe[m] # "running"
                         /\ member[m] = "stuck" => m \in failed \cup cleanup
                         /\ m \in lease => member[m] = "stuck"
  BY <1>1, <1>2 DEF IndInv, MemberInv
<1>4. member \in [Members -> Custody] /\ (why = "cancelled" => listener = "published")
  BY DEF IndInv, TypeOK, SignalInv
<1>5. CASE why = "cancelled" /\ End("cancelled", CancelCode)
  <2>1. /\ CancelCode \in Code \cup {2}
        /\ CancelCode = sig => \A m \in Members : member[m] # "stuck"
    BY <1>4, <1>5, CancelFacts
  <2> HIDE DEF CancelCode
  <2> QED
    BY <1>1, <1>3, <1>4, <1>5, <2>1, EndFrame
<1>6. CASE End("failed", 2) \/ End("fatal", 2)
  BY <1>1, <1>3, <1>4, <1>6, EndFrame
<1> QED
  BY <1>1, <1>5, <1>6

(* command: the workers are joined, and the code is reported.              *)
LEMMA JoinCommandsInv ==
    ASSUME IndInv, JoinCommands
    PROVE  IndInv'
<1>1. /\ UNCHANGED <<mode, member, lease, others, tree, checked, staged, probe, record,
                     failed, cleanup, sig, listener, seen, commit, why, outcome>>
      /\ phase = "command" /\ phase' = "commit_ran"
      /\ \A m \in Members : member[m] \in {"gone", "stuck"}
  BY DEF JoinCommands
<1>2. ASSUME NEW m \in Members PROVE MemberInv(m)'
  BY <1>1 DEF IndInv, MemberInv
<1>3. /\ member \in [Members -> Custody] /\ checked \in Trees \cup {NoTree}
      /\ probe \in [Members -> ProbeStates]
      /\ why \in {"none", "cancelled", "failed"}
      /\ why = "cancelled" => listener = "published"
  BY DEF IndInv, TypeOK, SignalInv
<1> QED
  BY <1>1, <1>2, <1>3, MoveFrame

(* The codes are reported, or the signal that came first.                  *)
LEMMA CommitRanInv ==
    ASSUME IndInv, CommitRan
    PROVE  IndInv'
<1>1. /\ UNCHANGED <<mode, member, lease, others, tree, checked, staged, probe, record,
                     failed, cleanup, sig, listener, seen, commit, why>>
      /\ phase = "commit_ran"
  BY DEF CommitRan
<1>2. \A m \in Members : /\ member[m] \in {"gone", "stuck"} /\ probe[m] # "running"
                         /\ member[m] = "stuck" => m \in failed \cup cleanup
                         /\ m \in lease => member[m] = "stuck"
  BY <1>1 DEF IndInv, MemberInv
<1>3. /\ member \in [Members -> Custody]
      /\ seen # NoSignal => listener = "published"
      /\ commit = "acked" => listener = "committed"
  BY DEF IndInv, TypeOK, SignalInv
<1>4. CASE Verdict = "signal" /\ End("cancelled", CancelCode)
  <2>1. listener = "published"
    BY <1>3, <1>4, VerdictFacts
  <2>2. /\ CancelCode \in Code \cup {2}
        /\ CancelCode = sig => \A m \in Members : member[m] # "stuck"
    BY <2>1, CancelFacts
  <2> HIDE DEF CancelCode
  <2> QED
    BY <1>1, <1>2, <1>3, <1>4, <2>1, <2>2, EndFrame
<1>5. CASE End("fatal", 2) \/ End("failed", 2)
  BY <1>1, <1>2, <1>3, <1>5, EndFrame
<1>6. CASE Verdict = "committed" /\ failed = {} /\ End("ran", BatchCode)
  <2>1. listener = "committed"
    BY <1>3, <1>6, VerdictFacts
  <2>2. \A m \in Members : member[m] = "gone" /\ record[m] # NoCode /\ record[m] \notin {130, 143}
    BY <1>1, <1>2, <1>6, <2>1 DEF IndInv, MemberInv
  <2>3. \A m \in Members : record[m] \in {0, 1}
    BY <2>2 DEF IndInv, TypeOK
  <2>4. BatchCode \in {0, 1} /\ (BatchCode = 0 <=> \A m \in Members : record[m] = 0)
    <3> DEFINE bad == {m \in Members : record[m] # 0}
    <3>1. CASE bad = {}
      BY <3>1 DEF BatchCode
    <3>2. CASE bad # {}
      <4>1. Min(bad) \in bad
        BY <3>2, MinOfMembers
      <4>2. BatchCode = record[Min(bad)]
        BY <3>2 DEF BatchCode
      <4>3. BatchCode \in {0, 1} /\ BatchCode # 0
        BY <2>3, <4>1, <4>2
      <4> QED
        BY <4>1, <4>3
    <3> QED
      BY <3>1, <3>2
  <2> HIDE DEF BatchCode
  <2> QED
    BY <1>1, <1>2, <1>3, <1>6, <2>1, <2>2, <2>3, <2>4, EndFrame
<1> QED
  BY <1>4, <1>5, <1>6 DEF CommitRan

(* Every step of the process, its workers, the listener or the host keeps  *)
(* the invariant.                                                          *)
LEMMA StepInv == IndInv /\ [Next]_vars => IndInv'
<1> SUFFICES ASSUME IndInv, [Next]_vars PROVE IndInv'
  OBVIOUS
<1>1. CASE Deliver \/ SignalStep \/ OtherLease \/ Rename
  BY <1>1, SignalStepInv, EnvironmentInv DEF SignalStep
<1>2. CASE BatchStep
  BY <1>2, SignalStepInv, PrepareStepInv, CollectRestoresInv, KeepStepInv,
     TeardownEndsInv,
     TeardownStepInv, JoinCommandsInv, CommitRanInv DEF BatchStep
<1>3. ASSUME NEW m \in Members, WorkerStep(m) \/ ChildExits(m) \/ CommandEnds(m)
      PROVE  IndInv'
  BY <1>3, RestoreStepInv, ProbeEndsInv, ChildExitsInv, CommandStepInv, TeardownStepInv
     DEF WorkerStep
<1>4. CASE UNCHANGED vars
  BY <1>4 DEF vars, IndInv, TypeOK, SignalInv, MemberInv, OutcomeInv
<1> QED
  BY <1>1, <1>2, <1>3, <1>4 DEF Next

(* The inductive invariant holds in every reachable state.                 *)
THEOREM Invariance == Spec => []IndInv
BY InitInv, StepInv, PTL DEF Spec

(* Every variable keeps its type: this batch and the others never hold     *)
(* more than MAX_CLONE_LEASES leases together.                             *)
THEOREM TypeCorrect == Spec => []TypeOK
<1>1. IndInv => TypeOK
  BY DEF IndInv
<1> QED
  BY <1>1, Invariance, PTL

(* A fleet is handed over, or a code reported, only after the listener     *)
(* acknowledged, and only for the whole batch.                             *)
THEOREM SuccessSafe == Spec => []SuccessIsCommitted
<1>1. IndInv => SuccessIsCommitted
  <2> SUFFICES ASSUME IndInv PROVE SuccessIsCommitted
    OBVIOUS
  <2>1. lease \subseteq Members
    BY DEF IndInv, TypeOK
  <2>2. ASSUME outcome.kind = "kept"
        PROVE  /\ listener = "committed" /\ lease = Members
               /\ \A m \in Members : member[m] = "kept" /\ probe[m] = "ok"
    <3>1. phase = "ended" /\ listener = "committed" /\ \A m \in Members : probe[m] = "ok"
      BY <2>2 DEF IndInv, OutcomeInv
    <3>2. \A m \in Members : member[m] = "kept" /\ m \in lease
      BY <2>2, <3>1 DEF IndInv, MemberInv
    <3>3. Members \subseteq lease
      BY <3>2
    <3>4. lease = Members
      BY <2>1, <3>3, Zenon
    <3> QED
      BY <3>1, <3>2, <3>4
  <2>3. ASSUME outcome.kind = "ran"
        PROVE  /\ listener = "committed" /\ lease = {}
               /\ \A m \in Members : member[m] = "gone" /\ record[m] \in {0, 1}
               /\ outcome.code = 0 <=> \A m \in Members : record[m] = 0
    <3>1. /\ listener = "committed"
          /\ \A m \in Members : member[m] = "gone" /\ record[m] \in {0, 1}
          /\ outcome.code = 0 <=> \A m \in Members : record[m] = 0
      BY <2>3 DEF IndInv, OutcomeInv
    <3>2. lease = {}
      BY <2>1, <3>1 DEF IndInv, MemberInv
    <3> QED
      BY <3>1, <3>2
  <2> QED
    BY <2>2, <2>3 DEF SuccessIsCommitted
<1> QED
  BY <1>1, Invariance, PTL

(* A batch that was not handed over names whatever it leaves behind, and   *)
(* reports the plain signal code only when no teardown failed.             *)
THEOREM ResidueSafe == Spec => []ResidueReported
<1>1. IndInv => ResidueReported
  <2> SUFFICES ASSUME IndInv, outcome.kind \notin {"none", "kept"}
               PROVE  /\ \A m \in Members :
                           /\ member[m] \in {"gone", "stuck", "leaked"}
                           /\ member[m] = "stuck" => m \in failed \cup cleanup
                      /\ lease \subseteq {m \in Members : member[m] = "stuck"}
                      /\ outcome.kind = "cancelled" /\ outcome.code = sig =>
                           \A m \in Members : member[m] # "stuck"
    BY DEF ResidueReported
  <2>1. phase = "ended" /\ lease \subseteq Members
    BY DEF IndInv, OutcomeInv, TypeOK
  <2>2. \A m \in Members : /\ member[m] \in {"gone", "stuck", "leaked"}
                           /\ member[m] = "stuck" => m \in failed \cup cleanup
                           /\ m \in lease => member[m] = "stuck"
    BY <2>1 DEF IndInv, MemberInv
  <2>3. outcome.kind = "cancelled" /\ outcome.code = sig =>
          \A m \in Members : member[m] # "stuck"
    BY DEF IndInv, OutcomeInv
  <2> QED
    BY <2>1, <2>2, <2>3
<1> QED
  BY <1>1, Invariance, PTL

(* No member is torn down under its probe or its restore worker.           *)
THEOREM TeardownSafe == Spec => []TeardownAfterWorkers
<1>1. IndInv => TeardownAfterWorkers
  BY DEF IndInv, MemberInv, TeardownAfterWorkers
<1> QED
  BY <1>1, Invariance, PTL

(* Every clone that runs, runs the source that was checked for the batch.  *)
THEOREM SourceSafe == Spec => []OneSource
<1>1. IndInv => OneSource
  BY DEF IndInv, MemberInv, OneSource
<1> QED
  BY <1>1, Invariance, PTL
=============================================================================
