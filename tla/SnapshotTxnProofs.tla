------------------------- MODULE SnapshotTxnProofs -------------------------
(***************************************************************************)
(* Proofs about SnapshotTxn for any number of bases, rooms and processes.  *)
(*                                                                         *)
(* The argument: the in-memory intent of a process may be stale, so what   *)
(* the driver relies on must be facts that no later step takes back: a     *)
(* reserved slot stays the snapshot's, a dead VM stays dead, a reaped home *)
(* stays gone, a receipt stays in the index (Reached).  Such facts hold of *)
(* an intent wherever it is kept.  Between two effects of a process the    *)
(* base's lock keeps everybody else away from its files (ProcInv).  What   *)
(* is claimed of serial commands only needs in addition that the intent in *)
(* memory is the one on disk (SerialInv).                                  *)
(***************************************************************************)
EXTENDS SnapshotTxn, FiniteSetTheorems, TLAPS

Unlocked == {"idle", "recover", "sweep"}
Driving == {"drive", "copy", "dirs", "tap", "sealing", "attest", "receipt", "advance"}
Aborting == {"abort", "remove", "abort_dirs", "abort_tap", "record", "release"}

(* What an intent i for base b, in memory or on disk, says for good.       *)
Reached(i, b) ==
    /\ i.at = 0 => i = NoIntent
    /\ i.at >= ReservedSlot => Owned(b)
    /\ i.at >= Reaped => home[b] = "none"
    /\ i.at = Published => "record" \in index[b]
    /\ i.aborted => i.at < Collected /\ home[b] = "none"

BaseInv(b) ==
    /\ Reached(intent[b], b)
    /\ home[b] = "none" => vm[b] = "dead"
    /\ home[b] # "none" => slot[b] = Claimed(b) \/ Owned(b)
    /\ HasMeta(b) => Owned(b) /\ host[b] = "pair" /\ home[b] = "none"
    /\ "record" \in index[b] => "stale" \in index[b] \/ seal[b] = "sealed"
    /\ "sealed" \in index[b] => "record" \in index[b]

(* What process p knows of its base while it holds the lock.               *)
ProcInv(p) ==
    LET b == job[p].base
    IN  /\ Reached(job[p].intent, b)
        /\ pc[p] # "idle" => p \in crew
        /\ pc[p] \notin Unlocked => lock[b] = p
        /\ pc[p] \in Driving \cup Aborting \cup {"recover", "judge", "judged"} => At(p) # 0
        /\ pc[p] \in Driving => ~job[p].intent.aborted
        /\ pc[p] \in Aborting => At(p) < Collected
        /\ pc[p] \in Aborting \cup {"dirs", "tap", "gc_dirs", "gc_free"} => vm[b] = "dead"
        /\ pc[p] \in {"tap", "abort_tap", "record", "release", "gc_free"} => home[b] = "none"
        /\ pc[p] \in {"publish", "copy"} => home[b] = "both"
        /\ pc[p] = "copy" => At(p) = Paused
        /\ pc[p] \in {"dirs", "tap"} => At(p) = ReservedSlot
        /\ pc[p] = "remove" => ~HasMeta(b)
        /\ pc[p] \in {"sealing", "attest"} => At(p) = Reaped
        /\ pc[p] = "sealing" => HasMeta(b)
        /\ pc[p] = "receipt" => At(p) \in {Reaped, Published}
        /\ pc[p] \in {"attest", "receipt"} =>
              seal[b] = "sealed" \/ {"record", "stale"} \subseteq index[b]
        /\ pc[p] = "receipt" => "record" \in index[b]
        /\ pc[p] = "advance" =>
              /\ At(p) \in Pending..Reaped
              /\ At(p) = Collected => Owned(b)
              /\ At(p) = ReservedSlot => home[b] = "none"
              /\ At(p) = Reaped => "record" \in index[b]
        /\ pc[p] \in {"gc_dirs", "gc_free"} => intent[b] = NoIntent

(* Serial commands: what the base keeps.                                   *)
SerialBase(b) ==
    /\ seal[b] = "probe" => intent[b].at = Pending
    /\ (intent[b].at \in Pending..Collected /\ ~intent[b].aborted) =>
          slot[b] = Claimed(b) \/ Owned(b)
    /\ intent[b].aborted => ~Owned(b)
    /\ intent[b].at >= Collected => host[b] = "pair"
    /\ Owned(b) => /\ host[b] = "pair"
                   /\ intent[b].at >= Collected
                        \/ (intent[b] = NoIntent /\ home[b] = "none")

(* Serial commands: the intent in memory is the one on disk.               *)
SerialProc(p) ==
    LET b == job[p].base
    IN  /\ pc[p] \in (Driving \cup Aborting \cup {"recover", "judge", "judged"}) \ {"release"}
              => intent[b] = job[p].intent
        /\ pc[p] = "release" => intent[b] = [job[p].intent EXCEPT !.aborted = TRUE]
        /\ pc[p] = "finish" => intent[b].aborted \/ intent[b].at = Published
        /\ pc[p] \in Aborting \cup {"judged", "finish", "advance"} => seal[b] # "probe"
        /\ pc[p] = "remove" => ~Owned(b)
        /\ pc[p] = "advance" /\ At(p) = Paused => host[b] = "pair"
        /\ pc[p] = "sweep" => \A c \in Bases : intent[c] = NoIntent

SerialInv ==
    Serial => /\ \A b \in Bases : SerialBase(b)
              /\ \A p \in crew : SerialProc(p)

IndInv ==
    /\ TypeOK
    /\ \A b \in Bases : BaseInv(b)
    /\ \A p \in Procs : ProcInv(p)
    /\ SerialInv

(* A step of process p on a base that another one holds the lock of, or    *)
(* that is not the one p works on, takes none of its facts back.           *)
Quiet(c) ==
    /\ intent'[c] = intent[c] /\ home'[c] = home[c] /\ host'[c] = host[c]
    /\ seal'[c] = seal[c] /\ index'[c] = index[c]
    /\ vm[c] = "dead" => vm'[c] = "dead"
    /\ Owned(c) => Owned(c)'
    /\ slot[c] = Claimed(c) => slot'[c] = Claimed(c) \/ home[c] = "none"

(* What a step of process p leaves alone.                                  *)
Moves(p) ==
    /\ \A q \in Procs \ {p} : pc'[q] = pc[q] /\ job'[q] = job[q]
    /\ \A c \in Bases \ {job'[p].base} : Quiet(c)
    /\ \A c \in Bases : lock[c] \notin {p, NoProc} => lock'[c] = lock[c] /\ Quiet(c)

-----------------------------------------------------------------------------
(* The boundaries of an intent are numbers.                                *)
USE DEF Pending, TargetsStaged, Paused, Collected, ReservedSlot, Reaped,
   Published,
        At, world, files

(* A claim is no reservation.                                              *)
LEMMA ClaimNotOwned == \A c \in Bases : slot[c] = Claimed(c) => ~Owned(c)
BY DEF Claimed, Owned

(* A step of process p moves only what p holds the lock of.                *)
LEMMA MovesStep ==
    ASSUME TypeOK, \A r \in Procs : ProcInv(r), NEW p \in crew,
           Begin(p) \/ Continue(p) \/ PartialFailure(p) \/ Stop(p)
    PROVE  Moves(p)
<1> DEFINE b0 == job[p].base
<1>1. /\ p \in Procs /\ b0 \in Bases
      /\ pc \in [Procs -> Phases] /\ job \in [Procs -> [base : Bases, intent : Intent]]
      /\ pc[p] \notin Unlocked => lock[b0] = p
  BY DEF TypeOK, ProcInv
<1>2. /\ intent \in [Bases -> Intent] /\ slot \in [Bases -> TxnToken]
      /\ vm \in [Bases -> {"running", "paused", "dead"}]
      /\ home \in [Bases -> {"both", "room", "none"}]
      /\ host \in [Bases -> {"none", "part", "pair"}]
      /\ seal \in [Bases -> {"none", "probe", "meta", "sealed"}]
      /\ index \in [Bases -> SUBSET IndexFiles]
      /\ lock \in [Bases -> Procs \cup {NoProc}]
  BY DEF TypeOK
<1>3. ASSUME NEW b \in Bases, CreateResume(p, b)
      PROVE  Moves(p)
  BY <1>1, <1>2, <1>3 DEF CreateResume, Take, Goto, Moves, Quiet, Owned,
     Unlocked
<1>4. ASSUME NEW b \in Bases, CreateBegin(p, b)
      PROVE  Moves(p)
  BY <1>1, <1>2, <1>4 DEF CreateBegin, Take, Goto, Moves, Quiet, Owned, Unlocked
<1>5. ASSUME NEW b \in Bases, RecoverRead(p, b)
      PROVE  Moves(p)
  BY <1>1, <1>2, <1>5 DEF RecoverRead, Goto, Moves, Quiet, Owned, Unlocked
<1>6. ASSUME NEW b \in Bases, ReapTake(p, b)
      PROVE  Moves(p)
  BY <1>1, <1>2, <1>6 DEF ReapTake, Take, Goto, Moves, Quiet, Owned, Unlocked
<1>7. CASE SweepBegin(p)
  BY <1>1, <1>2, <1>7 DEF SweepBegin, Goto, Moves, Quiet, Owned, Unlocked
<1>8. CASE CreateIntent(p)
  BY <1>1, <1>2, <1>8 DEF CreateIntent, Goto, Moves, Quiet, Owned, Unlocked
<1>9. CASE DriveRefused(p)
  BY <1>1, <1>2, <1>9 DEF DriveRefused, Leave, Goto, PreflightAll, Cleared,
     Restamped, Moves, Quiet, Owned, Unlocked
<1>10. CASE StageTargets(p)
  BY <1>1, <1>2, <1>10 DEF StageTargets, Drives, Goto, PreflightAll, Cleared,
     Restamped, Moves, Quiet, Owned, Unlocked
<1>11. CASE PauseVm(p)
  BY <1>1, <1>2, <1>11 DEF PauseVm, Drives, Goto, Moves, Quiet, Owned, Unlocked
<1>12. CASE CreateFullSnapshot(p)
  BY <1>1, <1>2, <1>12 DEF CreateFullSnapshot, Drives, Goto, Moves, Quiet,
     Owned, Unlocked
<1>13. CASE CollectPair(p)
  BY <1>1, <1>2, <1>13 DEF CollectPair, Goto, Moves, Quiet, Owned, Unlocked
<1>14. CASE ReserveSlot(p)
  BY <1>1, <1>2, <1>14 DEF ReserveSlot, Drives, Goto, Moves, Quiet, Owned,
     Unlocked, Reserved
<1>15. CASE TerminateBase(p)
  BY <1>1, <1>2, <1>15 DEF TerminateBase, Drives, Goto, Moves, Quiet, Owned,
     Unlocked
<1>16. CASE ReapDirs(p)
  BY <1>1, <1>2, <1>16 DEF ReapDirs, Goto, Moves, Quiet, Owned, Unlocked
<1>17. CASE DeleteTap(p)
  BY <1>1, <1>2, <1>17 DEF DeleteTap, Goto, Moves, Quiet, Owned, Unlocked
<1>18. CASE WriteMetadata(p)
  BY <1>1, <1>2, <1>18 DEF WriteMetadata, Drives, Goto, Moves, Quiet, Owned,
     Unlocked
<1>19. CASE SealSnapshot(p)
  BY <1>1, <1>2, <1>19 DEF SealSnapshot, Goto, Restamped, Moves, Quiet, Owned,
     Unlocked
<1>20. CASE PublishReceipt(p)
  BY <1>1, <1>2, <1>20 DEF PublishReceipt, Drives, Goto, Moves, Quiet, Owned,
     Unlocked
<1>21. CASE ReceiptDisagrees(p)
  BY <1>1, <1>2, <1>21 DEF ReceiptDisagrees, Drives, Goto, Leave, Moves, Quiet,
     Owned, Unlocked
<1>22. CASE SealReceipt(p)
  BY <1>1, <1>2, <1>22 DEF SealReceipt, Goto, Moves, Quiet, Owned, Unlocked
<1>23. CASE Advance(p)
  BY <1>1, <1>2, <1>23 DEF Advance, Goto, Moves, Quiet, Owned, Unlocked
<1>24. CASE FinishIndex(p)
  BY <1>1, <1>2, <1>24 DEF FinishIndex, Goto, Leave, Moves, Quiet, Owned,
     Unlocked
<1>25. CASE RecoverLock(p)
  BY <1>1, <1>2, <1>25 DEF RecoverLock, Goto, Take, Leave, Moves, Quiet, Owned,
     Unlocked
<1>26. CASE RecoverPreflight(p)
  BY <1>1, <1>2, <1>26 DEF RecoverPreflight, Goto, Preflight, Cleared,
     Restamped, Moves, Quiet, Owned, Unlocked
<1>27. CASE RecoverJudge(p)
  BY <1>1, <1>2, <1>27 DEF RecoverJudge, Goto, Moves, Quiet, Owned, Unlocked
<1>28. CASE AbortCheck(p)
  BY <1>1, <1>2, <1>28 DEF AbortCheck, Goto, Leave, Moves, Quiet, Owned,
     Unlocked
<1>29. CASE AbortRemove(p)
  BY <1>1, <1>2, <1>29 DEF AbortRemove, Goto, Leave, Moves, Quiet, Owned,
     Unlocked
<1>30. CASE AbortRecord(p)
  BY <1>1, <1>2, <1>30 DEF AbortRecord, Goto, Moves, Quiet, Owned, Unlocked
<1>31. CASE AbortFree(p)
  BY <1>1, <1>2, <1>31, ClaimNotOwned DEF AbortFree, Goto, Leave, Moves, Quiet,
     Owned, Unlocked
<1>32. CASE ReapFree(p)
  BY <1>1, <1>2, <1>32, ClaimNotOwned DEF ReapFree, FreeOwnClaim, Goto, Leave,
     Moves, Quiet, Owned, Unlocked
<1>33. ASSUME NEW b \in Bases, SweepClaim(p, b)
      PROVE  Moves(p)
  BY <1>1, <1>2, <1>33, ClaimNotOwned DEF SweepClaim, FreeOwnClaim, Moves,
     Quiet, Owned, Unlocked
<1>34. CASE SweepEnd(p)
  BY <1>1, <1>2, <1>34 DEF SweepEnd, Goto, Leave, Moves, Quiet, Owned, Unlocked
<1>35. CASE PartialFailure(p)
  BY <1>1, <1>2, <1>35 DEF PartialFailure, Drives, Goto, Leave,
     ProbeInterrupted, Cleared, Restamped, Moves, Quiet, Owned, Unlocked
<1>36. CASE Stop(p)
  BY <1>1, <1>2, <1>36 DEF Stop, Goto, Leave, Moves, Quiet, Owned, Unlocked
<1> QED
  BY <1>3, <1>4, <1>5, <1>6, <1>7, <1>8, <1>9, <1>10, <1>11, <1>12, <1>13,
     <1>14, <1>15, <1>16, <1>17, <1>18, <1>19, <1>20, <1>21, <1>22, <1>23,
     <1>24, <1>25, <1>26, <1>27, <1>28, <1>29, <1>30, <1>31, <1>32, <1>33,
     <1>34, <1>35, <1>36 DEF Begin, Continue, Drive, Recover

-----------------------------------------------------------------------------
(* The tokens a step writes are tokens of the transaction.                 *)
LEMMA TokenTypes ==
    /\ Free \in TxnToken
    /\ \A r \in Rooms : Claimed(r) \in TxnToken
    /\ \A b \in Bases : Reserved(b) \in TxnToken
    /\ \A b \in Bases, x \in Others : Leased(b, x) \in TxnToken
BY DEF TxnToken

(* The one lessee of a reservation gives it back.                          *)
LEMMA ReleaseLease ==
    ASSUME NEW b, NEW x
    PROVE  AfterRelease(Leased(b, x), b, x) = Reserved(b)
BY DEF AfterRelease, Leased

(* A step of a process keeps the types.                                    *)
LEMMA TypeStep ==
    ASSUME TypeOK, NEW p \in crew, crew' = crew,
           \A r \in Procs : ProcInv(r),
           Begin(p) \/ Continue(p) \/ PartialFailure(p) \/ Stop(p)
    PROVE  TypeOK'
<1> DEFINE b0 == job[p].base
<1>1. /\ p \in Procs /\ b0 \in Bases /\ job[p].intent \in Intent
      /\ intent[b0] \in Intent
  BY DEF TypeOK
<1>2. /\ NoIntent \in Intent
      /\ [at |-> Pending, aborted |-> FALSE] \in Intent
  BY DEF NoIntent, Intent
<1>3. \A i \in Intent : [i EXCEPT !.aborted = TRUE] \in Intent
  BY DEF Intent
<1>4. pc[p] = "advance" => [job[p].intent EXCEPT !.at = @ + 1] \in Intent
  <2>1. ASSUME NEW i \in Intent, i.at \in Pending..Reaped
        PROVE  [i EXCEPT !.at = @ + 1] \in Intent
    <3>1. i.at + 1 \in 0..Published
      BY <2>1
    <3> QED
      BY <3>1 DEF Intent
  <2> QED
    BY <1>1, <2>1 DEF ProcInv
<1>5. Leave(p) => /\ pc' \in [Procs -> Phases] /\ lock' \in [Bases -> Procs \cup {NoProc}]
                  /\ job' \in [Procs -> [base : Bases, intent : Intent]]
  BY <1>1, <1>2 DEF Leave, Goto, TypeOK, Phases
<1>6. ASSUME NEW b \in Bases, CreateResume(p, b)
      PROVE  TypeOK'
  BY <1>1, <1>2, <1>3, <1>4, <1>5, <1>6 DEF CreateResume, Take, Goto, TypeOK,
     Phases, IndexFiles
<1>7. ASSUME NEW b \in Bases, CreateBegin(p, b)
      PROVE  TypeOK'
  BY <1>1, <1>2, <1>3, <1>4, <1>5, <1>7 DEF CreateBegin, Take, Goto, TypeOK,
     Phases, IndexFiles
<1>8. ASSUME NEW b \in Bases, RecoverRead(p, b)
      PROVE  TypeOK'
  BY <1>1, <1>2, <1>3, <1>4, <1>5, <1>8 DEF RecoverRead, Goto, TypeOK, Phases,
     IndexFiles
<1>9. ASSUME NEW b \in Bases, ReapTake(p, b)
      PROVE  TypeOK'
  BY <1>1, <1>2, <1>3, <1>4, <1>5, <1>9 DEF ReapTake, Take, Goto, TypeOK,
     Phases, IndexFiles
<1>10. CASE SweepBegin(p)
  BY <1>1, <1>2, <1>3, <1>4, <1>5, <1>10 DEF SweepBegin, Goto, TypeOK, Phases,
     IndexFiles
<1>11. CASE CreateIntent(p)
  <2> DEFINE new == [at |-> Pending, aborted |-> FALSE]
  <2>1. /\ new \in Intent
        /\ intent' = [intent EXCEPT ![b0] = new]
        /\ job' = [job EXCEPT ![p].intent = new] /\ pc' = [pc EXCEPT ![p] = "drive"]
        /\ UNCHANGED <<lock, world, files>>
    BY <1>2, <1>11 DEF CreateIntent, Goto
  <2> HIDE DEF new
  <2> QED
    BY <1>1, <2>1 DEF TypeOK, Phases
<1>12. CASE DriveRefused(p)
  <2>1. seal' \in [Bases -> {"none", "probe", "meta", "sealed"}]
    BY <1>1, <1>12 DEF DriveRefused, PreflightAll, Cleared, TypeOK
  <2>2. index' \in [Bases -> SUBSET IndexFiles]
    BY <1>1, <1>12 DEF DriveRefused, PreflightAll, Restamped, TypeOK, IndexFiles
  <2> QED
    BY <1>5, <2>1, <2>2, <1>12 DEF DriveRefused, TypeOK
<1>13. CASE StageTargets(p)
  BY <1>1, <1>2, <1>3, <1>4, <1>5, <1>13 DEF StageTargets, Drives, Goto,
     PreflightAll, Cleared, Restamped, TypeOK, Phases, IndexFiles
<1>14. CASE PauseVm(p)
  BY <1>1, <1>2, <1>3, <1>4, <1>5, <1>14 DEF PauseVm, Drives, Goto, TypeOK,
     Phases, IndexFiles
<1>15. CASE CreateFullSnapshot(p)
  BY <1>1, <1>2, <1>3, <1>4, <1>5, <1>15 DEF CreateFullSnapshot, Drives, Goto,
     TypeOK, Phases, IndexFiles
<1>16. CASE CollectPair(p)
  BY <1>1, <1>2, <1>3, <1>4, <1>5, <1>16 DEF CollectPair, Goto, TypeOK, Phases,
     IndexFiles
<1>17. CASE ReserveSlot(p)
  BY <1>1, <1>2, <1>3, <1>4, <1>5, <1>17, TokenTypes DEF ReserveSlot, Drives,
     Goto, TypeOK, Phases, IndexFiles
<1>18. CASE TerminateBase(p)
  BY <1>1, <1>2, <1>3, <1>4, <1>5, <1>18 DEF TerminateBase, Drives, Goto,
     TypeOK, Phases, IndexFiles
<1>19. CASE ReapDirs(p)
  BY <1>1, <1>2, <1>3, <1>4, <1>5, <1>19 DEF ReapDirs, Goto, TypeOK, Phases,
     IndexFiles
<1>20. CASE DeleteTap(p)
  BY <1>1, <1>2, <1>3, <1>4, <1>5, <1>20 DEF DeleteTap, Goto, TypeOK, Phases,
     IndexFiles
<1>21. CASE WriteMetadata(p)
  BY <1>1, <1>2, <1>3, <1>4, <1>5, <1>21 DEF WriteMetadata, Drives, Goto,
     TypeOK, Phases, IndexFiles
<1>22. CASE SealSnapshot(p)
  BY <1>1, <1>2, <1>3, <1>4, <1>5, <1>22 DEF SealSnapshot, Goto, Restamped,
     TypeOK, Phases, IndexFiles
<1>23. CASE PublishReceipt(p)
  BY <1>1, <1>2, <1>3, <1>4, <1>5, <1>23 DEF PublishReceipt, Drives, Goto,
     TypeOK, Phases, IndexFiles
<1>24. CASE ReceiptDisagrees(p)
  BY <1>1, <1>2, <1>3, <1>4, <1>5, <1>24 DEF ReceiptDisagrees, Drives, Goto,
     TypeOK, Phases, IndexFiles
<1>25. CASE SealReceipt(p)
  BY <1>1, <1>2, <1>3, <1>4, <1>5, <1>25 DEF SealReceipt, Goto, TypeOK, Phases,
     IndexFiles
<1>26. CASE Advance(p)
  <2> DEFINE next == [job[p].intent EXCEPT !.at = @ + 1]
  <2>1. /\ next \in Intent
        /\ intent' = [intent EXCEPT ![b0] = next] /\ job' = [job EXCEPT ![p].intent = next]
        /\ UNCHANGED <<lock, world, files>>
    BY <1>4, <1>26 DEF Advance
  <2>2. pc' \in [Procs -> Phases]
    BY <1>1, <1>26 DEF Advance, Goto, TypeOK, Phases
  <2> HIDE DEF next
  <2>3. intent' \in [Bases -> Intent] /\ job' \in [Procs -> [base : Bases, intent : Intent]]
    BY <1>1, <2>1 DEF TypeOK
  <2> QED
    BY <2>1, <2>2, <2>3 DEF TypeOK
<1>27. CASE FinishIndex(p)
  BY <1>1, <1>2, <1>3, <1>4, <1>5, <1>27 DEF FinishIndex, Goto, TypeOK, Phases,
     IndexFiles
<1>28. CASE RecoverLock(p)
  <2>1. CASE Take(p, b0, "judge") /\ UNCHANGED job
    BY <1>1, <2>1, <1>28 DEF RecoverLock, Take, Goto, TypeOK, Phases
  <2>2. CASE Leave(p)
    BY <1>5, <2>2, <1>28 DEF RecoverLock, TypeOK
  <2> QED
    BY <2>1, <2>2, <1>28 DEF RecoverLock
<1>29. CASE RecoverPreflight(p)
  BY <1>1, <1>2, <1>3, <1>4, <1>5, <1>29 DEF RecoverPreflight, Goto, Preflight,
     Cleared, Restamped, TypeOK, Phases, IndexFiles
<1>30. CASE RecoverJudge(p)
  BY <1>1, <1>2, <1>3, <1>4, <1>5, <1>30 DEF RecoverJudge, Goto, TypeOK,
     Phases, IndexFiles
<1>31. CASE AbortCheck(p)
  BY <1>1, <1>2, <1>3, <1>4, <1>5, <1>31 DEF AbortCheck, Goto, TypeOK, Phases,
     IndexFiles
<1>32. CASE AbortRemove(p)
  BY <1>1, <1>2, <1>3, <1>4, <1>5, <1>32 DEF AbortRemove, Goto, TypeOK, Phases,
     IndexFiles
<1>33. CASE AbortRecord(p)
  BY <1>1, <1>2, <1>3, <1>4, <1>5, <1>33 DEF AbortRecord, Goto, TypeOK, Phases,
     IndexFiles
<1>34. CASE AbortFree(p)
  <2>1. slot' \in [Bases -> TxnToken]
    BY <1>1, <1>34, TokenTypes DEF AbortFree, TypeOK
  <2>2. CASE Leave(p)
    BY <1>5, <2>1, <2>2, <1>34 DEF AbortFree, TypeOK
  <2>3. CASE Goto(p, "finish") /\ UNCHANGED <<lock, job>>
    BY <1>1, <2>1, <2>3, <1>34 DEF AbortFree, Goto, TypeOK, Phases
  <2> QED
    BY <2>2, <2>3, <1>34 DEF AbortFree
<1>35. CASE ReapFree(p)
  BY <1>1, <1>2, <1>3, <1>4, <1>5, <1>35, TokenTypes DEF ReapFree,
     FreeOwnClaim, Goto, TypeOK, Phases, IndexFiles
<1>36. ASSUME NEW b \in Bases, SweepClaim(p, b)
      PROVE  TypeOK'
  BY <1>1, <1>2, <1>3, <1>4, <1>5, <1>36, TokenTypes DEF SweepClaim,
     FreeOwnClaim, TypeOK, Phases, IndexFiles
<1>37. CASE SweepEnd(p)
  BY <1>1, <1>2, <1>3, <1>4, <1>5, <1>37 DEF SweepEnd, Goto, TypeOK, Phases,
     IndexFiles
<1>38. CASE PartialFailure(p)
  <2>1. vm' \in [Bases -> {"running", "paused", "dead"}]
    BY <1>1, <1>38 DEF PartialFailure, TypeOK
  <2>2. home' \in [Bases -> {"both", "room", "none"}]
    BY <1>1, <1>38 DEF PartialFailure, TypeOK
  <2>3. jail' \in [Bases -> {"absent", "empty", "full"}]
    BY <1>1, <1>38 DEF PartialFailure, TypeOK
  <2>4. host' \in [Bases -> {"none", "part", "pair"}]
    BY <1>1, <1>38 DEF PartialFailure, TypeOK
  <2>5. seal' \in [Bases -> {"none", "probe", "meta", "sealed"}]
    BY <1>1, <1>38 DEF PartialFailure, TypeOK, ProbeInterrupted, Cleared
  <2>6. index' \in [Bases -> SUBSET IndexFiles]
    BY <1>1, <1>38 DEF PartialFailure, TypeOK, ProbeInterrupted, Restamped,
       IndexFiles
  <2> QED
    BY <1>5, <2>1, <2>2, <2>3, <2>4, <2>5, <2>6, <1>38 DEF PartialFailure,
       TypeOK
<1>39. CASE Stop(p)
  BY <1>1, <1>2, <1>3, <1>4, <1>5, <1>39 DEF Stop, Goto, TypeOK, Phases,
     IndexFiles
<1> QED
  BY <1>6, <1>7, <1>8, <1>9, <1>10, <1>11, <1>12, <1>13, <1>14, <1>15, <1>16,
     <1>17, <1>18, <1>19, <1>20, <1>21, <1>22, <1>23, <1>24, <1>25, <1>26,
     <1>27, <1>28, <1>29, <1>30, <1>31, <1>32, <1>33, <1>34, <1>35, <1>36,
     <1>37, <1>38, <1>39 DEF Begin, Continue, Drive, Recover

-----------------------------------------------------------------------------
(* Facts that no step takes back.                                          *)
Kept(c) ==
    /\ Owned(c) => Owned(c)'
    /\ home[c] = "none" => home'[c] = "none"
    /\ "record" \in index[c] => "record" \in index'[c]

(* No step of a process takes them back.                                   *)
LEMMA KeptStep ==
    ASSUME TypeOK, NEW p \in crew,
           Begin(p) \/ Continue(p) \/ PartialFailure(p) \/ Stop(p)
    PROVE  \A c \in Bases : Kept(c)
<1> DEFINE b0 == job[p].base
<1>1. /\ b0 \in Bases /\ slot \in [Bases -> TxnToken]
      /\ home \in [Bases -> {"both", "room", "none"}]
      /\ index \in [Bases -> SUBSET IndexFiles]
  BY DEF TypeOK
<1>2. ASSUME NEW b \in Bases, CreateResume(p, b)
      PROVE  \A c \in Bases : Kept(c)
  BY <1>1, <1>2 DEF CreateResume, Kept, Owned
<1>3. ASSUME NEW b \in Bases, CreateBegin(p, b)
      PROVE  \A c \in Bases : Kept(c)
  BY <1>1, <1>3 DEF CreateBegin, Kept, Owned
<1>4. ASSUME NEW b \in Bases, RecoverRead(p, b)
      PROVE  \A c \in Bases : Kept(c)
  BY <1>1, <1>4 DEF RecoverRead, Kept, Owned
<1>5. ASSUME NEW b \in Bases, ReapTake(p, b)
      PROVE  \A c \in Bases : Kept(c)
  BY <1>1, <1>5 DEF ReapTake, Kept, Owned
<1>6. CASE SweepBegin(p)
  BY <1>1, <1>6 DEF SweepBegin, Kept, Owned
<1>7. CASE CreateIntent(p)
  BY <1>1, <1>7 DEF CreateIntent, Kept, Owned
<1>8. CASE DriveRefused(p)
  BY <1>1, <1>8 DEF DriveRefused, PreflightAll, Restamped, Kept, Owned
<1>9. CASE StageTargets(p)
  BY <1>1, <1>9 DEF StageTargets, Drives, PreflightAll, Restamped, Kept, Owned
<1>10. CASE PauseVm(p)
  BY <1>1, <1>10 DEF PauseVm, Drives, Kept, Owned
<1>11. CASE CreateFullSnapshot(p)
  BY <1>1, <1>11 DEF CreateFullSnapshot, Drives, Kept, Owned
<1>12. CASE CollectPair(p)
  BY <1>1, <1>12 DEF CollectPair, Kept, Owned
<1>13. CASE ReserveSlot(p)
  BY <1>1, <1>13 DEF ReserveSlot, Drives, Kept, Owned, Reserved
<1>14. CASE TerminateBase(p)
  BY <1>1, <1>14 DEF TerminateBase, Drives, Kept, Owned
<1>15. CASE ReapDirs(p)
  BY <1>1, <1>15 DEF ReapDirs, Kept, Owned
<1>16. CASE DeleteTap(p)
  BY <1>1, <1>16 DEF DeleteTap, Kept, Owned
<1>17. CASE WriteMetadata(p)
  BY <1>1, <1>17 DEF WriteMetadata, Drives, Kept, Owned
<1>18. CASE SealSnapshot(p)
  BY <1>1, <1>18 DEF SealSnapshot, Restamped, Kept, Owned
<1>19. CASE PublishReceipt(p)
  BY <1>1, <1>19 DEF PublishReceipt, Drives, Kept, Owned
<1>20. CASE ReceiptDisagrees(p)
  BY <1>1, <1>20 DEF ReceiptDisagrees, Drives, Kept, Owned
<1>21. CASE SealReceipt(p)
  BY <1>1, <1>21 DEF SealReceipt, Kept, Owned
<1>22. CASE Advance(p)
  BY <1>1, <1>22 DEF Advance, Kept, Owned
<1>23. CASE FinishIndex(p)
  BY <1>1, <1>23 DEF FinishIndex, Kept, Owned
<1>24. CASE RecoverLock(p)
  BY <1>1, <1>24 DEF RecoverLock, Kept, Owned
<1>25. CASE RecoverPreflight(p)
  BY <1>1, <1>25 DEF RecoverPreflight, Preflight, Restamped, Kept, Owned
<1>26. CASE RecoverJudge(p)
  BY <1>1, <1>26 DEF RecoverJudge, Kept, Owned
<1>27. CASE AbortCheck(p)
  BY <1>1, <1>27 DEF AbortCheck, Kept, Owned
<1>28. CASE AbortRemove(p)
  BY <1>1, <1>28 DEF AbortRemove, Kept, Owned
<1>29. CASE AbortRecord(p)
  BY <1>1, <1>29 DEF AbortRecord, Kept, Owned
<1>30. CASE AbortFree(p)
  BY <1>1, <1>30, ClaimNotOwned DEF AbortFree, Kept, Owned
<1>31. CASE ReapFree(p)
  BY <1>1, <1>31, ClaimNotOwned DEF ReapFree, FreeOwnClaim, Kept, Owned
<1>32. ASSUME NEW b \in Bases, SweepClaim(p, b)
      PROVE  \A c \in Bases : Kept(c)
  BY <1>1, <1>32, ClaimNotOwned DEF SweepClaim, FreeOwnClaim, Kept, Owned
<1>33. CASE SweepEnd(p)
  BY <1>1, <1>33 DEF SweepEnd, Kept, Owned
<1>34. CASE PartialFailure(p)
  BY <1>1, <1>34 DEF PartialFailure, Drives, ProbeInterrupted, Restamped, Kept,
     Owned
<1>35. CASE Stop(p)
  BY <1>1, <1>35 DEF Stop, Kept, Owned
<1> QED
  BY <1>2, <1>3, <1>4, <1>5, <1>6, <1>7, <1>8, <1>9, <1>10, <1>11, <1>12,
     <1>13, <1>14, <1>15, <1>16, <1>17, <1>18, <1>19, <1>20, <1>21, <1>22,
     <1>23, <1>24, <1>25, <1>26, <1>27, <1>28, <1>29, <1>30, <1>31, <1>32,
     <1>33, <1>34, <1>35 DEF Begin, Continue, Drive, Recover

(* A base that a step leaves alone keeps its invariant.                    *)
LEMMA BaseFrame ==
    ASSUME NEW c \in Bases, BaseInv(c), Quiet(c)
    PROVE  BaseInv(c)'
BY DEF BaseInv, Quiet, Reached, HasMeta

(* Whoever is not moved by a step keeps what it knows.                     *)
LEMMA ProcFrame ==
    ASSUME TypeOK, \A r \in Procs : ProcInv(r), NEW p \in Procs, Moves(p),
           \A c \in Bases : Kept(c), crew' = crew, NEW q \in Procs \ {p}
    PROVE  ProcInv(q)'
<1> DEFINE c == job[q].base
<1>1. /\ q \in Procs /\ c \in Bases /\ ProcInv(q) /\ Kept(c)
      /\ pc'[q] = pc[q] /\ job'[q] = job[q] /\ crew' = crew
  BY DEF TypeOK, Moves
<1>2. Reached(job[q].intent, c)'
  BY <1>1 DEF ProcInv, Reached, Kept
<1>3. CASE pc[q] \in Unlocked
  BY <1>1, <1>2, <1>3 DEF ProcInv, Unlocked, Driving, Aborting
<1>4. CASE pc[q] \notin Unlocked
  <2>1. lock'[c] = q /\ Quiet(c)
    BY <1>1, <1>4, TxnAssumption DEF ProcInv, Moves
  <2> QED
    BY <1>1, <1>2, <1>4, <2>1 DEF ProcInv, Quiet, HasMeta
<1> QED
  BY <1>3, <1>4

(* What the checks of a boundary give the driver.                          *)
LEMMA DriveFacts ==
    ASSUME NEW p \in Procs, DriveOk(p)
    PROVE  LET b == job[p].base
           IN  /\ At(p) \in {Pending, TargetsStaged, Paused} => home[b] = "both"
               /\ At(p) = Pending => "record" \notin index[b]
               /\ At(p) = Collected => slot[b] = Reserved(b) \/ slot[b] = Claimed(b)
               /\ At(p) = Reaped => host[b] = "pair" /\ seal[b] # "probe"
BY DEF DriveOk, ReserveOk

(* A command that returns or dies knows nothing.                           *)
LEMMA LeaveProc ==
    ASSUME TypeOK, NEW p \in Procs, Leave(p)
    PROVE  ProcInv(p)'
<1>1. pc'[p] = "idle" /\ job'[p].intent = NoIntent
  BY DEF TypeOK, Leave, Goto
<1> QED
  BY <1>1 DEF ProcInv, Reached, Unlocked, Driving, Aborting, NoIntent

(* The base that a process works on keeps its invariant.                   *)
LEMMA BaseStep ==
    ASSUME TypeOK, \A c \in Bases : BaseInv(c), \A r \in Procs : ProcInv(r),
           \A c \in Bases : Kept(c), NEW p \in crew, crew' = crew,
           Begin(p) \/ Continue(p) \/ PartialFailure(p) \/ Stop(p)
    PROVE  \A c \in Bases : c = job'[p].base => BaseInv(c)'
<1> DEFINE b0 == job[p].base
<1>1. /\ p \in Procs /\ b0 \in Bases /\ job[p].intent \in Intent
      /\ pc \in [Procs -> Phases] /\ job \in [Procs -> [base : Bases, intent : Intent]]
  BY DEF TypeOK
<1>2. /\ intent \in [Bases -> Intent] /\ slot \in [Bases -> TxnToken]
      /\ vm \in [Bases -> {"running", "paused", "dead"}]
      /\ home \in [Bases -> {"both", "room", "none"}]
      /\ host \in [Bases -> {"none", "part", "pair"}]
      /\ seal \in [Bases -> {"none", "probe", "meta", "sealed"}]
      /\ index \in [Bases -> SUBSET IndexFiles]
      /\ lock \in [Bases -> Procs \cup {NoProc}]
  BY DEF TypeOK
<1>3. BaseInv(b0) /\ ProcInv(p) /\ Kept(b0)
  BY <1>1
<1> SUFFICES ASSUME NEW c \in Bases, c = job'[p].base
             PROVE  BaseInv(c)'
  OBVIOUS
<1>4. BaseInv(c) /\ Kept(c)
  OBVIOUS
<1>5. ASSUME NEW b \in Bases, CreateResume(p, b)
      PROVE  BaseInv(c)'
  BY <1>1, <1>2, <1>3, <1>4, <1>5 DEF CreateResume, Goto, BaseInv, ProcInv,
     Reached, HasMeta, Kept, Unlocked, Driving, Aborting, NoIntent
<1>6. ASSUME NEW b \in Bases, CreateBegin(p, b)
      PROVE  BaseInv(c)'
  BY <1>1, <1>2, <1>3, <1>4, <1>6 DEF CreateBegin, Goto, BaseInv, ProcInv,
     Reached, HasMeta, Kept, Unlocked, Driving, Aborting, NoIntent
<1>7. ASSUME NEW b \in Bases, RecoverRead(p, b)
      PROVE  BaseInv(c)'
  BY <1>1, <1>2, <1>3, <1>4, <1>7 DEF RecoverRead, Goto, BaseInv, ProcInv,
     Reached, HasMeta, Kept, Unlocked, Driving, Aborting, NoIntent
<1>8. ASSUME NEW b \in Bases, ReapTake(p, b)
      PROVE  BaseInv(c)'
  BY <1>1, <1>2, <1>3, <1>4, <1>8 DEF ReapTake, Goto, BaseInv, ProcInv,
     Reached, HasMeta, Kept, Unlocked, Driving, Aborting, NoIntent
<1>9. CASE SweepBegin(p)
  BY <1>1, <1>2, <1>3, <1>4, <1>9 DEF SweepBegin, Goto, BaseInv, ProcInv,
     Reached, HasMeta, Kept, Unlocked, Driving, Aborting, NoIntent
<1>10. CASE CreateIntent(p)
  BY <1>1, <1>2, <1>3, <1>4, <1>10 DEF CreateIntent, Goto, BaseInv, ProcInv,
     Reached, HasMeta, Kept, Unlocked, Driving, Aborting, NoIntent
<1>11. CASE DriveRefused(p)
  BY <1>1, <1>2, <1>3, <1>4, <1>11 DEF DriveRefused, Leave, Goto, PreflightAll,
     Cleared, Restamped, BaseInv, ProcInv, Reached, HasMeta, Kept, Unlocked,
     Driving, Aborting, NoIntent
<1>12. CASE StageTargets(p)
  BY <1>1, <1>2, <1>3, <1>4, <1>12, DriveFacts DEF StageTargets, Drives, Goto,
     PreflightAll, Cleared, Restamped, BaseInv, ProcInv, Reached, HasMeta,
     Kept, Unlocked, Driving, Aborting, NoIntent
<1>13. CASE PauseVm(p)
  BY <1>1, <1>2, <1>3, <1>4, <1>13, DriveFacts DEF PauseVm, Drives, Goto,
     BaseInv, ProcInv, Reached, HasMeta, Kept, Unlocked, Driving, Aborting,
     NoIntent
<1>14. CASE CreateFullSnapshot(p)
  BY <1>1, <1>2, <1>3, <1>4, <1>14, DriveFacts DEF CreateFullSnapshot, Drives,
     Goto, BaseInv, ProcInv, Reached, HasMeta, Kept, Unlocked, Driving,
     Aborting, NoIntent
<1>15. CASE CollectPair(p)
  BY <1>1, <1>2, <1>3, <1>4, <1>15 DEF CollectPair, Goto, BaseInv, ProcInv,
     Reached, HasMeta, Kept, Unlocked, Driving, Aborting, NoIntent
<1>16. CASE ReserveSlot(p)
  BY <1>1, <1>2, <1>3, <1>4, <1>16 DEF ReserveSlot, Drives, Goto, BaseInv,
     ProcInv, Reached, HasMeta, Kept, Unlocked, Driving, Aborting, NoIntent,
     Owned, Reserved
<1>17. CASE TerminateBase(p)
  BY <1>1, <1>2, <1>3, <1>4, <1>17 DEF TerminateBase, Drives, Goto, BaseInv,
     ProcInv, Reached, HasMeta, Kept, Unlocked, Driving, Aborting, NoIntent
<1>18. CASE ReapDirs(p)
  BY <1>1, <1>2, <1>3, <1>4, <1>18 DEF ReapDirs, Goto, BaseInv, ProcInv,
     Reached, HasMeta, Kept, Unlocked, Driving, Aborting, NoIntent
<1>19. CASE DeleteTap(p)
  BY <1>1, <1>2, <1>3, <1>4, <1>19 DEF DeleteTap, Goto, BaseInv, ProcInv,
     Reached, HasMeta, Kept, Unlocked, Driving, Aborting, NoIntent
<1>20. CASE WriteMetadata(p)
  BY <1>1, <1>2, <1>3, <1>4, <1>20, DriveFacts DEF WriteMetadata, Drives, Goto,
     BaseInv, ProcInv, Reached, HasMeta, Kept, Unlocked, Driving, Aborting,
     NoIntent
<1>21. CASE SealSnapshot(p)
  BY <1>1, <1>2, <1>3, <1>4, <1>21 DEF SealSnapshot, Goto, Restamped, BaseInv,
     ProcInv, Reached, HasMeta, Kept, Unlocked, Driving, Aborting, NoIntent
<1>22. CASE PublishReceipt(p)
  BY <1>1, <1>2, <1>3, <1>4, <1>22 DEF PublishReceipt, Drives, Goto, BaseInv,
     ProcInv, Reached, HasMeta, Kept, Unlocked, Driving, Aborting, NoIntent
<1>23. CASE ReceiptDisagrees(p)
  BY <1>1, <1>2, <1>3, <1>4, <1>23 DEF ReceiptDisagrees, Drives, Goto, Leave,
     BaseInv, ProcInv, Reached, HasMeta, Kept, Unlocked, Driving, Aborting,
     NoIntent
<1>24. CASE SealReceipt(p)
  BY <1>1, <1>2, <1>3, <1>4, <1>24 DEF SealReceipt, Goto, BaseInv, ProcInv,
     Reached, HasMeta, Kept, Unlocked, Driving, Aborting, NoIntent
<1>25. CASE Advance(p)
  BY <1>1, <1>2, <1>3, <1>4, <1>25 DEF Advance, Goto, BaseInv, ProcInv,
     Reached, HasMeta, Kept, Unlocked, Driving, Aborting, NoIntent
<1>26. CASE FinishIndex(p)
  BY <1>1, <1>2, <1>3, <1>4, <1>26 DEF FinishIndex, Goto, Leave, BaseInv,
     ProcInv, Reached, HasMeta, Kept, Unlocked, Driving, Aborting, NoIntent
<1>27. CASE RecoverLock(p)
  BY <1>1, <1>2, <1>3, <1>4, <1>27 DEF RecoverLock, Goto, Leave, BaseInv,
     ProcInv, Reached, HasMeta, Kept, Unlocked, Driving, Aborting, NoIntent
<1>28. CASE RecoverPreflight(p)
  BY <1>1, <1>2, <1>3, <1>4, <1>28 DEF RecoverPreflight, Goto, Preflight,
     Cleared, Restamped, BaseInv, ProcInv, Reached, HasMeta, Kept, Unlocked,
     Driving, Aborting, NoIntent
<1>29. CASE RecoverJudge(p)
  BY <1>1, <1>2, <1>3, <1>4, <1>29 DEF RecoverJudge, Goto, BaseInv, ProcInv,
     Reached, HasMeta, Kept, Unlocked, Driving, Aborting, NoIntent, BaseDead
<1>30. CASE AbortCheck(p)
  BY <1>1, <1>2, <1>3, <1>4, <1>30 DEF AbortCheck, Goto, Leave, BaseInv,
     ProcInv, Reached, HasMeta, Kept, Unlocked, Driving, Aborting, NoIntent
<1>31. CASE AbortRemove(p)
  BY <1>1, <1>2, <1>3, <1>4, <1>31 DEF AbortRemove, Goto, Leave, BaseInv,
     ProcInv, Reached, HasMeta, Kept, Unlocked, Driving, Aborting, NoIntent
<1>32. CASE AbortRecord(p)
  BY <1>1, <1>2, <1>3, <1>4, <1>32 DEF AbortRecord, Goto, BaseInv, ProcInv,
     Reached, HasMeta, Kept, Unlocked, Driving, Aborting, NoIntent
<1>33. CASE AbortFree(p)
  BY <1>1, <1>2, <1>3, <1>4, <1>33 DEF AbortFree, Goto, Leave, BaseInv,
     ProcInv, Reached, HasMeta, Kept, Unlocked, Driving, Aborting, NoIntent
<1>34. CASE ReapFree(p)
  BY <1>1, <1>2, <1>3, <1>4, <1>34 DEF ReapFree, FreeOwnClaim, Goto, Leave,
     BaseInv, ProcInv, Reached, HasMeta, Kept, Unlocked, Driving, Aborting,
     NoIntent
<1>35. ASSUME NEW b \in Bases, SweepClaim(p, b)
      PROVE  BaseInv(c)'
  BY <1>1, <1>2, <1>3, <1>4, <1>35 DEF SweepClaim, FreeOwnClaim, BaseInv,
     ProcInv, Reached, HasMeta, Kept, Unlocked, Driving, Aborting, NoIntent
<1>36. CASE SweepEnd(p)
  BY <1>1, <1>2, <1>3, <1>4, <1>36 DEF SweepEnd, Goto, Leave, BaseInv, ProcInv,
     Reached, HasMeta, Kept, Unlocked, Driving, Aborting, NoIntent
<1>37. CASE PartialFailure(p)
  <2>1. /\ c = b0 /\ intent' = intent /\ slot' = slot
        /\ job[p].intent.at = At(p)
    BY <1>1, <1>37 DEF PartialFailure, Leave
  <2>2. CASE /\ Drives(p, TargetsStaged) /\ DriveOk(p)
             /\ UNCHANGED <<home, files>>
    BY <1>1, <1>2, <1>4, <2>1, <2>2, DriveFacts
       DEF BaseInv, Reached, HasMeta, Kept, Drives, files
  <2>3. CASE ProbeInterrupted(b0) /\ UNCHANGED <<vm, home, jail, host>>
    BY <1>1, <1>2, <1>4, <2>1, <2>3
       DEF BaseInv, Reached, HasMeta, Kept, ProbeInterrupted, Restamped
  <2>4. CASE /\ "record" \notin index[b0]
             /\ seal' = Cleared(b0)
             /\ index' = [index EXCEPT ![b0] = @ \cup {"probe"}]
             /\ UNCHANGED <<vm, home, jail, host>>
    BY <1>1, <1>2, <1>4, <2>1, <2>4 DEF BaseInv, Reached, HasMeta, Kept, Cleared
  <2>5. CASE UNCHANGED <<vm, home, host, seal, index>>
    BY <1>1, <1>2, <1>4, <2>1, <2>5 DEF BaseInv, Reached, HasMeta, Kept
  <2>6. CASE /\ pc[p] = "copy"
             /\ host' = [host EXCEPT ![b0] = "part"]
             /\ UNCHANGED <<vm, home, jail, seal, index>>
    BY <1>1, <1>2, <1>3, <1>4, <2>1, <2>6 DEF BaseInv, ProcInv, Reached,
       HasMeta, Kept
  <2>7. CASE /\ "record" \notin index[b0]
             /\ index' = [index EXCEPT ![b0] = @ \cup {"temp"}]
             /\ UNCHANGED <<vm, home, jail, host, seal>>
    BY <1>1, <1>2, <1>4, <2>1, <2>7 DEF BaseInv, Reached, HasMeta, Kept
  <2>8. CASE /\ home[b0] = "both"
             /\ home' = [home EXCEPT ![b0] = "room"]
             /\ UNCHANGED <<vm, host, seal, index>>
    BY <1>1, <1>2, <1>4, <2>1, <2>8 DEF BaseInv, Reached, HasMeta, Kept
  <2> QED
    BY <2>2, <2>3, <2>4, <2>5, <2>6, <2>7, <2>8, <1>37 DEF PartialFailure
<1>38. CASE Stop(p)
  BY <1>1, <1>2, <1>3, <1>4, <1>38 DEF Stop, Goto, Leave, BaseInv, ProcInv,
     Reached, HasMeta, Kept, Unlocked, Driving, Aborting, NoIntent
<1> QED
  BY <1>5, <1>6, <1>7, <1>8, <1>9, <1>10, <1>11, <1>12, <1>13, <1>14, <1>15,
     <1>16, <1>17, <1>18, <1>19, <1>20, <1>21, <1>22, <1>23, <1>24, <1>25,
     <1>26, <1>27, <1>28, <1>29, <1>30, <1>31, <1>32, <1>33, <1>34, <1>35,
     <1>36, <1>37, <1>38 DEF Begin, Continue, Drive, Recover

(* The process that moves keeps what it knows.                             *)
LEMMA ProcStep ==
    ASSUME TypeOK, \A c \in Bases : BaseInv(c), \A r \in Procs : ProcInv(r),
           \A c \in Bases : Kept(c), NEW p \in crew, crew' = crew,
           Begin(p) \/ Continue(p) \/ PartialFailure(p) \/ Stop(p)
    PROVE  ProcInv(p)'
<1> DEFINE b0 == job[p].base
<1>1. /\ p \in Procs /\ b0 \in Bases /\ job[p].intent \in Intent
      /\ pc \in [Procs -> Phases] /\ job \in [Procs -> [base : Bases, intent : Intent]]
  BY DEF TypeOK
<1>2. /\ intent \in [Bases -> Intent] /\ slot \in [Bases -> TxnToken]
      /\ vm \in [Bases -> {"running", "paused", "dead"}]
      /\ home \in [Bases -> {"both", "room", "none"}]
      /\ host \in [Bases -> {"none", "part", "pair"}]
      /\ seal \in [Bases -> {"none", "probe", "meta", "sealed"}]
      /\ index \in [Bases -> SUBSET IndexFiles]
      /\ lock \in [Bases -> Procs \cup {NoProc}]
  BY DEF TypeOK
<1>3. BaseInv(b0) /\ ProcInv(p) /\ Kept(b0)
  BY <1>1
<1>4. ASSUME NEW b \in Bases, CreateResume(p, b)
      PROVE  ProcInv(p)'
  BY <1>1, <1>2, <1>3, <1>4 DEF CreateResume, Take, Goto, BaseInv, ProcInv,
     Reached, HasMeta, Kept, Unlocked, Driving, Aborting, NoIntent
<1>5. ASSUME NEW b \in Bases, CreateBegin(p, b)
      PROVE  ProcInv(p)'
  BY <1>1, <1>2, <1>3, <1>5 DEF CreateBegin, Take, Goto, BaseInv, ProcInv,
     Reached, HasMeta, Kept, Unlocked, Driving, Aborting, NoIntent
<1>6. ASSUME NEW b \in Bases, RecoverRead(p, b)
      PROVE  ProcInv(p)'
  BY <1>1, <1>2, <1>3, <1>6 DEF RecoverRead, Goto, BaseInv, ProcInv, Reached,
     HasMeta, Kept, Unlocked, Driving, Aborting, NoIntent
<1>7. ASSUME NEW b \in Bases, ReapTake(p, b)
      PROVE  ProcInv(p)'
  BY <1>1, <1>2, <1>3, <1>7 DEF ReapTake, Take, Goto, BaseInv, ProcInv,
     Reached, HasMeta, Kept, Unlocked, Driving, Aborting, NoIntent
<1>8. CASE SweepBegin(p)
  BY <1>1, <1>2, <1>3, <1>8 DEF SweepBegin, Goto, BaseInv, ProcInv, Reached,
     HasMeta, Kept, Unlocked, Driving, Aborting, NoIntent
<1>9. CASE CreateIntent(p)
  BY <1>1, <1>2, <1>3, <1>9 DEF CreateIntent, Goto, BaseInv, ProcInv, Reached,
     HasMeta, Kept, Unlocked, Driving, Aborting, NoIntent
<1>10. CASE DriveRefused(p)
  BY <1>1, <1>2, <1>3, <1>10 DEF DriveRefused, Leave, Goto, PreflightAll,
     Cleared, Restamped, BaseInv, ProcInv, Reached, HasMeta, Kept, Unlocked,
     Driving, Aborting, NoIntent
<1>11. CASE StageTargets(p)
  BY <1>1, <1>2, <1>3, <1>11, DriveFacts DEF StageTargets, Drives, Goto,
     PreflightAll, Cleared, Restamped, BaseInv, ProcInv, Reached, HasMeta,
     Kept, Unlocked, Driving, Aborting, NoIntent
<1>12. CASE PauseVm(p)
  BY <1>1, <1>2, <1>3, <1>12, DriveFacts DEF PauseVm, Drives, Goto, BaseInv,
     ProcInv, Reached, HasMeta, Kept, Unlocked, Driving, Aborting, NoIntent
<1>13. CASE CreateFullSnapshot(p)
  BY <1>1, <1>2, <1>3, <1>13, DriveFacts DEF CreateFullSnapshot, Drives, Goto,
     BaseInv, ProcInv, Reached, HasMeta, Kept, Unlocked, Driving, Aborting,
     NoIntent
<1>14. CASE CollectPair(p)
  BY <1>1, <1>2, <1>3, <1>14 DEF CollectPair, Goto, BaseInv, ProcInv, Reached,
     HasMeta, Kept, Unlocked, Driving, Aborting, NoIntent
<1>15. CASE ReserveSlot(p)
  BY <1>1, <1>2, <1>3, <1>15 DEF ReserveSlot, Drives, Goto, BaseInv, ProcInv,
     Reached, HasMeta, Kept, Unlocked, Driving, Aborting, NoIntent, Owned,
     Reserved
<1>16. CASE TerminateBase(p)
  BY <1>1, <1>2, <1>3, <1>16 DEF TerminateBase, Drives, Goto, BaseInv, ProcInv,
     Reached, HasMeta, Kept, Unlocked, Driving, Aborting, NoIntent
<1>17. CASE ReapDirs(p)
  BY <1>1, <1>2, <1>3, <1>17 DEF ReapDirs, Goto, BaseInv, ProcInv, Reached,
     HasMeta, Kept, Unlocked, Driving, Aborting, NoIntent
<1>18. CASE DeleteTap(p)
  BY <1>1, <1>2, <1>3, <1>18 DEF DeleteTap, Goto, BaseInv, ProcInv, Reached,
     HasMeta, Kept, Unlocked, Driving, Aborting, NoIntent
<1>19. CASE WriteMetadata(p)
  BY <1>1, <1>2, <1>3, <1>19, DriveFacts DEF WriteMetadata, Drives, Goto,
     BaseInv, ProcInv, Reached, HasMeta, Kept, Unlocked, Driving, Aborting,
     NoIntent
<1>20. CASE SealSnapshot(p)
  BY <1>1, <1>2, <1>3, <1>20 DEF SealSnapshot, Goto, Restamped, BaseInv,
     ProcInv, Reached, HasMeta, Kept, Unlocked, Driving, Aborting, NoIntent
<1>21. CASE PublishReceipt(p)
  BY <1>1, <1>2, <1>3, <1>21 DEF PublishReceipt, Drives, Goto, BaseInv,
     ProcInv, Reached, HasMeta, Kept, Unlocked, Driving, Aborting, NoIntent
<1>22. CASE ReceiptDisagrees(p)
  BY <1>1, <1>2, <1>3, <1>22 DEF ReceiptDisagrees, Drives, Goto, Leave,
     BaseInv, ProcInv, Reached, HasMeta, Kept, Unlocked, Driving, Aborting,
     NoIntent
<1>23. CASE SealReceipt(p)
  BY <1>1, <1>2, <1>3, <1>23 DEF SealReceipt, Goto, BaseInv, ProcInv, Reached,
     HasMeta, Kept, Unlocked, Driving, Aborting, NoIntent
<1>24. CASE Advance(p)
  BY <1>1, <1>2, <1>3, <1>24 DEF Advance, Goto, BaseInv, ProcInv, Reached,
     HasMeta, Kept, Unlocked, Driving, Aborting, NoIntent
<1>25. CASE FinishIndex(p)
  BY <1>1, <1>2, <1>3, <1>25 DEF FinishIndex, Goto, Leave, BaseInv, ProcInv,
     Reached, HasMeta, Kept, Unlocked, Driving, Aborting, NoIntent
<1>26. CASE RecoverLock(p)
  <2>1. CASE Leave(p)
    BY <1>1, <2>1, LeaveProc
  <2>2. CASE Take(p, b0, "judge") /\ UNCHANGED job
    BY <1>1, <1>2, <1>3, <2>2, <1>26 DEF RecoverLock, Goto, Take, BaseInv,
       ProcInv, Reached, HasMeta, Kept, Unlocked, Driving, Aborting, NoIntent
  <2> QED
    BY <2>1, <2>2, <1>26 DEF RecoverLock
<1>27. CASE RecoverPreflight(p)
  BY <1>1, <1>2, <1>3, <1>27 DEF RecoverPreflight, Goto, Preflight, Cleared,
     Restamped, BaseInv, ProcInv, Reached, HasMeta, Kept, Unlocked, Driving,
     Aborting, NoIntent
<1>28. CASE RecoverJudge(p)
  BY <1>1, <1>2, <1>3, <1>28 DEF RecoverJudge, Goto, BaseInv, ProcInv, Reached,
     HasMeta, Kept, Unlocked, Driving, Aborting, NoIntent, BaseDead
<1>29. CASE AbortCheck(p)
  <2>1. CASE Leave(p)
    BY <1>1, <2>1, LeaveProc
  <2>2. CASE ~HasMeta(b0) /\ Goto(p, "remove") /\ UNCHANGED <<lock, job>>
    BY <1>1, <1>2, <1>3, <2>2, <1>29 DEF AbortCheck, Goto, Take, BaseInv,
       ProcInv, Reached, HasMeta, Kept, Unlocked, Driving, Aborting, NoIntent
  <2> QED
    BY <2>1, <2>2, <1>29 DEF AbortCheck
<1>30. CASE AbortRemove(p)
  <2>1. CASE Leave(p)
    BY <1>1, <2>1, LeaveProc
  <2>2. CASE home[b0] = "both" /\ Goto(p, "abort_dirs") /\ UNCHANGED <<lock, job>>
    BY <1>1, <1>2, <1>3, <2>2, <1>30 DEF AbortRemove, Goto, Take, BaseInv,
       ProcInv, Reached, HasMeta, Kept, Unlocked, Driving, Aborting, NoIntent
  <2> QED
    BY <2>1, <2>2, <1>30 DEF AbortRemove
<1>31. CASE AbortRecord(p)
  BY <1>1, <1>2, <1>3, <1>31 DEF AbortRecord, Goto, BaseInv, ProcInv, Reached,
     HasMeta, Kept, Unlocked, Driving, Aborting, NoIntent
<1>32. CASE AbortFree(p)
  <2>1. CASE Leave(p)
    BY <1>1, <2>1, LeaveProc
  <2>2. CASE Goto(p, "finish") /\ UNCHANGED <<lock, job>>
    BY <1>1, <1>2, <1>3, <2>2, <1>32 DEF AbortFree, Goto, Take, BaseInv,
       ProcInv, Reached, HasMeta, Kept, Unlocked, Driving, Aborting, NoIntent
  <2> QED
    BY <2>1, <2>2, <1>32 DEF AbortFree
<1>33. CASE ReapFree(p)
  BY <1>1, <1>2, <1>3, <1>33 DEF ReapFree, FreeOwnClaim, Goto, Leave, BaseInv,
     ProcInv, Reached, HasMeta, Kept, Unlocked, Driving, Aborting, NoIntent
<1>34. ASSUME NEW b \in Bases, SweepClaim(p, b)
      PROVE  ProcInv(p)'
  BY <1>1, <1>2, <1>3, <1>34 DEF SweepClaim, FreeOwnClaim, BaseInv, ProcInv,
     Reached, HasMeta, Kept, Unlocked, Driving, Aborting, NoIntent
<1>35. CASE SweepEnd(p)
  BY <1>1, <1>2, <1>3, <1>35 DEF SweepEnd, Goto, Leave, BaseInv, ProcInv,
     Reached, HasMeta, Kept, Unlocked, Driving, Aborting, NoIntent
<1>36. CASE PartialFailure(p)
  BY <1>1, <1>2, <1>3, <1>36, SMTT(30) DEF PartialFailure, Drives, Goto, Leave,
     ProbeInterrupted, Cleared, Restamped, BaseInv, ProcInv, Reached, HasMeta,
     Kept, Unlocked, Driving, Aborting, NoIntent
<1>37. CASE Stop(p)
  BY <1>1, <1>2, <1>3, <1>37 DEF Stop, Goto, Leave, BaseInv, ProcInv, Reached,
     HasMeta, Kept, Unlocked, Driving, Aborting, NoIntent
<1> QED
  BY <1>4, <1>5, <1>6, <1>7, <1>8, <1>9, <1>10, <1>11, <1>12, <1>13, <1>14,
     <1>15, <1>16, <1>17, <1>18, <1>19, <1>20, <1>21, <1>22, <1>23, <1>24,
     <1>25, <1>26, <1>27, <1>28, <1>29, <1>30, <1>31, <1>32, <1>33, <1>34,
     <1>35, <1>36, <1>37 DEF Begin, Continue, Drive, Recover

-----------------------------------------------------------------------------
(* Serial commands.                                                        *)

(* A step of the one command keeps what is claimed of the bases.           *)
LEMMA SerialBaseStep ==
    ASSUME TypeOK, \A c \in Bases : BaseInv(c), \A r \in Procs : ProcInv(r),
           \A c \in Bases : SerialBase(c), NEW p \in crew, SerialProc(p),
           Begin(p) \/ Continue(p) \/ PartialFailure(p) \/ Stop(p)
    PROVE  \A c \in Bases : SerialBase(c)'
<1> DEFINE b0 == job[p].base
<1>1. /\ p \in Procs /\ b0 \in Bases /\ job[p].intent \in Intent
      /\ pc \in [Procs -> Phases] /\ job \in [Procs -> [base : Bases, intent : Intent]]
  BY DEF TypeOK
<1>2. /\ intent \in [Bases -> Intent] /\ slot \in [Bases -> TxnToken]
      /\ vm \in [Bases -> {"running", "paused", "dead"}]
      /\ home \in [Bases -> {"both", "room", "none"}]
      /\ host \in [Bases -> {"none", "part", "pair"}]
      /\ seal \in [Bases -> {"none", "probe", "meta", "sealed"}]
      /\ index \in [Bases -> SUBSET IndexFiles]
      /\ lock \in [Bases -> Procs \cup {NoProc}]
  BY DEF TypeOK
<1>3. BaseInv(b0) /\ SerialBase(b0) /\ ProcInv(p) /\ SerialProc(p)
  BY <1>1
<1> SUFFICES ASSUME NEW c \in Bases
             PROVE  SerialBase(c)'
  OBVIOUS
<1>4. BaseInv(c) /\ SerialBase(c)
  OBVIOUS
<1>5. ASSUME NEW b \in Bases, CreateResume(p, b)
      PROVE  SerialBase(c)'
  BY <1>1, <1>2, <1>3, <1>4, <1>5 DEF CreateResume, BaseInv, SerialBase,
     ProcInv, SerialProc, Reached, HasMeta, Owned, Unlocked, Driving, Aborting,
     NoIntent
<1>6. ASSUME NEW b \in Bases, CreateBegin(p, b)
      PROVE  SerialBase(c)'
  BY <1>1, <1>2, <1>3, <1>4, <1>6 DEF CreateBegin, BaseInv, SerialBase,
     ProcInv, SerialProc, Reached, HasMeta, Owned, Unlocked, Driving, Aborting,
     NoIntent
<1>7. ASSUME NEW b \in Bases, RecoverRead(p, b)
      PROVE  SerialBase(c)'
  BY <1>1, <1>2, <1>3, <1>4, <1>7 DEF RecoverRead, BaseInv, SerialBase,
     ProcInv, SerialProc, Reached, HasMeta, Owned, Unlocked, Driving, Aborting,
     NoIntent
<1>8. ASSUME NEW b \in Bases, ReapTake(p, b)
      PROVE  SerialBase(c)'
  BY <1>1, <1>2, <1>3, <1>4, <1>8 DEF ReapTake, BaseInv, SerialBase, ProcInv,
     SerialProc, Reached, HasMeta, Owned, Unlocked, Driving, Aborting, NoIntent
<1>9. CASE SweepBegin(p)
  BY <1>1, <1>2, <1>3, <1>4, <1>9 DEF SweepBegin, BaseInv, SerialBase, ProcInv,
     SerialProc, Reached, HasMeta, Owned, Unlocked, Driving, Aborting, NoIntent
<1>10. CASE CreateIntent(p)
  <2>1. CASE c # b0
    BY <1>1, <1>2, <1>4, <2>1, <1>10 DEF CreateIntent, SerialBase, Owned
  <2>2. CASE c = b0
    <3>1. /\ intent'[c] = [at |-> Pending, aborted |-> FALSE]
          /\ UNCHANGED <<slot, host, home, seal>>
      BY <1>1, <1>2, <2>2, <1>10 DEF CreateIntent
    <3>2. home[c] = "both" /\ intent[c] = NoIntent
      BY <1>3, <2>2, <1>10 DEF CreateIntent, ProcInv
    <3>3. ~Owned(c) /\ slot[c] = Claimed(c)
      BY <1>4, <3>2 DEF SerialBase, BaseInv, NoIntent
    <3>4. intent'[c].at = Pending /\ intent'[c].aborted = FALSE
      BY <3>1
    <3> QED
      BY <3>1, <3>3, <3>4 DEF SerialBase, Owned
  <2> QED
    BY <2>1, <2>2
<1>11. CASE DriveRefused(p)
  BY <1>1, <1>2, <1>3, <1>4, <1>11 DEF DriveRefused, Leave, PreflightAll,
     Cleared, Restamped, BaseInv, SerialBase, ProcInv, SerialProc, Reached,
     HasMeta, Owned, Unlocked, Driving, Aborting, NoIntent
<1>12. CASE StageTargets(p)
  BY <1>1, <1>2, <1>3, <1>4, <1>12, DriveFacts DEF StageTargets, Drives,
     PreflightAll, Cleared, Restamped, BaseInv, SerialBase, ProcInv,
     SerialProc, Reached, HasMeta, Owned, Unlocked, Driving, Aborting, NoIntent
<1>13. CASE PauseVm(p)
  BY <1>1, <1>2, <1>3, <1>4, <1>13 DEF PauseVm, Drives, BaseInv, SerialBase,
     ProcInv, SerialProc, Reached, HasMeta, Owned, Unlocked, Driving, Aborting,
     NoIntent
<1>14. CASE CreateFullSnapshot(p)
  BY <1>1, <1>2, <1>3, <1>4, <1>14 DEF CreateFullSnapshot, Drives, BaseInv,
     SerialBase, ProcInv, SerialProc, Reached, HasMeta, Owned, Unlocked,
     Driving, Aborting, NoIntent
<1>15. CASE CollectPair(p)
  BY <1>1, <1>2, <1>3, <1>4, <1>15 DEF CollectPair, BaseInv, SerialBase,
     ProcInv, SerialProc, Reached, HasMeta, Owned, Unlocked, Driving, Aborting,
     NoIntent
<1>16. CASE ReserveSlot(p)
  BY <1>1, <1>2, <1>3, <1>4, <1>16, DriveFacts DEF ReserveSlot, Drives,
     BaseInv, SerialBase, ProcInv, SerialProc, Reached, HasMeta, Owned,
     Unlocked, Driving, Aborting, NoIntent, Reserved
<1>17. CASE TerminateBase(p)
  BY <1>1, <1>2, <1>3, <1>4, <1>17 DEF TerminateBase, Drives, BaseInv,
     SerialBase, ProcInv, SerialProc, Reached, HasMeta, Owned, Unlocked,
     Driving, Aborting, NoIntent
<1>18. CASE ReapDirs(p)
  BY <1>1, <1>2, <1>3, <1>4, <1>18 DEF ReapDirs, BaseInv, SerialBase, ProcInv,
     SerialProc, Reached, HasMeta, Owned, Unlocked, Driving, Aborting, NoIntent
<1>19. CASE DeleteTap(p)
  BY <1>1, <1>2, <1>3, <1>4, <1>19 DEF DeleteTap, BaseInv, SerialBase, ProcInv,
     SerialProc, Reached, HasMeta, Owned, Unlocked, Driving, Aborting, NoIntent
<1>20. CASE WriteMetadata(p)
  BY <1>1, <1>2, <1>3, <1>4, <1>20 DEF WriteMetadata, Drives, BaseInv,
     SerialBase, ProcInv, SerialProc, Reached, HasMeta, Owned, Unlocked,
     Driving, Aborting, NoIntent
<1>21. CASE SealSnapshot(p)
  BY <1>1, <1>2, <1>3, <1>4, <1>21 DEF SealSnapshot, Restamped, BaseInv,
     SerialBase, ProcInv, SerialProc, Reached, HasMeta, Owned, Unlocked,
     Driving, Aborting, NoIntent
<1>22. CASE PublishReceipt(p)
  BY <1>1, <1>2, <1>3, <1>4, <1>22 DEF PublishReceipt, Drives, BaseInv,
     SerialBase, ProcInv, SerialProc, Reached, HasMeta, Owned, Unlocked,
     Driving, Aborting, NoIntent
<1>23. CASE ReceiptDisagrees(p)
  BY <1>1, <1>2, <1>3, <1>4, <1>23 DEF ReceiptDisagrees, Drives, Leave,
     BaseInv, SerialBase, ProcInv, SerialProc, Reached, HasMeta, Owned,
     Unlocked, Driving, Aborting, NoIntent
<1>24. CASE SealReceipt(p)
  BY <1>1, <1>2, <1>3, <1>4, <1>24 DEF SealReceipt, BaseInv, SerialBase,
     ProcInv, SerialProc, Reached, HasMeta, Owned, Unlocked, Driving, Aborting,
     NoIntent
<1>25. CASE Advance(p)
  <2>1. CASE c # b0
    BY <1>1, <1>2, <1>4, <2>1, <1>25 DEF Advance, SerialBase, Owned
  <2>2. CASE c = b0
    <3> DEFINE n == job[p].intent.at
    <3>1. /\ n \in Pending..Reaped /\ ~job[p].intent.aborted
          /\ intent[c] = job[p].intent /\ seal[c] # "probe"
          /\ n = Paused => host[c] = "pair"
      BY <1>3, <2>2, <1>25 DEF Advance, ProcInv, SerialProc, Driving, Aborting
    <3>2. /\ intent'[c].at = n + 1 /\ intent'[c].aborted = job[p].intent.aborted
          /\ UNCHANGED <<slot, host, home, seal>>
      BY <1>1, <1>2, <2>2, <1>25 DEF Advance, Intent
    <3>3. Owned(c) => host[c] = "pair" /\ n >= Collected
      BY <1>4, <3>1 DEF SerialBase, NoIntent
    <3>4. n >= Collected => host[c] = "pair"
      BY <1>4, <3>1 DEF SerialBase
    <3>5. n < Collected => slot[c] = Claimed(c) \/ Owned(c)
      BY <1>4, <3>1 DEF SerialBase
    <3>6. n = Collected => Owned(c)
      BY <1>3, <2>2, <1>25 DEF Advance, ProcInv
    <3> QED
      BY <3>1, <3>2, <3>3, <3>4, <3>5, <3>6 DEF SerialBase, Owned
  <2> QED
    BY <2>1, <2>2
<1>26. CASE FinishIndex(p)
  <2>1. CASE c # b0
    BY <1>1, <1>2, <1>4, <2>1, <1>26 DEF FinishIndex, SerialBase, Owned
  <2>2. CASE c = b0
    <3>1. intent'[c] = NoIntent /\ UNCHANGED <<slot, host, home, seal>>
      BY <1>1, <1>2, <2>2, <1>26 DEF FinishIndex
    <3>2. seal[c] # "probe" /\ (intent[c].aborted \/ intent[c].at = Published)
      BY <1>3, <2>2, <1>26 DEF FinishIndex, SerialProc
    <3>3. Owned(c) => host[c] = "pair" /\ home[c] = "none"
      BY <1>4, <3>2 DEF SerialBase, BaseInv, Reached
    <3> QED
      BY <3>1, <3>2, <3>3 DEF SerialBase, Owned, NoIntent
  <2> QED
    BY <2>1, <2>2
<1>27. CASE RecoverLock(p)
  BY <1>1, <1>2, <1>3, <1>4, <1>27 DEF RecoverLock, Leave, BaseInv, SerialBase,
     ProcInv, SerialProc, Reached, HasMeta, Owned, Unlocked, Driving, Aborting,
     NoIntent
<1>28. CASE RecoverPreflight(p)
  BY <1>1, <1>2, <1>3, <1>4, <1>28 DEF RecoverPreflight, Preflight, Cleared,
     Restamped, BaseInv, SerialBase, ProcInv, SerialProc, Reached, HasMeta,
     Owned, Unlocked, Driving, Aborting, NoIntent
<1>29. CASE RecoverJudge(p)
  BY <1>1, <1>2, <1>3, <1>4, <1>29 DEF RecoverJudge, BaseInv, SerialBase,
     ProcInv, SerialProc, Reached, HasMeta, Owned, Unlocked, Driving, Aborting,
     NoIntent
<1>30. CASE AbortCheck(p)
  BY <1>1, <1>2, <1>3, <1>4, <1>30 DEF AbortCheck, Leave, BaseInv, SerialBase,
     ProcInv, SerialProc, Reached, HasMeta, Owned, Unlocked, Driving, Aborting,
     NoIntent
<1>31. CASE AbortRemove(p)
  <2>1. CASE c # b0
    BY <1>1, <1>2, <1>4, <2>1, <1>31 DEF AbortRemove, SerialBase, Owned
  <2>2. CASE c = b0
    <3>1. UNCHANGED <<intent, slot, home, seal>>
      BY <1>31 DEF AbortRemove
    <3>2. ~Owned(c) /\ intent[c] = job[p].intent /\ job[p].intent.at < Collected
      BY <1>3, <2>2, <1>31 DEF AbortRemove, ProcInv, SerialProc, Aborting
    <3> QED
      BY <1>1, <1>4, <3>1, <3>2 DEF SerialBase, Owned, Intent
  <2> QED
    BY <2>1, <2>2
<1>32. CASE AbortRecord(p)
  <2>1. CASE c # b0
    BY <1>1, <1>2, <1>4, <2>1, <1>32 DEF AbortRecord, SerialBase, Owned
  <2>2. CASE c = b0
    <3>1. /\ intent[c] = job[p].intent /\ job[p].intent.at < Collected
          /\ job[p].intent.at # 0 /\ seal[c] # "probe"
      BY <1>3, <2>2, <1>32 DEF AbortRecord, ProcInv, SerialProc, Aborting
    <3>2. UNCHANGED <<slot, host, home, seal>>
      BY <1>32 DEF AbortRecord
    <3>3. intent'[c].aborted /\ intent'[c].at = job[p].intent.at
      BY <1>1, <1>2, <2>2, <3>1, <1>32 DEF AbortRecord, Intent
    <3>4. ~Owned(c)
      BY <1>1, <1>4, <3>1 DEF SerialBase, Intent, NoIntent
    <3> QED
      BY <1>1, <3>1, <3>2, <3>3, <3>4 DEF SerialBase, Owned, Intent
  <2> QED
    BY <2>1, <2>2
<1>33. CASE AbortFree(p)
  <2>1. CASE c # b0
    BY <1>1, <1>2, <1>4, <2>1, <1>33 DEF AbortFree, SerialBase, Owned
  <2>2. CASE c = b0
    <3>1. UNCHANGED <<intent, host, home, seal>>
      BY <1>33 DEF AbortFree
    <3>2. intent[c].aborted
      BY <1>1, <1>3, <2>2, <1>33 DEF AbortFree, SerialProc, Intent
    <3>3. ~Owned(c)'
      BY <1>1, <1>2, <1>4, <2>2, <3>2, <1>33 DEF AbortFree, SerialBase, Owned,
         Free
    <3> QED
      BY <1>4, <3>1, <3>2, <3>3 DEF SerialBase
  <2> QED
    BY <2>1, <2>2
<1>34. CASE ReapFree(p)
  <2>1. CASE c # b0
    BY <1>1, <1>2, <1>4, <2>1, <1>34 DEF ReapFree, FreeOwnClaim, SerialBase,
       Owned
  <2>2. CASE c = b0
    <3>1. UNCHANGED <<intent, host, home, seal>> /\ intent[c] = NoIntent
      BY <1>3, <2>2, <1>34 DEF ReapFree, ProcInv
    <3>2. Owned(c)' => Owned(c)
      BY <1>1, <1>2, <2>2, <1>34 DEF ReapFree, FreeOwnClaim, Owned, Free
    <3> QED
      BY <1>4, <3>1, <3>2 DEF SerialBase, NoIntent
  <2> QED
    BY <2>1, <2>2
<1>35. ASSUME NEW b \in Bases, SweepClaim(p, b)
      PROVE  SerialBase(c)'
  <2>1. UNCHANGED <<intent, host, home, seal>> /\ intent[c] = NoIntent
    BY <1>3, <1>35 DEF SweepClaim, SerialProc
  <2>2. Owned(c)' => Owned(c)
    BY <1>2, <1>35 DEF SweepClaim, FreeOwnClaim, Owned, Free
  <2> QED
    BY <1>4, <2>1, <2>2 DEF SerialBase, NoIntent
<1>36. CASE SweepEnd(p)
  BY <1>1, <1>2, <1>3, <1>4, <1>36 DEF SweepEnd, Leave, BaseInv, SerialBase,
     ProcInv, SerialProc, Reached, HasMeta, Owned, Unlocked, Driving, Aborting,
     NoIntent
<1>37. CASE PartialFailure(p)
  <2>1. CASE c # b0
    BY <1>1, <1>2, <1>4, <2>1, <1>37 DEF PartialFailure, ProbeInterrupted,
       Cleared, SerialBase, Owned
  <2>2. CASE c = b0
    <3>1. UNCHANGED <<intent, slot>>
      BY <1>37 DEF PartialFailure
    <3>2. CASE UNCHANGED <<home, host, seal>>
      BY <1>4, <3>1, <3>2 DEF SerialBase, Owned
    <3>3. CASE /\ Drives(p, Pending) \/ (pc[p] = "judge" /\ At(p) = Pending)
               /\ UNCHANGED <<home, host>>
      <4>1. intent[c].at = Pending
        BY <1>3, <2>2, <3>3 DEF SerialProc, Drives, Driving, Aborting
      <4> QED
        BY <1>4, <3>1, <3>3, <4>1 DEF SerialBase, Owned
    <3>4. CASE /\ pc[p] = "copy"
               /\ UNCHANGED <<home, seal>>
      <4>1. intent[c].at = Paused
        BY <1>3, <2>2, <3>4 DEF SerialProc, ProcInv, Driving, Aborting
      <4> QED
        BY <1>4, <3>1, <3>4, <4>1 DEF SerialBase, Owned, NoIntent
    <3>5. CASE home[b0] = "both" /\ UNCHANGED <<host, seal>>
      BY <1>4, <2>2, <3>1, <3>5 DEF SerialBase, Owned
    <3> QED
      BY <3>2, <3>3, <3>4, <3>5, <1>37 DEF PartialFailure
  <2> QED
    BY <2>1, <2>2
<1>38. CASE Stop(p)
  BY <1>1, <1>2, <1>3, <1>4, <1>38 DEF Stop, Leave, BaseInv, SerialBase,
     ProcInv, SerialProc, Reached, HasMeta, Owned, Unlocked, Driving, Aborting,
     NoIntent
<1> QED
  BY <1>5, <1>6, <1>7, <1>8, <1>9, <1>10, <1>11, <1>12, <1>13, <1>14, <1>15,
     <1>16, <1>17, <1>18, <1>19, <1>20, <1>21, <1>22, <1>23, <1>24, <1>25,
     <1>26, <1>27, <1>28, <1>29, <1>30, <1>31, <1>32, <1>33, <1>34, <1>35,
     <1>36, <1>37, <1>38 DEF Begin, Continue, Drive, Recover

(* A step of the one command keeps what it knows.                          *)
LEMMA SerialProcStep ==
    ASSUME TypeOK, \A c \in Bases : BaseInv(c), \A r \in Procs : ProcInv(r),
           \A c \in Bases : SerialBase(c), NEW p \in crew, SerialProc(p),
           Begin(p) \/ Continue(p) \/ PartialFailure(p) \/ Stop(p)
    PROVE  SerialProc(p)'
<1> DEFINE b0 == job[p].base
<1>1. /\ p \in Procs /\ b0 \in Bases /\ job[p].intent \in Intent
      /\ pc \in [Procs -> Phases] /\ job \in [Procs -> [base : Bases, intent : Intent]]
  BY DEF TypeOK
<1>2. /\ intent \in [Bases -> Intent] /\ slot \in [Bases -> TxnToken]
      /\ vm \in [Bases -> {"running", "paused", "dead"}]
      /\ home \in [Bases -> {"both", "room", "none"}]
      /\ host \in [Bases -> {"none", "part", "pair"}]
      /\ seal \in [Bases -> {"none", "probe", "meta", "sealed"}]
      /\ index \in [Bases -> SUBSET IndexFiles]
      /\ lock \in [Bases -> Procs \cup {NoProc}]
  BY DEF TypeOK
<1>3. BaseInv(b0) /\ SerialBase(b0) /\ ProcInv(p) /\ SerialProc(p)
  BY <1>1
<1>4. ASSUME NEW b \in Bases, CreateResume(p, b)
      PROVE  SerialProc(p)'
  BY <1>1, <1>2, <1>3, <1>4 DEF CreateResume, Take, Goto, BaseInv, SerialBase,
     ProcInv, SerialProc, Reached, HasMeta, Owned, Unlocked, Driving, Aborting,
     NoIntent
<1>5. ASSUME NEW b \in Bases, CreateBegin(p, b)
      PROVE  SerialProc(p)'
  BY <1>1, <1>2, <1>3, <1>5 DEF CreateBegin, Take, Goto, BaseInv, SerialBase,
     ProcInv, SerialProc, Reached, HasMeta, Owned, Unlocked, Driving, Aborting,
     NoIntent
<1>6. ASSUME NEW b \in Bases, RecoverRead(p, b)
      PROVE  SerialProc(p)'
  BY <1>1, <1>2, <1>3, <1>6 DEF RecoverRead, Goto, BaseInv, SerialBase,
     ProcInv, SerialProc, Reached, HasMeta, Owned, Unlocked, Driving, Aborting,
     NoIntent
<1>7. ASSUME NEW b \in Bases, ReapTake(p, b)
      PROVE  SerialProc(p)'
  BY <1>1, <1>2, <1>3, <1>7 DEF ReapTake, Take, Goto, BaseInv, SerialBase,
     ProcInv, SerialProc, Reached, HasMeta, Owned, Unlocked, Driving, Aborting,
     NoIntent
<1>8. CASE SweepBegin(p)
  BY <1>1, <1>2, <1>3, <1>8 DEF SweepBegin, Goto, BaseInv, SerialBase, ProcInv,
     SerialProc, Reached, HasMeta, Owned, Unlocked, Driving, Aborting, NoIntent
<1>9. CASE CreateIntent(p)
  BY <1>1, <1>2, <1>3, <1>9 DEF CreateIntent, Goto, BaseInv, SerialBase,
     ProcInv, SerialProc, Reached, HasMeta, Owned, Unlocked, Driving, Aborting,
     NoIntent
<1>10. CASE DriveRefused(p)
  BY <1>1, <1>2, <1>3, <1>10 DEF DriveRefused, Leave, Goto, PreflightAll,
     Cleared, Restamped, BaseInv, SerialBase, ProcInv, SerialProc, Reached,
     HasMeta, Owned, Unlocked, Driving, Aborting, NoIntent
<1>11. CASE StageTargets(p)
  BY <1>1, <1>2, <1>3, <1>11, DriveFacts DEF StageTargets, Drives, Goto,
     PreflightAll, Cleared, Restamped, BaseInv, SerialBase, ProcInv,
     SerialProc, Reached, HasMeta, Owned, Unlocked, Driving, Aborting, NoIntent
<1>12. CASE PauseVm(p)
  BY <1>1, <1>2, <1>3, <1>12 DEF PauseVm, Drives, Goto, BaseInv, SerialBase,
     ProcInv, SerialProc, Reached, HasMeta, Owned, Unlocked, Driving, Aborting,
     NoIntent
<1>13. CASE CreateFullSnapshot(p)
  BY <1>1, <1>2, <1>3, <1>13 DEF CreateFullSnapshot, Drives, Goto, BaseInv,
     SerialBase, ProcInv, SerialProc, Reached, HasMeta, Owned, Unlocked,
     Driving, Aborting, NoIntent
<1>14. CASE CollectPair(p)
  BY <1>1, <1>2, <1>3, <1>14 DEF CollectPair, Goto, BaseInv, SerialBase,
     ProcInv, SerialProc, Reached, HasMeta, Owned, Unlocked, Driving, Aborting,
     NoIntent
<1>15. CASE ReserveSlot(p)
  BY <1>1, <1>2, <1>3, <1>15, DriveFacts DEF ReserveSlot, Drives, Goto,
     BaseInv, SerialBase, ProcInv, SerialProc, Reached, HasMeta, Owned,
     Unlocked, Driving, Aborting, NoIntent
<1>16. CASE TerminateBase(p)
  BY <1>1, <1>2, <1>3, <1>16 DEF TerminateBase, Drives, Goto, BaseInv,
     SerialBase, ProcInv, SerialProc, Reached, HasMeta, Owned, Unlocked,
     Driving, Aborting, NoIntent
<1>17. CASE ReapDirs(p)
  BY <1>1, <1>2, <1>3, <1>17 DEF ReapDirs, Goto, BaseInv, SerialBase, ProcInv,
     SerialProc, Reached, HasMeta, Owned, Unlocked, Driving, Aborting, NoIntent
<1>18. CASE DeleteTap(p)
  BY <1>1, <1>2, <1>3, <1>18 DEF DeleteTap, Goto, BaseInv, SerialBase, ProcInv,
     SerialProc, Reached, HasMeta, Owned, Unlocked, Driving, Aborting, NoIntent
<1>19. CASE WriteMetadata(p)
  BY <1>1, <1>2, <1>3, <1>19 DEF WriteMetadata, Drives, Goto, BaseInv,
     SerialBase, ProcInv, SerialProc, Reached, HasMeta, Owned, Unlocked,
     Driving, Aborting, NoIntent
<1>20. CASE SealSnapshot(p)
  BY <1>1, <1>2, <1>3, <1>20 DEF SealSnapshot, Goto, Restamped, BaseInv,
     SerialBase, ProcInv, SerialProc, Reached, HasMeta, Owned, Unlocked,
     Driving, Aborting, NoIntent
<1>21. CASE PublishReceipt(p)
  BY <1>1, <1>2, <1>3, <1>21 DEF PublishReceipt, Drives, Goto, BaseInv,
     SerialBase, ProcInv, SerialProc, Reached, HasMeta, Owned, Unlocked,
     Driving, Aborting, NoIntent
<1>22. CASE ReceiptDisagrees(p)
  BY <1>1, <1>2, <1>3, <1>22 DEF ReceiptDisagrees, Drives, Goto, Leave,
     BaseInv, SerialBase, ProcInv, SerialProc, Reached, HasMeta, Owned,
     Unlocked, Driving, Aborting, NoIntent
<1>23. CASE SealReceipt(p)
  BY <1>1, <1>2, <1>3, <1>23 DEF SealReceipt, Goto, BaseInv, SerialBase,
     ProcInv, SerialProc, Reached, HasMeta, Owned, Unlocked, Driving, Aborting,
     NoIntent
<1>24. CASE Advance(p)
  BY <1>1, <1>2, <1>3, <1>24 DEF Advance, Goto, BaseInv, SerialBase, ProcInv,
     SerialProc, Reached, HasMeta, Owned, Unlocked, Driving, Aborting, NoIntent
<1>25. CASE FinishIndex(p)
  BY <1>1, <1>2, <1>3, <1>25 DEF FinishIndex, Goto, Leave, BaseInv, SerialBase,
     ProcInv, SerialProc, Reached, HasMeta, Owned, Unlocked, Driving, Aborting,
     NoIntent
<1>26. CASE RecoverLock(p)
  BY <1>1, <1>2, <1>3, <1>26 DEF RecoverLock, Goto, Take, Leave, BaseInv,
     SerialBase, ProcInv, SerialProc, Reached, HasMeta, Owned, Unlocked,
     Driving, Aborting, NoIntent
<1>27. CASE RecoverPreflight(p)
  BY <1>1, <1>2, <1>3, <1>27 DEF RecoverPreflight, Goto, Preflight, Cleared,
     Restamped, BaseInv, SerialBase, ProcInv, SerialProc, Reached, HasMeta,
     Owned, Unlocked, Driving, Aborting, NoIntent
<1>28. CASE RecoverJudge(p)
  BY <1>1, <1>2, <1>3, <1>28 DEF RecoverJudge, Goto, BaseInv, SerialBase,
     ProcInv, SerialProc, Reached, HasMeta, Owned, Unlocked, Driving, Aborting,
     NoIntent, BaseDead
<1>29. CASE AbortCheck(p)
  BY <1>1, <1>2, <1>3, <1>29, ClaimNotOwned DEF AbortCheck, Goto, Leave,
     BaseInv, SerialBase, ProcInv, SerialProc, Reached, HasMeta, Owned,
     Unlocked, Driving, Aborting, NoIntent
<1>30. CASE AbortRemove(p)
  BY <1>1, <1>2, <1>3, <1>30 DEF AbortRemove, Goto, Leave, BaseInv, SerialBase,
     ProcInv, SerialProc, Reached, HasMeta, Owned, Unlocked, Driving, Aborting,
     NoIntent
<1>31. CASE AbortRecord(p)
  <2>1. /\ pc'[p] = "release" /\ job' = job /\ UNCHANGED seal
        /\ intent[b0] = job[p].intent /\ seal[b0] # "probe"
    BY <1>1, <1>3, <1>31 DEF AbortRecord, Goto, SerialProc, Aborting
  <2>2. intent'[b0] = [job[p].intent EXCEPT !.aborted = TRUE]
    BY <1>1, <1>2, <2>1, <1>31 DEF AbortRecord, Intent
  <2> QED
    BY <2>1, <2>2 DEF SerialProc, Aborting, Driving
<1>32. CASE AbortFree(p)
  <2>1. intent'[b0].aborted /\ seal'[b0] # "probe"
    BY <1>1, <1>3, <1>32 DEF AbortFree, SerialProc, Aborting, Intent
  <2>2. job'[p].base = b0 /\ pc'[p] \in {"idle", "finish"}
    BY <1>1, <1>32 DEF AbortFree, Goto, Leave
  <2> QED
    BY <2>1, <2>2 DEF SerialProc, Aborting, Driving
<1>33. CASE ReapFree(p)
  BY <1>1, <1>2, <1>3, <1>33 DEF ReapFree, FreeOwnClaim, Goto, Leave, BaseInv,
     SerialBase, ProcInv, SerialProc, Reached, HasMeta, Owned, Unlocked,
     Driving, Aborting, NoIntent
<1>34. ASSUME NEW b \in Bases, SweepClaim(p, b)
      PROVE  SerialProc(p)'
  BY <1>1, <1>2, <1>3, <1>34 DEF SweepClaim, FreeOwnClaim, BaseInv, SerialBase,
     ProcInv, SerialProc, Reached, HasMeta, Owned, Unlocked, Driving, Aborting,
     NoIntent
<1>35. CASE SweepEnd(p)
  BY <1>1, <1>2, <1>3, <1>35 DEF SweepEnd, Goto, Leave, BaseInv, SerialBase,
     ProcInv, SerialProc, Reached, HasMeta, Owned, Unlocked, Driving, Aborting,
     NoIntent
<1>36. CASE PartialFailure(p)
  <2>1. pc'[p] = "idle"
    BY <1>1, <1>36 DEF PartialFailure, Leave, Goto
  <2> QED
    BY <2>1 DEF SerialProc, Aborting, Driving
<1>37. CASE Stop(p)
  BY <1>1, <1>2, <1>3, <1>37 DEF Stop, Goto, Leave, BaseInv, SerialBase,
     ProcInv, SerialProc, Reached, HasMeta, Owned, Unlocked, Driving, Aborting,
     NoIntent
<1> QED
  BY <1>4, <1>5, <1>6, <1>7, <1>8, <1>9, <1>10, <1>11, <1>12, <1>13, <1>14,
     <1>15, <1>16, <1>17, <1>18, <1>19, <1>20, <1>21, <1>22, <1>23, <1>24,
     <1>25, <1>26, <1>27, <1>28, <1>29, <1>30, <1>31, <1>32, <1>33, <1>34,
     <1>35, <1>36, <1>37 DEF Begin, Continue, Drive, Recover

-----------------------------------------------------------------------------
(* The other rooms and the VM                                              *)

Outside(b) == VmDies(b) \/ \E x \in Others : OtherArrives(b, x) \/ OtherLeaves(b, x)

(* They take no lock and change no file of the transaction.                *)
LEMMA OutsideStep ==
    ASSUME TypeOK, NEW b \in Bases, Outside(b)
    PROVE  /\ UNCHANGED <<intent, home, files, lock, pc, job>>
           /\ \A c \in Bases : Quiet(c) /\ Kept(c) /\ (Owned(c)' => Owned(c))
           /\ \A c \in Bases : slot[c] = Claimed(c) => slot'[c] = Claimed(c)
           /\ crew' = crew => TypeOK'
<1>1. /\ slot \in [Bases -> TxnToken] /\ vm \in [Bases -> {"running", "paused", "dead"}]
      /\ tap \in [Bases -> Rooms \cup {NoRoom}]
  BY DEF TypeOK
<1>2. CASE VmDies(b)
  <2>1. UNCHANGED <<intent, home, files, lock, pc, job, slot, tap>>
    BY <1>2 DEF VmDies
  <2>2. \A c \in Bases : Quiet(c) /\ Kept(c) /\ (Owned(c)' => Owned(c))
    BY <1>1, <1>2, <2>1 DEF VmDies, Quiet, Kept, Owned
  <2>3. vm' \in [Bases -> {"running", "paused", "dead"}]
    BY <1>1, <1>2 DEF VmDies
  <2> QED
    BY <2>1, <2>2, <2>3 DEF TypeOK
<1>3. ASSUME NEW x \in Others, OtherArrives(b, x) \/ OtherLeaves(b, x)
      PROVE  /\ UNCHANGED <<intent, home, files, lock, pc, job>>
             /\ \A c \in Bases : Quiet(c) /\ Kept(c) /\ (Owned(c)' => Owned(c))
             /\ \A c \in Bases : slot[c] = Claimed(c) => slot'[c] = Claimed(c)
             /\ crew' = crew => TypeOK'
  <2>1. /\ UNCHANGED <<intent, home, files, lock, pc, job, vm>>
        /\ \A c \in Bases : c # b => slot'[c] = slot[c]
        /\ x \in Rooms \ Bases
    BY <1>1, <1>3 DEF OtherArrives, OtherLeaves, Others
  <2>2. \/ slot[b] = Reserved(b) /\ slot'[b] = Leased(b, x)
        \/ slot[b] = Free /\ slot'[b] = Claimed(x)
        \/ slot[b] = Leased(b, x) /\ slot'[b] = Reserved(b)
        \/ slot[b] = Claimed(x) /\ slot'[b] = Free
    BY <1>1, <1>3, ReleaseLease DEF OtherArrives, OtherLeaves
  <2>3. Owned(b)' <=> Owned(b)
    BY <2>2 DEF Owned, Reserved, Leased, Free, Claimed
  <2>4. slot[b] # Claimed(b)
    <3>1. Claimed(x) # Claimed(b)
      BY <2>1 DEF Claimed
    <3>2. Claimed(b) \notin {Reserved(b), Free, Leased(b, x)}
      BY DEF Reserved, Leased, Free, Claimed
    <3> QED
      BY <2>2, <3>1, <3>2
  <2>5. \A c \in Bases : Quiet(c) /\ Kept(c) /\ (Owned(c)' => Owned(c))
    BY <2>1, <2>3, <2>4 DEF Quiet, Kept, Owned
  <2>6. slot' \in [Bases -> TxnToken] /\ tap' \in [Bases -> Rooms \cup {NoRoom}]
    BY <1>1, <1>3, <2>1, TokenTypes, ReleaseLease DEF OtherArrives, OtherLeaves
  <2>7. crew' = crew => TypeOK'
    BY <2>1, <2>6 DEF TypeOK
  <2> QED
    BY <2>1, <2>4, <2>5, <2>7
<1> QED
  BY <1>2, <1>3 DEF Outside

(* What every process knows survives their steps.                          *)
LEMMA OutsideProc ==
    ASSUME TypeOK, NEW b \in Bases, Outside(b), crew' = crew,
           NEW q \in Procs, ProcInv(q)
    PROVE  ProcInv(q)'
<1> DEFINE c == job[q].base
<1>1. /\ c \in Bases /\ Quiet(c) /\ Kept(c) /\ UNCHANGED <<lock, pc, job>>
  BY OutsideStep DEF TypeOK
<1>2. Reached(job[q].intent, c)'
  BY <1>1 DEF ProcInv, Reached, Kept
<1> QED
  BY <1>1, <1>2 DEF ProcInv, Quiet, HasMeta

(* What is claimed of the bases of serial commands does, too.              *)
LEMMA OutsideSerial ==
    ASSUME TypeOK, NEW b \in Bases, Outside(b), NEW c \in Bases, SerialBase(c)
    PROVE  SerialBase(c)'
<1>1. /\ UNCHANGED <<intent, home, host, seal>>
      /\ (Owned(c)' => Owned(c)) /\ (Owned(c) => Owned(c)')
      /\ slot[c] = Claimed(c) => slot'[c] = Claimed(c)
  BY OutsideStep DEF Kept
<1> QED
  BY <1>1 DEF SerialBase

-----------------------------------------------------------------------------
(* The theorems                                                            *)

(* Serial commands are those of one process.                               *)
LEMMA SerialOne ==
    ASSUME TypeOK, Serial
    PROVE  \E p \in Procs : crew = {p}
<1>1. IsFiniteSet(crew)
  BY FS_Subset, TxnAssumption DEF TypeOK
<1>2. PICK p : crew = {p}
  BY <1>1, FS_Singleton DEF Serial
<1> QED
  BY <1>2 DEF TypeOK

(* The initial states.                                                     *)
LEMMA InitInv == Init => IndInv
<1> SUFFICES ASSUME Init
             PROVE  IndInv
  OBVIOUS
<1>1. NoIntent \in Intent
  BY DEF NoIntent, Intent
<1>2. TypeOK
  <2>1. slot \in [Bases -> TxnToken]
    BY TokenTypes, TxnAssumption DEF Init
  <2>2. job \in [Procs -> [base : Bases, intent : Intent]]
    BY <1>1 DEF Init
  <2> QED
    BY <1>1, <2>1, <2>2, TxnAssumption DEF Init, TypeOK, Phases
<1>3. ASSUME NEW b \in Bases
      PROVE  BaseInv(b)
  BY DEF Init, BaseInv, Reached, HasMeta, NoIntent
<1>4. ASSUME NEW p \in Procs
      PROVE  ProcInv(p)
  <2>1. pc[p] = "idle" /\ job[p].intent = NoIntent
    BY DEF Init
  <2> QED
    BY <2>1 DEF ProcInv, Reached, Unlocked, Driving, Aborting, NoIntent
<1>5. ASSUME NEW b \in Bases
      PROVE  SerialBase(b)
  <2>1. ~Owned(b) /\ slot[b] = Claimed(b)
    BY ClaimNotOwned DEF Init
  <2> QED
    BY <2>1 DEF Init, SerialBase, NoIntent
<1>6. ASSUME NEW p \in crew
      PROVE  SerialProc(p)
  BY <1>2 DEF TypeOK, Init, SerialProc, Driving, Aborting
<1> QED
  BY <1>2, <1>3, <1>4, <1>5, <1>6 DEF IndInv, SerialInv

(* Every step.                                                             *)
LEMMA StepInv ==
    ASSUME IndInv, [Next]_vars
    PROVE  IndInv' /\ \A c \in Bases : Kept(c)
<1> DEFINE Acts(p) == Begin(p) \/ Continue(p) \/ PartialFailure(p) \/ Stop(p)
<1>1. /\ TypeOK /\ \A c \in Bases : BaseInv(c)
      /\ \A r \in Procs : ProcInv(r)
      /\ crew \subseteq Procs
  BY DEF IndInv, TypeOK
<1>2. CASE UNCHANGED vars
  <2>1. TypeOK'
    BY <1>1, <1>2 DEF vars, TypeOK
  <2>2. \A c \in Bases : BaseInv(c)' /\ Kept(c)
    BY <1>1, <1>2 DEF vars, BaseInv, Reached, HasMeta, Owned, Kept
  <2>3. \A r \in Procs : ProcInv(r)'
    BY <1>1, <1>2 DEF vars, ProcInv, Reached, HasMeta, Owned
  <2>4. SerialInv'
    BY <1>2 DEF IndInv, SerialInv, Serial, vars, SerialBase, SerialProc, Owned
  <2> QED
    BY <2>1, <2>2, <2>3, <2>4 DEF IndInv
<1>3. ASSUME NEW p \in crew, Acts(p), crew' = crew
      PROVE  IndInv' /\ \A c \in Bases : Kept(c)
  <2>1. TypeOK' /\ Moves(p) /\ (\A c \in Bases : Kept(c)) /\ p \in Procs
    BY <1>1, <1>3, TypeStep, MovesStep, KeptStep
  <2>2. ASSUME NEW c \in Bases
        PROVE  BaseInv(c)'
    <3>1. CASE c = job'[p].base
      BY <1>1, <1>3, <2>1, <3>1, BaseStep
    <3>2. CASE c # job'[p].base
      BY <1>1, <2>1, <3>2, BaseFrame DEF Moves
    <3> QED
      BY <3>1, <3>2
  <2>3. ASSUME NEW q \in Procs
        PROVE  ProcInv(q)'
    <3>1. CASE q = p
      BY <1>1, <1>3, <2>1, <3>1, ProcStep
    <3>2. CASE q # p
      BY <1>1, <1>3, <2>1, <3>2, ProcFrame
    <3> QED
      BY <3>1, <3>2
  <2>4. SerialInv'
    <3> SUFFICES ASSUME Serial'
                 PROVE  (\A c \in Bases : SerialBase(c)') /\ \A q \in crew : SerialProc(q)'
      BY <1>3 DEF SerialInv
    <3>1. Serial
      BY <1>3 DEF Serial
    <3>2. crew = {p}
      BY <1>1, <1>3, <3>1, SerialOne
    <3>3. (\A c \in Bases : SerialBase(c)) /\ SerialProc(p)
      BY <1>3, <3>1 DEF IndInv, SerialInv
    <3>4. \A c \in Bases : SerialBase(c)'
      BY <1>1, <1>3, <3>3, SerialBaseStep
    <3>5. SerialProc(p)'
      BY <1>1, <1>3, <3>3, SerialProcStep
    <3> QED
      BY <3>2, <3>4, <3>5
  <2> QED
    BY <2>1, <2>2, <2>3, <2>4 DEF IndInv
<1>4. ASSUME NEW b \in Bases, Outside(b), crew' = crew
      PROVE  IndInv' /\ \A c \in Bases : Kept(c)
  <2>1. TypeOK' /\ \A c \in Bases : Quiet(c) /\ Kept(c)
    BY <1>1, <1>4, OutsideStep
  <2>2. \A c \in Bases : BaseInv(c)'
    BY <1>1, <2>1, BaseFrame
  <2>3. \A q \in Procs : ProcInv(q)'
    BY <1>1, <1>4, OutsideProc
  <2>4. SerialInv'
    <3> SUFFICES ASSUME Serial'
                 PROVE  (\A c \in Bases : SerialBase(c)') /\ \A q \in crew : SerialProc(q)'
      BY <1>4 DEF SerialInv
    <3>1. (\A c \in Bases : SerialBase(c)) /\ \A q \in crew : SerialProc(q)
      BY <1>4 DEF IndInv, SerialInv, Serial
    <3>2. \A c \in Bases : SerialBase(c)'
      BY <1>1, <1>4, <3>1, OutsideSerial
    <3>3. /\ UNCHANGED <<intent, home, host, seal, pc, job>>
          /\ \A c \in Bases : Owned(c)' => Owned(c)
      BY <1>1, <1>4, OutsideStep
    <3>4. \A q \in crew : SerialProc(q)'
      BY <1>1, <3>1, <3>3 DEF TypeOK, SerialProc
    <3> QED
      BY <3>2, <3>4
  <2> QED
    BY <2>1, <2>2, <2>3, <2>4 DEF IndInv
<1> QED
  BY <1>2, <1>3, <1>4 DEF Next, Step, Outside

(* The inductive invariant holds in every reachable state.                 *)
THEOREM Invariance == Spec => []IndInv
<1>1. IndInv /\ [Next]_vars => IndInv'
  BY StepInv
<1> QED
  BY InitInv, <1>1, PTL DEF Spec

(* Every variable keeps its type.                                          *)
THEOREM TypeCorrect == Spec => []TypeOK
<1>1. IndInv => TypeOK
  BY DEF IndInv
<1> QED
  BY Invariance, <1>1, PTL

(* snapshot.json appears only over a consumed base with the complete pair  *)
(* and a reserved slot, and a receipt that restore trusts is of a sealed   *)
(* directory: for any number of concurrent commands, crashes included      *)
(* (drive, ensure_snapshot_metadata, attested_rootfs_hash).                *)
THEOREM PublishedSafe == Spec => []PublishedComplete
<1>1. IndInv => PublishedComplete
  <2> SUFFICES ASSUME IndInv, NEW b \in Bases
               PROVE  /\ HasMeta(b) => /\ Owned(b) /\ host[b] = "pair"
                                       /\ vm[b] = "dead" /\ home[b] = "none"
                      /\ Attested(b) => seal[b] = "sealed"
    BY DEF PublishedComplete
  <2> QED
    BY DEF IndInv, BaseInv, Attested
<1> QED
  BY Invariance, <1>1, PTL

(* kill and gc never reap a base under a transaction: the fence is checked *)
(* under the lock the intent is published under (reap_entry, kill).        *)
THEOREM ReapSafe == Spec => []NoTxnUnderReap
<1>1. IndInv => NoTxnUnderReap
  BY DEF IndInv, ProcInv, NoTxnUnderReap
<1> QED
  BY Invariance, <1>1, PTL

(* A reserved slot never goes back to the pool, whoever steps (reserve,    *)
(* lease, release, the sweep and the abort).                               *)
THEOREM ReservationSafe == Spec => ReservationPermanent
<1>1. IndInv /\ [Next]_vars => [\A b \in Bases : Owned(b) => Owned(b)']_vars
  BY StepInv DEF Kept
<1> QED
  BY Invariance, <1>1, PTL DEF Spec, ReservationPermanent

(* With commands one after the other, a probe that died with the directory *)
(* immutable is cleared before the copy, the clean-up and the seal         *)
(* (preflight repeated at Pending).                                        *)
THEOREM ProbeSafe == Spec => []ProbeCleared
<1>1. IndInv => ProbeCleared
  <2> SUFFICES ASSUME IndInv, Serial, NEW p \in crew,
                      pc[p] \in {"copy", "remove", "sealing"}
               PROVE  seal[job[p].base] # "probe"
    BY DEF ProbeCleared
  <2> DEFINE b == job[p].base
  <2>1. /\ p \in Procs /\ b \in Bases
        /\ ProcInv(p) /\ SerialProc(p) /\ SerialBase(b)
    BY DEF IndInv, TypeOK, SerialInv
  <2>2. CASE pc[p] = "remove"
    BY <2>1, <2>2 DEF SerialProc, Aborting
  <2>3. CASE pc[p] = "sealing"
    BY <2>1, <2>3 DEF ProcInv, HasMeta
  <2>4. CASE pc[p] = "copy"
    BY <2>1, <2>4 DEF ProcInv, SerialProc, SerialBase, Driving, Aborting
  <2> QED
    BY <2>2, <2>3, <2>4
<1> QED
  BY Invariance, <1>1, PTL

(* With commands one after the other, the slot keeps step with the         *)
(* transaction: claimed or reserved while an intent may be driven or       *)
(* aborted, reserved only over a complete pair (drive, recover).           *)
THEOREM SlotSafe == Spec => []SlotFollowsTxn
<1>1. IndInv => SlotFollowsTxn
  BY DEF IndInv, SerialInv, SerialBase, SlotFollowsTxn
<1> QED
  BY Invariance, <1>1, PTL
=============================================================================
