----------------------------- MODULE CloneBatch -----------------------------
(***************************************************************************)
(* One `rooms clone` process (src/src/main.rs): it allocates a network for *)
(* every member, restores them concurrently, and then either proves that   *)
(* each accepts SSH and hands the fleet over (keep), or runs a command in  *)
(* each and tears it down.  A termination signal may come at any time.     *)
(*                                                                         *)
(* The signal listener is a task of its own.  It takes the first signal,   *)
(* publishes it in a watch channel, and acknowledges the one request to    *)
(* commit, whichever it meets first; taking a signal closes the request    *)
(* channel before the signal is published.                                 *)
(*                                                                         *)
(* What a single allocation or restore does on the host is in CloneNetPool *)
(* and RestoreTxn; here a member's network and restore have an outcome,    *)
(* and every member is restored from the one source the batch prepared     *)
(* (src/src/restore_exec.rs), whose paths may be renamed under it.  Writes *)
(* into those files are excluded by the immutable flag.                    *)
(***************************************************************************)
EXTENDS Naturals, FiniteSets, FiniteSetsExt

CONSTANTS
    Count,          \* the members, named by their clone-network index
    MaxCloneLeases, \* MAX_CLONE_LEASES of the snapshot's slot
    Signals,        \* the signals that may come: 130 SIGINT, 143 SIGTERM
    NoSignal

Members == 1..Count

ASSUME BatchAssumption ==
    /\ Count \in Nat \ {0}
    /\ MaxCloneLeases \in Nat \ {0}
    /\ Count <= MaxCloneLeases      \* parse_clone_count
    /\ Signals \subseteq {130, 143}
    /\ NoSignal \notin Nat

VARIABLES
    mode,      \* "keep" or "command"
    phase,
    member,    \* custody of each member
    lease,     \* the members in the slot's lease set
    others,    \* leases of other batches of the same snapshot
    tree,      \* what the paths of snapshot and image name
    checked,   \* what PreparedRestoreSource commits to
    staged,    \* what each member's jail holds
    probe,     \* the SSH readiness probe of each member
    record,    \* the exit code recorded for each member's command
    failed,    \* members of the failure list
    cleanup,   \* members of the cleanup-failure list
    sig,       \* the first signal the kernel delivered
    listener,  \* the signal listener task
    seen,      \* the watch channel
    commit,    \* the request to commit, as its sender sees it
    why,       \* what a teardown will report
    outcome    \* what the process reports

signals == <<sig, listener, seen, commit>>
source == <<tree, checked, staged>>
fleet == <<member, lease, others, source, probe, record, failed, cleanup>>
vars == <<mode, phase, member, lease, others, tree, checked, staged, probe, record,
          failed, cleanup, sig, listener, seen, commit, why, outcome>>

Code == {0, 1, 130, 143}
NoCode == 255

Trees == {"A", "B"}
NoTree == "none"

(* none: not yet; alloc: the AllocatedClone guard; then the steps of its   *)
(* restore (see the workers below); held: CloneCustody;                    *)
(* kept: preserved; gone: nothing left; stuck: a teardown failed and left  *)
(* its intent; leaked: a network claim whose release failed in a drop.     *)
Working == {"restoring", "opened", "spawned", "leased"}
Custody == {"none", "alloc", "held", "kept", "gone", "stuck", "leaked"} \cup Working

(* lost: the reach deadline ran out over an attempt, whose ssh child was   *)
(* killed when its handle was dropped and that nobody waits for.           *)
ProbeStates == {"none", "running", "ok", "failed", "lost"}

NoOutcome == [kind |-> "none", code |-> NoCode]

(* The type of every variable.                                             *)
TypeOK ==
    /\ mode \in {"keep", "command"}
    /\ phase \in {"source", "prepare", "restore", "collect", "probe", "barrier", "handoff",
                  "command", "commit_failed", "commit_kept", "commit_ran",
                  "teardown", "reap", "ended"}
    /\ member \in [Members -> Custody]
    /\ lease \subseteq Members
    /\ others \in Nat /\ Cardinality(lease) + others <= MaxCloneLeases
    /\ tree \in Trees /\ checked \in Trees \cup {NoTree}
    /\ staged \in [Members -> Trees \cup {NoTree}]
    /\ probe \in [Members -> ProbeStates]
    /\ record \in [Members -> Code \cup {NoCode}]
    /\ failed \subseteq Members /\ cleanup \subseteq Members
    /\ sig \in Signals \cup {NoSignal}
    /\ listener \in {"armed", "took", "published", "committed"}
    /\ seen \in {sig, NoSignal}
    /\ commit \in {"idle", "sent", "acked", "closed", "dropped"}
    /\ why \in {"none", "cancelled", "failed"}
    /\ outcome \in [kind : {"none", "kept", "ran", "failed", "cancelled", "fatal"},
                    code : Code \cup {2, NoCode}]

Init ==
    /\ mode \in {"keep", "command"}
    /\ phase = "source"
    /\ member = [m \in Members |-> "none"]
    /\ lease = {}
    /\ others \in 0..MaxCloneLeases - 1
    /\ tree = "A" /\ checked = NoTree
    /\ staged = [m \in Members |-> NoTree]
    /\ probe = [m \in Members |-> "none"]
    /\ record = [m \in Members |-> NoCode]
    /\ failed = {} /\ cleanup = {}
    /\ sig = NoSignal /\ listener = "armed" /\ seen = NoSignal /\ commit = "idle"
    /\ why = "none"
    /\ outcome = NoOutcome

-----------------------------------------------------------------------------
(* The signal source                                                       *)

Deliver ==
    /\ sig = NoSignal
    /\ sig' \in Signals
    /\ UNCHANGED <<mode, phase, fleet, listener, seen, commit, why, outcome>>

(* Mutant: the request channel stays open after a signal was taken.        *)
TakeSignalHoldsRequest ==
    /\ listener = "armed" /\ sig # NoSignal
    /\ listener' = "took"
    /\ UNCHANGED <<mode, phase, fleet, sig, seen, commit, why, outcome>>

(* The biased select takes a signal that is there before a commit request. *)
TakeSignal ==
    /\ listener = "armed" /\ sig # NoSignal
    /\ listener' = "took"
    /\ commit' = IF commit = "sent" THEN "dropped" ELSE commit
    /\ UNCHANGED <<mode, phase, fleet, sig, seen, why, outcome>>

Publish ==
    /\ listener = "took"
    /\ listener' = "published"
    /\ seen' = sig
    /\ UNCHANGED <<mode, phase, fleet, sig, commit, why, outcome>>

Acknowledge ==
    /\ listener = "armed" /\ commit = "sent" /\ sig = NoSignal
    /\ listener' = "committed"
    /\ commit' = "acked"
    /\ UNCHANGED <<mode, phase, fleet, sig, seen, why, outcome>>

(* commit_terminal_handoff: look at the watch, send the request, and await *)
(* the acknowledgement or the loss of it.                                  *)
Committing == {"commit_failed", "commit_kept", "commit_ran"}

CommitSend ==
    /\ phase \in Committing
    /\ commit = "idle" /\ seen = NoSignal
    /\ commit' = IF listener = "armed" THEN "sent" ELSE "closed"
    /\ UNCHANGED <<mode, phase, fleet, sig, listener, seen, why, outcome>>

Verdict ==
    CASE commit \in {"idle", "closed"} /\ seen # NoSignal -> "signal"
      [] commit = "acked" -> "committed"
      [] commit = "dropped" -> "error"
      [] commit = "closed" /\ seen = NoSignal -> "error"
      [] OTHER -> "waiting"

-----------------------------------------------------------------------------
(* Ending                                                                  *)

End(kind, code) ==
    /\ phase' = "ended"
    /\ outcome' = [kind |-> kind, code |-> code]

(* Mutant: cleanup failures do not change the exit code.                   *)
CancelCodeAlways == sig

(* CloneCancellation::exit_code                                            *)
CancelCode == IF failed = {} /\ cleanup = {} THEN sig ELSE 2

(* teardown_clone_custody, member by member.                               *)
Teardown(reason) ==
    /\ phase' = "teardown"
    /\ why' = reason
    /\ UNCHANGED outcome

HeldMembers == {m \in Members : member[m] = "held"}

TeardownOne ==
    /\ phase = "teardown" /\ HeldMembers # {}
    /\ LET m == Min(HeldMembers) IN
         \/ /\ member' = [member EXCEPT ![m] = "gone"]
            /\ lease' = lease \ {m}
            /\ UNCHANGED cleanup
         \/ /\ member' = [member EXCEPT ![m] = "stuck"]
            /\ cleanup' = cleanup \cup {m}
            /\ UNCHANGED lease
    /\ UNCHANGED <<mode, phase, others, source, probe, record, failed, signals, why, outcome>>

TeardownDone ==
    /\ phase = "teardown" /\ HeldMembers = {}
    /\ IF why = "cancelled" THEN End("cancelled", CancelCode) ELSE End("failed", 2)
    /\ UNCHANGED <<mode, fleet, signals, why>>

-----------------------------------------------------------------------------
(* prepare_clone_batch: the allocation is all or nothing; a signal waits   *)
(* for it and drops the guards.  A release that fails in a drop is only    *)
(* logged; the claim stays for gc.                                         *)

DropAllocations ==
    \E left \in SUBSET Members :
        member' = [m \in Members |-> IF m \in left THEN "leaked" ELSE "gone"]

(* prepare_restore opens the image, the metadata and the vmstate, hashes   *)
(* what it opened, and asks at the end whether the paths still name it.    *)
OpenSource ==
    /\ phase = "source"
    /\ \/ /\ seen = NoSignal
          /\ checked' = tree
          /\ phase' = "prepare"
          /\ UNCHANGED <<member, outcome>>
       \/ /\ seen # NoSignal
          /\ member' = [m \in Members |-> "gone"]
          /\ End("cancelled", sig)
          /\ UNCHANGED checked
    /\ UNCHANGED <<mode, lease, others, tree, staged, probe, record, failed, cleanup,
                   signals, why>>

Prepare ==
    /\ phase = "prepare"
    /\ \/ /\ seen = NoSignal
          /\ tree = checked
          /\ member' = [m \in Members |-> "alloc"]
          /\ phase' = "restore"
          /\ UNCHANGED outcome
       \/ /\ seen = NoSignal
          /\ DropAllocations
          /\ End("failed", 2)
       \/ /\ seen # NoSignal
          /\ DropAllocations
          /\ End("cancelled", sig)
    /\ UNCHANGED <<mode, lease, others, source, probe, record, failed, cleanup, signals,
                   why>>

(* refuse_clone_batch, or every restore is spawned.                        *)
StartRestores ==
    /\ phase = "restore"
    /\ \/ /\ seen # NoSignal
          /\ DropAllocations
          /\ End("cancelled", CancelCode)
       \/ /\ seen = NoSignal
          /\ member' = [m \in Members |-> "restoring"]
          /\ phase' = "collect"
          /\ UNCHANGED outcome
    /\ UNCHANGED <<mode, lease, others, source, probe, record, failed, cleanup, signals, why>>

(* The worker of a member, restore_prepared: the source is revalidated     *)
(* before the intent is published, staged into the jail, compared there    *)
(* before the lease is taken, and compared once more before the resume.    *)
Revalidated == tree = checked

OpenForMember(m) ==
    /\ phase = "collect" /\ member[m] = "restoring"
    /\ Revalidated
    /\ member' = [member EXCEPT ![m] = "opened"]
    /\ UNCHANGED <<mode, phase, lease, others, source, probe, record, failed, cleanup,
                   signals, why, outcome>>

(* spawn_restore binds or copies whatever the paths name now.              *)
StageMember(m) ==
    /\ phase = "collect" /\ member[m] = "opened"
    /\ staged' = [staged EXCEPT ![m] = tree]
    /\ member' = [member EXCEPT ![m] = "spawned"]
    /\ UNCHANGED <<mode, phase, lease, others, tree, checked, probe, record, failed,
                   cleanup, signals, why, outcome>>

(* Mutant: only the paths are looked at again, not the jail.               *)
VerifiedPaths(m) == Revalidated

(* verify_staged and revalidate.                                           *)
Verified(m) == staged[m] = checked /\ Revalidated

LeaseFree == Cardinality(lease) + others < MaxCloneLeases

LeaseMember(m) ==
    /\ phase = "collect" /\ member[m] = "spawned"
    /\ Verified(m)
    /\ LeaseFree
    /\ lease' = lease \cup {m}
    /\ member' = [member EXCEPT ![m] = "leased"]
    /\ UNCHANGED <<mode, phase, others, source, probe, record, failed, cleanup, signals,
                   why, outcome>>

RestoreOk(m) ==
    /\ phase = "collect" /\ member[m] = "leased"
    /\ Verified(m)
    /\ member' = [member EXCEPT ![m] = "held"]
    /\ UNCHANGED <<mode, phase, lease, others, source, probe, record, failed, cleanup,
                   signals, why, outcome>>

(* A check fails, the lease set is full, or the host says no: the abort    *)
(* path cleans up, or leaves the intent, with or without the lease.        *)
RestoreFails(m) ==
    /\ phase = "collect" /\ member[m] \in Working
    /\ failed' = failed \cup {m}
    /\ \/ /\ member' = [member EXCEPT ![m] = "gone"]
          /\ lease' = lease \ {m}
       \/ /\ member' = [member EXCEPT ![m] = "stuck"]
          /\ lease' \in {lease, lease \ {m}}
    /\ UNCHANGED <<mode, phase, others, source, probe, record, cleanup, signals, why,
                   outcome>>

(* collect_clone_restores: every worker is joined, also after a signal.    *)
CollectRestores ==
    /\ phase = "collect"
    /\ \A m \in Members : member[m] \notin Working
    /\ IF seen # NoSignal THEN Teardown("cancelled")
       ELSE IF failed # {} THEN Teardown("failed")
       ELSE /\ phase' = IF mode = "keep" THEN "probe" ELSE "command"
            /\ UNCHANGED <<why, outcome>>
    /\ UNCHANGED <<mode, fleet, signals>>

-----------------------------------------------------------------------------
(* keep: run_clone_readiness_barrier                                       *)

StartProbes ==
    /\ phase = "probe"
    /\ \/ /\ seen # NoSignal
          /\ Teardown("cancelled")
          /\ UNCHANGED probe
       \/ /\ seen = NoSignal
          /\ probe' = [m \in Members |-> "running"]
          /\ phase' = "barrier"
          /\ UNCHANGED <<why, outcome>>
    /\ UNCHANGED <<mode, member, lease, others, source, record, failed, cleanup, signals>>

(* A login succeeds, or the reach deadline of the probe runs out, between  *)
(* two attempts or over one.                                               *)
ProbeEnds(m) ==
    /\ phase = "barrier" /\ probe[m] = "running"
    /\ \E result \in {"ok", "failed", "lost"} : probe' = [probe EXCEPT ![m] = result]
    /\ UNCHANGED <<mode, phase, member, lease, others, source, record, failed, cleanup, signals,
                   why, outcome>>

(* The kernel is done with a child that was killed on drop.                *)
ChildExits(m) ==
    /\ probe[m] = "lost"
    /\ probe' = [probe EXCEPT ![m] = "failed"]
    /\ UNCHANGED <<mode, phase, member, lease, others, source, record, failed, cleanup, signals,
                   why, outcome>>

(* Mutant: a signal or a failure leaves the barrier at once.               *)
BarrierDoneEarly ==
    /\ phase = "barrier"
    /\ \/ seen # NoSignal
       \/ \A m \in Members : probe[m] # "running"
    /\ \/ seen # NoSignal /\ Teardown("cancelled")
       \/ /\ seen = NoSignal
          /\ phase' = IF \E m \in Members : probe[m] # "ok"
                      THEN "commit_failed" ELSE "handoff"
          /\ UNCHANGED <<why, outcome>>
    /\ UNCHANGED <<mode, fleet, signals>>

BarrierDone ==
    /\ phase = "barrier"
    /\ \A m \in Members : probe[m] # "running"
    /\ \/ seen # NoSignal /\ Teardown("cancelled")
       \/ /\ seen = NoSignal
          /\ phase' = IF \E m \in Members : probe[m] # "ok"
                      THEN "commit_failed" ELSE "handoff"
          /\ UNCHANGED <<why, outcome>>
    /\ UNCHANGED <<mode, fleet, signals>>

(* A failed barrier asks whether a signal came first.                      *)
CommitFailed ==
    /\ phase = "commit_failed"
    /\ \/ Verdict = "signal" /\ Teardown("cancelled")
       \/ Verdict \in {"committed", "error"} /\ Teardown("failed")
    /\ UNCHANGED <<mode, fleet, signals>>

(* Mutant: the fleet is handed over without asking the listener.           *)
HandoffUncommitted ==
    /\ phase = "handoff"
    /\ member' = [m \in Members |-> "kept"]
    /\ End("kept", 0)
    /\ UNCHANGED <<mode, lease, others, source, probe, record, failed, cleanup, signals, why>>

(* finish_kept_clone_batch: preserve_clone_batch dismisses every guard.    *)
(* Its errors, a record without clone network and a custody consumed       *)
(* before, cannot happen to members that were restored into one.           *)
Handoff ==
    /\ phase = "handoff"
    /\ \/ /\ seen # NoSignal
          /\ Teardown("cancelled")
          /\ UNCHANGED member
       \/ /\ seen = NoSignal
          /\ member' = [m \in Members |-> "kept"]
          /\ phase' = "commit_kept"
          /\ UNCHANGED <<why, outcome>>
    /\ UNCHANGED <<mode, lease, others, source, probe, record, failed, cleanup, signals>>

CommitKept ==
    /\ phase = "commit_kept"
    /\ \/ /\ Verdict = "committed"
          /\ End("kept", 0)
          /\ UNCHANGED why
       \/ /\ Verdict \in {"signal", "error"}
          /\ phase' = "reap"
          /\ why' = IF Verdict = "signal" THEN "cancelled" ELSE "failed"
          /\ UNCHANGED outcome
    /\ UNCHANGED <<mode, fleet, signals>>

(* reap_preserved_clones: registry::kill of each kept room.                *)
ReapOne(m) ==
    /\ phase = "reap" /\ member[m] = "kept"
    /\ \A k \in Members : k < m => member[k] # "kept"
    /\ \/ /\ member' = [member EXCEPT ![m] = "gone"]
          /\ lease' = lease \ {m}
          /\ UNCHANGED cleanup
       \/ /\ member' = [member EXCEPT ![m] = "stuck"]
          /\ cleanup' = cleanup \cup {m}
          /\ UNCHANGED lease
    /\ UNCHANGED <<mode, phase, others, source, probe, record, failed, signals, why, outcome>>

ReapDone ==
    /\ phase = "reap"
    /\ \A m \in Members : member[m] # "kept"
    /\ IF why = "cancelled" THEN End("cancelled", CancelCode) ELSE End("fatal", 2)
    /\ UNCHANGED <<mode, fleet, signals, why>>

-----------------------------------------------------------------------------
(* command: run_clone_commands                                             *)

(* post_boot returns the command's own exit code, the code of a signal it  *)
(* observed, or an error that leaves no record.                            *)
CommandEnds(m) ==
    /\ phase = "command"
    /\ member[m] = "held" /\ record[m] = NoCode /\ m \notin failed
    /\ \/ /\ \E c \in {0, 1} : record' = [record EXCEPT ![m] = c]
          /\ UNCHANGED failed
       \/ /\ failed' = failed \cup {m}
          /\ UNCHANGED record
    /\ UNCHANGED <<mode, phase, member, lease, others, source, probe, cleanup, signals, why,
                   outcome>>

CommandCancelled(m) ==
    /\ phase = "command"
    /\ member[m] = "held" /\ record[m] = NoCode /\ m \notin failed
    /\ seen # NoSignal
    /\ record' = [record EXCEPT ![m] = seen]
    /\ UNCHANGED <<mode, phase, member, lease, others, source, probe, failed, cleanup, signals,
                   why, outcome>>

(* The worker tears its clone down; what fails joins the failure list.     *)
CommandTeardown(m) ==
    /\ phase = "command"
    /\ member[m] = "held" /\ (record[m] # NoCode \/ m \in failed)
    /\ \/ /\ member' = [member EXCEPT ![m] = "gone"]
          /\ lease' = lease \ {m}
          /\ UNCHANGED failed
       \/ /\ member' = [member EXCEPT ![m] = "stuck"]
          /\ failed' = failed \cup {m}
          /\ UNCHANGED lease
    /\ UNCHANGED <<mode, phase, others, source, probe, record, cleanup, signals, why, outcome>>

JoinCommands ==
    /\ phase = "command"
    /\ \A m \in Members : member[m] \in {"gone", "stuck"}
    /\ phase' = "commit_ran"
    /\ UNCHANGED <<mode, fleet, signals, why, outcome>>

(* The first code that is not 0, by clone-network index.                   *)
BatchCode ==
    LET bad == {m \in Members : record[m] # 0} IN
    IF bad = {} THEN 0 ELSE record[Min(bad)]

CommitRan ==
    /\ phase = "commit_ran"
    /\ \/ Verdict = "signal" /\ End("cancelled", CancelCode)
       \/ Verdict = "error" /\ End("fatal", 2)
       \/ /\ Verdict = "committed"
          /\ IF failed # {} THEN End("failed", 2) ELSE End("ran", BatchCode)
    /\ UNCHANGED <<mode, fleet, signals, why>>

-----------------------------------------------------------------------------
(* Another batch of the same snapshot takes or returns a lease.            *)
OtherLease ==
    /\ phase # "ended"
    /\ \/ LeaseFree /\ others' = others + 1
       \/ others > 0 /\ others' = others - 1
    /\ UNCHANGED <<mode, phase, member, lease, source, probe, record, failed, cleanup, signals,
                   why, outcome>>

(* An ancestor of the source is renamed away, or back.                     *)
Rename ==
    /\ phase \in {"source", "prepare", "restore", "collect"}
    /\ tree' \in Trees \ {tree}
    /\ UNCHANGED <<mode, phase, member, lease, others, checked, staged, probe, record,
                   failed, cleanup, signals, why, outcome>>

SignalStep == TakeSignal \/ Publish \/ Acknowledge

BatchStep ==
    \/ CommitSend \/ OpenSource \/ Prepare \/ StartRestores \/ CollectRestores
    \/ StartProbes \/ BarrierDone \/ CommitFailed \/ Handoff \/ CommitKept \/ ReapDone
    \/ JoinCommands \/ CommitRan \/ TeardownOne \/ TeardownDone
    \/ \E m \in Members : ReapOne(m)

(* A worker's step that is bounded in time.                                *)
WorkerStep(m) ==
    \/ OpenForMember(m) \/ StageMember(m) \/ LeaseMember(m) \/ RestoreOk(m)
    \/ RestoreFails(m) \/ ProbeEnds(m)
    \/ CommandCancelled(m) \/ CommandTeardown(m)

Next ==
    \/ Deliver \/ SignalStep \/ BatchStep \/ OtherLease \/ Rename
    \/ \E m \in Members : WorkerStep(m) \/ ChildExits(m) \/ CommandEnds(m)

Spec == Init /\ [][Next]_vars

(* The runtime polls every task that can go on.  A command that nothing    *)
(* cancels may run for ever.                                               *)
Fairness ==
    /\ WF_vars(SignalStep)
    /\ WF_vars(BatchStep)
    /\ \A m \in Members : WF_vars(WorkerStep(m))

FairSpec == Spec /\ Fairness

-----------------------------------------------------------------------------
(* Success is linearised against the signal: a fleet is handed over, or a  *)
(* code reported, only after the listener acknowledged, so no signal it    *)
(* took is followed by success; and success means the whole batch, all     *)
(* kept with their leases or all torn down with their own exit codes       *)
(* (commit_terminal_handoff, finish_kept_clone_batch, run_clone_commands). *)
SuccessIsCommitted ==
    /\ outcome.kind = "kept" =>
         /\ listener = "committed"
         /\ lease = Members
         /\ \A m \in Members : member[m] = "kept" /\ probe[m] = "ok"
    /\ outcome.kind = "ran" =>
         /\ listener = "committed"
         /\ lease = {}
         /\ \A m \in Members : member[m] = "gone" /\ record[m] \in {0, 1}
         /\ outcome.code = 0 <=> \A m \in Members : record[m] = 0

(* A batch that was not handed over leaves nothing behind that it does not *)
(* name: a member still on the host, or in the lease set, is in the        *)
(* failure or the cleanup list, or is a bare network claim; and the plain  *)
(* signal code is reported only when no teardown failed                    *)
(* (CloneCancellation::exit_code, cleanup_failures).                       *)
ResidueReported ==
    outcome.kind \notin {"none", "kept"} =>
        /\ \A m \in Members :
             /\ member[m] \in {"gone", "stuck", "leaked"}
             /\ member[m] = "stuck" => m \in failed \cup cleanup
        /\ lease \subseteq {m \in Members : member[m] = "stuck"}
        /\ outcome.kind = "cancelled" /\ outcome.code = sig =>
             \A m \in Members : member[m] # "stuck"

(* Teardown waits for every probe (run_clone_readiness_barrier drains them *)
(* also after a failure or a signal), and no member is torn down or        *)
(* forgotten while its restore worker still owns it.                       *)
TeardownAfterWorkers ==
    phase \in {"teardown", "reap", "ended"} =>
        \A m \in Members : probe[m] # "running" /\ member[m] \notin Working

(* Every clone that runs, runs the very source whose hashes were checked   *)
(* for the batch, also when the paths named another one for a while        *)
(* between two checks (verify_staged, RestoreSourceIdentity).              *)
OneSource ==
    \A m \in Members : member[m] \in {"held", "kept"} => staged[m] = checked

(* A signal the listener took ends the process: no probe, restore, commit  *)
(* or teardown waits on another for ever.                                  *)
SignalEnds == listener = "took" ~> phase = "ended"
=============================================================================
