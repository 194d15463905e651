---------------------------- MODULE RunOutcome ------------------------------
(***************************************************************************)
(* One `rooms run` after its inputs are admitted (src/src/main.rs,         *)
(* run_room_inner): claim, boot, the workload raced against Ctrl-C,        *)
(* SIGTERM and --max-wall, collection, witness, teardown, exit code.  What *)
(* happened is told three times: on the lifecycle stream, in the guest's   *)
(* result.json and by the exit code of the command.                        *)
(*                                                                         *)
(* Guest I/O goes over ssh, whose connect is bounded and whose session is  *)
(* not: a wedged guest answers nothing more.  Dropping the raced future    *)
(* kills the ssh client, and what it was writing may have arrived whole,   *)
(* in part or not at all.                                                  *)
(***************************************************************************)
EXTENDS Integers, Sequences, FiniteSets

CONSTANTS
    Jobs,       \* which of "keep", "idle", "command", "repository", "cursor"
    Requests,   \* sets of requested options
    Signals,    \* the signals that may come: 130 SIGINT, 143 SIGTERM
    GuestExits  \* exit codes of the guest's command

NoCode == 1000      \* None: no exit code yet, which no exit code is
Failure == 999      \* Err: the command reports an error

ASSUME RunAssumption ==
    /\ Jobs \subseteq {"keep", "idle", "command", "repository", "cursor"}
    /\ \A r \in Requests : r \subseteq {"secrets", "out", "witness", "push", "wall"}
    /\ Signals \subseteq {130, 143}
    /\ GuestExits \subseteq Int \ {NoCode}

VARIABLES
    job,        \* Action and Runner
    opts,       \* requested: "secrets", "out", "witness", "push", "wall"
    pc,
    stream,     \* the lifecycle events, in order
    completed,  \* the exit the wrapper reported, before finalization
    result,     \* the guest's result.json
    patch,      \* whether the guest has a result.patch
    pushed,     \* whether the branch was pushed
    postErr,    \* post_run_error of the outcome
    outcome,    \* what post_boot returned
    collection, \* what collect_run_artifacts returned
    dest,       \* what the host's --out directory holds
    capture,    \* the tcpdump of the witness
    unseen,     \* whether a packet left the guest before or after the capture
    delivered,  \* the signals that have come
    first,      \* the one CloneSignalSource retains
    ctrlc,      \* SIGINT has come since the race began
    wedged,     \* the guest answers nothing more
    exitCode    \* the exit code of the command

vars == <<job, opts, pc, stream, completed, result, patch, pushed, postErr,
          outcome, collection, dest, capture, unseen, delivered, first, ctrlc,
          wedged, exitCode>>
work == <<completed, result, patch, pushed, postErr>>
ending == <<collection, dest>>
signals == <<delivered, first, ctrlc>>
host == <<job, opts, delivered, first, ctrlc, wedged, capture, unseen>>

Exec == job \notin {"keep", "idle"}
Ev(name) == <<name, NoCode, "none">>
Exited(code, status) == <<"workload_exited", code, status>>
Says(name) == \E i \in DOMAIN stream : stream[i][1] = name
Emit(events) == stream' = stream \o events

StatusOf(code) == IF code = 0 THEN "succeeded" ELSE "failed"

Record(code, status) ==
    [code |-> code, status |-> status, patch |-> FALSE, pushed |-> FALSE]

Absent == Record(NoCode, "absent")
Torn == Record(NoCode, "torn")
Readable == result \notin {Absent, Torn}

(* What the write of a record leaves: `cat >` is not atomic.               *)
Written(r) == {result, Torn, r}

Init ==
    /\ job \in Jobs
    /\ opts \in Requests
    /\ job = "keep" => opts \cap {"out", "witness"} = {}
    /\ "push" \in opts => job = "cursor"
    /\ pc = "claim"
    /\ stream = <<>>
    /\ completed = NoCode
    /\ result = Absent
    /\ patch = FALSE
    /\ pushed = FALSE
    /\ postErr = FALSE
    /\ outcome = NoCode
    /\ collection = "none"
    /\ dest = "before"
    /\ capture = "off"
    /\ unseen = "none"
    /\ delivered = {}
    /\ first = NoCode
    /\ ctrlc = FALSE
    /\ wedged = FALSE
    /\ exitCode = NoCode

-----------------------------------------------------------------------------
(* Claim and boot.                                                         *)

ClaimSlot ==
    /\ pc = "claim"
    /\ \/ /\ Emit(<<Ev("slot_allocated")>>)
          /\ pc' = "boot"
          /\ UNCHANGED exitCode
       \/ /\ stream' \in {stream, stream \o <<Ev("pool_full")>>}
          /\ pc' = "end"
          /\ exitCode' = Failure
    /\ UNCHANGED <<host, work, outcome, ending>>

(* Capture::start: a capture that cannot start fails the boot.             *)
StartCapture == IF "witness" \in opts THEN "live" ELSE "off"

(* emit_started: the capture began inside boot, before the VMM.            *)
Boot ==
    /\ pc = "boot"
    /\ Emit((IF "witness" \in opts THEN <<Ev("witness_started")>> ELSE <<>>)
            \o <<Ev("vmm_started")>>)
    /\ capture' = StartCapture
    /\ pc' = CASE job = "keep" -> "wait" [] job = "idle" -> "linger"
               [] OTHER -> "channel"
    /\ UNCHANGED <<job, opts, work, outcome, ending, unseen, signals, wedged,
                   exitCode>>

(* boot_with_cancellation: a retained signal decides the exit code of a    *)
(* failed boot, and cancels one under way.                                 *)
BootFails ==
    /\ pc = "boot"
    /\ Emit(<<Ev("boot_failed")>>)
    /\ exitCode' = IF first # NoCode THEN first ELSE Failure
    /\ pc' = "end"
    /\ UNCHANGED <<host, work, outcome, ending>>

-----------------------------------------------------------------------------
(* post_boot.  Return(code) leaves it.                                     *)

Return(code) ==
    /\ outcome' = code
    /\ pc' = "collect"

KeepWait ==
    /\ pc = "wait"
    /\ Return(0)
    /\ UNCHANGED <<host, stream, work, ending, exitCode>>

IdleLinger ==
    /\ pc = "linger"
    /\ \E code \in {0, Failure} : Return(code)
    /\ UNCHANGED <<host, stream, work, ending, exitCode>>

(* signal_ready: sshd proves the kernel up when no ping did.               *)
SignalReady ==
    (IF Says("guest_ready") THEN <<>> ELSE <<Ev("guest_ready")>>)
        \o <<Ev("ssh_ready")>>

(* wait_for_ssh_observed polls sshd and, until it answers, pings.          *)
ProbePing ==
    /\ pc = "channel"
    /\ ~wedged
    /\ ~Says("guest_ready")
    /\ Emit(<<Ev("guest_ready")>>)
    /\ UNCHANGED <<host, pc, work, outcome, ending, exitCode>>

ProbeSsh ==
    /\ pc = "channel"
    /\ ~wedged
    /\ Emit(SignalReady)
    /\ pc' = "gate"
    /\ UNCHANGED <<host, work, outcome, ending, exitCode>>

(* wait_for_channel: guest_reach_timeout bounds it; an error of the host's *)
(* own ssh client is not the guest's.                                      *)
ChannelFails ==
    /\ pc = "channel"
    /\ \E e \in {"guest_unreachable", "workload_failed"} : Emit(<<Ev(e)>>)
    /\ Return(Failure)
    /\ UNCHANGED <<host, work, ending, exitCode>>

Start == IF job = "command" THEN "exec" ELSE "clone"

(* gate_on_secrets: SECRETS_ACK_TIMEOUT bounds it; no secret, no workload. *)
GateOnSecretsOpen ==
    /\ pc = "gate"
    /\ Emit(<<Ev("workload_started")>>)
    /\ pc' = Start
    /\ UNCHANGED <<host, work, outcome, ending, exitCode>>

GateOnSecrets ==
    /\ pc = "gate"
    /\ \/ /\ "secrets" \notin opts
          /\ Emit(<<Ev("workload_started")>>)
          /\ pc' = Start
       \/ /\ "secrets" \in opts
          /\ Emit(<<Ev("secrets_delivered"), Ev("workload_started")>>)
          /\ pc' = Start
       \/ /\ "secrets" \in opts
          /\ Emit(<<Ev("secrets_failed")>>)
          /\ pc' = "gate_record"
    /\ UNCHANGED <<host, work, outcome, ending, exitCode>>

GateRecord ==
    /\ pc = "gate_record"
    /\ result' \in IF wedged THEN {result} ELSE Written(Record(1, "failed"))
    /\ Return(Failure)
    /\ UNCHANGED <<host, stream, completed, patch, pushed, postErr, ending,
                   exitCode>>

-----------------------------------------------------------------------------
(* exec_observed: one step per ssh session, each of which may fail.        *)

AfterExec == IF job = "command" THEN "write" ELSE "patch"
AfterPatch ==
    IF job = "repository" THEN "write"
    ELSE IF "push" \in opts /\ completed = 0 THEN "push" ELSE "touch"

FullRecord ==
    [Record(completed, StatusOf(completed)) EXCEPT !.patch = patch, !.pushed = pushed]

(* An error of a step that must succeed: the real exit, if there is one,   *)
(* goes out before the failure.  ssh may fail before, while or after the   *)
(* guest writes the record.                                                *)
WorkFails ==
    /\ pc \in {"clone", "stage", "exec", "touch", "write"}
    /\ Emit((IF completed # NoCode
             THEN <<Exited(completed, StatusOf(completed))>> ELSE <<>>)
            \o <<Ev("workload_failed")>>)
    /\ result' \in IF pc = "write"
                   THEN {result, Torn, FullRecord} ELSE {result}
    /\ Return(Failure)
    /\ UNCHANGED <<host, completed, patch, pushed, postErr, ending, exitCode>>

CloneRepo ==
    /\ pc = "clone"
    /\ ~wedged
    /\ pc' = IF job = "cursor" THEN "stage" ELSE "exec"
    /\ UNCHANGED <<host, stream, work, outcome, ending, exitCode>>

StageInput ==
    /\ pc = "stage"
    /\ ~wedged
    /\ pc' = "exec"
    /\ UNCHANGED <<host, stream, work, outcome, ending, exitCode>>

(* run_wrapped: `completed` holds the exit before anything else can fail.  *)
RunWrapped ==
    /\ pc = "exec"
    /\ ~wedged
    /\ completed' \in GuestExits
    /\ pc' = AfterExec
    /\ UNCHANGED <<host, stream, result, patch, pushed, postErr, outcome,
                   ending, exitCode>>

(* A repository command that leaves no patch has failed its run; a cursor  *)
(* run only omits the reference.                                           *)
GeneratePatch ==
    /\ pc = "patch"
    /\ ~wedged
    /\ patch' \in BOOLEAN
    /\ postErr' = (job = "repository" /\ ~patch')
    /\ pc' = AfterPatch
    /\ UNCHANGED <<host, stream, completed, result, pushed, outcome, ending,
                   exitCode>>

(* Pushed, nothing to push, or an error kept for after the record.         *)
PushBranch ==
    /\ pc = "push"
    /\ ~wedged
    /\ \/ pushed' = TRUE /\ UNCHANGED postErr
       \/ UNCHANGED <<pushed, postErr>>
       \/ postErr' = TRUE /\ UNCHANGED pushed
    /\ pc' = "touch"
    /\ UNCHANGED <<host, stream, completed, result, patch, outcome, ending,
                   exitCode>>

TouchOutputs ==
    /\ pc = "touch"
    /\ ~wedged
    /\ pc' = "write"
    /\ UNCHANGED <<host, stream, work, outcome, ending, exitCode>>

(* u8::try_from(exit_code).unwrap_or(2) *)
ProcessCode(code) == IF code \in 0..255 THEN code ELSE 2

(* The write, and run_workload's tail: no await after it.                  *)
WriteResult ==
    /\ pc = "write"
    /\ ~wedged
    /\ result' = FullRecord
    /\ Emit(<<Exited(completed, StatusOf(completed))>>
            \o IF postErr THEN <<Ev("workload_failed")>> ELSE <<>>)
    /\ Return(IF postErr THEN Failure ELSE ProcessCode(completed))
    /\ UNCHANGED <<host, completed, patch, pushed, postErr, ending, exitCode>>

-----------------------------------------------------------------------------
(* race_workload: what may interrupt the work, and what the killed ssh     *)
(* client may have done in the guest.                                      *)

Racing == {"channel", "gate", "gate_record", "clone", "stage", "exec", "patch",
           "push", "touch", "write"}

Interrupts ==
    (IF ctrlc THEN {130} ELSE {}) \cup (IF first # NoCode THEN {first} ELSE {})
        \cup (IF "wall" \in opts THEN {124} ELSE {})

AbortStatus(code) == IF code = 124 THEN "timed_out" ELSE "cancelled"

(* The outcome is decided, and told, before the best-effort record.  A     *)
(* guest that wedged in a step may have done its work before it did.       *)
Interrupt ==
    /\ pc \in Racing
    /\ \E code \in Interrupts :
          /\ outcome' = code
          /\ IF completed # NoCode
             THEN Emit(<<Exited(completed, StatusOf(completed)),
                         Ev("workload_failed")>>)
             ELSE Emit(<<Exited(code, AbortStatus(code))>>)
    /\ result' \in CASE pc = "write" -> Written(FullRecord)
                     [] pc = "gate_record" /\ ~wedged -> Written(Record(1, "failed"))
                     [] OTHER -> {result}
    /\ pushed' \in IF pc = "push" THEN {pushed, TRUE} ELSE {pushed}
    /\ patch' \in IF pc = "patch" THEN BOOLEAN ELSE {patch}
    /\ pc' = "abort_record"
    /\ UNCHANGED <<host, completed, postErr, ending, exitCode>>

AbortRecordOverride == Record(outcome, AbortStatus(outcome))

(* record_aborted_run and record_interrupted_finalization, both within     *)
(* PRE_TEARDOWN_GRACE.                                                     *)
AbortRecord ==
    IF completed # NoCode
    THEN Record(completed, StatusOf(completed))
    ELSE Record(outcome, AbortStatus(outcome))

RecordAbortedUnbounded ==
    /\ pc = "abort_record"
    /\ result' \in IF wedged THEN {result} ELSE Written(AbortRecord)
    /\ pc' = IF wedged THEN pc ELSE "collect"
    /\ UNCHANGED <<host, stream, completed, patch, pushed, postErr, outcome,
                   ending, exitCode>>

RecordAborted ==
    /\ pc = "abort_record"
    /\ result' \in IF wedged THEN {result} ELSE Written(AbortRecord)
    /\ pc' = "collect"
    /\ UNCHANGED <<host, stream, completed, patch, pushed, postErr, outcome,
                   ending, exitCode>>

-----------------------------------------------------------------------------
(* collect_run_artifacts, teardown and the exit code.                      *)

Collect ==
    /\ pc = "collect"
    /\ IF Exec /\ "out" \in opts
       THEN Emit(<<Ev("collection_started")>>) /\ pc' = "collecting"
       ELSE UNCHANGED stream /\ pc' = "witness"
    /\ UNCHANGED <<host, work, outcome, ending, exitCode>>

(* The archive is listed and refused if a member is unsafe, then unpacked. *)
Extracted == IF wedged THEN {"before", "partial"} ELSE {"before", "partial", "collected"}

(* collect_out_to_host_observed clears --out, makes it again, reads the    *)
(* guest's archive and extracts it; any of them may fail.                  *)
CollectOut ==
    /\ pc = "collecting"
    /\ dest' \in Extracted
    /\ pc' = "changeset"
    /\ UNCHANGED <<host, stream, work, outcome, collection, exitCode>>

(* The change set is tried even then, and is best effort; but both share   *)
(* one PRE_TEARDOWN_GRACE, and the whole is what is told.                  *)
CollectToHost ==
    /\ pc = "changeset"
    /\ \/ /\ dest = "collected"
          /\ Emit(<<Ev("collection_done")>>)
          /\ UNCHANGED collection
       \/ /\ Emit(<<Ev("collection_failed")>>)
          /\ collection' = "err"
    /\ pc' = "witness"
    /\ UNCHANGED <<host, work, outcome, dest, exitCode>>

CaptureCompleteAlways == capture # "off"
CaptureComplete == capture = "live"

(* bounded_artifact_ownership: a chown that fails or is late is an error.  *)
ReturnOwnership == IF "out" \in opts THEN {collection, "err"} ELSE {collection}

(* Capture::stop and summarize_witness: complete only if it was still      *)
(* running, exited cleanly, was not capped, and the file could be read.    *)
(* Then persist_witness and the ownership of --out, either of which may    *)
(* fail.                                                                   *)
StopWitness ==
    /\ pc = "witness"
    /\ IF capture = "off"
       THEN UNCHANGED <<stream, capture>>
       ELSE /\ \E ok \in {CaptureComplete, FALSE} :
                  Emit(<<<<"witness_done", NoCode, IF ok THEN "complete" ELSE "partial">>>>)
            /\ capture' = "stopped"
    /\ collection' \in ReturnOwnership
    /\ pc' = "teardown"
    /\ UNCHANGED <<job, opts, work, outcome, dest, unseen, signals, wedged, exitCode>>

(* A kept room is left alone; otherwise cleanup_done is told only when     *)
(* nothing of the room is left.                                            *)
Teardown ==
    /\ pc = "teardown"
    /\ IF job = "keep"
       THEN UNCHANGED stream
       ELSE \E e \in {"cleanup_done", "cleanup_failed"} : Emit(<<Ev(e)>>)
    /\ pc' = IF Exec THEN "commit" ELSE "code"
    /\ UNCHANGED <<host, work, outcome, ending, exitCode>>

(* commit_terminal_handoff: a retained signal is the exit code; one that   *)
(* comes just then makes it an internal error (CloneBatch).                *)
Commit ==
    /\ pc = "commit"
    /\ \/ /\ first # NoCode
          /\ exitCode' = first
          /\ pc' = "end"
       \/ /\ first = NoCode
          /\ pc' = "code"
          /\ UNCHANGED exitCode
       \/ /\ first = NoCode
          /\ Signals # {}
          /\ exitCode' = Failure
          /\ pc' = "end"
    /\ UNCHANGED <<host, stream, work, outcome, ending>>

FinalCodeIgnoresCollection == outcome
FinalCode == IF outcome # Failure /\ collection = "err" THEN Failure ELSE outcome

Exit ==
    /\ pc = "code"
    /\ exitCode' = FinalCode
    /\ pc' = "end"
    /\ UNCHANGED <<host, stream, work, outcome, ending>>

-----------------------------------------------------------------------------
(* The surroundings.                                                       *)

(* CloneSignalSource is armed for a workload only. *)
Signal(s) ==
    /\ Exec
    /\ s \notin delivered
    /\ pc \notin {"claim", "code", "end"}
    /\ delivered' = delivered \cup {s}
    /\ first' = IF first = NoCode THEN s ELSE first
    /\ ctrlc' = (ctrlc \/ (s = 130 /\ pc \in Racing))
    /\ UNCHANGED <<job, opts, pc, stream, work, outcome, ending, capture,
                   unseen, wedged, exitCode>>

GuestWedges ==
    /\ pc \in Racing \cup {"abort_record", "collecting", "changeset"}
    /\ ~wedged
    /\ wedged' = TRUE
    /\ UNCHANGED <<job, opts, pc, stream, work, outcome, ending, capture,
                   unseen, signals, exitCode>>

(* tcpdump dies or reaches CAPTURE_CAP_BYTES; the run goes on.             *)
CaptureEnds ==
    /\ capture = "live"
    /\ capture' = "dead"
    /\ UNCHANGED <<job, opts, pc, stream, work, outcome, ending, unseen,
                   signals, wedged, exitCode>>

(* The VM is up from boot until its teardown.                              *)
GuestSends ==
    /\ "witness" \in opts
    /\ pc \notin {"claim", "boot", "commit", "code", "end"}
    /\ capture # "live"
    /\ unseen = "none"
    /\ unseen' = IF capture = "stopped" THEN "after" ELSE "before"
    /\ UNCHANGED <<job, opts, pc, stream, work, outcome, ending, capture,
                   signals, wedged, exitCode>>

Ended == pc = "end" /\ UNCHANGED vars

(* What the host does by itself, within its own timeouts.                  *)
HostStep ==
    \/ ClaimSlot \/ Boot \/ BootFails \/ IdleLinger
    \/ ChannelFails \/ GateOnSecrets \/ GateRecord
    \/ RecordAborted \/ Collect \/ CollectOut \/ CollectToHost \/ StopWitness \/ Teardown
    \/ Commit \/ Exit

(* What waits for the guest, or for the operator of a kept room.           *)
GuestStep ==
    \/ KeepWait \/ ProbePing \/ ProbeSsh \/ CloneRepo \/ StageInput \/ RunWrapped \/ GeneratePatch
    \/ PushBranch \/ TouchOutputs \/ WriteResult \/ WorkFails

Next ==
    \/ HostStep \/ GuestStep \/ Interrupt
    \/ \E s \in Signals : Signal(s)
    \/ GuestWedges \/ CaptureEnds \/ GuestSends \/ Ended

Spec == Init /\ [][Next]_vars

(* The process runs, its timers fire and the race is polled; the guest     *)
(* owes nothing.                                                           *)
FairSpec == Spec /\ WF_vars(HostStep) /\ WF_vars(Interrupt)

-----------------------------------------------------------------------------
Events == {"slot_allocated", "pool_full", "boot_failed", "witness_started",
           "vmm_started", "guest_ready", "ssh_ready", "guest_unreachable",
           "workload_failed", "workload_started", "secrets_delivered",
           "secrets_failed", "collection_started", "collection_done",
           "collection_failed", "cleanup_done", "cleanup_failed",
           "workload_exited", "witness_done"}
Codes == GuestExits \cup {1, 124, 130, 143}

(* The type of every variable; exit codes fit a byte.                      *)
TypeOK ==
    /\ \A i \in DOMAIN stream : stream[i][1] \in Events
    /\ completed \in GuestExits \cup {NoCode}
    /\ result \in {Absent, Torn} \cup
          [code : Codes, status : {"succeeded", "failed", "timed_out", "cancelled"},
           patch : BOOLEAN, pushed : BOOLEAN]
    /\ {patch, pushed, postErr, ctrlc, wedged} \subseteq BOOLEAN
    /\ outcome \in 0..255 \cup {Failure, NoCode}
    /\ collection \in {"none", "err"}
    /\ dest \in {"before", "partial", "collected"}
    /\ capture \in {"off", "live", "dead", "stopped"}
    /\ unseen \in {"none", "before", "after"}
    /\ delivered \subseteq Signals
    /\ exitCode \in 0..255 \cup {Failure, NoCode}

(* The order of the stream: the workload starts only after ssh answers and *)
(* every requested secret is acknowledged, never after secrets failed; it  *)
(* exits once; the witness is summarized after the collection it covers;   *)
(* nothing follows the cleanup.                                            *)
Before(a, b) == \A i, j \in DOMAIN stream :
                    stream[i][1] = a /\ stream[j][1] = b => i < j
StreamOrdered ==
    /\ Says("workload_started") =>
          /\ Before("ssh_ready", "workload_started") /\ Says("ssh_ready")
          /\ "secrets" \in opts => Says("secrets_delivered")
          /\ ~Says("secrets_failed")
    /\ \A i, j \in DOMAIN stream :
          stream[i][1] = "workload_exited" /\ stream[j][1] = "workload_exited" => i = j
    /\ Before("collection_done", "witness_done")
    /\ \A i \in DOMAIN stream :
          stream[i][1] \in {"cleanup_done", "cleanup_failed"} => i = Len(stream)

(* The stream and result.json "never disagree about one run"               *)
(* (WorkloadStatus): once the run is over, a result.json that can be read  *)
(* names the exit and the status of workload_exited.  A run whose secrets  *)
(* failed is excepted: see the README.  And at no time does result.json    *)
(* claim a push, a patch or a success that did not happen.                 *)
SurfacesAgree ==
    /\ (pc = "collect" /\ Exec /\ Readable
            /\ Says("workload_exited") /\ ~Says("secrets_failed")) =>
          \E i \in DOMAIN stream : stream[i] = Exited(result.code, result.status)
    /\ Readable =>
          /\ result.pushed => pushed
          /\ result.patch => patch
          /\ result.status = "succeeded" => completed = 0

(* Exit 0 of a workload means what a script would take it for: the command *)
(* exited 0, its record is in the guest, a requested branch push has not   *)
(* failed, the requested output is on the host, and no signal was dropped. *)
ZeroMeansDone ==
    (exitCode = 0 /\ Exec) =>
        /\ completed = 0
        /\ result = FullRecord
        /\ ~postErr
        /\ "out" \in opts => dest = "collected"
        /\ delivered = {}

(* A witness that calls itself complete saw every packet that left the     *)
(* guest up to the moment it was stopped, collection included.             *)
WitnessHonest ==
    (\E i \in DOMAIN stream : stream[i] = <<"witness_done", NoCode, "complete">>)
        => unseen # "before"

(* With a wall cap, or once a signal has come, the command ends, whatever  *)
(* the guest does.                                                         *)
CappedRunEnds ==
    ((Exec /\ ("wall" \in opts \/ first # NoCode)) \/ job = "idle") ~> (pc = "end")
=============================================================================
