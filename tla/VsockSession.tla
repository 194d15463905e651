---------------------------- MODULE VsockSession ----------------------------
(***************************************************************************)
(* One session over a room's vsock (src/src/vsock.rs), of one of three     *)
(* kinds: the secrets of a plain room (port 5000), the provisioning of a   *)
(* base with its quiesced beacon (5001, 5002), and the hygiene nudge of a  *)
(* restored room (5003).  A serving task on the host talks to an agent in  *)
(* the guest while the command that armed it waits with a timeout; when    *)
(* the wait ends, the handle is dropped, which asks the task to abort and  *)
(* unlinks the endpoints, and the task may still take steps before it      *)
(* reaches an await.                                                       *)
(*                                                                         *)
(* Host and agent each follow a script: a list of frames to send, records  *)
(* to expect and things to do; the underscore in the name of a record is   *)
(* the space on the wire.  An agent is "faithful", and then may still fail *)
(* or die anywhere, or "hasty": it answers before it is asked.             *)
(***************************************************************************)
EXTENDS Naturals, Sequences, FiniteSets

CONSTANTS
    MaxCandidates,  \* RESUME_PREFACE_MAX_CANDIDATES, of host and agent
    MaxConnects,    \* bound on the connections the agent opens
    MaxQueue,       \* bound on the records a hasty agent has in flight
    Second,         \* ticks of one second
    RetryWindow,    \* RESUME_PREFACE_RETRY_WINDOW in seconds
    ClockApplyMax,  \* RESUME_CLOCK_APPLY_MAX in seconds
    AckTimeout      \* the timeout of the waiting command, in ticks

ASSUME SessionAssumption ==
    /\ {MaxCandidates, MaxConnects, Second, RetryWindow, ClockApplyMax,
        AckTimeout} \subseteq Nat \ {0}
    /\ MaxQueue \in Nat

VARIABLES
    kind,       \* which of the three protocols
    agent,      \* "faithful" or "hasty"
    now,        \* the monotonic clock, up to AckTimeout
    endpoint,   \* the socket files that exist
    backlog,    \* connections not yet accepted
    cand,       \* the state of each connection the agent opened
    tried,      \* handshake_attempts of the agent
    task,       \* the serving task
    hpc,        \* where it is
    cur,        \* the connection it has accepted, or 0
    seen,       \* the candidates it has accepted
    deadline,   \* the end of the retry window, or 0 before it opens
    h,          \* its position in the host's script
    started,    \* clock_started
    epoch,      \* the wall time it put in CLOCK
    result,     \* what the waiting command gets
    gpc,        \* where the agent is
    g,          \* its position in the agent's script
    echo,       \* the challenge of the last frame it read
    known,      \* every challenge it has read
    done,       \* what it has done in the guest
    skew,       \* how far behind its clock was when it set it
    beacon,     \* the connection that carries the quiesced beacon
    toGuest, toHost

hostVars == <<task, hpc, cur, seen, deadline, h, started, epoch>>
guestVars == <<gpc, g, echo, known, done, skew>>
vars == <<kind, agent, now, endpoint, backlog, cand, tried, task, hpc, cur, seen,
          deadline, h, started, epoch, result, gpc, g, echo, known, done, skew,
          beacon, toGuest, toHost>>

Kinds == {"secrets", "provision", "resume"}
Challenges == {"clock", "continue"}
NoChallenge == "none"
NoSkew == AckTimeout + 1

Send(rec) == [op |-> "send", rec |-> rec, ch |-> NoChallenge]
Expect(rec) == [op |-> "expect", rec |-> rec, ch |-> NoChallenge]
Proof(rec, ch) == [op |-> "expect", rec |-> rec, ch |-> ch]
Step(op) == [op |-> op, rec |-> op, ch |-> NoChallenge]
Recv(rec) == [op |-> "recv", rec |-> rec, ch |-> NoChallenge]
Do(what) == [op |-> "do", rec |-> what, ch |-> NoChallenge]

(* serve_stream                                                            *)
SecretsScript == <<Send("BLOB"), Expect("OK")>>

(* serve_provisioning_inner                                                *)
ProvisionScript ==
    <<Send("BUNDLE"), Send("WARM"), Send("END"),
      Expect("ACK_stage"), Expect("ACK_clone"), Expect("ACK_warm"),
      Step("eof"), Step("accept_beacon"), Step("quiesced")>>

(* send_initial_resume_payload, complete_resume_protocol                   *)
ResumeScript ==
    <<Send("ENTROPY"), Send("IDENTITY"), Send("SECRETS"), Send("END"),
      Expect("STEP_reseeded"), Expect("STEP_identity"),
      Expect("STEP_hostkeys"), Expect("STEP_privilege"), Expect("READY_clock"),
      Step("start_clock"), Step("sample_clock"),
      Proof("APPLIED_clock", "clock"), Step("validate"),
      [op |-> "send", rec |-> "CONTINUE", ch |-> "continue"],
      Proof("STEP_clock", "continue"), Expect("STEP_sshd"),
      Expect("ACK_resume")>>

HostScript == [secrets |-> SecretsScript, provision |-> ProvisionScript,
               resume |-> ResumeScript]

(* scripts/lib: rooms-secrets-fetch.sh, rooms-provision-agent.sh and       *)
(* rooms-resume-apply.c.                                                   *)
AgentScript == [
  secrets |-> <<Recv("BLOB"), Do("staged"), Send("OK")>>,
  provision |->
    <<Recv("BUNDLE"), Do("stage"), Send("ACK_stage"), Do("clone"),
      Send("ACK_clone"), Recv("WARM"), Recv("END"), Do("warm"),
      Send("ACK_warm"), Do("quiesce"), Step("beacon")>>,
  resume |->
    <<Recv("ENTROPY"), Do("reseed"), Send("STEP_reseeded"),
      Recv("IDENTITY"), Recv("SECRETS"), Recv("END"),
      Do("identity"), Send("STEP_identity"), Do("hostkeys"),
      Send("STEP_hostkeys"), Do("privilege"), Send("STEP_privilege"),
      Send("READY_clock"), Recv("CLOCK"), Do("clock"), Send("APPLIED_clock"),
      Recv("CONTINUE"), Send("STEP_clock"), Do("sshd"), Send("STEP_sshd"),
      Send("ACK_resume")>> ]

Duties(k) == {AgentScript[k][i].rec : i \in
                {j \in 1..Len(AgentScript[k]) : AgentScript[k][j].op = "do"}}
Answers == {HostScript["resume"][i].rec : i \in
              {j \in 1..Len(HostScript["resume"]) :
                  HostScript["resume"][j].op = "expect"}}

(* What is on the wire: the name of a record and the challenge it carries. *)
Records ==
    {"BLOB", "OK", "BUNDLE", "WARM", "END", "ACK_stage", "ACK_clone", "ACK_warm",
     "ENTROPY", "IDENTITY", "SECRETS", "STEP_reseeded", "STEP_identity",
     "STEP_hostkeys", "STEP_privilege", "READY_clock", "CLOCK", "APPLIED_clock",
     "CONTINUE", "STEP_clock", "STEP_sshd", "ACK_resume", "ERR"}
Frames == Records \X (Challenges \cup {NoChallenge})

Serving == task \in {"running", "aborting"}
HostStep(op) ==
    /\ Serving
    /\ hpc = "script"
    /\ h <= Len(HostScript[kind])
    /\ HostScript[kind][h].op = op
AgentStep(op) ==
    /\ gpc = "script"
    /\ agent = "faithful"
    /\ g <= Len(AgentScript[kind])
    /\ AgentScript[kind][g].op = op

(* serve_one_shot, serve_provisioning and serve_resume bind their          *)
(* endpoints before the guest can run.                                     *)
Bound(k) == IF k = "provision" THEN {"main", "beacon"} ELSE {"main"}

Init ==
    /\ kind \in Kinds
    /\ agent \in IF kind = "resume" THEN {"faithful", "hasty"} ELSE {"faithful"}
    /\ now = 0
    /\ endpoint = Bound(kind)
    /\ backlog = <<>>
    /\ cand = [c \in 1..MaxConnects |-> "unused"]
    /\ tried = 0
    /\ task = "running"
    /\ hpc = "accept"
    /\ cur = 0
    /\ seen = 0
    /\ deadline = 0
    /\ h = 1
    /\ started = 0
    /\ epoch = 0
    /\ result = "pending"
    /\ gpc = "connect"
    /\ g = 1
    /\ echo = NoChallenge
    /\ known = {}
    /\ done = {}
    /\ skew = NoSkew
    /\ beacon = "none"
    /\ toGuest = <<>>
    /\ toHost = <<>>

Tick ==
    /\ now < AckTimeout
    /\ result = "pending"
    /\ now' = now + 1
    /\ UNCHANGED <<kind, agent, endpoint, backlog, cand, tried, hostVars, result,
                   guestVars, beacon, toGuest, toHost>>

-----------------------------------------------------------------------------
(* The host.                                                               *)

(* The task ends and drops its stream; outcome "ok" or "err" waits in the  *)
(* oneshot channel.                                                        *)
Finish(outcome) ==
    /\ task' = IF task = "aborting" THEN "aborted" ELSE outcome
    /\ hpc' = "ended"

(* accept: the first candidate opens the retry window of a resume.         *)
Accept ==
    /\ Serving
    /\ hpc = "accept"
    /\ backlog # <<>>
    /\ cur' = Head(backlog)
    /\ backlog' = Tail(backlog)
    /\ seen' = seen + 1
    /\ deadline' = IF kind = "resume" /\ deadline = 0
                   THEN now + RetryWindow * Second ELSE deadline
    /\ hpc' = IF kind = "resume" THEN "preface" ELSE "retire"
    /\ UNCHANGED <<kind, agent, now, endpoint, cand, tried, task, h, started,
                   epoch, result, guestVars, beacon, toGuest, toHost>>

(* read_resume_preface and the match on it: a candidate that closed after  *)
(* a strict prefix is passed over, and nothing was sent to it.             *)
MayRetry == seen < MaxCandidates

ReadPreface ==
    /\ Serving
    /\ hpc = "preface"
    /\ cand[cur] \in {"full", "retired", "wrong"}
    /\ \/ /\ cand[cur] = "full"
          /\ hpc' = "retire"
          /\ UNCHANGED <<task, cur>>
       \/ /\ cand[cur] = "retired"
          /\ MayRetry
          /\ hpc' = "accept"
          /\ cur' = 0
          /\ UNCHANGED task
       \/ /\ cand[cur] = "wrong" \/ (cand[cur] = "retired" /\ ~MayRetry)
          /\ Finish("err")
          /\ UNCHANGED cur
    /\ UNCHANGED <<kind, agent, now, endpoint, backlog, cand, tried, seen,
                   deadline, h, started, epoch, result, guestVars, beacon,
                   toGuest, toHost>>

(* timeout_at around accept and around the preface polls the socket first. *)
WindowExpires ==
    /\ Serving
    /\ deadline # 0
    /\ now >= deadline
    /\ \/ hpc = "accept" /\ backlog = <<>>
       \/ hpc = "preface" /\ cand[cur] = "connected"
    /\ Finish("err")
    /\ UNCHANGED <<kind, agent, now, endpoint, backlog, cand, tried, cur, seen,
                   deadline, h, started, epoch, result, guestVars, beacon,
                   toGuest, toHost>>

RetireLater ==
    /\ Serving
    /\ hpc = "retire"
    /\ hpc' = "script"
    /\ UNCHANGED <<kind, agent, now, endpoint, backlog, cand, tried, task, cur,
                   seen, deadline, h, started, epoch, result, guestVars, beacon,
                   toGuest, toHost>>

(* drop(listener) and remove_file: without the file a resume or a          *)
(* provisioning fails here; the secrets server only warns.                 *)
Retire ==
    /\ Serving
    /\ hpc = "retire"
    /\ endpoint' = endpoint \ {"main"}
    /\ backlog' = <<>>
    /\ IF "main" \in endpoint \/ kind = "secrets"
       THEN /\ hpc' = "script"
            /\ UNCHANGED task
       ELSE Finish("err")
    /\ UNCHANGED <<kind, agent, now, cand, tried, cur, seen, deadline, h, started,
                   epoch, result, guestVars, beacon, toGuest, toHost>>

Advance ==
    IF h = Len(HostScript[kind])
    THEN Finish("ok") /\ h' = h
    ELSE h' = h + 1 /\ UNCHANGED <<task, hpc>>

(* write_typed_frame and the other writes: a write to a connection the     *)
(* agent has closed may fail.                                              *)
SendFrame ==
    /\ HostStep("send")
    /\ \/ /\ LET s == HostScript[kind][h]
             IN  toGuest' = Append(toGuest, <<s.rec, s.ch>>)
          /\ Advance
       \/ /\ gpc # "script"
          /\ Finish("err")
          /\ UNCHANGED <<h, toGuest>>
    /\ UNCHANGED <<kind, agent, now, endpoint, backlog, cand, tried, cur, seen,
                   deadline, started, epoch, result, guestVars, beacon, toHost>>

(* read_bounded_line and the comparison: any other record, an ERR record   *)
(* and the end of the stream are errors.                                   *)
AcceptedAnyChallenge(s, m) == m[1] = s.rec
Accepted(s, m) == m = <<s.rec, s.ch>>

ExpectRecord ==
    /\ HostStep("expect")
    /\ \/ /\ toHost # <<>>
          /\ toHost' = Tail(toHost)
          /\ IF Accepted(HostScript[kind][h], Head(toHost))
             THEN Advance
             ELSE Finish("err") /\ h' = h
       \/ /\ toHost = <<>>
          /\ gpc # "script"
          /\ Finish("err")
          /\ UNCHANGED <<h, toHost>>
    /\ UNCHANGED <<kind, agent, now, endpoint, backlog, cand, tried, cur, seen,
                   deadline, started, epoch, result, guestVars, beacon, toGuest>>

(* The monotonic budget starts before the wall clock is sampled.           *)
StartClock ==
    /\ HostStep("start_clock")
    /\ started' = now
    /\ h' = h + 1
    /\ UNCHANGED <<kind, agent, now, endpoint, backlog, cand, tried, task, hpc,
                   cur, seen, deadline, epoch, result, guestVars, beacon,
                   toGuest, toHost>>

(* epoch_secs carries whole seconds.                                       *)
SampleClock ==
    /\ HostStep("sample_clock")
    /\ epoch' = (now \div Second) * Second
    /\ toGuest' = Append(toGuest, <<"CLOCK", "clock">>)
    /\ h' = h + 1
    /\ UNCHANGED <<kind, agent, now, endpoint, backlog, cand, tried, task, hpc,
                   cur, seen, deadline, started, result, guestVars, beacon,
                   toHost>>

ApplyExpires ==
    /\ HostStep("expect")
    /\ HostScript[kind][h].rec = "APPLIED_clock"
    /\ toHost = <<>>
    /\ now >= started + ClockApplyMax * Second
    /\ Finish("err")
    /\ UNCHANGED <<kind, agent, now, endpoint, backlog, cand, tried, cur, seen,
                   deadline, h, started, epoch, result, guestVars, beacon,
                   toGuest, toHost>>

(* validate_clock_application_elapsed, after the read.                     *)
AppliedAnyTime == now >= started
AppliedInTime == now - started < ClockApplyMax * Second

Validate ==
    /\ HostStep("validate")
    /\ IF AppliedInTime
       THEN h' = h + 1 /\ UNCHANGED <<task, hpc>>
       ELSE Finish("err") /\ h' = h
    /\ UNCHANGED <<kind, agent, now, endpoint, backlog, cand, tried, cur, seen,
                   deadline, started, epoch, result, guestVars, beacon, toGuest,
                   toHost>>

(* The provisioning connection must close with nothing more on it.         *)
AwaitClose ==
    /\ HostStep("eof")
    /\ \/ toHost # <<>> /\ Finish("err") /\ h' = h
       \/ toHost = <<>> /\ gpc # "script" /\ Advance
    /\ UNCHANGED <<kind, agent, now, endpoint, backlog, cand, tried, cur, seen,
                   deadline, started, epoch, result, guestVars, beacon, toGuest,
                   toHost>>

AcceptBeacon ==
    /\ HostStep("accept_beacon")
    /\ beacon \in {"queued", "whole", "cut"}
    /\ endpoint' = endpoint \ {"beacon"}
    /\ IF "beacon" \in endpoint
       THEN h' = h + 1 /\ UNCHANGED <<task, hpc>>
       ELSE Finish("err") /\ h' = h
    /\ UNCHANGED <<kind, agent, now, backlog, cand, tried, cur, seen, deadline,
                   started, epoch, result, guestVars, beacon, toGuest, toHost>>

(* read_to_end, and exactly the beacon.                                    *)
ReadBeacon ==
    /\ HostStep("quiesced")
    /\ \/ beacon = "whole" /\ Advance
       \/ beacon = "cut" /\ Finish("err") /\ h' = h
    /\ UNCHANGED <<kind, agent, now, endpoint, backlog, cand, tried, cur, seen,
                   deadline, started, epoch, result, guestVars, beacon, toGuest,
                   toHost>>

-----------------------------------------------------------------------------
(* The waiting command.  Its handle is dropped when the wait ends.         *)

AwaitResult ==
    /\ result = "pending"
    /\ task \in {"ok", "err"}
    /\ result' = task
    /\ endpoint' = {}
    /\ UNCHANGED <<kind, agent, now, backlog, cand, tried, hostVars, guestVars,
                   beacon, toGuest, toHost>>

TimedOutOnceConnected == now = AckTimeout /\ deadline # 0
TimedOut == now = AckTimeout

AwaitTimeout ==
    /\ result = "pending"
    /\ Serving
    /\ TimedOut
    /\ result' = "err"
    /\ task' = "aborting"
    /\ endpoint' = {}
    /\ UNCHANGED <<kind, agent, now, backlog, cand, tried, hpc, cur, seen,
                   deadline, h, started, epoch, guestVars, beacon, toGuest, toHost>>

(* The abort takes effect at the task's next await.                        *)
Abort ==
    /\ task = "aborting"
    /\ Finish("err")
    /\ UNCHANGED <<kind, agent, now, endpoint, backlog, cand, tried, cur, seen,
                   deadline, h, started, epoch, result, guestVars, beacon,
                   toGuest, toHost>>

-----------------------------------------------------------------------------
(* The agent.                                                              *)

Mine == CHOOSE c \in 0..MaxConnects :
            /\ \A d \in 1..MaxConnects : cand[d] # "unused" <=> d <= c

(* Only the resume agent sends a preface of its own.                       *)
Connect ==
    /\ gpc = "connect"
    /\ "main" \in endpoint
    /\ Mine < MaxConnects
    /\ cand' = [cand EXCEPT ![Mine + 1] = IF kind = "resume"
                                          THEN "connected" ELSE "full"]
    /\ backlog' = Append(backlog, Mine + 1)
    /\ gpc' = IF kind = "resume" THEN "preface" ELSE "script"
    /\ UNCHANGED <<kind, agent, now, endpoint, tried, hostVars, result, g, echo,
                   known, done, skew, beacon, toGuest, toHost>>

(* connect_resume_stream: a connect that times out in the guest is not     *)
(* counted as a handshake, though the host may have accepted it.           *)
Preface ==
    /\ gpc = "preface"
    /\ \/ /\ cand' = [cand EXCEPT ![Mine] = "full"]
          /\ gpc' = "script"
          /\ UNCHANGED tried
       \/ /\ cand' = [cand EXCEPT ![Mine] = "retired"]
          /\ tried' = tried + 1
          /\ gpc' = IF tried + 1 >= MaxCandidates THEN "failed" ELSE "connect"
       \/ /\ cand' = [cand EXCEPT ![Mine] = "retired"]
          /\ gpc' = "connect"
          /\ UNCHANGED tried
       \/ /\ agent = "hasty"
          /\ cand' = [cand EXCEPT ![Mine] = "wrong"]
          /\ gpc' = "failed"
          /\ UNCHANGED tried
    /\ UNCHANGED <<kind, agent, now, endpoint, backlog, hostVars, result, g, echo,
                   known, done, skew, beacon, toGuest, toHost>>

(* No endpoint: a boot-time fetch fails, the resume agent keeps polling    *)
(* until it has tried a handshake and its own window has passed.           *)
ConnectRefused ==
    /\ gpc = "connect"
    /\ "main" \notin endpoint
    /\ kind # "resume" \/ tried > 0
    /\ gpc' = "failed"
    /\ UNCHANGED <<kind, agent, now, endpoint, backlog, cand, tried, hostVars,
                   result, g, echo, known, done, skew, beacon, toGuest, toHost>>

Learn(m) ==
    /\ echo' = m[2]
    /\ known' = known \cup ({m[2]} \ {NoChallenge})

AgentRecv ==
    /\ AgentStep("recv")
    /\ IF toGuest # <<>>
       THEN /\ toGuest' = Tail(toGuest)
            /\ Learn(Head(toGuest))
            /\ IF Head(toGuest)[1] = AgentScript[kind][g].rec
               THEN g' = g + 1 /\ gpc' = gpc
               ELSE g' = g /\ gpc' = "failed"
       ELSE /\ ~Serving
            /\ gpc' = "failed"
            /\ UNCHANGED <<g, echo, known, toGuest>>
    /\ UNCHANGED <<kind, agent, now, endpoint, backlog, cand, tried, hostVars,
                   result, done, skew, beacon, toHost>>

AgentDo ==
    /\ AgentStep("do")
    /\ done' = done \cup {AgentScript[kind][g].rec}
    /\ skew' = IF AgentScript[kind][g].rec = "clock" THEN now - epoch ELSE skew
    /\ g' = g + 1
    /\ UNCHANGED <<kind, agent, now, endpoint, backlog, cand, tried, hostVars,
                   result, gpc, echo, known, beacon, toGuest, toHost>>

(* A record repeats the challenge of the frame it answers.                 *)
AgentSend ==
    /\ AgentStep("send")
    /\ IF Serving
       THEN /\ toHost' = Append(toHost, <<AgentScript[kind][g].rec,
                 IF AgentScript[kind][g].rec \in {"APPLIED_clock", "STEP_clock"}
                 THEN echo ELSE NoChallenge>>)
            /\ g' = g + 1
            /\ gpc' = gpc
       ELSE gpc' = "failed" /\ UNCHANGED <<g, toHost>>
    /\ UNCHANGED <<kind, agent, now, endpoint, backlog, cand, tried, hostVars,
                   result, echo, known, done, skew, beacon, toGuest>>

(* emit_beacon runs in the background of a session that is ending.         *)
AgentBeacon ==
    /\ AgentStep("beacon")
    /\ beacon' = "connecting"
    /\ g' = g + 1
    /\ UNCHANGED <<kind, agent, now, endpoint, backlog, cand, tried, hostVars,
                   result, gpc, echo, known, done, skew, toGuest, toHost>>

Beacon ==
    /\ \/ /\ beacon = "connecting"
          /\ beacon' = IF "beacon" \in endpoint THEN "queued" ELSE "refused"
       \/ /\ beacon = "queued"
          /\ beacon' \in {"whole", "cut"}
    /\ UNCHANGED <<kind, agent, now, endpoint, backlog, cand, tried, hostVars,
                   result, guestVars, toGuest, toHost>>

AgentExit ==
    /\ gpc = "script"
    /\ agent = "faithful"
    /\ g > Len(AgentScript[kind])
    /\ gpc' = "exited"
    /\ UNCHANGED <<kind, agent, now, endpoint, backlog, cand, tried, hostVars,
                   result, g, echo, known, done, skew, beacon, toGuest, toHost>>

(* A step fails and the agent reports ERR, or it dies without a word.      *)
AgentFails ==
    /\ gpc = "script"
    /\ gpc' = "failed"
    /\ toHost' \in {toHost, Append(toHost, <<"ERR", NoChallenge>>)}
    /\ UNCHANGED <<kind, agent, now, endpoint, backlog, cand, tried, hostVars,
                   result, g, echo, known, done, skew, beacon, toGuest>>

(* A hasty agent reads when it likes and answers what it has not been      *)
(* asked, with any challenge it has read.                                  *)
HastyRecv ==
    /\ gpc = "script"
    /\ agent = "hasty"
    /\ toGuest # <<>>
    /\ toGuest' = Tail(toGuest)
    /\ Learn(Head(toGuest))
    /\ skew' = IF Head(toGuest)[1] = "CLOCK" THEN now - epoch ELSE skew
    /\ UNCHANGED <<kind, agent, now, endpoint, backlog, cand, tried, hostVars,
                   result, gpc, g, done, beacon, toHost>>

HastySend ==
    /\ gpc = "script"
    /\ agent = "hasty"
    /\ Serving
    /\ Len(toHost) < MaxQueue
    /\ \E rec \in Answers, ch \in known \cup {NoChallenge} :
          toHost' = Append(toHost, <<rec, ch>>)
    /\ UNCHANGED <<kind, agent, now, endpoint, backlog, cand, tried, hostVars,
                   result, guestVars, beacon, toGuest>>

-----------------------------------------------------------------------------
HostNext ==
    \/ Accept \/ ReadPreface \/ WindowExpires \/ Retire
    \/ SendFrame \/ ExpectRecord \/ StartClock \/ SampleClock
    \/ ApplyExpires \/ Validate \/ AwaitClose \/ AcceptBeacon \/ ReadBeacon

Next ==
    \/ Tick \/ HostNext \/ AwaitResult \/ AwaitTimeout \/ Abort
    \/ Connect \/ Preface \/ ConnectRefused
    \/ AgentRecv \/ AgentDo \/ AgentSend \/ AgentBeacon \/ Beacon \/ AgentExit
    \/ AgentFails \/ HastyRecv \/ HastySend

Spec == Init /\ [][Next]_vars

(* Time passes, the runtime polls the task and the waiting command; the    *)
(* guest owes nothing.                                                     *)
FairSpec ==
    /\ Spec
    /\ WF_vars(Tick)
    /\ WF_vars(HostNext)
    /\ WF_vars(AwaitResult \/ AwaitTimeout)
    /\ WF_vars(Abort)

-----------------------------------------------------------------------------
(* The type of every variable.                                             *)
TypeOK ==
    /\ kind \in Kinds
    /\ agent \in {"faithful", "hasty"}
    /\ now \in 0..AckTimeout
    /\ endpoint \subseteq {"main", "beacon"}
    /\ backlog \in Seq(1..MaxConnects)
    /\ cand \in [1..MaxConnects ->
                    {"unused", "connected", "full", "retired", "wrong"}]
    /\ tried \in 0..MaxCandidates
    /\ task \in {"running", "aborting", "ok", "err", "aborted"}
    /\ hpc \in {"accept", "preface", "retire", "script", "ended"}
    /\ cur \in 0..MaxConnects
    /\ seen \in 0..MaxCandidates
    /\ deadline \in Nat
    /\ h \in 1..Len(HostScript[kind])
    /\ started \in 0..AckTimeout
    /\ epoch \in 0..AckTimeout
    /\ result \in {"pending", "ok", "err"}
    /\ gpc \in {"connect", "preface", "script", "exited", "failed"}
    /\ g \in 1..(Len(AgentScript[kind]) + 1)
    /\ echo \in Challenges \cup {NoChallenge}
    /\ known \subseteq Challenges
    /\ done \subseteq Duties(kind)
    /\ skew \in 0..NoSkew
    /\ beacon \in {"none", "connecting", "queued", "refused", "whole", "cut"}
    /\ toGuest \in Seq(Frames)
    /\ toHost \in Seq(Frames)

(* The payload leaves for one connection only, one that sent the whole     *)
(* preface, and once any of it is out no later candidate can be accepted:  *)
(* the endpoint is gone and its backlog with it (serve_resume_inner        *)
(* retires the endpoint "before entropy or secrets leave").                *)
PayloadToOne ==
    (hpc = "script" /\ h > 1) =>
        /\ cand[cur] = "full"
        /\ "main" \notin endpoint
        /\ backlog = <<>>
        /\ \A c \in 1..MaxConnects : cand[c] \in {"connected", "full"} => c = cur

(* What the waiting command takes for success was earned: a faithful agent *)
(* has done everything the protocol is for, and a hasty one has at least   *)
(* read both challenges, so it cannot have answered ahead of the clock or  *)
(* of the release.  A base is called quiesced only when nothing of the     *)
(* provisioning is left open for a snapshot to capture.                    *)
SuccessIsEarned ==
    result = "ok" =>
        /\ agent = "faithful" => done = Duties(kind)
        /\ kind = "resume" => known = Challenges
        /\ kind = "provision" => gpc # "script" /\ endpoint = {}

(* A guest opens ssh, and a restore reports success, only with a clock     *)
(* that was less than the budget plus one second of truncation behind when *)
(* it was set (RESUME_CLOCK_APPLY_MAX).                                    *)
IngressClockFresh ==
    ("sshd" \in done \/ (kind = "resume" /\ result = "ok")) =>
        skew < (ClockApplyMax + 1) * Second

(* The wait ends whatever the guest does, and then no endpoint and no      *)
(* serving task is left behind.                                            *)
SessionEnds == <>[](result # "pending" /\ endpoint = {} /\ ~Serving)
=============================================================================
