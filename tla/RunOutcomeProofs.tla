-------------------------- MODULE RunOutcomeProofs --------------------------
(***************************************************************************)
(* Proofs about RunOutcome for any set of jobs, options, signals and exit  *)
(* codes of the guest.                                                     *)
(*                                                                         *)
(* The argument: a run walks down one line of phases, and what each phase  *)
(* has not yet said, written or decided is an invariant of it (StoryInv,   *)
(* WorkInv).  Nothing that was told is untold, so an order on the stream   *)
(* is kept by a step that emits nothing whose successor is already there   *)
(* (OrderStep).  The capture is a machine of its own (CaptureInv): a       *)
(* packet is unseen "before" only after it ended by itself, and one that   *)
(* ended by itself is never called complete.                               *)
(***************************************************************************)
EXTENDS RunOutcome, TLAPS

-----------------------------------------------------------------------------
(* Sequences of events.                                                    *)

Words == {"none", "complete", "partial", "succeeded", "failed", "timed_out", "cancelled"}
Tok == Events \X Int \X Words
ToldIn(s) == {s[i] : i \in DOMAIN s}
NamesIn(s) == {s[i][1] : i \in DOMAIN s}

Cleanups == {"cleanup_done", "cleanup_failed"}

BeforeIn(s, a, b) == \A i, j \in DOMAIN s : s[i][1] = a /\ s[j][1] = b => i < j
OnceIn(s, a) == \A i, j \in DOMAIN s : s[i][1] = a /\ s[j][1] = a => i = j
LastIn(s) == \A i \in DOMAIN s : s[i][1] \in Cleanups => i = Len(s)
Ordered(s) ==
    /\ BeforeIn(s, "ssh_ready", "workload_started")
    /\ OnceIn(s, "workload_exited")
    /\ BeforeIn(s, "collection_done", "witness_done")
    /\ LastIn(s)

(* What the indices of a concatenation hold.                               *)
LEMMA Concat ==
    ASSUME NEW s \in Seq(Tok), NEW t \in Seq(Tok)
    PROVE  /\ s \o t \in Seq(Tok)
           /\ Len(s \o t) = Len(s) + Len(t)
           /\ DOMAIN (s \o t) = 1..(Len(s) + Len(t))
           /\ \A i \in DOMAIN s : (s \o t)[i] = s[i]
           /\ \A i \in DOMAIN t : (s \o t)[Len(s) + i] = t[i]
           /\ \A i \in DOMAIN (s \o t) :
                 i \in DOMAIN s \/ (i - Len(s) \in DOMAIN t /\ i > Len(s))
OBVIOUS

(* What is told after events t are appended to s.                          *)
LEMMA ToldGrows ==
    ASSUME NEW s \in Seq(Tok), NEW t \in Seq(Tok)
    PROVE  /\ ToldIn(s \o t) = ToldIn(s) \cup ToldIn(t)
           /\ NamesIn(s \o t) = NamesIn(s) \cup NamesIn(t)
<1> DEFINE u == s \o t
<1>1. /\ \A i \in DOMAIN s : i \in DOMAIN u /\ u[i] = s[i]
      /\ \A i \in DOMAIN t : Len(s) + i \in DOMAIN u /\ u[Len(s) + i] = t[i]
      /\ \A i \in DOMAIN u : \/ i \in DOMAIN s /\ u[i] = s[i]
                             \/ \E j \in DOMAIN t : u[i] = t[j]
  <2>1. \A i \in DOMAIN t : Len(s) + i \in DOMAIN u /\ u[Len(s) + i] = t[i]
    BY Concat
  <2>2. ASSUME NEW i \in DOMAIN u, i \notin DOMAIN s
        PROVE  \E j \in DOMAIN t : u[i] = t[j]
    <3>1. i - Len(s) \in DOMAIN t /\ i \in Int
      BY <2>2, Concat
    <3>2. Len(s) + (i - Len(s)) = i
      BY <3>1
    <3> QED
      BY <3>1, <3>2, <2>1
  <2> QED
    BY <2>1, <2>2, Concat
<1> HIDE DEF u
<1>2. ToldIn(u) = ToldIn(s) \cup ToldIn(t)
  BY <1>1 DEF ToldIn
<1>3. NamesIn(u) = NamesIn(s) \cup NamesIn(t)
  BY <1>1 DEF NamesIn
<1> QED
  BY <1>2, <1>3 DEF u

(* The events of the short lists the actions emit.                         *)
LEMMA One ==
    ASSUME NEW e \in Tok
    PROVE  /\ <<e>> \in Seq(Tok)
           /\ ToldIn(<<e>>) = {e}
           /\ NamesIn(<<e>>) = {e[1]}
           /\ OnceIn(<<e>>, "workload_exited")
           /\ Len(<<e>>) = 1
BY DEF ToldIn, NamesIn, OnceIn

(* The same for two events.                                                *)
LEMMA Two ==
    ASSUME NEW e \in Tok, NEW f \in Tok
    PROVE  /\ <<e, f>> \in Seq(Tok)
           /\ ToldIn(<<e, f>>) = {e, f}
           /\ NamesIn(<<e, f>>) = {e[1], f[1]}
           /\ f[1] # "workload_exited" => OnceIn(<<e, f>>, "workload_exited")
           /\ Len(<<e, f>>) = 2
BY DEF ToldIn, NamesIn, OnceIn

(* Names are those of what is told.                                        *)
LEMMA NamesTold == ASSUME NEW s PROVE NamesIn(s) = {e[1] : e \in ToldIn(s)}
BY DEF NamesIn, ToldIn

(* Appending t keeps the order of the stream, if nothing in t is late.     *)
LEMMA OrderStep ==
    ASSUME NEW s \in Seq(Tok), NEW t \in Seq(Tok), Ordered(s),
           "ssh_ready" \in NamesIn(t) =>
               "workload_started" \notin NamesIn(s) \cup NamesIn(t),
           "collection_done" \in NamesIn(t) =>
               "witness_done" \notin NamesIn(s) \cup NamesIn(t),
           "workload_exited" \in NamesIn(t) => "workload_exited" \notin NamesIn(s),
           OnceIn(t, "workload_exited"),
           t = <<>> \/ NamesIn(s) \cap Cleanups = {},
           NamesIn(t) \cap Cleanups = {} \/ Len(t) = 1
    PROVE  Ordered(s \o t)
<1> DEFINE u == s \o t
<1>1. /\ Len(s) \in Nat /\ Len(t) \in Nat
      /\ DOMAIN s = 1..Len(s) /\ DOMAIN t = 1..Len(t)
      /\ Len(u) = Len(s) + Len(t)
  BY Concat
<1>2. \A i \in DOMAIN u : /\ i \in Int /\ i <= Len(s) + Len(t)
                          /\ \/ i \in DOMAIN s /\ i <= Len(s) /\ u[i] = s[i]
                             \/ /\ i - Len(s) \in DOMAIN t /\ i > Len(s)
                                /\ u[i] = t[i - Len(s)]
  <2> SUFFICES ASSUME NEW i \in DOMAIN u, i \notin DOMAIN s
               PROVE  i - Len(s) \in DOMAIN t /\ i > Len(s) /\ u[i] = t[i - Len(s)]
    BY Concat
  <2>1. i \in Int /\ i - Len(s) \in DOMAIN t /\ i > Len(s)
    BY Concat
  <2>2. u[Len(s) + (i - Len(s))] = t[i - Len(s)]
    BY <2>1, Concat
  <2> QED
    BY <2>1, <2>2, <1>1
<1>3. \A i \in DOMAIN s : s[i][1] \in NamesIn(s)
  BY DEF NamesIn
<1>4. \A i \in DOMAIN t : t[i][1] \in NamesIn(t)
  BY DEF NamesIn
<1> HIDE DEF u
<1>5. ASSUME NEW a, NEW b, BeforeIn(s, a, b),
             a \in NamesIn(t) => b \notin NamesIn(s) \cup NamesIn(t)
      PROVE  BeforeIn(u, a, b)
  <2> SUFFICES ASSUME NEW i \in DOMAIN u, NEW j \in DOMAIN u,
                      u[i][1] = a, u[j][1] = b
               PROVE  i < j
    BY DEF BeforeIn
  <2>1. i \in DOMAIN s /\ i <= Len(s) /\ u[i] = s[i]
    BY <1>2, <1>3, <1>4, <1>5
  <2>2. CASE j \in DOMAIN s /\ u[j] = s[j]
    BY <2>1, <2>2, <1>5 DEF BeforeIn
  <2>3. CASE j > Len(s)
    BY <2>1, <2>3, <1>1, <1>2
  <2> QED
    BY <2>2, <2>3, <1>2
<1>6. OnceIn(u, "workload_exited")
  <2> SUFFICES ASSUME NEW i \in DOMAIN u, NEW j \in DOMAIN u,
                      u[i][1] = "workload_exited", u[j][1] = "workload_exited"
               PROVE  i = j
    BY DEF OnceIn
  <2>1. CASE i \in DOMAIN s /\ u[i] = s[i]
    <3>1. j \in DOMAIN s /\ u[j] = s[j]
      BY <2>1, <1>2, <1>3, <1>4
    <3> QED
      BY <2>1, <3>1 DEF Ordered, OnceIn
  <2>2. CASE i - Len(s) \in DOMAIN t /\ u[i] = t[i - Len(s)]
    <3>1. j - Len(s) \in DOMAIN t /\ u[j] = t[j - Len(s)]
      BY <2>2, <1>2, <1>3, <1>4
    <3>2. i - Len(s) = j - Len(s)
      BY <2>2, <3>1 DEF OnceIn
    <3> QED
      BY <3>2, <1>1, <1>2
  <2> QED
    BY <2>1, <2>2, <1>2
<1>7. LastIn(u)
  <2> SUFFICES ASSUME NEW i \in DOMAIN u, u[i][1] \in Cleanups
               PROVE  i = Len(u)
    BY DEF LastIn
  <2>1. CASE i \in DOMAIN s /\ u[i] = s[i]
    <3>1. t = <<>>
      BY <2>1, <1>3
    <3>2. Len(t) = 0
      BY <3>1
    <3> QED
      BY <2>1, <3>2, <1>1 DEF Ordered, LastIn
  <2>2. CASE i - Len(s) \in DOMAIN t /\ u[i] = t[i - Len(s)]
    <3>1. Len(t) = 1
      BY <2>2, <1>4
    <3> QED
      BY <2>2, <3>1, <1>1, <1>2
  <2> QED
    BY <2>1, <2>2, <1>2
<1>8. BeforeIn(u, "ssh_ready", "workload_started")
  BY <1>5 DEF Ordered
<1>9. BeforeIn(u, "collection_done", "witness_done")
  BY <1>5 DEF Ordered
<1> QED
  BY <1>6, <1>7, <1>8, <1>9 DEF Ordered, u

-----------------------------------------------------------------------------
(* The inductive invariant.                                                *)

Told == ToldIn(stream)
Names == NamesIn(stream)

Pre == {"claim", "boot", "wait", "linger"} \cup Racing
Phases == Pre \cup {"abort_record", "collect", "collecting", "changeset",
                    "witness", "teardown", "commit", "code", "end"}
Results == [code : Codes, status : {"succeeded", "failed", "timed_out", "cancelled"},
            patch : BOOLEAN, pushed : BOOLEAN]

Static ==
    /\ job \in Jobs /\ opts \in Requests /\ pc \in Phases
    /\ completed \in GuestExits \cup {NoCode}
    /\ outcome \in 0..255 \cup {Failure, NoCode}
    /\ collection \in {"none", "err"}
    /\ dest \in {"before", "partial", "collected"}
    /\ capture \in {"off", "live", "dead", "stopped"}
    /\ unseen \in {"none", "before", "after"}
    /\ delivered \subseteq Signals
    /\ first \in Signals \cup {NoCode}
    /\ exitCode \in 0..255 \cup {Failure, NoCode}

Flags == {patch, pushed, postErr, ctrlc, wedged} \subseteq BOOLEAN

Typed == Static /\ stream \in Seq(Tok)

(* Which runs reach a phase, and what is decided there.                    *)
WorkInv ==
    /\ first = NoCode <=> delivered = {}
    /\ pc = "wait" => job = "keep"
    /\ pc = "linger" => job = "idle"
    /\ pc \in Racing \cup {"abort_record", "collecting", "changeset", "commit"} => Exec
    /\ pc # "end" => exitCode = NoCode
    /\ pc \in Pre => outcome = NoCode
    /\ pc \in Pre \ {"patch", "push", "touch", "write"} => completed = NoCode
    /\ pc \in {"patch", "push", "touch", "write"} => completed # NoCode
    /\ pc = "abort_record" => outcome \in {124, 130, 143}
    /\ (Exec /\ "out" \in opts /\ collection = "none"
            /\ pc \in {"witness", "teardown", "commit", "code"}) => dest = "collected"
    /\ Exec /\ pc = "code" => first = NoCode
    /\ (Exec /\ exitCode = 0) =>
          /\ outcome = 0 /\ delivered = {}
          /\ "out" \in opts => dest = "collected"

(* A readable result.json claims no more than happened, and a workload     *)
(* that post_boot calls 0 has its full record in the guest.                *)
RecordInv ==
    /\ pc \in Pre => result = Absent
    /\ result \in {Absent, Torn} \cup Results
    /\ Readable => /\ result.pushed => pushed
                   /\ result.patch => patch
                   /\ result.status = "succeeded" => completed = 0
    /\ Exec /\ outcome = 0 => completed = 0 /\ result = FullRecord /\ ~postErr

CaptureInv ==
    /\ pc \in {"claim", "boot"} => unseen = "none"
    /\ pc \notin {"claim", "boot", "end"} /\ "witness" \in opts => capture # "off"
    /\ unseen = "before" => capture \in {"dead", "stopped"}
    /\ pc \notin {"teardown", "commit", "code", "end"} => capture # "stopped"

(* What a phase has said and has not said yet.                             *)
StoryInv ==
    /\ Ordered(stream)
    /\ pc \in Pre => "workload_exited" \notin Names
    /\ pc \notin {"teardown", "commit", "code", "end"} => "witness_done" \notin Names
    /\ pc \notin {"commit", "code", "end"} => Names \cap Cleanups = {}
    /\ pc \in {"claim", "boot", "wait", "linger", "channel", "gate", "gate_record"} =>
          "workload_started" \notin Names
    /\ pc \in Pre \ {"gate_record"} => "secrets_failed" \notin Names
    /\ pc = "gate_record" => "secrets_failed" \in Names
    /\ pc = "gate" => "ssh_ready" \in Names
    /\ "workload_started" \in Names =>
          /\ "ssh_ready" \in Names
          /\ "secrets" \in opts => "secrets_delivered" \in Names
          /\ "secrets_failed" \notin Names

(* The exit that was told is the one the record names or will name.        *)
AgreeInv ==
    /\ pc = "abort_record" => Exited(AbortRecord.code, AbortRecord.status) \in Told
    /\ (pc \in {"abort_record", "collect"} /\ Exec /\ Readable
            /\ "workload_exited" \in Names /\ "secrets_failed" \notin Names) =>
          Exited(result.code, result.status) \in Told

Complete == <<"witness_done", NoCode, "complete">>
HonestInv == Complete \in Told => capture = "stopped" /\ unseen # "before"

IndInv ==
    /\ Typed /\ Flags /\ WorkInv /\ RecordInv
    /\ CaptureInv /\ StoryInv /\ AgreeInv /\ HonestInv

-----------------------------------------------------------------------------
(* What a step that emits one event, or two, tells.                        *)

(* What is an event.                                                       *)
LEMMA IsTok ==
    ASSUME NEW n \in Events, NEW c \in Int, NEW s \in Words
    PROVE  <<n, c, s>> \in Tok /\ <<n, c, s>>[1] = n
<1>1. <<n, c, s>> \in Tok
  BY DEF Tok
<1>2. <<n, c, s>>[1] = n
  OBVIOUS
<1> QED
  BY <1>1, <1>2

(* The events the code builds are events, and none of them is the complete *)
(* witness.                                                                *)
LEMMA Events1 ==
    /\ \A n \in Events : Ev(n) \in Tok /\ Ev(n)[1] = n /\ Ev(n) # Complete
    /\ \A c \in Int, s \in Words : /\ Exited(c, s) \in Tok
                                    /\ Exited(c, s)[1] = "workload_exited"
                                    /\ Exited(c, s) # Complete
    /\ Complete \in Tok
<1>1. ASSUME NEW n \in Events PROVE Ev(n) \in Tok /\ Ev(n)[1] = n /\ Ev(n) # Complete
  <2>1. <<n, 1000, "none">>[3] # <<"witness_done", 1000, "complete">>[3]
    OBVIOUS
  <2>2. Ev(n) # Complete
    BY <2>1 DEF Ev, Complete, NoCode
  <2>3. NoCode \in Int /\ "none" \in Words
    BY DEF NoCode, Words
  <2> QED
    BY <2>2, <2>3, IsTok DEF Ev
<1>2. ASSUME NEW c \in Int, NEW s \in Words
      PROVE  /\ Exited(c, s) \in Tok
             /\ Exited(c, s)[1] = "workload_exited"
             /\ Exited(c, s) # Complete
  <2>1. <<"workload_exited", c, s>>[1] # <<"witness_done", NoCode, "complete">>[1]
    OBVIOUS
  <2>2. Exited(c, s) # Complete
    BY <2>1 DEF Exited, Complete
  <2>3. "workload_exited" \in Events
    BY DEF Events
  <2> QED
    BY <2>2, <2>3, IsTok DEF Exited
<1>3. Complete \in Tok
  <2>1. NoCode \in Int /\ "witness_done" \in Events /\ "complete" \in Words
    BY DEF NoCode, Events, Words
  <2> QED
    BY <2>1, IsTok DEF Complete
<1> QED
  BY <1>1, <1>2, <1>3

(* Short lists put together.                                               *)
LEMMA Joined ==
    ASSUME NEW e, NEW f
    PROVE  <<e>> \o <<f>> = <<e, f>> /\ <<>> \o <<e>> = <<e>> /\ <<e>> \o <<>> = <<e>>
<1>1. <<e>> \o <<f>> = <<e, f>>
  <2> DEFINE u == <<e>> \o <<f>>
  <2>1. <<e>> \in Seq({e, f}) /\ <<f>> \in Seq({e, f}) /\ Len(<<e>>) = 1 /\ Len(<<f>>) = 1
    OBVIOUS
  <2>2. u \in Seq({e, f}) /\ Len(u) = 2 /\ u[1] = e /\ u[2] = f
    BY <2>1
  <2> HIDE DEF u
  <2>3. u = <<e, f>>
    BY <2>2
  <2> QED
    BY <2>3 DEF u
<1>2. <<>> \o <<e>> = <<e>>
  OBVIOUS
<1>3. <<e>> \o <<>> = <<e>>
  OBVIOUS
<1> QED
  BY <1>1, <1>2, <1>3

(* Nothing is emitted once the room is torn down.                          *)
Talking == pc \notin {"commit", "code", "end"}

(* One event that is not late keeps the order and adds itself.             *)
LEMMA Tell1 ==
    ASSUME Typed, StoryInv, Talking, NEW e \in Tok, Emit(<<e>>),
           e[1] = "ssh_ready" => "workload_started" \notin Names,
           e[1] = "collection_done" => "witness_done" \notin Names,
           e[1] = "workload_exited" => "workload_exited" \notin Names
    PROVE  /\ stream' \in Seq(Tok)
           /\ Told' = Told \cup {e}
           /\ Names' = Names \cup {e[1]}
           /\ Ordered(stream')
<1>1. /\ stream \in Seq(Tok) /\ stream' = stream \o <<e>> /\ Ordered(stream)
      /\ Names \cap Cleanups = {}
  BY DEF Typed, StoryInv, Talking, Emit
<1>2. /\ <<e>> \in Seq(Tok) /\ ToldIn(<<e>>) = {e} /\ NamesIn(<<e>>) = {e[1]}
      /\ OnceIn(<<e>>, "workload_exited") /\ Len(<<e>>) = 1
  BY One
<1> DEFINE t == <<e>>
<1> HIDE DEF t
<1>3. Ordered(stream \o t)
  BY <1>1, <1>2, OrderStep DEF Names, t
<1> QED
  BY <1>1, <1>2, <1>3, ToldGrows, Concat DEF Told, Names, t

(* So do two events, the first of which may be the exit.                   *)
LEMMA Tell2 ==
    ASSUME Typed, StoryInv, Talking, NEW e \in Tok, NEW f \in Tok, Emit(<<e, f>>),
           {e[1], f[1]} \cap (Cleanups \cup {"collection_done"}) = {},
           e[1] # "ssh_ready", f[1] # "workload_exited",
           f[1] = "ssh_ready" => "workload_started" \notin Names \cup {e[1]},
           e[1] = "workload_exited" => "workload_exited" \notin Names
    PROVE  /\ stream' \in Seq(Tok)
           /\ Told' = Told \cup {e, f}
           /\ Names' = Names \cup {e[1], f[1]}
           /\ Ordered(stream')
<1>1. /\ stream \in Seq(Tok) /\ stream' = stream \o <<e, f>> /\ Ordered(stream)
      /\ Names \cap Cleanups = {}
  BY DEF Typed, StoryInv, Talking, Emit
<1> DEFINE t == <<e, f>>
<1>5. stream' = stream \o t
  BY <1>1
<1>2. /\ t \in Seq(Tok) /\ ToldIn(t) = {e, f} /\ NamesIn(t) = {e[1], f[1]}
      /\ OnceIn(t, "workload_exited")
  BY Two
<1> HIDE DEF t
<1>3. /\ "ssh_ready" \in NamesIn(t) => "workload_started" \notin NamesIn(stream) \cup NamesIn(t)
      /\ "collection_done" \notin NamesIn(t)
      /\ "workload_exited" \in NamesIn(t) => "workload_exited" \notin NamesIn(stream)
      /\ NamesIn(stream) \cap Cleanups = {}
      /\ NamesIn(t) \cap Cleanups = {}
  BY <1>1, <1>2 DEF Names
<1>4. Ordered(stream \o t)
  BY <1>1, <1>2, <1>3, OrderStep
<1> QED
  <2>1. Told' = ToldIn(stream \o t) /\ Names' = NamesIn(stream \o t)
    BY <1>5 DEF Told, Names
  <2>2. stream \o t \in Seq(Tok)
    BY <1>1, <1>2, Concat
  <2>3. /\ ToldIn(stream \o t) = ToldIn(stream) \cup ToldIn(t)
        /\ NamesIn(stream \o t) = NamesIn(stream) \cup NamesIn(t)
    BY <1>1, <1>2, ToldGrows
  <2> QED
    BY <1>2, <1>4, <1>5, <2>1, <2>2, <2>3 DEF Told, Names

(* Every step keeps the types of phases, codes and flags that are not      *)
(* Boolean.                                                                *)
LEMMA StaticStep == ASSUME Static, WorkInv, [Next]_vars PROVE Static'
<1>1. CASE ClaimSlot
  BY <1>1, RunAssumption DEF ClaimSlot, host, work, ending,
     Static, WorkInv, Phases, Pre, Racing, Exec, NoCode, Failure
<1>2. CASE Boot
  BY <1>2, RunAssumption DEF Boot, StartCapture, work, ending, signals,
     Static, WorkInv, Phases, Pre, Racing, Exec, NoCode, Failure
<1>3. CASE BootFails
  BY <1>3, RunAssumption DEF BootFails, host, work, ending,
     Static, WorkInv, Phases, Pre, Racing, Exec, NoCode, Failure
<1>4. CASE KeepWait
  BY <1>4, RunAssumption DEF KeepWait, Return, host, work, ending,
     Static, WorkInv, Phases, Pre, Racing, Exec, NoCode, Failure
<1>5. CASE IdleLinger
  BY <1>5, RunAssumption DEF IdleLinger, Return, host, work, ending,
     Static, WorkInv, Phases, Pre, Racing, Exec, NoCode, Failure
<1>6. CASE ProbePing
  BY <1>6, RunAssumption DEF ProbePing, host, work, ending,
     Static, WorkInv, Phases, Pre, Racing, Exec, NoCode, Failure
<1>7. CASE ProbeSsh
  BY <1>7, RunAssumption DEF ProbeSsh, host, work, ending,
     Static, WorkInv, Phases, Pre, Racing, Exec, NoCode, Failure
<1>8. CASE ChannelFails
  BY <1>8, RunAssumption DEF ChannelFails, Return, host, work, ending,
     Static, WorkInv, Phases, Pre, Racing, Exec, NoCode, Failure
<1>9. CASE GateOnSecrets
  BY <1>9, RunAssumption DEF GateOnSecrets, Start, host, work, ending,
     Static, WorkInv, Phases, Pre, Racing, Exec, NoCode, Failure
<1>10. CASE GateRecord
  BY <1>10, RunAssumption DEF GateRecord, Return, host, ending,
     Static, WorkInv, Phases, Pre, Racing, Exec, NoCode, Failure
<1>11. CASE WorkFails
  BY <1>11, RunAssumption DEF WorkFails, Return, host, ending,
     Static, WorkInv, Phases, Pre, Racing, Exec, NoCode, Failure
<1>12. CASE CloneRepo
  BY <1>12, RunAssumption DEF CloneRepo, host, work, ending,
     Static, WorkInv, Phases, Pre, Racing, Exec, NoCode, Failure
<1>13. CASE StageInput
  BY <1>13, RunAssumption DEF StageInput, host, work, ending,
     Static, WorkInv, Phases, Pre, Racing, Exec, NoCode, Failure
<1>14. CASE RunWrapped
  BY <1>14, RunAssumption DEF RunWrapped, AfterExec, host, ending,
     Static, WorkInv, Phases, Pre, Racing, Exec, NoCode, Failure
<1>15. CASE GeneratePatch
  BY <1>15, RunAssumption DEF GeneratePatch, AfterPatch, host, ending,
     Static, WorkInv, Phases, Pre, Racing, Exec, NoCode, Failure
<1>16. CASE PushBranch
  BY <1>16, RunAssumption DEF PushBranch, host, ending,
     Static, WorkInv, Phases, Pre, Racing, Exec, NoCode, Failure
<1>17. CASE TouchOutputs
  BY <1>17, RunAssumption DEF TouchOutputs, host, work, ending,
     Static, WorkInv, Phases, Pre, Racing, Exec, NoCode, Failure
<1>18. CASE WriteResult
  BY <1>18, RunAssumption DEF WriteResult, Return, ProcessCode, host, ending,
     Static, WorkInv, Phases, Pre, Racing, Exec, NoCode, Failure
<1>19. CASE Interrupt
  BY <1>19, RunAssumption DEF Interrupt, Interrupts, host, ending,
     Static, WorkInv, Phases, Pre, Racing, Exec, NoCode, Failure
<1>20. CASE RecordAborted
  BY <1>20, RunAssumption DEF RecordAborted, host, ending,
     Static, WorkInv, Phases, Pre, Racing, Exec, NoCode, Failure
<1>21. CASE Collect
  BY <1>21, RunAssumption DEF Collect, host, work, ending,
     Static, WorkInv, Phases, Pre, Racing, Exec, NoCode, Failure
<1>22. CASE CollectOut
  BY <1>22, RunAssumption DEF CollectOut, Extracted, host, work,
     Static, WorkInv, Phases, Pre, Racing, Exec, NoCode, Failure
<1>23. CASE CollectToHost
  BY <1>23, RunAssumption DEF CollectToHost, host, work,
     Static, WorkInv, Phases, Pre, Racing, Exec, NoCode, Failure
<1>24. CASE StopWitness
  BY <1>24, RunAssumption DEF StopWitness, ReturnOwnership, work, signals,
     Static, WorkInv, Phases, Pre, Racing, Exec, NoCode, Failure
<1>25. CASE Teardown
  BY <1>25, RunAssumption DEF Teardown, host, work, ending,
     Static, WorkInv, Phases, Pre, Racing, Exec, NoCode, Failure
<1>26. CASE Commit
  BY <1>26, RunAssumption DEF Commit, host, work, ending,
     Static, WorkInv, Phases, Pre, Racing, Exec, NoCode, Failure
<1>27. CASE Exit
  BY <1>27, RunAssumption DEF Exit, FinalCode, host, work, ending,
     Static, WorkInv, Phases, Pre, Racing, Exec, NoCode, Failure
<1>28. CASE GuestWedges
  BY <1>28, RunAssumption DEF GuestWedges, work, ending, signals,
     Static, WorkInv, Phases, Pre, Racing, Exec, NoCode, Failure
<1>29. CASE CaptureEnds
  BY <1>29, RunAssumption DEF CaptureEnds, work, ending, signals,
     Static, WorkInv, Phases, Pre, Racing, Exec, NoCode, Failure
<1>30. CASE GuestSends
  BY <1>30, RunAssumption DEF GuestSends, work, ending, signals,
     Static, WorkInv, Phases, Pre, Racing, Exec, NoCode, Failure
<1>31. CASE \E s \in Signals : Signal(s)
  BY <1>31, RunAssumption DEF Signal, work, ending,
     Static, WorkInv, Phases, Pre, Racing, Exec, NoCode, Failure
<1>32. CASE UNCHANGED vars
  BY <1>32 DEF vars, Static, WorkInv, Phases, Pre, Racing, Exec, NoCode, Failure
<1> QED
  BY <1>1, <1>2, <1>3, <1>4, <1>5, <1>6, <1>7, <1>8, <1>9, <1>10, <1>11,
     <1>12, <1>13, <1>14, <1>15, <1>16, <1>17, <1>18, <1>19, <1>20, <1>21,
     <1>22, <1>23, <1>24, <1>25, <1>26, <1>27, <1>28, <1>29, <1>30, <1>31,
     <1>32
  DEF Next, HostStep, GuestStep, Ended

(* Every step keeps the Boolean flags Boolean.                             *)
LEMMA FlagsStep == ASSUME Flags, [Next]_vars PROVE Flags'
<1>1. CASE ClaimSlot
  BY <1>1 DEF ClaimSlot, host, work, ending,
     Flags, Exec
<1>2. CASE Boot
  BY <1>2 DEF Boot, StartCapture, work, ending, signals,
     Flags, Exec
<1>3. CASE BootFails
  BY <1>3 DEF BootFails, host, work, ending,
     Flags, Exec
<1>4. CASE KeepWait
  BY <1>4 DEF KeepWait, Return, host, work, ending,
     Flags, Exec
<1>5. CASE IdleLinger
  BY <1>5 DEF IdleLinger, Return, host, work, ending,
     Flags, Exec
<1>6. CASE ProbePing
  BY <1>6 DEF ProbePing, host, work, ending,
     Flags, Exec
<1>7. CASE ProbeSsh
  BY <1>7 DEF ProbeSsh, host, work, ending,
     Flags, Exec
<1>8. CASE ChannelFails
  BY <1>8 DEF ChannelFails, Return, host, work, ending,
     Flags, Exec
<1>9. CASE GateOnSecrets
  BY <1>9 DEF GateOnSecrets, Start, host, work, ending,
     Flags, Exec
<1>10. CASE GateRecord
  BY <1>10 DEF GateRecord, Return, host, ending,
     Flags, Exec
<1>11. CASE WorkFails
  BY <1>11 DEF WorkFails, Return, host, ending,
     Flags, Exec
<1>12. CASE CloneRepo
  BY <1>12 DEF CloneRepo, host, work, ending,
     Flags, Exec
<1>13. CASE StageInput
  BY <1>13 DEF StageInput, host, work, ending,
     Flags, Exec
<1>14. CASE RunWrapped
  BY <1>14 DEF RunWrapped, AfterExec, host, ending,
     Flags, Exec
<1>15. CASE GeneratePatch
  BY <1>15 DEF GeneratePatch, AfterPatch, host, ending,
     Flags, Exec
<1>16. CASE PushBranch
  BY <1>16 DEF PushBranch, host, ending,
     Flags, Exec
<1>17. CASE TouchOutputs
  BY <1>17 DEF TouchOutputs, host, work, ending,
     Flags, Exec
<1>18. CASE WriteResult
  BY <1>18 DEF WriteResult, Return, ProcessCode, host, ending,
     Flags, Exec
<1>19. CASE Interrupt
  BY <1>19 DEF Interrupt, Interrupts, host, ending,
     Flags, Exec
<1>20. CASE RecordAborted
  BY <1>20 DEF RecordAborted, host, ending,
     Flags, Exec
<1>21. CASE Collect
  BY <1>21 DEF Collect, host, work, ending,
     Flags, Exec
<1>22. CASE CollectOut
  BY <1>22 DEF CollectOut, Extracted, host, work,
     Flags, Exec
<1>23. CASE CollectToHost
  BY <1>23 DEF CollectToHost, host, work,
     Flags, Exec
<1>24. CASE StopWitness
  BY <1>24 DEF StopWitness, ReturnOwnership, work, signals,
     Flags, Exec
<1>25. CASE Teardown
  BY <1>25 DEF Teardown, host, work, ending,
     Flags, Exec
<1>26. CASE Commit
  BY <1>26 DEF Commit, host, work, ending,
     Flags, Exec
<1>27. CASE Exit
  BY <1>27 DEF Exit, FinalCode, host, work, ending,
     Flags, Exec
<1>28. CASE GuestWedges
  BY <1>28 DEF GuestWedges, work, ending, signals,
     Flags, Exec
<1>29. CASE CaptureEnds
  BY <1>29 DEF CaptureEnds, work, ending, signals,
     Flags, Exec
<1>30. CASE GuestSends
  BY <1>30 DEF GuestSends, work, ending, signals,
     Flags, Exec
<1>31. CASE \E s \in Signals : Signal(s)
  BY <1>31 DEF Signal, work, ending,
     Flags, Exec
<1>32. CASE UNCHANGED vars
  BY <1>32 DEF vars, Flags, Exec
<1> QED
  BY <1>1, <1>2, <1>3, <1>4, <1>5, <1>6, <1>7, <1>8, <1>9, <1>10, <1>11,
     <1>12, <1>13, <1>14, <1>15, <1>16, <1>17, <1>18, <1>19, <1>20, <1>21,
     <1>22, <1>23, <1>24, <1>25, <1>26, <1>27, <1>28, <1>29, <1>30, <1>31,
     <1>32
  DEF Next, HostStep, GuestStep, Ended

(* Every step keeps what the phases say about codes, signals and --out.    *)
LEMMA WorkStep == ASSUME Static, WorkInv, [Next]_vars PROVE WorkInv'
<1>1. CASE ClaimSlot
  BY <1>1, RunAssumption DEF ClaimSlot, host, work, ending,
     Static, WorkInv, Phases, Pre, Racing, Exec, NoCode, Failure
<1>2. CASE Boot
  BY <1>2, RunAssumption DEF Boot, StartCapture, work, ending, signals,
     Static, WorkInv, Phases, Pre, Racing, Exec, NoCode, Failure
<1>3. CASE BootFails
  BY <1>3, RunAssumption DEF BootFails, host, work, ending,
     Static, WorkInv, Phases, Pre, Racing, Exec, NoCode, Failure
<1>4. CASE KeepWait
  BY <1>4, RunAssumption DEF KeepWait, Return, host, work, ending,
     Static, WorkInv, Phases, Pre, Racing, Exec, NoCode, Failure
<1>5. CASE IdleLinger
  BY <1>5, RunAssumption DEF IdleLinger, Return, host, work, ending,
     Static, WorkInv, Phases, Pre, Racing, Exec, NoCode, Failure
<1>6. CASE ProbePing
  BY <1>6, RunAssumption DEF ProbePing, host, work, ending,
     Static, WorkInv, Phases, Pre, Racing, Exec, NoCode, Failure
<1>7. CASE ProbeSsh
  BY <1>7, RunAssumption DEF ProbeSsh, host, work, ending,
     Static, WorkInv, Phases, Pre, Racing, Exec, NoCode, Failure
<1>8. CASE ChannelFails
  BY <1>8, RunAssumption DEF ChannelFails, Return, host, work, ending,
     Static, WorkInv, Phases, Pre, Racing, Exec, NoCode, Failure
<1>9. CASE GateOnSecrets
  BY <1>9, RunAssumption DEF GateOnSecrets, Start, host, work, ending,
     Static, WorkInv, Phases, Pre, Racing, Exec, NoCode, Failure
<1>10. CASE GateRecord
  BY <1>10, RunAssumption DEF GateRecord, Return, host, ending,
     Static, WorkInv, Phases, Pre, Racing, Exec, NoCode, Failure
<1>11. CASE WorkFails
  BY <1>11, RunAssumption DEF WorkFails, Return, host, ending,
     Static, WorkInv, Phases, Pre, Racing, Exec, NoCode, Failure
<1>12. CASE CloneRepo
  BY <1>12, RunAssumption DEF CloneRepo, host, work, ending,
     Static, WorkInv, Phases, Pre, Racing, Exec, NoCode, Failure
<1>13. CASE StageInput
  BY <1>13, RunAssumption DEF StageInput, host, work, ending,
     Static, WorkInv, Phases, Pre, Racing, Exec, NoCode, Failure
<1>14. CASE RunWrapped
  BY <1>14, RunAssumption DEF RunWrapped, AfterExec, host, ending,
     Static, WorkInv, Phases, Pre, Racing, Exec, NoCode, Failure
<1>15. CASE GeneratePatch
  BY <1>15, RunAssumption DEF GeneratePatch, AfterPatch, host, ending,
     Static, WorkInv, Phases, Pre, Racing, Exec, NoCode, Failure
<1>16. CASE PushBranch
  BY <1>16, RunAssumption DEF PushBranch, host, ending,
     Static, WorkInv, Phases, Pre, Racing, Exec, NoCode, Failure
<1>17. CASE TouchOutputs
  BY <1>17, RunAssumption DEF TouchOutputs, host, work, ending,
     Static, WorkInv, Phases, Pre, Racing, Exec, NoCode, Failure
<1>18. CASE WriteResult
  BY <1>18, RunAssumption DEF WriteResult, Return, ProcessCode, host, ending,
     Static, WorkInv, Phases, Pre, Racing, Exec, NoCode, Failure
<1>19. CASE Interrupt
  BY <1>19, RunAssumption DEF Interrupt, Interrupts, host, ending,
     Static, WorkInv, Phases, Pre, Racing, Exec, NoCode, Failure
<1>20. CASE RecordAborted
  BY <1>20, RunAssumption DEF RecordAborted, host, ending,
     Static, WorkInv, Phases, Pre, Racing, Exec, NoCode, Failure
<1>21. CASE Collect
  BY <1>21, RunAssumption DEF Collect, host, work, ending,
     Static, WorkInv, Phases, Pre, Racing, Exec, NoCode, Failure
<1>22. CASE CollectOut
  BY <1>22, RunAssumption DEF CollectOut, Extracted, host, work,
     Static, WorkInv, Phases, Pre, Racing, Exec, NoCode, Failure
<1>23. CASE CollectToHost
  BY <1>23, RunAssumption DEF CollectToHost, host, work,
     Static, WorkInv, Phases, Pre, Racing, Exec, NoCode, Failure
<1>24. CASE StopWitness
  BY <1>24, RunAssumption DEF StopWitness, ReturnOwnership, work, signals,
     Static, WorkInv, Phases, Pre, Racing, Exec, NoCode, Failure
<1>25. CASE Teardown
  BY <1>25, RunAssumption DEF Teardown, host, work, ending,
     Static, WorkInv, Phases, Pre, Racing, Exec, NoCode, Failure
<1>26. CASE Commit
  BY <1>26, RunAssumption DEF Commit, host, work, ending,
     Static, WorkInv, Phases, Pre, Racing, Exec, NoCode, Failure
<1>27. CASE Exit
  BY <1>27, RunAssumption DEF Exit, FinalCode, host, work, ending,
     Static, WorkInv, Phases, Pre, Racing, Exec, NoCode, Failure
<1>28. CASE GuestWedges
  BY <1>28, RunAssumption DEF GuestWedges, work, ending, signals,
     Static, WorkInv, Phases, Pre, Racing, Exec, NoCode, Failure
<1>29. CASE CaptureEnds
  BY <1>29, RunAssumption DEF CaptureEnds, work, ending, signals,
     Static, WorkInv, Phases, Pre, Racing, Exec, NoCode, Failure
<1>30. CASE GuestSends
  BY <1>30, RunAssumption DEF GuestSends, work, ending, signals,
     Static, WorkInv, Phases, Pre, Racing, Exec, NoCode, Failure
<1>31. CASE \E s \in Signals : Signal(s)
  BY <1>31, RunAssumption DEF Signal, work, ending,
     Static, WorkInv, Phases, Pre, Racing, Exec, NoCode, Failure
<1>32. CASE UNCHANGED vars
  BY <1>32 DEF vars, Static, WorkInv, Phases, Pre, Racing, Exec, NoCode, Failure
<1> QED
  BY <1>1, <1>2, <1>3, <1>4, <1>5, <1>6, <1>7, <1>8, <1>9, <1>10, <1>11,
     <1>12, <1>13, <1>14, <1>15, <1>16, <1>17, <1>18, <1>19, <1>20, <1>21,
     <1>22, <1>23, <1>24, <1>25, <1>26, <1>27, <1>28, <1>29, <1>30, <1>31,
     <1>32
  DEF Next, HostStep, GuestStep, Ended

(* Every step keeps the life of the capture.                               *)
LEMMA CaptureStep == ASSUME Static, CaptureInv, [Next]_vars PROVE CaptureInv'
<1>1. CASE ClaimSlot
  BY <1>1 DEF ClaimSlot, host, work, ending,
     Static, CaptureInv, Phases, Pre, Racing
<1>2. CASE Boot
  BY <1>2 DEF Boot, StartCapture, work, ending, signals,
     Static, CaptureInv, Phases, Pre, Racing
<1>3. CASE BootFails
  BY <1>3 DEF BootFails, host, work, ending,
     Static, CaptureInv, Phases, Pre, Racing
<1>4. CASE KeepWait
  BY <1>4 DEF KeepWait, Return, host, work, ending,
     Static, CaptureInv, Phases, Pre, Racing
<1>5. CASE IdleLinger
  BY <1>5 DEF IdleLinger, Return, host, work, ending,
     Static, CaptureInv, Phases, Pre, Racing
<1>6. CASE ProbePing
  BY <1>6 DEF ProbePing, host, work, ending,
     Static, CaptureInv, Phases, Pre, Racing
<1>7. CASE ProbeSsh
  BY <1>7 DEF ProbeSsh, host, work, ending,
     Static, CaptureInv, Phases, Pre, Racing
<1>8. CASE ChannelFails
  BY <1>8 DEF ChannelFails, Return, host, work, ending,
     Static, CaptureInv, Phases, Pre, Racing
<1>9. CASE GateOnSecrets
  BY <1>9 DEF GateOnSecrets, Start, host, work, ending,
     Static, CaptureInv, Phases, Pre, Racing
<1>10. CASE GateRecord
  BY <1>10 DEF GateRecord, Return, host, ending,
     Static, CaptureInv, Phases, Pre, Racing
<1>11. CASE WorkFails
  BY <1>11 DEF WorkFails, Return, host, ending,
     Static, CaptureInv, Phases, Pre, Racing
<1>12. CASE CloneRepo
  BY <1>12 DEF CloneRepo, host, work, ending,
     Static, CaptureInv, Phases, Pre, Racing
<1>13. CASE StageInput
  BY <1>13 DEF StageInput, host, work, ending,
     Static, CaptureInv, Phases, Pre, Racing
<1>14. CASE RunWrapped
  BY <1>14 DEF RunWrapped, AfterExec, host, ending,
     Static, CaptureInv, Phases, Pre, Racing
<1>15. CASE GeneratePatch
  BY <1>15 DEF GeneratePatch, AfterPatch, host, ending,
     Static, CaptureInv, Phases, Pre, Racing
<1>16. CASE PushBranch
  BY <1>16 DEF PushBranch, host, ending,
     Static, CaptureInv, Phases, Pre, Racing
<1>17. CASE TouchOutputs
  BY <1>17 DEF TouchOutputs, host, work, ending,
     Static, CaptureInv, Phases, Pre, Racing
<1>18. CASE WriteResult
  BY <1>18 DEF WriteResult, Return, ProcessCode, host, ending,
     Static, CaptureInv, Phases, Pre, Racing
<1>19. CASE Interrupt
  BY <1>19 DEF Interrupt, Interrupts, host, ending,
     Static, CaptureInv, Phases, Pre, Racing
<1>20. CASE RecordAborted
  BY <1>20 DEF RecordAborted, host, ending,
     Static, CaptureInv, Phases, Pre, Racing
<1>21. CASE Collect
  BY <1>21 DEF Collect, host, work, ending,
     Static, CaptureInv, Phases, Pre, Racing
<1>22. CASE CollectOut
  BY <1>22 DEF CollectOut, Extracted, host, work,
     Static, CaptureInv, Phases, Pre, Racing
<1>23. CASE CollectToHost
  BY <1>23 DEF CollectToHost, host, work,
     Static, CaptureInv, Phases, Pre, Racing
<1>24. CASE StopWitness
  BY <1>24 DEF StopWitness, ReturnOwnership, work, signals,
     Static, CaptureInv, Phases, Pre, Racing
<1>25. CASE Teardown
  BY <1>25 DEF Teardown, host, work, ending,
     Static, CaptureInv, Phases, Pre, Racing
<1>26. CASE Commit
  BY <1>26 DEF Commit, host, work, ending,
     Static, CaptureInv, Phases, Pre, Racing
<1>27. CASE Exit
  BY <1>27 DEF Exit, FinalCode, host, work, ending,
     Static, CaptureInv, Phases, Pre, Racing
<1>28. CASE GuestWedges
  BY <1>28 DEF GuestWedges, work, ending, signals,
     Static, CaptureInv, Phases, Pre, Racing
<1>29. CASE CaptureEnds
  BY <1>29 DEF CaptureEnds, work, ending, signals,
     Static, CaptureInv, Phases, Pre, Racing
<1>30. CASE GuestSends
  BY <1>30 DEF GuestSends, work, ending, signals,
     Static, CaptureInv, Phases, Pre, Racing
<1>31. CASE \E s \in Signals : Signal(s)
  BY <1>31 DEF Signal, work, ending,
     Static, CaptureInv, Phases, Pre, Racing
<1>32. CASE UNCHANGED vars
  BY <1>32 DEF vars, Static, CaptureInv, Phases, Pre, Racing
<1> QED
  BY <1>1, <1>2, <1>3, <1>4, <1>5, <1>6, <1>7, <1>8, <1>9, <1>10, <1>11,
     <1>12, <1>13, <1>14, <1>15, <1>16, <1>17, <1>18, <1>19, <1>20, <1>21,
     <1>22, <1>23, <1>24, <1>25, <1>26, <1>27, <1>28, <1>29, <1>30, <1>31,
     <1>32
  DEF Next, HostStep, GuestStep, Ended

-----------------------------------------------------------------------------
(* The record in the guest.                                                *)

(* The fields of a record, and what cannot be confused with a torn one.    *)
LEMMA RecordFields ==
    ASSUME NEW c, NEW s
    PROVE  /\ Record(c, s).code = c /\ Record(c, s).status = s
           /\ Record(c, s).patch = FALSE /\ Record(c, s).pushed = FALSE
           /\ (c \in Codes /\ s \in {"succeeded", "failed", "timed_out", "cancelled"})
                 => Record(c, s) \in Results
BY DEF Record, Results

(* The fields of the full record of run_workload.                          *)
LEMMA FullFields ==
    /\ FullRecord.code = completed /\ FullRecord.status = StatusOf(completed)
    /\ FullRecord.patch = patch /\ FullRecord.pushed = pushed
    /\ (Flags /\ completed \in GuestExits) => FullRecord \in Results
BY DEF FullRecord, Record, Results, Flags, Codes, StatusOf

(* The record of a run whose secrets failed.                               *)
LEMMA FailedFields ==
    /\ Record(1, "failed").patch = FALSE /\ Record(1, "failed").pushed = FALSE
    /\ Record(1, "failed").status = "failed" /\ Record(1, "failed") \in Results
<1>1. 1 \in Codes
  BY DEF Codes
<1> QED
  BY <1>1, RecordFields

(* A full record whose writer was interrupted or failed claims no more     *)
(* than happened.                                                          *)
LEMMA LateRecord ==
    ASSUME Flags, completed \in GuestExits, result' = FullRecord, outcome' # 0,
           pc' \notin Pre, UNCHANGED <<completed, patch, pushed>>
    PROVE  RecordInv'
<1>1. /\ result' \in Results
      /\ result'.pushed = pushed' /\ result'.patch = patch'
      /\ result'.status = StatusOf(completed)
  BY FullFields
<1>2. result'.status = "succeeded" => completed' = 0
  BY <1>1 DEF StatusOf
<1> QED
  BY <1>1, <1>2 DEF RecordInv

(* A step that leaves the work alone leaves its record as good as it was.  *)
LEMMA RecordFrame ==
    ASSUME RecordInv, UNCHANGED <<job, completed, result, patch, pushed, postErr>>,
           (Exec /\ outcome' = 0) => outcome = 0, pc' \in Pre => pc \in Pre
    PROVE  RecordInv'
BY DEF RecordInv, Readable, FullRecord, Exec

(* So does one that works while there is no record.                        *)
LEMMA RecordPre ==
    ASSUME result' = Absent \/ result' = Torn, outcome' # 0, pc' \in Pre => result' = Absent
    PROVE  RecordInv'
BY DEF RecordInv, Readable

(* Every step keeps the record honest.                                     *)
LEMMA RecordStep == ASSUME Static, Flags, WorkInv, RecordInv, [Next]_vars PROVE RecordInv'
<1>1. CASE ClaimSlot
  BY <1>1, RecordFrame
  DEF ClaimSlot, host, work, WorkInv, Exec, Pre, Racing, Failure
<1>2. CASE Boot
  BY <1>2, RecordFrame
  DEF Boot, work, WorkInv, Exec, Pre, Racing, Failure
<1>3. CASE BootFails
  BY <1>3, RecordFrame
  DEF BootFails, host, work, WorkInv, Exec, Pre, Racing, Failure
<1>4. CASE KeepWait
  BY <1>4, RecordFrame
  DEF KeepWait, Return, host, work, WorkInv, Exec, Pre, Racing, Failure
<1>5. CASE IdleLinger
  BY <1>5, RecordFrame
  DEF IdleLinger, Return, host, work, WorkInv, Exec, Pre, Racing, Failure
<1>6. CASE ProbePing
  BY <1>6, RecordFrame
  DEF ProbePing, host, work, WorkInv, Exec, Pre, Racing, Failure
<1>7. CASE ProbeSsh
  BY <1>7, RecordFrame
  DEF ProbeSsh, host, work, WorkInv, Exec, Pre, Racing, Failure
<1>8. CASE ChannelFails
  BY <1>8, RecordFrame
  DEF ChannelFails, Return, host, work, WorkInv, Exec, Pre, Racing, Failure
<1>9. CASE GateOnSecrets
  BY <1>9, RecordFrame
  DEF GateOnSecrets, Start, host, work, WorkInv, Exec, Pre, Racing, Failure
<1>10. CASE CloneRepo
  BY <1>10, RecordFrame
  DEF CloneRepo, host, work, WorkInv, Exec, Pre, Racing, Failure
<1>11. CASE StageInput
  BY <1>11, RecordFrame
  DEF StageInput, host, work, WorkInv, Exec, Pre, Racing, Failure
<1>12. CASE TouchOutputs
  BY <1>12, RecordFrame
  DEF TouchOutputs, host, work, WorkInv, Exec, Pre, Racing, Failure
<1>13. CASE Collect
  BY <1>13, RecordFrame
  DEF Collect, host, work, WorkInv, Exec, Pre, Racing, Failure
<1>14. CASE CollectOut
  BY <1>14, RecordFrame
  DEF CollectOut, host, work, WorkInv, Exec, Pre, Racing, Failure
<1>15. CASE CollectToHost
  BY <1>15, RecordFrame
  DEF CollectToHost, host, work, WorkInv, Exec, Pre, Racing, Failure
<1>16. CASE StopWitness
  BY <1>16, RecordFrame
  DEF StopWitness, work, WorkInv, Exec, Pre, Racing, Failure
<1>17. CASE Teardown
  BY <1>17, RecordFrame
  DEF Teardown, host, work, WorkInv, Exec, Pre, Racing, Failure
<1>18. CASE Commit
  BY <1>18, RecordFrame
  DEF Commit, host, work, WorkInv, Exec, Pre, Racing, Failure
<1>19. CASE Exit
  BY <1>19, RecordFrame
  DEF Exit, host, work, WorkInv, Exec, Pre, Racing, Failure
<1>20. CASE GuestWedges
  BY <1>20, RecordFrame
  DEF GuestWedges, work, WorkInv, Exec, Pre, Racing, Failure
<1>21. CASE CaptureEnds
  BY <1>21, RecordFrame
  DEF CaptureEnds, work, WorkInv, Exec, Pre, Racing, Failure
<1>22. CASE GuestSends
  BY <1>22, RecordFrame
  DEF GuestSends, work, WorkInv, Exec, Pre, Racing, Failure
<1>23. CASE \E s \in Signals : Signal(s)
  BY <1>23, RecordFrame DEF Signal, work
<1>24. CASE UNCHANGED vars
  BY <1>24, RecordFrame DEF vars
<1>25. CASE RunWrapped
  BY <1>25, RecordPre
  DEF RunWrapped, AfterExec, WorkInv, RecordInv, Pre, Racing, NoCode
<1>26. CASE GeneratePatch
  BY <1>26, RecordPre
  DEF GeneratePatch, AfterPatch, WorkInv, RecordInv, Pre, Racing, NoCode
<1>27. CASE PushBranch
  BY <1>27, RecordPre
  DEF PushBranch, host, WorkInv, RecordInv, Pre, Racing, NoCode
<1>28. CASE WorkFails
  <2>1. /\ result = Absent /\ pc' = "collect" /\ outcome' = Failure
        /\ UNCHANGED <<completed, patch, pushed, postErr>>
    BY <1>28 DEF WorkFails, Return, RecordInv, Pre, Racing
  <2>2. CASE result' \in {Absent, Torn}
    BY <2>1, <2>2, RecordPre DEF Failure, Pre, Racing
  <2>3. CASE pc = "write" /\ result' = FullRecord
    <3>1. completed \in GuestExits
      BY <2>3 DEF Static, WorkInv
    <3> QED
      BY <2>1, <2>3, <3>1, LateRecord DEF Failure, Pre, Racing
  <2> QED
    BY <1>28, <2>1, <2>2, <2>3 DEF WorkFails
<1>29. CASE GateRecord
  <2>1. result = Absent /\ outcome' = Failure /\ pc' = "collect"
    BY <1>29 DEF GateRecord, Return, RecordInv, Pre, Racing
  <2>2. CASE result' \in {Absent, Torn}
    BY <2>1, <2>2, RecordPre DEF Failure, Pre, Racing
  <2>3. CASE result' = Record(1, "failed")
    <3>1. /\ result'.patch = FALSE /\ result'.pushed = FALSE
          /\ result'.status = "failed" /\ result' \in Results
      BY <2>3, FailedFields
    <3> QED
      BY <2>1, <3>1 DEF RecordInv, Readable, Failure, Pre, Racing
  <2> QED
    BY <1>29, <2>1, <2>2, <2>3 DEF GateRecord, Written
<1>30. CASE WriteResult
  <2>1. /\ completed \in GuestExits /\ completed \in Int /\ pc' = "collect"
        /\ UNCHANGED <<completed, patch, pushed, postErr>>
    BY <1>30, RunAssumption DEF WriteResult, Return, Static, WorkInv
  <2>2. result' = FullRecord /\ FullRecord' = FullRecord
    BY <1>30, <2>1 DEF WriteResult, FullRecord
  <2>3. outcome' = 0 => completed = 0 /\ ~postErr
    BY <1>30, <2>1 DEF WriteResult, Return, ProcessCode, Failure
  <2>4. /\ result' \in Results
        /\ result'.pushed = pushed' /\ result'.patch = patch'
        /\ result'.status = StatusOf(completed)
    BY <2>1, <2>2, FullFields
  <2>5. result'.status = "succeeded" => completed' = 0
    BY <2>1, <2>4 DEF StatusOf
  <2>6. pc' \notin Pre
    BY <2>1 DEF Pre, Racing
  <2> QED
    BY <2>1, <2>2, <2>3, <2>4, <2>5, <2>6 DEF RecordInv
<1>31. CASE Interrupt
  <2>1. /\ result = Absent /\ pc \in Racing /\ pc' = "abort_record"
        /\ UNCHANGED <<completed, postErr>> /\ outcome' # 0
    BY <1>31, RunAssumption
    DEF Interrupt, Interrupts, Static, RecordInv, Pre, Racing
  <2>2. CASE result' \in {Absent, Torn}
    BY <2>1, <2>2, RecordPre DEF Pre, Racing
  <2>3. CASE pc = "gate_record" /\ result' = Record(1, "failed")
    <3>1. /\ result'.patch = FALSE /\ result'.pushed = FALSE
          /\ result'.status = "failed" /\ result' \in Results
      BY <2>3, FailedFields
    <3> QED
      BY <2>1, <3>1 DEF RecordInv, Readable, Pre, Racing
  <2>4. CASE pc = "write" /\ result' = FullRecord
    <3>1. completed \in GuestExits /\ UNCHANGED <<patch, pushed>>
      BY <1>31, <2>4 DEF Interrupt, Static, WorkInv
    <3> QED
      BY <2>1, <2>4, <3>1, LateRecord DEF Pre, Racing
  <2>5. \/ result' \in {Absent, Torn}
        \/ pc = "gate_record" /\ result' = Record(1, "failed")
        \/ pc = "write" /\ result' = FullRecord
    BY <1>31, <2>1 DEF Interrupt, Written
  <2> QED
    BY <2>2, <2>3, <2>4, <2>5
<1>32. CASE RecordAborted
  <2>1. /\ UNCHANGED <<job, completed, patch, pushed, postErr, outcome>>
        /\ pc = "abort_record" /\ pc' = "collect" /\ outcome \in {124, 130, 143}
    BY <1>32 DEF RecordAborted, host, WorkInv
  <2>2. CASE result' = result
    BY <2>1, <2>2, RecordFrame DEF Pre, Racing
  <2>3. CASE result' = Torn
    BY <2>1, <2>3, RecordPre DEF Pre, Racing
  <2>4. CASE result' = AbortRecord
    <3>1. /\ AbortRecord.patch = FALSE /\ AbortRecord.pushed = FALSE
          /\ AbortRecord \in Results
          /\ AbortRecord.status = "succeeded" => completed = 0
      <4>1. CASE completed # NoCode
        <5>1. completed \in Codes
          BY <4>1 DEF Static, Codes
        <5>2. StatusOf(completed) = "succeeded" => completed = 0
          BY DEF StatusOf
        <5>3. StatusOf(completed) \in {"succeeded", "failed"}
          BY DEF StatusOf
        <5>4. AbortRecord = Record(completed, StatusOf(completed))
          BY <4>1 DEF AbortRecord
        <5> QED
          BY <5>1, <5>2, <5>3, <5>4, RecordFields
      <4>2. CASE completed = NoCode
        <5>1. outcome \in Codes
          BY <2>1 DEF Codes
        <5>2. AbortStatus(outcome) \in {"timed_out", "cancelled"}
          BY DEF AbortStatus
        <5>3. AbortRecord = Record(outcome, AbortStatus(outcome))
          BY <4>2 DEF AbortRecord
        <5> QED
          BY <5>1, <5>2, <5>3, RecordFields
      <4> QED
        BY <4>1, <4>2
    <3>2. pc' \notin Pre /\ outcome' # 0
      BY <2>1 DEF Pre, Racing
    <3> QED
      BY <2>1, <2>4, <3>1, <3>2 DEF RecordInv
  <2> QED
    BY <1>32, <2>2, <2>3, <2>4 DEF RecordAborted, Written
<1> QED
  BY <1>1, <1>2, <1>3, <1>4, <1>5, <1>6, <1>7, <1>8, <1>9, <1>10, <1>11,
     <1>12, <1>13, <1>14, <1>15, <1>16, <1>17, <1>18, <1>19, <1>20, <1>21,
     <1>22, <1>23, <1>24, <1>25, <1>26, <1>27, <1>28, <1>29, <1>30, <1>31,
     <1>32
  DEF Next, HostStep, GuestStep, Ended

-----------------------------------------------------------------------------
(* The stream.  Grow(N): the names N were added, and no complete witness.  *)

Grow(N) ==
    /\ stream' \in Seq(Tok) /\ Ordered(stream')
    /\ Names' = Names \cup N
    /\ Told \subseteq Told'
    /\ Complete \in Told' => Complete \in Told

(* A step that emits nothing adds nothing.                                 *)
LEMMA Quiet == ASSUME Typed, StoryInv, UNCHANGED stream PROVE Grow({})
BY DEF Typed, StoryInv, Grow, Names, Told

(* A step that emits one event other than the exit.                        *)
LEMMA Say ==
    ASSUME Typed, StoryInv, Talking, NEW n \in Events, Emit(<<Ev(n)>>),
           n # "workload_exited",
           n = "ssh_ready" => "workload_started" \notin Names,
           n = "collection_done" => "witness_done" \notin Names
    PROVE  Grow({n})
<1> DEFINE e == Ev(n)
<1>1. e \in Tok /\ e[1] = n /\ e # Complete
  BY Events1
<1> HIDE DEF e
<1>2. Emit(<<e>>)
  BY DEF e
<1> QED
  BY <1>1, <1>2, Tell1 DEF Grow

(* A step that emits two events other than the exit.                       *)
LEMMA Say2 ==
    ASSUME Typed, StoryInv, Talking, NEW n \in Events, NEW m \in Events,
           Emit(<<Ev(n), Ev(m)>>),
           {n, m} \cap (Cleanups \cup {"collection_done", "workload_exited"}) = {},
           n # "ssh_ready",
           m = "ssh_ready" => "workload_started" \notin Names \cup {n}
    PROVE  Grow({n, m})
<1> DEFINE e == Ev(n)
           f == Ev(m)
<1>1. /\ e \in Tok /\ e[1] = n /\ e # Complete
      /\ f \in Tok /\ f[1] = m /\ f # Complete
  BY Events1
<1>2. Emit(<<e, f>>)
  OBVIOUS
<1> HIDE DEF e, f
<1>3. /\ {e[1], f[1]} \cap (Cleanups \cup {"collection_done"}) = {}
      /\ e[1] # "ssh_ready" /\ f[1] # "workload_exited" /\ e[1] # "workload_exited"
      /\ f[1] = "ssh_ready" => "workload_started" \notin Names \cup {e[1]}
  BY <1>1
<1>4. /\ stream' \in Seq(Tok) /\ Told' = Told \cup {e, f}
      /\ Names' = Names \cup {e[1], f[1]} /\ Ordered(stream')
  BY <1>1, <1>2, <1>3, Tell2
<1> QED
  BY <1>1, <1>4 DEF Grow

(* The exit of the workload is told at most once, alone or with a failure. *)
LEMMA SayExit ==
    ASSUME Typed, StoryInv, Talking, NEW c \in Int, NEW s \in Words,
           "workload_exited" \notin Names,
           \/ Emit(<<Exited(c, s)>>)
           \/ Emit(<<Exited(c, s), Ev("workload_failed")>>)
    PROVE  /\ \/ Grow({"workload_exited"})
              \/ Grow({"workload_exited", "workload_failed"})
           /\ Exited(c, s) \in Told'
<1> DEFINE e == Exited(c, s)
           f == Ev("workload_failed")
<1>1. /\ e \in Tok /\ e[1] = "workload_exited" /\ e # Complete
      /\ f \in Tok /\ f[1] = "workload_failed" /\ f # Complete
  BY Events1 DEF Events
<1>2. Emit(<<e>>) \/ Emit(<<e, f>>)
  OBVIOUS
<1>3. SUFFICES (Grow({e[1]}) \/ Grow({e[1], f[1]})) /\ e \in Told'
  BY <1>1
<1> HIDE DEF e, f
<1>4. CASE Emit(<<e>>)
  BY <1>1, <1>4, Tell1 DEF Grow
<1>5. CASE Emit(<<e, f>>)
  <2>1. /\ stream' \in Seq(Tok) /\ Told' = Told \cup {e, f}
        /\ Names' = Names \cup {e[1], f[1]} /\ Ordered(stream')
    BY <1>1, <1>5, Tell2 DEF Cleanups
  <2> QED
    BY <1>1, <2>1 DEF Grow
<1> QED
  BY <1>2, <1>4, <1>5

(* What each action tells.  The last write and an interrupt tell the exit  *)
(* that the record names, or will name.                                    *)
LEMMA WriteTold ==
    ASSUME Typed, WorkInv, StoryInv, WriteResult
    PROVE  /\ Grow({"workload_exited"}) \/ Grow({"workload_exited", "workload_failed"})
           /\ Exited(completed, StatusOf(completed)) \in Told'
<1>1. /\ completed \in Int /\ StatusOf(completed) \in Words /\ Talking
      /\ "workload_exited" \notin Names
  BY RunAssumption
  DEF WriteResult, Typed, Static, WorkInv, StoryInv, StatusOf, Words, Talking, Pre, Racing
<1>2. \/ Emit(<<Exited(completed, StatusOf(completed))>>)
      \/ Emit(<<Exited(completed, StatusOf(completed)), Ev("workload_failed")>>)
  BY Joined DEF WriteResult
<1> QED
  BY <1>1, <1>2, SayExit

(* So does a step that fails after the workload has an exit.               *)
LEMMA FailTold ==
    ASSUME Typed, WorkInv, StoryInv, WorkFails, completed # NoCode
    PROVE  Exited(completed, StatusOf(completed)) \in Told'
<1>1. /\ completed \in Int /\ StatusOf(completed) \in Words /\ Talking
      /\ "workload_exited" \notin Names
  BY RunAssumption
  DEF WorkFails, Typed, Static, StoryInv, StatusOf, Words, Talking, Pre, Racing
<1>2. Emit(<<Exited(completed, StatusOf(completed)), Ev("workload_failed")>>)
  BY Joined DEF WorkFails
<1> QED
  BY <1>1, <1>2, SayExit

(* An interrupt tells the exit that was reported, or its own.              *)
LEMMA InterruptTold ==
    ASSUME Typed, WorkInv, StoryInv, Interrupt
    PROVE  /\ Grow({"workload_exited"}) \/ Grow({"workload_exited", "workload_failed"})
           /\ outcome' \in {124, 130, 143}
           /\ IF completed # NoCode
              THEN Exited(completed, StatusOf(completed)) \in Told'
              ELSE Exited(outcome', AbortStatus(outcome')) \in Told'
<1>1. outcome' \in {124, 130, 143}
  BY RunAssumption DEF Interrupt, Interrupts, Typed, Static
<1>2. Talking /\ "workload_exited" \notin Names
  BY DEF Interrupt, Talking, StoryInv, Pre, Racing
<1>3. CASE completed # NoCode
  <2>1. completed \in Int /\ StatusOf(completed) \in Words
    BY <1>3, RunAssumption DEF Typed, Static, StatusOf, Words
  <2>2. Emit(<<Exited(completed, StatusOf(completed)), Ev("workload_failed")>>)
    BY <1>3 DEF Interrupt
  <2> QED
    BY <1>1, <1>2, <1>3, <2>1, <2>2, SayExit
<1>4. CASE completed = NoCode
  <2>1. outcome' \in Int /\ AbortStatus(outcome') \in Words
    BY <1>1 DEF AbortStatus, Words
  <2>2. Emit(<<Exited(outcome', AbortStatus(outcome'))>>)
    BY <1>4 DEF Interrupt
  <2> QED
    BY <1>1, <1>2, <1>4, <2>1, <2>2, SayExit
<1> QED
  BY <1>3, <1>4

(* The witness is told once, complete only if the capture was live.        *)
LEMMA WitnessTold ==
    ASSUME Typed, StoryInv, StopWitness
    PROVE  /\ stream' \in Seq(Tok) /\ Ordered(stream')
           /\ Names' = Names \/ Names' = Names \cup {"witness_done"}
           /\ (Complete \in Told' /\ Complete \notin Told) =>
                 capture = "live" /\ capture' = "stopped"
<1>1. CASE capture = "off"
  <2>1. Grow({})
    BY <1>1, Quiet DEF StopWitness
  <2> QED
    BY <2>1 DEF Grow
<1>2. CASE capture # "off"
  <2>1. PICK ok \in {CaptureComplete, FALSE} :
           Emit(<<<<"witness_done", NoCode, IF ok THEN "complete" ELSE "partial">>>>)
    BY <1>2 DEF StopWitness
  <2> DEFINE w == IF ok THEN "complete" ELSE "partial"
             e == <<"witness_done", NoCode, w>>
  <2>2. w \in Words /\ NoCode \in Int /\ "witness_done" \in Events
    BY DEF Words, NoCode, Events
  <2>3. e \in Tok /\ e[1] = "witness_done" /\ (e = Complete => w = "complete")
    <3>1. e = Complete => e[3] = Complete[3]
      OBVIOUS
    <3> HIDE DEF w
    <3>2. e[3] = w /\ Complete[3] = "complete"
      BY DEF Complete
    <3> QED
      BY <2>2, <3>1, <3>2, IsTok
  <2>4. w = "complete" => capture = "live"
    BY DEF CaptureComplete
  <2>5. Emit(<<e>>) /\ Talking /\ capture' = "stopped"
    BY <1>2, <2>1 DEF StopWitness, Talking
  <2> HIDE DEF e, w
  <2>6. /\ stream' \in Seq(Tok) /\ Told' = Told \cup {e}
        /\ Names' = Names \cup {e[1]} /\ Ordered(stream')
    BY <2>3, <2>5, Tell1
  <2> QED
    BY <2>3, <2>4, <2>5, <2>6
<1> QED
  BY <1>1, <1>2

(* No step tells anything out of order.                                    *)
LEMMA StoryStep ==
    ASSUME Typed, WorkInv, StoryInv, [Next]_vars
    PROVE  /\ stream' \in Seq(Tok) /\ StoryInv'
           /\ StopWitness \/ (Complete \in Told' => Complete \in Told)
<1>1. CASE KeepWait
  <2>1. Grow({})
    BY <1>1, Quiet DEF KeepWait
  <2> QED
    BY <1>1, <2>1 DEF KeepWait, Return, host, StoryInv, Grow, Pre, Racing,
       Cleanups
<1>2. CASE IdleLinger
  <2>1. Grow({})
    BY <1>2, Quiet DEF IdleLinger
  <2> QED
    BY <1>2, <2>1 DEF IdleLinger, Return, host, StoryInv, Grow, Pre, Racing,
       Cleanups
<1>3. CASE GateRecord
  <2>1. Grow({})
    BY <1>3, Quiet DEF GateRecord
  <2> QED
    BY <1>3, <2>1 DEF GateRecord, Return, host, StoryInv, Grow, Pre, Racing,
       Cleanups
<1>4. CASE CloneRepo
  <2>1. Grow({})
    BY <1>4, Quiet DEF CloneRepo
  <2> QED
    BY <1>4, <2>1 DEF CloneRepo, host, StoryInv, Grow, Pre, Racing, Cleanups
<1>5. CASE StageInput
  <2>1. Grow({})
    BY <1>5, Quiet DEF StageInput
  <2> QED
    BY <1>5, <2>1 DEF StageInput, host, StoryInv, Grow, Pre, Racing, Cleanups
<1>6. CASE RunWrapped
  <2>1. Grow({})
    BY <1>6, Quiet DEF RunWrapped
  <2> QED
    BY <1>6, <2>1 DEF RunWrapped, AfterExec, host, StoryInv, Grow, Pre, Racing,
       Cleanups
<1>7. CASE GeneratePatch
  <2>1. Grow({})
    BY <1>7, Quiet DEF GeneratePatch
  <2> QED
    BY <1>7, <2>1 DEF GeneratePatch, AfterPatch, host, StoryInv, Grow, Pre,
       Racing, Cleanups
<1>8. CASE PushBranch
  <2>1. Grow({})
    BY <1>8, Quiet DEF PushBranch
  <2> QED
    BY <1>8, <2>1 DEF PushBranch, host, StoryInv, Grow, Pre, Racing, Cleanups
<1>9. CASE TouchOutputs
  <2>1. Grow({})
    BY <1>9, Quiet DEF TouchOutputs
  <2> QED
    BY <1>9, <2>1 DEF TouchOutputs, host, StoryInv, Grow, Pre, Racing, Cleanups
<1>10. CASE RecordAborted
  <2>1. Grow({})
    BY <1>10, Quiet DEF RecordAborted
  <2> QED
    BY <1>10, <2>1 DEF RecordAborted, host, StoryInv, Grow, Pre, Racing,
       Cleanups
<1>11. CASE CollectOut
  <2>1. Grow({})
    BY <1>11, Quiet DEF CollectOut
  <2> QED
    BY <1>11, <2>1 DEF CollectOut, host, StoryInv, Grow, Pre, Racing, Cleanups
<1>12. CASE Commit
  <2>1. Grow({})
    BY <1>12, Quiet DEF Commit
  <2> QED
    BY <1>12, <2>1 DEF Commit, host, StoryInv, Grow, Pre, Racing, Cleanups
<1>13. CASE Exit
  <2>1. Grow({})
    BY <1>13, Quiet DEF Exit
  <2> QED
    BY <1>13, <2>1 DEF Exit, host, StoryInv, Grow, Pre, Racing, Cleanups
<1>14. CASE GuestWedges
  <2>1. Grow({})
    BY <1>14, Quiet DEF GuestWedges
  <2> QED
    BY <1>14, <2>1 DEF GuestWedges, StoryInv, Grow, Pre, Racing, Cleanups
<1>15. CASE CaptureEnds
  <2>1. Grow({})
    BY <1>15, Quiet DEF CaptureEnds
  <2> QED
    BY <1>15, <2>1 DEF CaptureEnds, StoryInv, Grow, Pre, Racing, Cleanups
<1>16. CASE GuestSends
  <2>1. Grow({})
    BY <1>16, Quiet DEF GuestSends
  <2> QED
    BY <1>16, <2>1 DEF GuestSends, StoryInv, Grow, Pre, Racing, Cleanups
<1>17. CASE \E s \in Signals : Signal(s)
  <2>1. Grow({})
    BY <1>17, Quiet DEF Signal
  <2> QED
    BY <1>17, <2>1 DEF Signal, StoryInv, Grow, Pre, Racing, Cleanups
<1>18. CASE UNCHANGED vars
  <2>1. Grow({})
    BY <1>18, Quiet DEF vars
  <2> QED
    BY <1>18, <2>1 DEF vars, StoryInv, Grow, Pre, Racing, Cleanups
<1>19. CASE ClaimSlot
  <2>1. \/ pc' = "boot" /\ Emit(<<Ev("slot_allocated")>>)
        \/ pc' = "end" /\ (UNCHANGED stream \/ Emit(<<Ev("pool_full")>>))
    BY <1>19 DEF ClaimSlot, Emit
  <2>2. /\ pc = "claim" /\ UNCHANGED opts
        /\ Grow({}) \/ Grow({"slot_allocated"}) \/ Grow({"pool_full"})
    BY <1>19, <2>1, Say, Quiet DEF ClaimSlot, host, Talking, Events
  <2> QED
    BY <2>1, <2>2 DEF StoryInv, Grow, Pre, Racing, Cleanups
<1>20. CASE Boot
  <2>1. \/ Emit(<<Ev("vmm_started")>>)
        \/ Emit(<<Ev("witness_started"), Ev("vmm_started")>>)
    BY <1>20, Joined DEF Boot
  <2>2. Grow({"vmm_started"}) \/ Grow({"witness_started", "vmm_started"})
    BY <1>20, <2>1, Say, Say2 DEF Boot, Talking, Events, Cleanups
  <2>3. pc = "boot" /\ pc' \in {"wait", "linger", "channel"} /\ UNCHANGED opts
    BY <1>20 DEF Boot
  <2> QED
    BY <2>2, <2>3 DEF StoryInv, Grow, Pre, Racing, Cleanups
<1>21. CASE BootFails
  <2>1. Grow({"boot_failed"})
    BY <1>21, Say DEF BootFails, Talking, Events
  <2> QED
    BY <1>21, <2>1 DEF BootFails, host, StoryInv, Grow, Pre, Racing, Cleanups
<1>22. CASE ProbePing
  <2>1. Grow({"guest_ready"})
    BY <1>22, Say DEF ProbePing, Talking, Events
  <2> QED
    BY <1>22, <2>1 DEF ProbePing, host, StoryInv, Grow, Pre, Racing, Cleanups
<1>23. CASE ProbeSsh
  <2>1. \/ Emit(<<Ev("ssh_ready")>>)
        \/ Emit(<<Ev("guest_ready"), Ev("ssh_ready")>>)
    BY <1>23, Joined DEF ProbeSsh, SignalReady
  <2>2. pc = "channel" /\ pc' = "gate" /\ UNCHANGED opts
    BY <1>23 DEF ProbeSsh, host
  <2>3. Grow({"ssh_ready"}) \/ Grow({"guest_ready", "ssh_ready"})
    <3>1. Talking /\ {"ssh_ready", "guest_ready"} \subseteq Events
      BY <2>2 DEF Talking, Events
    <3>2. "workload_started" \notin Names
      BY <2>2 DEF StoryInv
    <3>3. CASE Emit(<<Ev("ssh_ready")>>)
      BY <3>1, <3>2, <3>3, Say
    <3>4. CASE Emit(<<Ev("guest_ready"), Ev("ssh_ready")>>)
      BY <3>1, <3>2, <3>4, Say2 DEF Cleanups
    <3> QED
      BY <2>1, <3>3, <3>4
  <2> QED
    BY <2>2, <2>3 DEF StoryInv, Grow, Pre, Racing, Cleanups
<1>24. CASE ChannelFails
  <2>1. Grow({"guest_unreachable"}) \/ Grow({"workload_failed"})
    BY <1>24, Say DEF ChannelFails, Talking, Events
  <2> QED
    BY <1>24, <2>1 DEF ChannelFails, Return, host, StoryInv, Grow, Pre, Racing,
       Cleanups
<1>25. CASE GateOnSecrets
  <2>1. pc = "gate" /\ UNCHANGED opts
    BY <1>25 DEF GateOnSecrets, host
  <2>2. \/ /\ "secrets" \notin opts /\ pc' = Start
           /\ Grow({"workload_started"})
        \/ /\ pc' = Start
           /\ Grow({"secrets_delivered", "workload_started"})
        \/ /\ pc' = "gate_record"
           /\ Grow({"secrets_failed"})
    <3>1. \/ /\ "secrets" \notin opts /\ pc' = Start
             /\ Emit(<<Ev("workload_started")>>)
          \/ /\ pc' = Start
             /\ Emit(<<Ev("secrets_delivered"), Ev("workload_started")>>)
          \/ /\ pc' = "gate_record"
             /\ Emit(<<Ev("secrets_failed")>>)
      BY <1>25 DEF GateOnSecrets
    <3>2. /\ Talking
          /\ {"workload_started", "secrets_delivered", "secrets_failed"} \subseteq Events
      BY <2>1 DEF Talking, Events
    <3>3. ASSUME Emit(<<Ev("workload_started")>>) PROVE Grow({"workload_started"})
      BY <3>2, <3>3, Say
    <3>4. ASSUME Emit(<<Ev("secrets_failed")>>) PROVE Grow({"secrets_failed"})
      BY <3>2, <3>4, Say
    <3>5. ASSUME Emit(<<Ev("secrets_delivered"), Ev("workload_started")>>)
          PROVE  Grow({"secrets_delivered", "workload_started"})
      BY <3>2, <3>5, Say2 DEF Cleanups
    <3> QED
      BY <3>1, <3>3, <3>4, <3>5
  <2> QED
    BY <2>1, <2>2 DEF Start, StoryInv, Grow, Pre, Racing, Cleanups
<1>26. CASE WorkFails
  <2>1. /\ pc \in {"clone", "stage", "exec", "touch", "write"} /\ pc' = "collect"
        /\ UNCHANGED opts
    BY <1>26 DEF WorkFails, Return, host
  <2>2. \/ Emit(<<Ev("workload_failed")>>)
        \/ /\ completed # NoCode
           /\ Emit(<<Exited(completed, StatusOf(completed)), Ev("workload_failed")>>)
    BY <1>26, Joined DEF WorkFails
  <2>3. \/ Grow({"workload_failed"}) \/ Grow({"workload_exited"})
        \/ Grow({"workload_exited", "workload_failed"})
    <3>1. CASE Emit(<<Ev("workload_failed")>>)
      BY <2>1, <3>1, Say DEF Talking, Events
    <3>2. CASE /\ completed # NoCode
               /\ Emit(<<Exited(completed, StatusOf(completed)), Ev("workload_failed")>>)
      <4>1. completed \in Int /\ StatusOf(completed) \in Words
        BY <3>2, RunAssumption DEF Typed, Static, StatusOf, Words
      <4>2. "workload_exited" \notin Names
        BY <2>1 DEF StoryInv, Pre, Racing
      <4> QED
        BY <2>1, <3>2, <4>1, <4>2, SayExit DEF Talking
    <3> QED
      BY <2>2, <3>1, <3>2
  <2> QED
    BY <2>1, <2>3 DEF StoryInv, Grow, Pre, Racing, Cleanups
<1>27. CASE WriteResult
  <2>1. pc = "write" /\ pc' = "collect" /\ UNCHANGED opts
    BY <1>27 DEF WriteResult, Return, host
  <2>2. Grow({"workload_exited"}) \/ Grow({"workload_exited", "workload_failed"})
    BY <1>27, WriteTold
  <2> QED
    BY <2>1, <2>2 DEF StoryInv, Grow, Pre, Racing, Cleanups
<1>28. CASE Interrupt
  <2>1. pc \in Racing /\ pc' = "abort_record" /\ UNCHANGED opts
    BY <1>28 DEF Interrupt, host
  <2>2. Grow({"workload_exited"}) \/ Grow({"workload_exited", "workload_failed"})
    BY <1>28, InterruptTold
  <2> QED
    BY <2>1, <2>2 DEF StoryInv, Grow, Pre, Racing, Cleanups
<1>29. CASE Collect
  <2>1. /\ pc = "collect" /\ pc' \in {"collecting", "witness"} /\ UNCHANGED opts
        /\ UNCHANGED stream \/ Emit(<<Ev("collection_started")>>)
    BY <1>29 DEF Collect, host
  <2>2. Grow({}) \/ Grow({"collection_started"})
    BY <2>1, Say, Quiet DEF Talking, Events
  <2> QED
    BY <2>1, <2>2 DEF StoryInv, Grow, Pre, Racing, Cleanups
<1>30. CASE CollectToHost
  <2>1. /\ pc = "changeset" /\ pc' = "witness" /\ UNCHANGED opts
        /\ Emit(<<Ev("collection_done")>>) \/ Emit(<<Ev("collection_failed")>>)
    BY <1>30 DEF CollectToHost, host
  <2>2. Grow({"collection_done"}) \/ Grow({"collection_failed"})
    BY <2>1, Say DEF Talking, Events, StoryInv
  <2> QED
    BY <2>1, <2>2 DEF StoryInv, Grow, Pre, Racing, Cleanups
<1>31. CASE StopWitness
  <2>1. pc = "witness" /\ pc' = "teardown" /\ UNCHANGED opts
    BY <1>31 DEF StopWitness
  <2>2. /\ stream' \in Seq(Tok) /\ Ordered(stream')
        /\ Names' = Names \/ Names' = Names \cup {"witness_done"}
    BY <1>31, WitnessTold
  <2> QED
    BY <1>31, <2>1, <2>2 DEF StoryInv, Pre, Racing, Cleanups
<1>32. CASE Teardown
  <2>1. /\ pc = "teardown" /\ pc' \in {"commit", "code"} /\ UNCHANGED opts
        /\ \/ UNCHANGED stream
           \/ Emit(<<Ev("cleanup_done")>>) \/ Emit(<<Ev("cleanup_failed")>>)
    BY <1>32 DEF Teardown, host
  <2>2. Grow({}) \/ Grow({"cleanup_done"}) \/ Grow({"cleanup_failed"})
    BY <2>1, Say, Quiet DEF Talking, Events
  <2> QED
    BY <2>1, <2>2 DEF StoryInv, Grow, Pre, Racing, Cleanups
<1> QED
  BY <1>1, <1>2, <1>3, <1>4, <1>5, <1>6, <1>7, <1>8, <1>9, <1>10, <1>11,
     <1>12, <1>13, <1>14, <1>15, <1>16, <1>17, <1>18, <1>19, <1>20, <1>21,
     <1>22, <1>23, <1>24, <1>25, <1>26, <1>27, <1>28, <1>29, <1>30, <1>31,
     <1>32
  DEF Next, HostStep, GuestStep, Ended

(* The exit told and the record agree when the record is last written.     *)
LEMMA AgreeStep ==
    ASSUME Typed, WorkInv, RecordInv, StoryInv, AgreeInv, [Next]_vars
    PROVE  AgreeInv'
<1>1. ASSUME pc' \notin {"abort_record", "collect"} PROVE AgreeInv'
  BY <1>1 DEF AgreeInv
<1>2. ASSUME UNCHANGED <<job, pc, stream, completed, result, outcome>> PROVE AgreeInv'
  BY <1>2 DEF AgreeInv, AbortRecord, Exec, Readable, Told, Names
<1>3. CASE ClaimSlot
  BY <1>3, <1>1 DEF ClaimSlot
<1>4. CASE Boot
  BY <1>4, <1>1 DEF Boot
<1>5. CASE BootFails
  BY <1>5, <1>1 DEF BootFails
<1>6. CASE ProbePing
  BY <1>6, <1>1 DEF ProbePing
<1>7. CASE ProbeSsh
  BY <1>7, <1>1 DEF ProbeSsh
<1>8. CASE GateOnSecrets
  BY <1>8, <1>1 DEF GateOnSecrets, Start
<1>9. CASE CloneRepo
  BY <1>9, <1>1 DEF CloneRepo
<1>10. CASE StageInput
  BY <1>10, <1>1 DEF StageInput
<1>11. CASE RunWrapped
  BY <1>11, <1>1 DEF RunWrapped, AfterExec
<1>12. CASE GeneratePatch
  BY <1>12, <1>1 DEF GeneratePatch, AfterPatch
<1>13. CASE PushBranch
  BY <1>13, <1>1 DEF PushBranch
<1>14. CASE TouchOutputs
  BY <1>14, <1>1 DEF TouchOutputs
<1>15. CASE Collect
  BY <1>15, <1>1 DEF Collect
<1>16. CASE CollectOut
  BY <1>16, <1>1 DEF CollectOut
<1>17. CASE CollectToHost
  BY <1>17, <1>1 DEF CollectToHost
<1>18. CASE StopWitness
  BY <1>18, <1>1 DEF StopWitness
<1>19. CASE Teardown
  BY <1>19, <1>1 DEF Teardown
<1>20. CASE Commit
  BY <1>20, <1>1 DEF Commit
<1>21. CASE Exit
  BY <1>21, <1>1 DEF Exit
<1>22. CASE GuestWedges
  BY <1>22, <1>2 DEF GuestWedges, work
<1>23. CASE CaptureEnds
  BY <1>23, <1>2 DEF CaptureEnds, work
<1>24. CASE GuestSends
  BY <1>24, <1>2 DEF GuestSends, work
<1>25. CASE \E s \in Signals : Signal(s)
  BY <1>25, <1>2 DEF Signal, work
<1>26. CASE UNCHANGED vars
  BY <1>26, <1>2 DEF vars
<1>27. CASE KeepWait
  BY <1>27 DEF KeepWait, Return, host, AgreeInv, WorkInv, Exec
<1>28. CASE IdleLinger
  BY <1>28 DEF IdleLinger, Return, host, AgreeInv, WorkInv, Exec
<1>29. CASE ChannelFails
  <2>1. Grow({"guest_unreachable"}) \/ Grow({"workload_failed"})
    BY <1>29, Say DEF ChannelFails, Talking, Events
  <2>2. "workload_exited" \notin Names' /\ pc' = "collect"
    BY <1>29, <2>1 DEF ChannelFails, Return, Grow, StoryInv, Pre, Racing
  <2> QED
    BY <2>2 DEF AgreeInv
<1>30. CASE GateRecord
  <2>1. "secrets_failed" \in Names' /\ pc' = "collect"
    BY <1>30 DEF GateRecord, Return, StoryInv, Names
  <2> QED
    BY <2>1 DEF AgreeInv
<1>31. CASE WorkFails
  <2>1. result = Absent /\ pc' = "collect"
    BY <1>31 DEF WorkFails, Return, RecordInv, Pre, Racing
  <2>2. CASE result' \in {Absent, Torn}
    BY <2>1, <2>2 DEF AgreeInv, Readable
  <2>3. CASE pc = "write" /\ result' = FullRecord
    <3>1. completed # NoCode
      BY <2>3 DEF WorkInv, Pre
    <3>2. result'.code = completed /\ result'.status = StatusOf(completed)
      BY <2>3, FullFields
    <3> QED
      BY <1>31, <2>1, <3>1, <3>2, FailTold DEF AgreeInv
  <2> QED
    BY <1>31, <2>1, <2>2, <2>3 DEF WorkFails
<1>32. CASE WriteResult
  <2>1. pc' = "collect" /\ result' = FullRecord
    BY <1>32 DEF WriteResult, Return
  <2>2. result'.code = completed /\ result'.status = StatusOf(completed)
    BY <2>1, FullFields
  <2>3. Exited(completed, StatusOf(completed)) \in Told'
    BY <1>32, WriteTold
  <2> QED
    BY <2>1, <2>2, <2>3 DEF AgreeInv
<1>33. CASE Interrupt
  <2>1. /\ pc \in Racing /\ pc' = "abort_record" /\ UNCHANGED completed
        /\ result = Absent
    BY <1>33 DEF Interrupt, RecordInv, Pre
  <2>2. Exited(AbortRecord'.code, AbortRecord'.status) \in Told'
    <3>1. CASE completed # NoCode
      <4>1. AbortRecord' = Record(completed, StatusOf(completed))
        BY <2>1, <3>1 DEF AbortRecord
      <4>2. AbortRecord'.code = completed /\ AbortRecord'.status = StatusOf(completed)
        BY <4>1, RecordFields
      <4>3. Exited(completed, StatusOf(completed)) \in Told'
        BY <1>33, <3>1, InterruptTold
      <4> QED
        BY <4>2, <4>3
    <3>2. CASE completed = NoCode
      <4>1. AbortRecord' = Record(outcome', AbortStatus(outcome'))
        BY <2>1, <3>2 DEF AbortRecord
      <4>2. AbortRecord'.code = outcome' /\ AbortRecord'.status = AbortStatus(outcome')
        BY <4>1, RecordFields
      <4>3. Exited(outcome', AbortStatus(outcome')) \in Told'
        BY <1>33, <3>2, InterruptTold
      <4> QED
        BY <4>2, <4>3
    <3> QED
      BY <3>1, <3>2
  <2>3. \/ ~Readable'
        \/ "secrets_failed" \in Names'
        \/ Exited(result'.code, result'.status) \in Told'
    <3>1. CASE result' \in {Absent, Torn}
      BY <3>1 DEF Readable
    <3>2. CASE pc = "gate_record"
      BY <1>33, <3>2, InterruptTold DEF StoryInv, Grow
    <3>3. CASE pc = "write" /\ result' = FullRecord
      <4>1. completed # NoCode
        BY <3>3 DEF WorkInv
      <4>2. result'.code = completed /\ result'.status = StatusOf(completed)
        BY <3>3, FullFields
      <4> QED
        BY <1>33, <4>1, <4>2, InterruptTold
    <3> QED
      BY <1>33, <2>1, <3>1, <3>2, <3>3 DEF Interrupt, Written
  <2> QED
    BY <2>1, <2>2, <2>3 DEF AgreeInv
<1>34. CASE RecordAborted
  <2>1. /\ pc = "abort_record" /\ pc' = "collect"
        /\ UNCHANGED <<job, stream, completed, outcome>>
        /\ Told' = Told /\ Names' = Names
    BY <1>34 DEF RecordAborted, host, Told, Names
  <2>2. CASE result' = result
    BY <2>1, <2>2 DEF AgreeInv, Exec, Readable
  <2>3. CASE result' = Torn
    BY <2>1, <2>3 DEF AgreeInv, Readable
  <2>4. CASE result' = AbortRecord
    BY <2>1, <2>4 DEF AgreeInv
  <2> QED
    BY <1>34, <2>2, <2>3, <2>4 DEF RecordAborted, Written
<1> QED
  BY <1>3, <1>4, <1>5, <1>6, <1>7, <1>8, <1>9, <1>10, <1>11, <1>12, <1>13,
     <1>14, <1>15, <1>16, <1>17, <1>18, <1>19, <1>20, <1>21, <1>22, <1>23,
     <1>24, <1>25, <1>26, <1>27, <1>28, <1>29, <1>30, <1>31, <1>32, <1>33,
     <1>34
  DEF Next, HostStep, GuestStep, Ended

(* A stopped capture stays stopped, and what leaves then leaves "after".   *)
LEMMA CaptureKept ==
    ASSUME CaptureInv, [Next]_vars, capture = "stopped"
    PROVE  capture' = "stopped" /\ unseen' \in {unseen, "after"}
<1>1. CASE ClaimSlot
  BY <1>1 DEF ClaimSlot, host
<1>2. CASE Boot
  BY <1>2 DEF Boot, StartCapture, CaptureInv
<1>3. CASE BootFails
  BY <1>3 DEF BootFails, host
<1>4. CASE KeepWait
  BY <1>4 DEF KeepWait, host
<1>5. CASE IdleLinger
  BY <1>5 DEF IdleLinger, host
<1>6. CASE ProbePing
  BY <1>6 DEF ProbePing, host
<1>7. CASE ProbeSsh
  BY <1>7 DEF ProbeSsh, host
<1>8. CASE ChannelFails
  BY <1>8 DEF ChannelFails, host
<1>9. CASE GateOnSecrets
  BY <1>9 DEF GateOnSecrets, host
<1>10. CASE GateRecord
  BY <1>10 DEF GateRecord, host
<1>11. CASE WorkFails
  BY <1>11 DEF WorkFails, host
<1>12. CASE CloneRepo
  BY <1>12 DEF CloneRepo, host
<1>13. CASE StageInput
  BY <1>13 DEF StageInput, host
<1>14. CASE RunWrapped
  BY <1>14 DEF RunWrapped, host
<1>15. CASE GeneratePatch
  BY <1>15 DEF GeneratePatch, host
<1>16. CASE PushBranch
  BY <1>16 DEF PushBranch, host
<1>17. CASE TouchOutputs
  BY <1>17 DEF TouchOutputs, host
<1>18. CASE WriteResult
  BY <1>18 DEF WriteResult, host
<1>19. CASE Interrupt
  BY <1>19 DEF Interrupt, host
<1>20. CASE RecordAborted
  BY <1>20 DEF RecordAborted, host
<1>21. CASE Collect
  BY <1>21 DEF Collect, host
<1>22. CASE CollectOut
  BY <1>22 DEF CollectOut, host
<1>23. CASE CollectToHost
  BY <1>23 DEF CollectToHost, host
<1>24. CASE StopWitness
  BY <1>24 DEF StopWitness
<1>25. CASE Teardown
  BY <1>25 DEF Teardown, host
<1>26. CASE Commit
  BY <1>26 DEF Commit, host
<1>27. CASE Exit
  BY <1>27 DEF Exit, host
<1>28. CASE GuestWedges
  BY <1>28 DEF GuestWedges
<1>29. CASE CaptureEnds
  BY <1>29 DEF CaptureEnds
<1>30. CASE GuestSends
  BY <1>30 DEF GuestSends
<1>31. CASE \E s \in Signals : Signal(s)
  BY <1>31 DEF Signal
<1>32. CASE UNCHANGED vars
  BY <1>32 DEF vars
<1> QED
  BY <1>1, <1>2, <1>3, <1>4, <1>5, <1>6, <1>7, <1>8, <1>9, <1>10, <1>11,
     <1>12, <1>13, <1>14, <1>15, <1>16, <1>17, <1>18, <1>19, <1>20, <1>21,
     <1>22, <1>23, <1>24, <1>25, <1>26, <1>27, <1>28, <1>29, <1>30, <1>31,
     <1>32
  DEF Next, HostStep, GuestStep, Ended

(* Only the end of a live capture is called complete.                      *)
LEMMA HonestStep ==
    ASSUME Typed, WorkInv, CaptureInv, StoryInv, HonestInv, [Next]_vars
    PROVE  HonestInv'
<1>1. CASE StopWitness
  <2>1. /\ unseen' = unseen
        /\ capture' = IF capture = "off" THEN "off" ELSE "stopped"
    BY <1>1 DEF StopWitness
  <2>2. CASE Complete \in Told
    BY <2>1, <2>2 DEF HonestInv
  <2>3. CASE Complete \notin Told
    BY <1>1, <2>1, <2>3, WitnessTold DEF HonestInv, CaptureInv
  <2> QED
    BY <2>2, <2>3
<1>2. CASE ~StopWitness
  <2>1. Complete \in Told' => Complete \in Told
    BY <1>2, StoryStep
  <2>2. capture = "stopped" => /\ capture' = "stopped"
                               /\ unseen' \in {unseen, "after"}
    BY CaptureKept
  <2> QED
    BY <2>1, <2>2 DEF HonestInv
<1> QED
  BY <1>1, <1>2

-----------------------------------------------------------------------------
(* The theorems.                                                           *)

(* A run that has not begun satisfies the invariant.                       *)
LEMMA InitInv == Init => IndInv
<1> SUFFICES ASSUME Init PROVE IndInv
  OBVIOUS
<1>1. stream = <<>> /\ stream \in Seq(Tok) /\ Told = {} /\ Names = {} /\ Ordered(stream)
  BY DEF Init, Told, ToldIn, Names, NamesIn, Ordered, BeforeIn, OnceIn, LastIn
<1>2. Typed /\ Flags
  BY <1>1 DEF Init, Typed, Static, Flags, Phases, Pre
<1>3. WorkInv /\ CaptureInv
  BY DEF Init, WorkInv, CaptureInv, Pre, Racing, Exec, NoCode
<1>4. RecordInv
  BY DEF Init, RecordInv, Readable, NoCode
<1>5. StoryInv
  BY <1>1 DEF Init, StoryInv, Pre, Racing
<1>6. AgreeInv /\ HonestInv
  BY <1>1 DEF Init, AgreeInv, HonestInv
<1> QED
  BY <1>2, <1>3, <1>4, <1>5, <1>6 DEF IndInv

(* Every step keeps the invariant.                                         *)
LEMMA StepInv == IndInv /\ [Next]_vars => IndInv'
<1> SUFFICES ASSUME IndInv, [Next]_vars PROVE IndInv'
  OBVIOUS
<1>1. /\ Typed /\ Static /\ Flags /\ WorkInv /\ RecordInv
      /\ CaptureInv /\ StoryInv /\ AgreeInv /\ HonestInv
  BY DEF IndInv, Typed
<1>2. Static' /\ Flags'
  BY <1>1, StaticStep, FlagsStep
<1>3. WorkInv' /\ RecordInv' /\ CaptureInv'
  BY <1>1, WorkStep, RecordStep, CaptureStep
<1>4. stream' \in Seq(Tok) /\ StoryInv' /\ AgreeInv' /\ HonestInv'
  BY <1>1, StoryStep, AgreeStep, HonestStep
<1> QED
  BY <1>2, <1>3, <1>4 DEF IndInv, Typed

(* The inductive invariant holds in every reachable state.                 *)
THEOREM Invariance == Spec => []IndInv
BY InitInv, StepInv, PTL DEF Spec

(* Says and Names are the same.                                            *)
LEMMA SaysNames == \A n : Says(n) <=> n \in Names
BY DEF Says, Names, NamesIn

(* Every variable keeps its type; every exit code fits a byte.             *)
THEOREM TypeCorrect == Spec => []TypeOK
<1>1. IndInv => TypeOK
  <2> SUFFICES ASSUME IndInv PROVE TypeOK
    OBVIOUS
  <2>1. \A i \in DOMAIN stream : stream[i][1] \in Events
    BY DEF IndInv, Typed, Tok
  <2> QED
    BY <2>1 DEF IndInv, Typed, Static, Flags, RecordInv, Results, TypeOK
<1> QED
  BY <1>1, Invariance, PTL

(* The lifecycle stream is ordered as its consumers read it.               *)
THEOREM StreamSafe == Spec => []StreamOrdered
<1>1. IndInv => StreamOrdered
  <2> SUFFICES ASSUME IndInv PROVE StreamOrdered
    OBVIOUS
  <2>1. Ordered(stream) /\ StoryInv
    BY DEF IndInv, StoryInv
  <2>2. /\ Before("ssh_ready", "workload_started")
        /\ Before("collection_done", "witness_done")
    BY <2>1 DEF Ordered, BeforeIn, Before
  <2>3. \A i, j \in DOMAIN stream :
          stream[i][1] = "workload_exited" /\ stream[j][1] = "workload_exited" => i = j
    BY <2>1 DEF Ordered, OnceIn
  <2>4. \A i \in DOMAIN stream :
          stream[i][1] \in {"cleanup_done", "cleanup_failed"} => i = Len(stream)
    BY <2>1 DEF Ordered, LastIn, Cleanups
  <2>5. Says("workload_started") =>
          /\ Says("ssh_ready")
          /\ "secrets" \in opts => Says("secrets_delivered")
          /\ ~Says("secrets_failed")
    BY <2>1, SaysNames DEF StoryInv
  <2> QED
    BY <2>2, <2>3, <2>4, <2>5 DEF StreamOrdered
<1> QED
  BY <1>1, Invariance, PTL

(* The stream and result.json never disagree about one run, and the record *)
(* claims no push, patch or success that did not happen.                   *)
THEOREM SurfacesSafe == Spec => []SurfacesAgree
<1>1. IndInv => SurfacesAgree
  <2> SUFFICES ASSUME IndInv PROVE SurfacesAgree
    OBVIOUS
  <2>1. ASSUME pc = "collect", Exec, Readable,
               Says("workload_exited"), ~Says("secrets_failed")
        PROVE  \E i \in DOMAIN stream : stream[i] = Exited(result.code, result.status)
    <3>1. Exited(result.code, result.status) \in Told
      BY <2>1, SaysNames DEF IndInv, AgreeInv
    <3> QED
      BY <3>1 DEF Told, ToldIn
  <2> QED
    BY <2>1 DEF IndInv, RecordInv, SurfacesAgree
<1> QED
  BY <1>1, Invariance, PTL

(* Exit 0 of a workload means that it is done, recorded and collected.     *)
THEOREM ZeroSafe == Spec => []ZeroMeansDone
<1>1. IndInv => ZeroMeansDone
  BY DEF IndInv, WorkInv, RecordInv, ZeroMeansDone
<1> QED
  BY <1>1, Invariance, PTL

(* A witness that calls itself complete missed no packet.                  *)
THEOREM WitnessSafe == Spec => []WitnessHonest
<1>1. IndInv => WitnessHonest
  BY DEF IndInv, HonestInv, WitnessHonest, Complete, Told, ToldIn
<1> QED
  BY <1>1, Invariance, PTL
=============================================================================
