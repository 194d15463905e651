------------------------- MODULE VsockSessionProofs -------------------------
(***************************************************************************)
(* Proofs about VsockSession for every number of connections, every queue  *)
(* bound and every choice of the timing constants.                         *)
(***************************************************************************)
EXTENDS VsockSession, SequenceTheorems, TLAPS

(* The frames in flight on a connection.                                   *)
On(q) == {q[i] : i \in 1..Len(q)}

Live(c) == cand[c] \in {"connected", "full"}
Opened(m) == \A d \in 1..MaxConnects : cand[d] # "unused" <=> d <= m

(* The agent has one connection open at a time, the last one.              *)
CandInv ==
    /\ \E m \in 0..MaxConnects : Opened(m)
    /\ \A c \in 1..MaxConnects :
          Live(c) => /\ \A d \in 1..MaxConnects : d > c => cand[d] = "unused"
                     /\ \A d \in 1..MaxConnects : Live(d) => d = c
                     /\ gpc # "connect"
                     /\ cand[c] = "connected" <=> gpc = "preface"
    /\ gpc \in {"preface", "script", "exited"} => \E c \in 1..MaxConnects : Live(c)

(* The host retires the endpoint before it follows its script.             *)
AcceptInv ==
    /\ kind # "resume" => \A c \in On(backlog) : cand[c] = "full"
    /\ hpc = "accept" => seen < MaxCandidates
    /\ gpc \in {"connect", "preface"} => tried < MaxCandidates
    /\ hpc \in {"preface", "retire", "script"} => cur # 0
    /\ hpc \in {"retire", "script"} => cand[cur] = "full"
    /\ hpc = "script" => "main" \notin endpoint /\ backlog = <<>>

(* The clock the guest set is no further behind than the host's own        *)
(* measure of it.                                                          *)
Dated == skew <= now - epoch
Fresh == skew < (ClockApplyMax + 1) * Second

(* What is in flight to the guest; the CLOCK frame is there at most once.  *)
ToGuestInv ==
    /\ \A m \in On(toGuest) :
          /\ m[1] = "CLOCK" => kind = "resume" /\ h >= 12
          /\ m[1] = "CONTINUE" => kind = "resume" /\ h >= 15
          /\ m[2] = "clock" => m[1] = "CLOCK"
    /\ \A i, j \in 1..Len(toGuest) :
          toGuest[i][1] = "CLOCK" /\ toGuest[j][1] = "CLOCK" => i = j
    /\ "clock" \in known => /\ kind = "resume" /\ h >= 12
                            /\ \A m \in On(toGuest) : m[1] # "CLOCK"

(* What is in flight to the host was sent by an agent that had come so far.*)
ToHostInv ==
    \A m \in On(toHost) :
        /\ m[2] # NoChallenge => m[2] \in known
        /\ agent = "faithful" => /\ m[1] = "OK" => kind = "secrets" /\ g = 4
                                 /\ m[1] = "APPLIED_clock" => g > 16
                                 /\ m[1] = "ACK_resume" => kind = "resume" /\ g = 22

(* What the first n steps of a script do in the guest.                     *)
Done(k, n) == {AgentScript[k][i].rec :
                  i \in {j \in 1..n : AgentScript[k][j].op = "do"}}

(* How far the agent has come, and what that takes of the host.            *)
AgentInv ==
    /\ kind # "resume" => agent = "faithful"
    /\ echo # NoChallenge => echo \in known
    /\ done = Done(kind, g - 1)
    /\ kind = "resume" /\ agent = "faithful" =>
          /\ g > 14 => h >= 12
          /\ g > 15 => Dated
          /\ g > 17 => h >= 15
    /\ agent = "hasty" => g = 1 /\ ("clock" \in known => Dated)
    /\ beacon # "none" => kind = "provision" /\ g = 12

(* The budget the host holds the agent to, and the challenges it waits     *)
(* for.                                                                    *)
ClockInv ==
    /\ epoch <= now
    /\ kind = "resume" =>
          /\ h >= 11 => started <= now
          /\ h >= 12 => started < epoch + Second
          /\ h >= 13 => "clock" \in known /\ Dated /\ (agent = "faithful" => g > 16)
          /\ h >= 14 => Fresh
          /\ h >= 16 => "continue" \in known

(* What the end of the host's script takes of the agent.                   *)
EndInv ==
    /\ kind = "provision" /\ h >= 8 => gpc \in {"exited", "failed"}
    /\ hpc = "ended" <=> ~Serving
    /\ task = "ok" => /\ h = Len(HostScript[kind])
                      /\ agent = "faithful" => g = Len(AgentScript[kind]) + 1
    /\ result = "ok" => task = "ok" /\ endpoint = {}

IndInv ==
    /\ TypeOK
    /\ CandInv
    /\ AcceptInv
    /\ ToGuestInv
    /\ ToHostInv
    /\ AgentInv
    /\ ClockInv
    /\ EndInv

-----------------------------------------------------------------------------
(* The scripts                                                             *)

(* The scripts by kind, and how long they are.                             *)
LEMMA Scripts ==
    /\ HostScript["secrets"] = SecretsScript
    /\ HostScript["provision"] = ProvisionScript
    /\ HostScript["resume"] = ResumeScript
    /\ Len(HostScript["secrets"]) = 2 /\ Len(AgentScript["secrets"]) = 3
    /\ Len(HostScript["provision"]) = 9 /\ Len(AgentScript["provision"]) = 11
    /\ Len(HostScript["resume"]) = 17 /\ Len(AgentScript["resume"]) = 21
BY DEF HostScript, AgentScript, SecretsScript, ProvisionScript, ResumeScript

(* What the steps of the secrets script are.                               *)
LEMMA SecretsTable ==
    ASSUME NEW i \in 1..2
    PROVE  LET s == SecretsScript[i]
           IN  /\ s.op = IF i = 1 THEN "send" ELSE "expect"
               /\ s.rec = IF i = 1 THEN "BLOB" ELSE "OK"
               /\ s.ch = NoChallenge
BY DEF SecretsScript, Send, Expect

(* What the steps of the provisioning script are.                          *)
LEMMA ProvisionTable ==
    ASSUME NEW i \in 1..9
    PROVE  LET s == ProvisionScript[i]
           IN  /\ s.op \in {"send", "expect", "eof", "accept_beacon", "quiesced"}
               /\ s.op = "eof" <=> i = 7
               /\ s.op = "accept_beacon" <=> i = 8
               /\ s.op = "quiesced" <=> i = 9
               /\ s.ch = NoChallenge
               /\ s.rec \notin {"CLOCK", "CONTINUE", "APPLIED_clock"}
               /\ s.op = "send" => s.rec \in Records
BY DEF ProvisionScript, Send, Expect, Step, Records

(* What the steps of the resume script are.                                *)
LEMMA ResumeTable ==
    ASSUME NEW i \in 1..17
    PROVE  LET s == ResumeScript[i]
           IN  /\ s.op \in {"send", "expect", "start_clock", "sample_clock", "validate"}
               /\ s.op = "start_clock" <=> i = 10
               /\ s.op = "sample_clock" <=> i = 11
               /\ s.op = "validate" <=> i = 13
               /\ s.op = "send" => s.rec \in Records
               /\ s.op = "expect" => s.rec \in Records
               /\ s.rec = "APPLIED_clock" <=> i = 12
               /\ s.rec = "CONTINUE" <=> i = 14
               /\ s.rec = "ACK_resume" <=> i = 17
               /\ s.rec # "CLOCK"
               /\ i \in {12, 15, 17} => s.op = "expect"
               /\ i = 14 => s.op = "send"
               /\ s.ch = IF i = 12 THEN "clock"
                         ELSE IF i \in {14, 15} THEN "continue" ELSE NoChallenge
BY DEF ResumeScript, Send, Expect, Step, Proof, NoChallenge, Records

(* What the host's driver reads off its script.                            *)
LEMMA HostTable ==
    ASSUME NEW k \in Kinds, NEW i \in 1..Len(HostScript[k])
    PROVE  LET s == HostScript[k][i]
           IN  /\ s.op = "start_clock" <=> k = "resume" /\ i = 10
               /\ s.op = "sample_clock" <=> k = "resume" /\ i = 11
               /\ s.op = "validate" <=> k = "resume" /\ i = 13
               /\ s.op = "eof" <=> k = "provision" /\ i = 7
               /\ s.op = "accept_beacon" <=> k = "provision" /\ i = 8
               /\ s.op = "quiesced" <=> k = "provision" /\ i = 9
               /\ s.op = "send" => /\ s.rec \in Records \ {"CLOCK"}
                                   /\ s.ch \in {"continue", NoChallenge}
                                   /\ s.rec = "CONTINUE" => k = "resume" /\ i = 14
                                   /\ i # Len(HostScript[k])
               /\ s.rec = "APPLIED_clock" <=> k = "resume" /\ i = 12
               /\ k = "resume" /\ i = 12 => s.op = "expect" /\ s.ch = "clock"
               /\ k = "resume" /\ i = 14 => s.op = "send" /\ s.rec = "CONTINUE"
               /\ k = "resume" /\ i = 15 => s.op = "expect" /\ s.ch = "continue"
               /\ k = "resume" /\ i = 17 => s.op = "expect" /\ s.rec = "ACK_resume"
               /\ k = "secrets" /\ i = 2 => s.op = "expect" /\ s.rec = "OK"
<1>1. CASE k = "secrets"
  BY <1>1, Scripts, SecretsTable DEF Records
<1>2. CASE k = "provision"
  BY <1>2, Scripts, ProvisionTable
<1>3. CASE k = "resume"
  BY <1>3, Scripts, ResumeTable
<1> QED
  BY <1>1, <1>2, <1>3 DEF Kinds

(* What the agent reads off its script.                                    *)
LEMMA AgentTable ==
    ASSUME NEW k \in Kinds, NEW i \in 1..Len(AgentScript[k])
    PROVE  LET s == AgentScript[k][i]
           IN  /\ s.op = "beacon" <=> k = "provision" /\ i = 11
               /\ s.op = "send" => s.rec \in Records
               /\ s.rec = "OK" => k = "secrets" /\ i = 3
               /\ s.rec = "APPLIED_clock" => k = "resume" /\ i = 16
               /\ s.rec = "ACK_resume" => k = "resume" /\ i = 21
               /\ s.rec = "CLOCK" <=> k = "resume" /\ i = 14
               /\ s.rec = "clock" <=> k = "resume" /\ i = 15
               /\ s.rec = "CONTINUE" <=> k = "resume" /\ i = 17
               /\ s.rec = "sshd" => k = "resume" /\ i = 19
               /\ k = "resume" /\ i \in {14, 17} => s.op = "recv"
               /\ k = "resume" /\ i = 15 => s.op = "do"
<1>1. CASE k = "secrets"
  BY <1>1, Scripts DEF AgentScript, Records, Recv, Do, Send
<1>2. CASE k = "provision"
  BY <1>2, Scripts DEF AgentScript, Records, Recv, Do, Send, Step
<1>3. CASE k = "resume"
  BY <1>3, Scripts, SMTT(60) DEF AgentScript, Records, Recv, Do, Send
<1> QED
  BY <1>1, <1>2, <1>3 DEF Kinds

(* A script has a first step.                                              *)
LEMMA ScriptLengths ==
    ASSUME NEW k \in Kinds
    PROVE  /\ Len(HostScript[k]) \in Nat /\ Len(HostScript[k]) >= 2
           /\ Len(AgentScript[k]) \in Nat /\ Len(AgentScript[k]) >= 3
<1>1. k \in {"secrets", "provision", "resume"}
  BY DEF Kinds
<1>2. CASE k = "secrets"
  BY <1>2, Scripts
<1>3. CASE k = "provision"
  BY <1>3, Scripts
<1>4. CASE k = "resume"
  BY <1>4, Scripts
<1> QED
  BY <1>1, <1>2, <1>3, <1>4

(* A step that does something adds it, no other step does.                 *)
LEMMA DoneGrows ==
    ASSUME NEW k, NEW n \in Nat \ {0}
    PROVE  /\ AgentScript[k][n].op = "do" =>
                 Done(k, n) = Done(k, n - 1) \cup {AgentScript[k][n].rec}
           /\ AgentScript[k][n].op # "do" => Done(k, n) = Done(k, n - 1)
<1> DEFINE Dos(m) == {j \in 1..m : AgentScript[k][j].op = "do"}
<1>1. Dos(n) = IF AgentScript[k][n].op = "do" THEN Dos(n - 1) \cup {n} ELSE Dos(n - 1)
  OBVIOUS
<1>2. \A m : Done(k, m) = {AgentScript[k][i].rec : i \in Dos(m)}
  BY DEF Done
<1>3. \A A : {AgentScript[k][i].rec : i \in A \cup {n}} =
              {AgentScript[k][i].rec : i \in A} \cup {AgentScript[k][n].rec}
  OBVIOUS
<1> HIDE DEF Dos
<1>4. CASE AgentScript[k][n].op = "do"
  <2>1. Dos(n) = Dos(n - 1) \cup {n}
    BY <1>1, <1>4
  <2>2. Done(k, n) = {AgentScript[k][i].rec : i \in Dos(n - 1) \cup {n}}
    BY <1>2, <2>1
  <2> QED
    BY <1>2, <1>3, <1>4, <2>2
<1>5. CASE AgentScript[k][n].op # "do"
  BY <1>1, <1>2, <1>5
<1> QED
  BY <1>4, <1>5

-----------------------------------------------------------------------------
(* Frames in flight                                                        *)

(* They have the type of the connection's frames.                          *)
LEMMA OnType ==
    ASSUME NEW S, NEW q \in Seq(S)
    PROVE  On(q) \subseteq S
<1>1. \A i \in 1..Len(q) : q[i] \in S
  OBVIOUS
<1> QED
  BY <1>1 DEF On

(* One more frame.                                                         *)
LEMMA Push ==
    ASSUME NEW S, NEW q \in Seq(S), NEW m
    PROVE  /\ m \in S => Append(q, m) \in Seq(S)
           /\ Append(q, m) # <<>>
           /\ \A x : x \in On(Append(q, m)) <=> x \in On(q) \/ x = m
           /\ Len(Append(q, m)) = Len(q) + 1
           /\ \A i \in 1..Len(q) : Append(q, m)[i] = q[i]
           /\ Append(q, m)[Len(q) + 1] = m
BY DEF On

(* The first frame is read.                                                *)
LEMMA Pop ==
    ASSUME NEW S, NEW q \in Seq(S), q # <<>>
    PROVE  /\ Tail(q) \in Seq(S) /\ Head(q) \in S /\ Head(q) \in On(q)
           /\ On(Tail(q)) \subseteq On(q) /\ Head(q) = q[1]
           /\ Len(q) \in Nat \ {0} /\ Len(Tail(q)) = Len(q) - 1
           /\ \A i \in 1..(Len(q) - 1) : Tail(q)[i] = q[i + 1]
BY DEF On

(* The last connection the agent opened.                                   *)
LEMMA MineFacts ==
    ASSUME \E m \in 0..MaxConnects : Opened(m)
    PROVE  Mine \in 0..MaxConnects /\ Opened(Mine)
BY DEF Mine, Opened

-----------------------------------------------------------------------------
(* One lemma for each part of the invariant                                *)

(* The agent has at most one connection open.                              *)
LEMMA CandStep ==
    ASSUME TypeOK, CandInv, [Next]_vars
    PROVE  CandInv'
<1>1. /\ cand \in [1..MaxConnects -> {"unused", "connected", "full", "retired", "wrong"}]
      /\ gpc \in {"connect", "preface", "script", "exited", "failed"}
      /\ MaxConnects \in Nat
  BY SessionAssumption DEF TypeOK
<1>2. CASE Tick
  BY <1>1, <1>2 DEF Tick, CandInv, Opened, Live, hostVars, guestVars
<1>3. CASE Accept
  BY <1>1, <1>3 DEF Accept, CandInv, Opened, Live, hostVars, guestVars
<1>4. CASE ReadPreface
  BY <1>1, <1>4 DEF ReadPreface, Finish, MayRetry, CandInv, Opened, Live,
     hostVars, guestVars
<1>5. CASE WindowExpires
  BY <1>1, <1>5 DEF WindowExpires, Finish, CandInv, Opened, Live, hostVars,
     guestVars
<1>6. CASE Retire
  BY <1>1, <1>6 DEF Retire, Finish, CandInv, Opened, Live, hostVars, guestVars
<1>7. CASE SendFrame
  BY <1>1, <1>7 DEF SendFrame, HostStep, Advance, Finish, CandInv, Opened,
     Live, hostVars, guestVars
<1>8. CASE ExpectRecord
  BY <1>1, <1>8 DEF ExpectRecord, HostStep, Advance, Finish, CandInv, Opened,
     Live, hostVars, guestVars
<1>9. CASE StartClock
  BY <1>1, <1>9 DEF StartClock, HostStep, CandInv, Opened, Live, hostVars,
     guestVars
<1>10. CASE SampleClock
  BY <1>1, <1>10 DEF SampleClock, HostStep, CandInv, Opened, Live, hostVars,
     guestVars
<1>11. CASE ApplyExpires
  BY <1>1, <1>11 DEF ApplyExpires, HostStep, Finish, CandInv, Opened, Live,
     hostVars, guestVars
<1>12. CASE Validate
  BY <1>1, <1>12 DEF Validate, HostStep, Finish, CandInv, Opened, Live,
     hostVars, guestVars
<1>13. CASE AwaitClose
  BY <1>1, <1>13 DEF AwaitClose, HostStep, Advance, Finish, CandInv, Opened,
     Live, hostVars, guestVars
<1>14. CASE AcceptBeacon
  BY <1>1, <1>14 DEF AcceptBeacon, HostStep, Finish, CandInv, Opened, Live,
     hostVars, guestVars
<1>15. CASE ReadBeacon
  BY <1>1, <1>15 DEF ReadBeacon, HostStep, Advance, Finish, CandInv, Opened,
     Live, hostVars, guestVars
<1>16. CASE AwaitResult
  BY <1>1, <1>16 DEF AwaitResult, CandInv, Opened, Live, hostVars, guestVars
<1>17. CASE AwaitTimeout
  BY <1>1, <1>17 DEF AwaitTimeout, CandInv, Opened, Live, hostVars, guestVars
<1>18. CASE Abort
  BY <1>1, <1>18 DEF Abort, Finish, CandInv, Opened, Live, hostVars, guestVars
<1>19. CASE Connect
  <2>1. PICK m :
        /\ m \in 0..MaxConnects /\ m < MaxConnects /\ Opened(m)
        /\ cand' = [cand EXCEPT ![m + 1] = IF kind = "resume" THEN "connected" ELSE "full"]
        /\ gpc = "connect" /\ gpc' = IF kind = "resume" THEN "preface" ELSE "script"
    BY <1>19, MineFacts DEF Connect, CandInv
  <2>2. \A c \in 1..MaxConnects : ~Live(c)
    BY <2>1 DEF CandInv
  <2>3. /\ m + 1 \in 1..MaxConnects /\ cand'[m + 1] \in {"connected", "full"}
        /\ cand'[m + 1] = "connected" <=> gpc' = "preface"
        /\ gpc' \in {"preface", "script"}
        /\ \A c \in 1..MaxConnects : c # m + 1 => cand'[c] = cand[c]
    BY <1>1, <2>1
  <2>4. Opened(m + 1)'
    BY <1>1, <2>1, <2>3 DEF Opened
  <2>5. \A d \in 1..MaxConnects : d > m + 1 => cand'[d] = "unused"
    BY <1>1, <2>4, <2>1 DEF Opened
  <2> QED
    BY <1>1, <2>1, <2>2, <2>3, <2>4, <2>5 DEF CandInv, Live
<1>20. CASE Preface
  <2>1. PICK m : m = Mine /\ m \in 0..MaxConnects /\ Opened(m) /\ gpc = "preface"
    BY <1>20, MineFacts DEF Preface, CandInv
  <2>2. PICK c \in 1..MaxConnects : Live(c)
    BY <2>1 DEF CandInv
  <2>3. /\ cand[c] = "connected" /\ \A d \in 1..MaxConnects : d > c => cand[d] = "unused"
        /\ \A d \in 1..MaxConnects : d # c => ~Live(d)
    BY <2>1, <2>2 DEF CandInv
  <2>4. m = c
    BY <1>1, <2>1, <2>3 DEF Opened
  <2>5. PICK v \in {"full", "retired", "wrong"} :
           /\ cand' = [cand EXCEPT ![c] = v]
           /\ v = "full" => gpc' = "script"
           /\ v # "full" => gpc' \in {"failed", "connect"}
    BY <2>1, <2>4, <1>20 DEF Preface
  <2>6. Opened(m)'
    BY <1>1, <2>1, <2>3, <2>4, <2>5 DEF Opened
  <2> QED
    BY <1>1, <2>1, <2>3, <2>5, <2>6 DEF CandInv, Live
<1>21. CASE ConnectRefused
  BY <1>1, <1>21 DEF ConnectRefused, CandInv, Opened, Live, hostVars, guestVars
<1>22. CASE AgentRecv
  BY <1>1, <1>22 DEF AgentRecv, AgentStep, Learn, CandInv, Opened, Live,
     hostVars, guestVars
<1>23. CASE AgentDo
  BY <1>1, <1>23 DEF AgentDo, AgentStep, CandInv, Opened, Live, hostVars,
     guestVars
<1>24. CASE AgentSend
  BY <1>1, <1>24 DEF AgentSend, AgentStep, CandInv, Opened, Live, hostVars,
     guestVars
<1>25. CASE AgentBeacon
  BY <1>1, <1>25 DEF AgentBeacon, AgentStep, CandInv, Opened, Live, hostVars,
     guestVars
<1>26. CASE Beacon
  BY <1>1, <1>26 DEF Beacon, CandInv, Opened, Live, hostVars, guestVars
<1>27. CASE AgentExit
  BY <1>1, <1>27 DEF AgentExit, CandInv, Opened, Live, hostVars, guestVars
<1>28. CASE AgentFails
  BY <1>1, <1>28 DEF AgentFails, CandInv, Opened, Live, hostVars, guestVars
<1>29. CASE HastyRecv
  BY <1>1, <1>29 DEF HastyRecv, Learn, CandInv, Opened, Live, hostVars,
     guestVars
<1>30. CASE HastySend
  BY <1>1, <1>30 DEF HastySend, CandInv, Opened, Live, hostVars, guestVars
<1>31. CASE UNCHANGED vars
  BY <1>1, <1>31 DEF CandInv, Opened, Live, vars
<1> QED
  BY <1>2, <1>3, <1>4, <1>5, <1>6, <1>7, <1>8, <1>9, <1>10, <1>11, <1>12,
     <1>13, <1>14, <1>15, <1>16, <1>17, <1>18, <1>19, <1>20, <1>21, <1>22,
     <1>23, <1>24, <1>25, <1>26, <1>27, <1>28, <1>29, <1>30, <1>31 DEF Next,
     HostNext

(* The endpoint is gone before the script begins.                          *)
LEMMA AcceptStep ==
    ASSUME TypeOK, CandInv, AcceptInv, [Next]_vars
    PROVE  AcceptInv'
<1>1. /\ cand \in [1..MaxConnects -> {"unused", "connected", "full", "retired", "wrong"}]
      /\ gpc \in {"connect", "preface", "script", "exited", "failed"}
      /\ hpc \in {"accept", "preface", "retire", "script", "ended"}
      /\ backlog \in Seq(1..MaxConnects) /\ cur \in 0..MaxConnects /\ kind \in Kinds
      /\ seen \in 0..MaxCandidates /\ tried \in 0..MaxCandidates
  BY DEF TypeOK
<1>2. MaxConnects \in Nat /\ MaxCandidates \in Nat \ {0}
  BY SessionAssumption
<1>3. CASE Tick
  BY <1>1, <1>2, <1>3 DEF Tick, AcceptInv, hostVars, guestVars
<1>4. CASE Accept
  <2>1. /\ Head(backlog) \in 1..MaxConnects /\ Head(backlog) \in On(backlog)
        /\ On(Tail(backlog)) \subseteq On(backlog)
    BY <1>1, <1>4, Pop DEF Accept
  <2> QED
    BY <1>1, <1>2, <2>1, <1>4 DEF Accept, AcceptInv, guestVars
<1>5. CASE ReadPreface
  BY <1>1, <1>2, <1>5 DEF ReadPreface, Finish, MayRetry, AcceptInv, hostVars,
     guestVars
<1>6. CASE WindowExpires
  BY <1>1, <1>2, <1>6 DEF WindowExpires, Finish, AcceptInv, hostVars, guestVars
<1>7. CASE Retire
  <2>1. On(<<>>) = {}
    BY DEF On
  <2> QED
    BY <1>1, <2>1, <1>7 DEF Retire, Finish, AcceptInv, guestVars
<1>8. CASE SendFrame
  BY <1>1, <1>2, <1>8 DEF SendFrame, HostStep, Advance, Finish, AcceptInv,
     hostVars, guestVars
<1>9. CASE ExpectRecord
  BY <1>1, <1>2, <1>9 DEF ExpectRecord, HostStep, Advance, Finish, AcceptInv,
     hostVars, guestVars
<1>10. CASE StartClock
  BY <1>1, <1>2, <1>10 DEF StartClock, HostStep, AcceptInv, hostVars, guestVars
<1>11. CASE SampleClock
  BY <1>1, <1>2, <1>11 DEF SampleClock, HostStep, AcceptInv, hostVars, guestVars
<1>12. CASE ApplyExpires
  BY <1>1, <1>2, <1>12 DEF ApplyExpires, HostStep, Finish, AcceptInv, hostVars,
     guestVars
<1>13. CASE Validate
  BY <1>1, <1>2, <1>13 DEF Validate, HostStep, Finish, AcceptInv, hostVars,
     guestVars
<1>14. CASE AwaitClose
  BY <1>1, <1>2, <1>14 DEF AwaitClose, HostStep, Advance, Finish, AcceptInv,
     hostVars, guestVars
<1>15. CASE AcceptBeacon
  BY <1>1, <1>2, <1>15 DEF AcceptBeacon, HostStep, Finish, AcceptInv, hostVars,
     guestVars
<1>16. CASE ReadBeacon
  BY <1>1, <1>2, <1>16 DEF ReadBeacon, HostStep, Advance, Finish, AcceptInv,
     hostVars, guestVars
<1>17. CASE AwaitResult
  BY <1>1, <1>2, <1>17 DEF AwaitResult, AcceptInv, hostVars, guestVars
<1>18. CASE AwaitTimeout
  BY <1>1, <1>2, <1>18 DEF AwaitTimeout, AcceptInv, hostVars, guestVars
<1>19. CASE Abort
  BY <1>1, <1>2, <1>19 DEF Abort, Finish, AcceptInv, hostVars, guestVars
<1>20. CASE Connect
  <2>1. PICK m :
        /\ m = Mine /\ m \in 0..MaxConnects /\ m < MaxConnects
        /\ cand' = [cand EXCEPT ![m + 1] = IF kind = "resume" THEN "connected" ELSE "full"]
        /\ backlog' = Append(backlog, m + 1)
    BY <1>20, MineFacts DEF Connect, CandInv
  <2>2. \A x : x \in On(backlog') <=> x \in On(backlog) \/ x = m + 1
    <3>1. PICK c \in 1..MaxConnects : c = m + 1
      BY <1>2, <2>1
    <3>2. backlog' = Append(backlog, c)
      BY <2>1, <3>1
    <3>3. \A x : x \in On(Append(backlog, c)) <=> x \in On(backlog) \/ x = c
      BY <1>1, Push
    <3> QED
      BY <3>1, <3>2, <3>3
  <2>3. hpc \notin {"retire", "script"}
    BY <1>1, <1>2, <1>20 DEF Connect, AcceptInv, CandInv, Live
  <2>4. kind # "resume" => \A c \in On(backlog') : cand'[c] = "full"
    <3>1. On(backlog) \subseteq 1..MaxConnects
      BY <1>1, OnType
    <3> QED
      BY <1>1, <1>2, <2>1, <2>2, <3>1, <1>20 DEF AcceptInv
  <2> QED
    BY <1>1, <1>2, <2>3, <2>4, <1>20 DEF Connect, AcceptInv, hostVars
<1>21. CASE Preface
  <2>1. \A c \in 1..MaxConnects : cand[c] # "full"
    BY <1>21 DEF Preface, CandInv, Live
  <2>2. hpc \notin {"retire", "script"}
    BY <1>1, <1>2, <2>1 DEF AcceptInv
  <2>3. kind # "resume" => On(backlog) = {}
    <3>1. On(backlog) \subseteq 1..MaxConnects
      BY <1>1, OnType
    <3> QED
      BY <2>1, <3>1 DEF AcceptInv
  <2>4. gpc' = "connect" => tried' < MaxCandidates
    BY <1>1, <1>2, <1>21 DEF Preface, AcceptInv
  <2>5. /\ UNCHANGED <<kind, backlog, hpc, seen, cur, endpoint>>
        /\ gpc' # "preface"
    BY <1>21 DEF Preface, hostVars
  <2> QED
    BY <2>2, <2>3, <2>4, <2>5 DEF AcceptInv
<1>22. CASE ConnectRefused
  BY <1>1, <1>2, <1>22 DEF ConnectRefused, AcceptInv, hostVars, guestVars
<1>23. CASE AgentRecv
  BY <1>1, <1>2, <1>23 DEF AgentRecv, AgentStep, Learn, AcceptInv, hostVars,
     guestVars
<1>24. CASE AgentDo
  BY <1>1, <1>2, <1>24 DEF AgentDo, AgentStep, AcceptInv, hostVars, guestVars
<1>25. CASE AgentSend
  BY <1>1, <1>2, <1>25 DEF AgentSend, AgentStep, AcceptInv, hostVars, guestVars
<1>26. CASE AgentBeacon
  BY <1>1, <1>2, <1>26 DEF AgentBeacon, AgentStep, AcceptInv, hostVars,
     guestVars
<1>27. CASE Beacon
  BY <1>1, <1>2, <1>27 DEF Beacon, AcceptInv, hostVars, guestVars
<1>28. CASE AgentExit
  BY <1>1, <1>2, <1>28 DEF AgentExit, AcceptInv, hostVars, guestVars
<1>29. CASE AgentFails
  BY <1>1, <1>2, <1>29 DEF AgentFails, AcceptInv, hostVars, guestVars
<1>30. CASE HastyRecv
  BY <1>1, <1>2, <1>30 DEF HastyRecv, Learn, AcceptInv, hostVars, guestVars
<1>31. CASE HastySend
  BY <1>1, <1>2, <1>31 DEF HastySend, AcceptInv, hostVars, guestVars
<1>32. CASE UNCHANGED vars
  BY <1>1, <1>2, <1>32 DEF AcceptInv, vars
<1> QED
  BY <1>3, <1>4, <1>5, <1>6, <1>7, <1>8, <1>9, <1>10, <1>11, <1>12, <1>13,
     <1>14, <1>15, <1>16, <1>17, <1>18, <1>19, <1>20, <1>21, <1>22, <1>23,
     <1>24, <1>25, <1>26, <1>27, <1>28, <1>29, <1>30, <1>31, <1>32 DEF Next,
     HostNext

(* To read a frame is to learn its challenge.                              *)
LEMMA ReadFrame ==
    ASSUME TypeOK, ToGuestInv, toGuest # <<>>, toGuest' = Tail(toGuest),
           Learn(Head(toGuest)), UNCHANGED <<kind, h>>
    PROVE  ToGuestInv'
<1>1. toGuest \in Seq(Frames)
  BY DEF TypeOK
<1>2. /\ Head(toGuest) \in On(toGuest) /\ Head(toGuest) = toGuest[1]
      /\ On(toGuest') \subseteq On(toGuest)
      /\ Len(toGuest) \in Nat \ {0} /\ Len(toGuest') = Len(toGuest) - 1
      /\ \A i \in 1..(Len(toGuest) - 1) : toGuest'[i] = toGuest[i + 1]
  BY <1>1, Pop
<1>3. \A i, j \in 1..Len(toGuest') : toGuest'[i][1] = "CLOCK" /\ toGuest'[j][1] = "CLOCK" => i = j
  <2> SUFFICES ASSUME NEW i \in 1..Len(toGuest'), NEW j \in 1..Len(toGuest'),
                      toGuest'[i][1] = "CLOCK", toGuest'[j][1] = "CLOCK"
               PROVE  i = j
    OBVIOUS
  <2>1. i + 1 \in 1..Len(toGuest) /\ j + 1 \in 1..Len(toGuest)
    BY <1>2
  <2>2. toGuest[i + 1][1] = "CLOCK" /\ toGuest[j + 1][1] = "CLOCK"
    BY <1>2
  <2>3. i + 1 = j + 1
    BY <2>1, <2>2 DEF ToGuestInv
  <2> QED
    BY <1>2, <2>3
<1>4. Head(toGuest)[1] = "CLOCK" => \A m \in On(toGuest') : m[1] # "CLOCK"
  <2> SUFFICES ASSUME toGuest[1][1] = "CLOCK", NEW i \in 1..Len(toGuest'),
                      toGuest'[i][1] = "CLOCK"
               PROVE  FALSE
    BY <1>2 DEF On
  <2>1. i + 1 \in 1..Len(toGuest) /\ toGuest[i + 1][1] = "CLOCK" /\ 1 \in 1..Len(toGuest)
    BY <1>2
  <2>2. i + 1 = 1
    BY <2>1 DEF ToGuestInv
  <2> QED
    BY <2>2
<1>5. "clock" \in known' => "clock" \in known \/ Head(toGuest)[2] = "clock"
  BY DEF Learn
<1>6. "clock" \in known' => /\ kind = "resume" /\ h >= 12
                            /\ \A m \in On(toGuest') : m[1] # "CLOCK"
  BY <1>2, <1>4, <1>5 DEF ToGuestInv
<1> QED
  BY <1>2, <1>3, <1>6 DEF ToGuestInv

(* The CLOCK frame is sent once, and nothing ahead of its place.           *)
LEMMA ToGuestStep ==
    ASSUME TypeOK, ToGuestInv, [Next]_vars
    PROVE  ToGuestInv'
<1>1. /\ toGuest \in Seq(Frames) /\ kind \in Kinds
      /\ h \in 1..Len(HostScript[kind]) /\ h \in Nat
  BY ScriptLengths DEF TypeOK
<1>2. CASE Tick
  BY <1>1, <1>2 DEF Tick, ToGuestInv, hostVars, guestVars
<1>3. CASE Accept
  BY <1>1, <1>3 DEF Accept, ToGuestInv, hostVars, guestVars
<1>4. CASE ReadPreface
  BY <1>1, <1>4 DEF ReadPreface, Finish, MayRetry, ToGuestInv, hostVars,
     guestVars
<1>5. CASE WindowExpires
  BY <1>1, <1>5 DEF WindowExpires, Finish, ToGuestInv, hostVars, guestVars
<1>6. CASE Retire
  BY <1>1, <1>6 DEF Retire, Finish, ToGuestInv, hostVars, guestVars
<1>7. CASE SendFrame
  <2>1. CASE UNCHANGED <<h, toGuest>>
    BY <1>1, <2>1, <1>7 DEF SendFrame, ToGuestInv, guestVars
  <2>2. CASE toGuest' = Append(toGuest, <<HostScript[kind][h].rec, HostScript[kind][h].ch>>) /\ Advance
    <3>1. PICK m :
             /\ m = <<HostScript[kind][h].rec, HostScript[kind][h].ch>>
             /\ toGuest' = Append(toGuest, m)
      BY <2>2
    <3>2. /\ m[1] # "CLOCK" /\ m[2] # "clock"
          /\ m[1] = "CONTINUE" => kind = "resume" /\ h = 14
          /\ h' = h + 1
      BY <1>1, <2>2, <3>1, <1>7, HostTable DEF SendFrame, HostStep, Advance,
         NoChallenge
    <3>3. /\ \A x : x \in On(toGuest') <=> x \in On(toGuest) \/ x = m
          /\ Len(toGuest') = Len(toGuest) + 1
          /\ \A i \in 1..Len(toGuest) : toGuest'[i] = toGuest[i]
          /\ toGuest'[Len(toGuest) + 1] = m
      <4>1. /\ \A x : x \in On(Append(toGuest, m)) <=> x \in On(toGuest) \/ x = m
            /\ Len(Append(toGuest, m)) = Len(toGuest) + 1
            /\ \A i \in 1..Len(toGuest) : Append(toGuest, m)[i] = toGuest[i]
            /\ Append(toGuest, m)[Len(toGuest) + 1] = m
        BY <1>1, Push
      <4> QED
        BY <3>1, <4>1
    <3>4. \A i \in 1..Len(toGuest') : toGuest'[i][1] = "CLOCK" => i \in 1..Len(toGuest)
      BY <1>1, <3>2, <3>3
    <3>5. UNCHANGED <<kind, known>>
      BY <1>7 DEF SendFrame, guestVars
    <3> QED
      BY <1>1, <3>2, <3>3, <3>4, <3>5 DEF ToGuestInv
  <2> QED
    BY <2>1, <2>2, <1>7 DEF SendFrame
<1>8. CASE ExpectRecord
  BY <1>1, <1>8 DEF ExpectRecord, HostStep, Advance, Finish, ToGuestInv,
     hostVars, guestVars
<1>9. CASE StartClock
  BY <1>1, <1>9 DEF StartClock, HostStep, ToGuestInv, hostVars, guestVars
<1>10. CASE SampleClock
  <2>1. /\ toGuest' = Append(toGuest, <<"CLOCK", "clock">>)
        /\ h' = h + 1 /\ h = 11 /\ kind = "resume" /\ UNCHANGED <<kind, known>>
    BY <1>1, <1>10, HostTable DEF SampleClock, HostStep, guestVars
  <2>2. PICK m : m = <<"CLOCK", "clock">>
    OBVIOUS
  <2>3. /\ \A x : x \in On(toGuest') <=> x \in On(toGuest) \/ x = m
        /\ Len(toGuest') = Len(toGuest) + 1
        /\ \A i \in 1..Len(toGuest) : toGuest'[i] = toGuest[i] /\ toGuest[i] \in On(toGuest)
    BY <1>1, <2>1, <2>2, Push DEF On
  <2>4. m[1] = "CLOCK" /\ m[2] = "clock"
    BY <2>2
  <2>5. "clock" \notin known /\ \A x \in On(toGuest) : x[1] # "CLOCK"
    BY <1>1, <2>1 DEF ToGuestInv
  <2>6. \A i \in 1..Len(toGuest') : toGuest'[i][1] = "CLOCK" => i = Len(toGuest) + 1
    BY <1>1, <2>3, <2>5
  <2>7. \A x \in On(toGuest') : x \in On(toGuest) \/ x = m
    BY <2>3
  <2>8. /\ kind' = "resume" /\ h' >= 12 /\ "clock" \notin known'
        /\ \A x \in On(toGuest) : x[1] # "CONTINUE" /\ (x[2] = "clock" => x[1] = "CLOCK")
    BY <1>1, <2>1, <2>5 DEF ToGuestInv
  <2>9. ASSUME NEW x \in On(toGuest')
        PROVE  /\ x[1] # "CONTINUE"
               /\ x[2] = "clock" => x[1] = "CLOCK"
    <3>1. CASE x \in On(toGuest)
      BY <2>8, <3>1
    <3>2. CASE x = m
      BY <2>4, <3>2
    <3> QED
      BY <2>7, <3>1, <3>2
  <2>10. \A i, j \in 1..Len(toGuest') :
           toGuest'[i][1] = "CLOCK" /\ toGuest'[j][1] = "CLOCK" => i = j
    BY <2>6
  <2> QED
    BY <2>8, <2>9, <2>10, Zenon DEF ToGuestInv
<1>11. CASE ApplyExpires
  BY <1>1, <1>11 DEF ApplyExpires, HostStep, Finish, ToGuestInv, hostVars,
     guestVars
<1>12. CASE Validate
  BY <1>1, <1>12 DEF Validate, HostStep, Finish, ToGuestInv, hostVars, guestVars
<1>13. CASE AwaitClose
  BY <1>1, <1>13 DEF AwaitClose, HostStep, Advance, Finish, ToGuestInv,
     hostVars, guestVars
<1>14. CASE AcceptBeacon
  BY <1>1, <1>14 DEF AcceptBeacon, HostStep, Finish, ToGuestInv, hostVars,
     guestVars
<1>15. CASE ReadBeacon
  BY <1>1, <1>15 DEF ReadBeacon, HostStep, Advance, Finish, ToGuestInv,
     hostVars, guestVars
<1>16. CASE AwaitResult
  BY <1>1, <1>16 DEF AwaitResult, ToGuestInv, hostVars, guestVars
<1>17. CASE AwaitTimeout
  BY <1>1, <1>17 DEF AwaitTimeout, ToGuestInv, hostVars, guestVars
<1>18. CASE Abort
  BY <1>1, <1>18 DEF Abort, Finish, ToGuestInv, hostVars, guestVars
<1>19. CASE Connect
  BY <1>1, <1>19 DEF Connect, ToGuestInv, hostVars, guestVars
<1>20. CASE Preface
  BY <1>1, <1>20 DEF Preface, ToGuestInv, hostVars, guestVars
<1>21. CASE ConnectRefused
  BY <1>1, <1>21 DEF ConnectRefused, ToGuestInv, hostVars, guestVars
<1>22. CASE AgentRecv
  <2>1. CASE toGuest = <<>>
    BY <1>1, <2>1, <1>22 DEF AgentRecv, ToGuestInv, hostVars
  <2>2. CASE toGuest # <<>>
    BY <2>2, <1>22, ReadFrame DEF AgentRecv, hostVars
  <2> QED
    BY <2>1, <2>2
<1>23. CASE AgentDo
  BY <1>1, <1>23 DEF AgentDo, AgentStep, ToGuestInv, hostVars, guestVars
<1>24. CASE AgentSend
  BY <1>1, <1>24 DEF AgentSend, AgentStep, ToGuestInv, hostVars, guestVars
<1>25. CASE AgentBeacon
  BY <1>1, <1>25 DEF AgentBeacon, AgentStep, ToGuestInv, hostVars, guestVars
<1>26. CASE Beacon
  BY <1>1, <1>26 DEF Beacon, ToGuestInv, hostVars, guestVars
<1>27. CASE AgentExit
  BY <1>1, <1>27 DEF AgentExit, ToGuestInv, hostVars, guestVars
<1>28. CASE AgentFails
  BY <1>1, <1>28 DEF AgentFails, ToGuestInv, hostVars, guestVars
<1>29. CASE HastyRecv
  BY <1>29, ReadFrame DEF HastyRecv, hostVars
<1>30. CASE HastySend
  BY <1>1, <1>30 DEF HastySend, ToGuestInv, hostVars, guestVars
<1>31. CASE UNCHANGED vars
  BY <1>1, <1>31 DEF ToGuestInv, vars
<1> QED
  BY <1>2, <1>3, <1>4, <1>5, <1>6, <1>7, <1>8, <1>9, <1>10, <1>11, <1>12,
     <1>13, <1>14, <1>15, <1>16, <1>17, <1>18, <1>19, <1>20, <1>21, <1>22,
     <1>23, <1>24, <1>25, <1>26, <1>27, <1>28, <1>29, <1>30, <1>31 DEF Next,
     HostNext

(* An answer in flight stays good while nothing is added.                  *)
LEMMA HostKept ==
    ASSUME TypeOK, ToHostInv, On(toHost') \subseteq On(toHost),
           known \subseteq known', UNCHANGED <<kind, agent>>,
           \/ g' = g
           \/ g' = g + 1 /\ g <= Len(AgentScript[kind])
    PROVE  ToHostInv'
<1>1. /\ kind = "secrets" => Len(AgentScript[kind]) = 3
      /\ kind = "resume" => Len(AgentScript[kind]) = 21
  BY Scripts
<1>2. g \in Nat /\ g' \in Nat /\ g' >= g /\ kind \in Kinds
  <2>1. kind \in Kinds /\ g \in 1..(Len(AgentScript[kind]) + 1)
    BY DEF TypeOK
  <2> QED
    BY <2>1, ScriptLengths
<1>3. (kind = "secrets" /\ g = 4) \/ (kind = "resume" /\ g = 22) => g' = g
  <2>1. CASE g' = g + 1 /\ g <= Len(AgentScript[kind])
    <3>1. kind = "secrets" => g <= 3
      BY <1>1, <2>1
    <3>2. kind = "resume" => g <= 21
      BY <1>1, <2>1
    <3> QED
      BY <1>2, <3>1, <3>2
  <2> QED
    BY <2>1
<1> SUFFICES ASSUME NEW m \in On(toHost')
             PROVE  /\ m[2] # NoChallenge => m[2] \in known'
                    /\ agent' = "faithful" =>
                          /\ m[1] = "OK" => kind' = "secrets" /\ g' = 4
                          /\ m[1] = "APPLIED_clock" => g' > 16
                          /\ m[1] = "ACK_resume" => kind' = "resume" /\ g' = 22
  BY DEF ToHostInv
<1>4. m \in On(toHost)
  OBVIOUS
<1> QED
  BY <1>2, <1>3, <1>4 DEF ToHostInv

(* One more answer, that its sender was entitled to.                       *)
LEMMA HostPush ==
    ASSUME TypeOK, ToHostInv, NEW m, toHost' = Append(toHost, m),
           UNCHANGED <<kind, agent, known>>,
           \/ g' = g
           \/ g' = g + 1 /\ g <= Len(AgentScript[kind]),
           m[2] # NoChallenge => m[2] \in known,
           agent = "faithful" => /\ m[1] = "OK" => kind = "secrets" /\ g' = 4
                                 /\ m[1] = "APPLIED_clock" => g' > 16
                                 /\ m[1] = "ACK_resume" => kind = "resume" /\ g' = 22
    PROVE  ToHostInv'
<1>1. /\ kind = "secrets" => Len(AgentScript[kind]) = 3
      /\ kind = "resume" => Len(AgentScript[kind]) = 21
  BY Scripts
<1>2. /\ g \in Nat /\ g' \in Nat /\ g' >= g /\ kind \in Kinds
      /\ toHost \in Seq(Frames)
  <2>1. kind \in Kinds /\ g \in 1..(Len(AgentScript[kind]) + 1) /\ toHost \in Seq(Frames)
    BY DEF TypeOK
  <2> QED
    BY <2>1, ScriptLengths
<1>3. (kind = "secrets" /\ g = 4) \/ (kind = "resume" /\ g = 22) => g' = g
  <2>1. CASE g' = g + 1 /\ g <= Len(AgentScript[kind])
    <3>1. kind = "secrets" => g <= 3
      BY <1>1, <2>1
    <3>2. kind = "resume" => g <= 21
      BY <1>1, <2>1
    <3> QED
      BY <1>2, <3>1, <3>2
  <2> QED
    BY <2>1
<1>4. \A x : x \in On(Append(toHost, m)) <=> x \in On(toHost) \/ x = m
  BY <1>2, Push
<1> SUFFICES ASSUME NEW x \in On(toHost')
             PROVE  /\ x[2] # NoChallenge => x[2] \in known'
                    /\ agent' = "faithful" =>
                          /\ x[1] = "OK" => kind' = "secrets" /\ g' = 4
                          /\ x[1] = "APPLIED_clock" => g' > 16
                          /\ x[1] = "ACK_resume" => kind' = "resume" /\ g' = 22
  BY DEF ToHostInv
<1>5. CASE x \in On(toHost)
  BY <1>2, <1>3, <1>5 DEF ToHostInv
<1>6. CASE x = m
  BY <1>6
<1> QED
  BY <1>4, <1>5, <1>6

(* No answer is in flight that its sender was not entitled to.            *)
LEMMA ToHostStep ==
    ASSUME TypeOK, ToHostInv, AgentInv, [Next]_vars
    PROVE  ToHostInv'
<1>1. /\ toHost \in Seq(Frames) /\ kind \in Kinds
      /\ g \in 1..(Len(AgentScript[kind]) + 1) /\ Len(AgentScript[kind]) \in Nat
  BY ScriptLengths DEF TypeOK
<1>2. CASE Tick
  BY <1>2, HostKept DEF Tick, guestVars
<1>3. CASE Accept
  BY <1>3, HostKept DEF Accept, guestVars
<1>4. CASE ReadPreface
  BY <1>4, HostKept DEF ReadPreface, guestVars
<1>5. CASE WindowExpires
  BY <1>5, HostKept DEF WindowExpires, guestVars
<1>6. CASE Retire
  BY <1>6, HostKept DEF Retire, guestVars
<1>7. CASE SendFrame
  BY <1>7, HostKept DEF SendFrame, guestVars
<1>8. CASE ExpectRecord
  <2>1. On(toHost') \subseteq On(toHost)
    BY <1>1, <1>8, Pop DEF ExpectRecord
  <2> QED
    BY <2>1, <1>8, HostKept DEF ExpectRecord, guestVars
<1>9. CASE StartClock
  BY <1>9, HostKept DEF StartClock, guestVars
<1>10. CASE SampleClock
  BY <1>10, HostKept DEF SampleClock, guestVars
<1>11. CASE ApplyExpires
  BY <1>11, HostKept DEF ApplyExpires, guestVars
<1>12. CASE Validate
  BY <1>12, HostKept DEF Validate, guestVars
<1>13. CASE AwaitClose
  BY <1>13, HostKept DEF AwaitClose, guestVars
<1>14. CASE AcceptBeacon
  BY <1>14, HostKept DEF AcceptBeacon, guestVars
<1>15. CASE ReadBeacon
  BY <1>15, HostKept DEF ReadBeacon, guestVars
<1>16. CASE AwaitResult
  BY <1>16, HostKept DEF AwaitResult, guestVars
<1>17. CASE AwaitTimeout
  BY <1>17, HostKept DEF AwaitTimeout, guestVars
<1>18. CASE Abort
  BY <1>18, HostKept DEF Abort, guestVars
<1>19. CASE Connect
  BY <1>19, HostKept DEF Connect, guestVars
<1>20. CASE Preface
  BY <1>20, HostKept DEF Preface, guestVars
<1>21. CASE ConnectRefused
  BY <1>21, HostKept DEF ConnectRefused, guestVars
<1>22. CASE AgentRecv
  BY <1>1, <1>22, HostKept DEF AgentRecv, AgentStep, Learn, hostVars
<1>23. CASE AgentDo
  BY <1>1, <1>23, HostKept DEF AgentDo, AgentStep, hostVars
<1>24. CASE AgentSend
  <2>1. CASE ~Serving
    BY <2>1, <1>24, HostKept DEF AgentSend
  <2>2. CASE Serving
    <3>1. PICK m :
             /\ toHost' = Append(toHost, m)
             /\ m = <<AgentScript[kind][g].rec,
                      IF AgentScript[kind][g].rec \in {"APPLIED_clock", "STEP_clock"}
                      THEN echo ELSE NoChallenge>>
      BY <2>2, <1>24 DEF AgentSend
    <3>2. /\ g \in 1..Len(AgentScript[kind]) /\ g' = g + 1
          /\ UNCHANGED <<kind, agent, known>>
      BY <1>1, <2>2, <1>24 DEF AgentSend, AgentStep
    <3>3. /\ m[2] # NoChallenge => m[2] \in known
          /\ m[1] = "OK" => kind = "secrets" /\ g = 3
          /\ m[1] = "APPLIED_clock" => g = 16
          /\ m[1] = "ACK_resume" => kind = "resume" /\ g = 21
      BY <1>1, <3>1, <3>2, AgentTable DEF AgentInv
    <3> QED
      BY <1>1, <3>1, <3>2, <3>3, HostPush
  <2> QED
    BY <2>1, <2>2
<1>25. CASE AgentBeacon
  BY <1>1, <1>25, HostKept DEF AgentBeacon, AgentStep, hostVars
<1>26. CASE Beacon
  BY <1>26, HostKept DEF Beacon, guestVars
<1>27. CASE AgentExit
  BY <1>27, HostKept DEF AgentExit, guestVars
<1>28. CASE AgentFails
  <2>1. CASE toHost' = toHost
    BY <2>1, <1>28, HostKept DEF AgentFails
  <2>2. CASE toHost' = Append(toHost, <<"ERR", NoChallenge>>)
    <3>1. PICK m : m = <<"ERR", NoChallenge>>
      OBVIOUS
    <3>2. toHost' = Append(toHost, m) /\ m[1] = "ERR" /\ m[2] = NoChallenge
      BY <2>2, <3>1
    <3>3. UNCHANGED <<kind, agent, known, g>>
      BY <1>28 DEF AgentFails
    <3> QED
      BY <1>1, <3>2, <3>3, HostPush
  <2> QED
    BY <2>1, <2>2, <1>28 DEF AgentFails
<1>29. CASE HastyRecv
  BY <1>1, <1>29, HostKept DEF HastyRecv, AgentStep, Learn, hostVars
<1>30. CASE HastySend
  <2>1. PICK rec \in Answers, ch \in known \cup {NoChallenge} :
           toHost' = Append(toHost, <<rec, ch>>)
    BY <1>30 DEF HastySend
  <2>2. PICK m : m = <<rec, ch>>
    OBVIOUS
  <2>3. toHost' = Append(toHost, m) /\ m[2] = ch
    BY <2>1, <2>2
  <2>4. UNCHANGED <<kind, agent, known, g>> /\ agent # "faithful"
    BY <1>30 DEF HastySend, guestVars
  <2> QED
    BY <1>1, <2>1, <2>3, <2>4, HostPush
<1>31. CASE UNCHANGED vars
  BY <1>31, HostKept DEF vars, guestVars
<1> QED
  BY <1>2, <1>3, <1>4, <1>5, <1>6, <1>7, <1>8, <1>9, <1>10, <1>11, <1>12,
     <1>13, <1>14, <1>15, <1>16, <1>17, <1>18, <1>19, <1>20, <1>21, <1>22,
     <1>23, <1>24, <1>25, <1>26, <1>27, <1>28, <1>29, <1>30, <1>31 DEF Next,
     HostNext

(* Whole seconds are at most a second behind.                              *)
LEMMA WholeSeconds ==
    ASSUME NEW n \in Nat, NEW d \in Nat \ {0}
    PROVE  LET e == (n \div d) * d
           IN  e \in Nat /\ e <= n /\ n < e + d
<1>1. n = d * (n \div d) + (n % d) /\ n % d \in 0..(d - 1) /\ n \div d \in Nat
  OBVIOUS
<1>2. PICK e, t : e = (n \div d) * d /\ t = n % d
  OBVIOUS
<1>3. e = d * (n \div d) /\ e \in Nat
  BY <1>1, <1>2
<1>4. n = e + t /\ t \in 0..(d - 1)
  BY <1>1, <1>2, <1>3
<1>5. e <= n /\ n < e + d
  BY <1>3, <1>4
<1> QED
  BY <1>2, <1>3, <1>5

(* One second more than a number of seconds.                               *)
LEMMA OneMore ==
    (ClockApplyMax + 1) * Second = ClockApplyMax * Second + Second
BY SessionAssumption

(* A lag is within a measure that has grown.                               *)
LEMMA Later ==
    ASSUME NEW s \in Nat, NEW e \in Nat, NEW n \in Nat, NEW m \in Nat,
           m >= n, s <= n - e
    PROVE  s <= m - e
OBVIOUS

(* The host's steps, and those that leave the agent where it is.           *)
LEMMA AgentKept ==
    ASSUME TypeOK, AgentInv, UNCHANGED <<kind, agent, g, echo, known, done, skew>>,
           epoch' = epoch, h' \in Nat, h' >= h, now' \in Nat, now' >= now,
           beacon' # "none" => beacon # "none"
    PROVE  AgentInv'
<1>1. /\ h \in Nat /\ epoch \in Nat /\ now \in Nat /\ skew \in Nat /\ g \in Nat
      /\ agent \in {"faithful", "hasty"}
  <2>1. /\ kind \in Kinds /\ h \in 1..Len(HostScript[kind]) /\ now \in 0..AckTimeout
        /\ g \in 1..(Len(AgentScript[kind]) + 1)
        /\ epoch \in 0..AckTimeout /\ skew \in 0..(AckTimeout + 1)
        /\ agent \in {"faithful", "hasty"}
    BY DEF TypeOK, NoSkew
  <2> QED
    BY <2>1, ScriptLengths, SessionAssumption
<1>2. skew' = skew /\ epoch' = epoch /\ now' \in Nat /\ now' >= now
  OBVIOUS
<1>3. Dated => Dated'
  <2>1. skew <= now - epoch => skew <= now' - epoch
    BY <1>1, <1>2, Later
  <2> QED
    BY <1>2, <2>1 DEF Dated
<1> QED
  BY <1>1, <1>3 DEF AgentInv

(* The agent comes no further than the host has let it.                   *)
LEMMA AgentInvStep ==
    ASSUME TypeOK, ToGuestInv, AgentInv, ClockInv, [Next]_vars
    PROVE  AgentInv'
<1>1. /\ toGuest \in Seq(Frames) /\ kind \in Kinds /\ agent \in {"faithful", "hasty"}
      /\ h \in 1..Len(HostScript[kind]) /\ h \in Nat
      /\ g \in 1..(Len(AgentScript[kind]) + 1) /\ g \in Nat \ {0}
      /\ Len(AgentScript[kind]) \in Nat
      /\ now \in Nat /\ epoch \in Nat /\ epoch <= now /\ skew \in Nat
  <2>1. /\ toGuest \in Seq(Frames) /\ kind \in Kinds /\ agent \in {"faithful", "hasty"}
        /\ h \in 1..Len(HostScript[kind]) /\ now \in 0..AckTimeout
        /\ g \in 1..(Len(AgentScript[kind]) + 1)
        /\ epoch \in 0..AckTimeout /\ skew \in 0..(AckTimeout + 1)
    BY DEF TypeOK, NoSkew
  <2> QED
    BY <2>1, ScriptLengths, SessionAssumption DEF ClockInv
<1>2. kind = "provision" => Len(AgentScript[kind]) = 11
  BY Scripts
<1>3. CASE Tick
  BY <1>1, <1>3, AgentKept DEF Tick, hostVars, guestVars
<1>4. CASE Accept
  BY <1>1, <1>4, AgentKept DEF Accept, hostVars, guestVars
<1>5. CASE ReadPreface
  BY <1>1, <1>5, AgentKept DEF ReadPreface, hostVars, guestVars
<1>6. CASE WindowExpires
  BY <1>1, <1>6, AgentKept DEF WindowExpires, hostVars, guestVars
<1>7. CASE Retire
  BY <1>1, <1>7, AgentKept DEF Retire, hostVars, guestVars
<1>8. CASE SendFrame
  BY <1>1, <1>8, AgentKept DEF SendFrame, Advance, hostVars, guestVars
<1>9. CASE ExpectRecord
  BY <1>1, <1>9, AgentKept DEF ExpectRecord, Advance, hostVars, guestVars
<1>10. CASE StartClock
  BY <1>1, <1>10, AgentKept DEF StartClock, hostVars, guestVars
<1>11. CASE SampleClock
  <2>1. /\ kind = "resume" /\ h = 11 /\ h' = 12
        /\ UNCHANGED <<kind, agent, g, echo, known, done, skew, beacon>>
    BY <1>1, <1>11, HostTable DEF SampleClock, HostStep, guestVars
  <2>2. "clock" \notin known /\ (agent = "faithful" => g <= 14)
    BY <1>1, <2>1 DEF ToGuestInv, AgentInv
  <2> QED
    BY <1>1, <2>1, <2>2 DEF AgentInv
<1>12. CASE ApplyExpires
  BY <1>1, <1>12, AgentKept DEF ApplyExpires, hostVars, guestVars
<1>13. CASE Validate
  BY <1>1, <1>13, AgentKept DEF Validate, hostVars, guestVars
<1>14. CASE AwaitClose
  BY <1>1, <1>14, AgentKept DEF AwaitClose, Advance, hostVars, guestVars
<1>15. CASE AcceptBeacon
  BY <1>1, <1>15, AgentKept DEF AcceptBeacon, hostVars, guestVars
<1>16. CASE ReadBeacon
  BY <1>1, <1>16, AgentKept DEF ReadBeacon, Advance, hostVars, guestVars
<1>17. CASE AwaitResult
  BY <1>1, <1>17, AgentKept DEF AwaitResult, hostVars, guestVars
<1>18. CASE AwaitTimeout
  BY <1>1, <1>18, AgentKept DEF AwaitTimeout, hostVars, guestVars
<1>19. CASE Abort
  BY <1>1, <1>19, AgentKept DEF Abort, hostVars, guestVars
<1>20. CASE Connect
  BY <1>1, <1>20, AgentKept DEF Connect, hostVars, guestVars
<1>21. CASE Preface
  BY <1>1, <1>21, AgentKept DEF Preface, hostVars, guestVars
<1>22. CASE ConnectRefused
  BY <1>1, <1>22, AgentKept DEF ConnectRefused, hostVars, guestVars
<1>23. CASE AgentRecv
  <2>1. /\ agent = "faithful" /\ g \in 1..Len(AgentScript[kind])
        /\ AgentScript[kind][g].op = "recv"
        /\ UNCHANGED <<kind, agent, h, done, skew, epoch, now, beacon>>
    BY <1>1, <1>23 DEF AgentRecv, AgentStep, hostVars
  <2>2. ~(kind = "provision" /\ g = 12) /\ ~(kind = "resume" /\ g = 15)
    <3>1. kind = "provision" => g <= 11
      BY <1>2, <2>1
    <3>2. ~(kind = "resume" /\ g = 15)
      BY <1>1, <2>1, AgentTable
    <3> QED
      BY <3>1, <3>2
  <2>3. Dated' = Dated
    BY <2>1 DEF Dated
  <2>4. CASE g' = g + 1 /\ toGuest # <<>> /\ Learn(Head(toGuest))
             /\ Head(toGuest)[1] = AgentScript[kind][g].rec
    <3>1. Head(toGuest) \in On(toGuest)
      BY <1>1, <2>4, Pop
    <3>2. kind = "resume" /\ g = 14 => h >= 12
      BY <1>1, <2>1, <2>4, <3>1, AgentTable DEF ToGuestInv
    <3>3. kind = "resume" /\ g = 17 => h >= 15
      BY <1>1, <2>1, <2>4, <3>1, AgentTable DEF ToGuestInv
    <3>4. done = Done(kind, g)
      <4>1. Done(kind, g) = Done(kind, g - 1)
        BY <1>1, <2>1, DoneGrows
      <4> QED
        BY <4>1 DEF AgentInv
    <3>5. done' = Done(kind', g' - 1)
      BY <1>1, <2>1, <2>4, <3>4
    <3>6. echo' # NoChallenge => echo' \in known'
      BY <2>4 DEF Learn
    <3>7. kind' = "resume" /\ agent' = "faithful" =>
             /\ g' > 14 => h' >= 12
             /\ g' > 15 => Dated'
             /\ g' > 17 => h' >= 15
      BY <1>1, <2>1, <2>2, <2>3, <2>4, <3>2, <3>3 DEF AgentInv
    <3> QED
      BY <1>1, <2>1, <2>2, <3>5, <3>6, <3>7 DEF AgentInv
  <2>5. CASE g' = g /\ toGuest # <<>> /\ Learn(Head(toGuest))
    BY <1>1, <2>1, <2>3, <2>5 DEF AgentInv, Learn
  <2>6. CASE UNCHANGED <<g, echo, known>>
    BY <1>1, <2>1, <2>3, <2>6 DEF AgentInv
  <2> QED
    BY <2>4, <2>5, <2>6, <1>23 DEF AgentRecv
<1>24. CASE AgentDo
  <2>1. /\ agent = "faithful" /\ g \in 1..Len(AgentScript[kind])
        /\ UNCHANGED <<kind, agent, h, echo, known, epoch, now>>
    BY <1>1, <1>24 DEF AgentDo, AgentStep, hostVars
  <2>2. ~(kind = "provision" /\ g = 12)
    <3>1. g <= Len(AgentScript[kind])
      BY <1>1, <2>1
    <3>2. CASE kind = "provision"
      <4>1. Len(AgentScript[kind]) = 11
        BY <1>2, <3>2
      <4> QED
        BY <3>1, <4>1
    <3> QED
      BY <3>2
  <2>3. /\ AgentScript[kind][g].op = "do" /\ g' = g + 1 /\ beacon' = beacon
        /\ done' = done \cup {AgentScript[kind][g].rec}
    BY <1>24 DEF AgentDo, AgentStep
  <2>4. done' = Done(kind, g)
    <3>1. Done(kind, g) = Done(kind, g - 1) \cup {AgentScript[kind][g].rec}
      BY <1>1, <2>1, <2>3, DoneGrows
    <3> QED
      BY <2>3, <3>1 DEF AgentInv
  <2>5. done' = Done(kind', g' - 1)
    BY <1>1, <2>1, <2>3, <2>4
  <2>6. kind = "resume" /\ g = 15 => Dated'
    <3> HAVE kind = "resume" /\ g = 15
    <3>1. skew' = now - epoch
      BY <1>1, <2>1, <1>24, AgentTable DEF AgentDo
    <3> QED
      BY <1>1, <2>1, <3>1 DEF Dated
  <2>7. kind = "resume" /\ g # 15 => skew' = skew
    BY <1>1, <2>1, <1>24, AgentTable DEF AgentDo
  <2>8. kind = "resume" /\ g # 15 => Dated' = Dated
    BY <2>1, <2>7 DEF Dated
  <2>9. kind = "resume" => g # 14 /\ g # 17
    BY <1>1, <2>1, <2>3, AgentTable
  <2> QED
    BY <1>1, <2>1, <2>2, <2>3, <2>5, <2>6, <2>8, <2>9 DEF AgentInv
<1>25. CASE AgentSend
  <2>1. /\ agent = "faithful" /\ g \in 1..Len(AgentScript[kind])
        /\ UNCHANGED <<kind, agent, h, echo, known, epoch, now>>
    BY <1>1, <1>25 DEF AgentSend, AgentStep, hostVars
  <2>2. ~(kind = "provision" /\ g = 12)
    <3>1. g <= Len(AgentScript[kind])
      BY <1>1, <2>1
    <3>2. CASE kind = "provision"
      <4>1. Len(AgentScript[kind]) = 11
        BY <1>2, <3>2
      <4> QED
        BY <3>1, <4>1
    <3> QED
      BY <3>2
  <2>3. /\ AgentScript[kind][g].op = "send" /\ UNCHANGED <<beacon, done, skew>>
        /\ g' = g \/ g' = g + 1
    BY <1>25 DEF AgentSend, AgentStep
  <2>4. Dated' = Dated
    BY <2>1, <2>3 DEF Dated
  <2>5. done = Done(kind, g)
    <3>1. Done(kind, g) = Done(kind, g - 1)
      BY <1>1, <2>1, <2>3, DoneGrows
    <3> QED
      BY <3>1 DEF AgentInv
  <2>6. done' = Done(kind', g' - 1)
    BY <1>1, <2>1, <2>3, <2>5 DEF AgentInv
  <2>7. kind = "resume" => g \notin {14, 15, 17}
    BY <1>1, <2>1, <2>3, AgentTable
  <2> QED
    BY <1>1, <2>1, <2>2, <2>3, <2>4, <2>6, <2>7 DEF AgentInv
<1>26. CASE AgentBeacon
  <2>1. /\ agent = "faithful" /\ g \in 1..Len(AgentScript[kind])
        /\ UNCHANGED <<kind, agent, h, echo, known, epoch, now>>
    BY <1>1, <1>26 DEF AgentBeacon, AgentStep, hostVars
  <2>2. ~(kind = "provision" /\ g = 12)
    <3>1. g <= Len(AgentScript[kind])
      BY <1>1, <2>1
    <3>2. CASE kind = "provision"
      <4>1. Len(AgentScript[kind]) = 11
        BY <1>2, <3>2
      <4> QED
        BY <3>1, <4>1
    <3> QED
      BY <3>2
  <2>3. /\ AgentScript[kind][g].op = "beacon" /\ UNCHANGED <<done, skew>>
        /\ g' = g + 1
    BY <1>26 DEF AgentBeacon, AgentStep
  <2>4. kind = "provision" /\ g = 11
    BY <1>1, <2>1, <2>3, AgentTable
  <2>5. done = Done(kind, g)
    <3>1. Done(kind, g) = Done(kind, g - 1)
      BY <1>1, <2>1, <2>3, DoneGrows
    <3> QED
      BY <3>1 DEF AgentInv
  <2>6. done' = Done(kind', g' - 1)
    BY <1>1, <2>1, <2>3, <2>5
  <2> QED
    BY <1>1, <2>1, <2>3, <2>4, <2>6 DEF AgentInv
<1>27. CASE Beacon
  BY <1>1, <1>27, AgentKept DEF Beacon, hostVars, guestVars
<1>28. CASE AgentExit
  BY <1>1, <1>28, AgentKept DEF AgentExit, hostVars, guestVars
<1>29. CASE AgentFails
  BY <1>1, <1>29, AgentKept DEF AgentFails, hostVars, guestVars
<1>30. CASE HastyRecv
  <2>1. /\ agent = "hasty" /\ toGuest # <<>> /\ Learn(Head(toGuest))
        /\ UNCHANGED <<kind, agent, h, g, done, epoch, now, beacon>>
        /\ skew' = IF Head(toGuest)[1] = "CLOCK" THEN now - epoch ELSE skew
    BY <1>30 DEF HastyRecv, hostVars
  <2>2. Head(toGuest) \in On(toGuest)
    BY <1>1, <2>1, Pop
  <2>3. Head(toGuest)[2] = "clock" => Head(toGuest)[1] = "CLOCK"
    BY <2>2 DEF ToGuestInv
  <2>4. skew' = now - epoch => Dated'
    BY <1>1, <2>1 DEF Dated
  <2>5. skew' = skew => Dated' = Dated
    BY <2>1 DEF Dated
  <2>6. "clock" \in known' => "clock" \in known \/ Head(toGuest)[2] = "clock"
    BY <2>1 DEF Learn
  <2>7. "clock" \in known' => Dated'
    BY <2>1, <2>3, <2>4, <2>5, <2>6 DEF AgentInv
  <2>8. echo' # NoChallenge => echo' \in known'
    BY <2>1 DEF Learn
  <2> QED
    BY <2>1, <2>7, <2>8 DEF AgentInv
<1>31. CASE HastySend
  BY <1>1, <1>31, AgentKept DEF HastySend, hostVars, guestVars
<1>32. CASE UNCHANGED vars
  BY <1>1, <1>32, AgentKept DEF vars, hostVars, guestVars
<1> QED
  BY <1>3, <1>4, <1>5, <1>6, <1>7, <1>8, <1>9, <1>10, <1>11, <1>12, <1>13,
     <1>14, <1>15, <1>16, <1>17, <1>18, <1>19, <1>20, <1>21, <1>22, <1>23,
     <1>24, <1>25, <1>26, <1>27, <1>28, <1>29, <1>30, <1>31, <1>32 DEF Next,
     HostNext

(* While the host stays where it is, and no clock is set that it has       *)
(* measured.                                                               *)
LEMMA ClockKept ==
    ASSUME TypeOK, ClockInv, UNCHANGED <<kind, agent, h, started, epoch>>,
           known \subseteq known', g' \in Nat, g' >= g, now' \in Nat, now' >= now,
           skew' = skew \/ (kind = "resume" => h < 13)
    PROVE  ClockInv'
<1>1. /\ kind \in Kinds /\ now \in Nat /\ epoch \in Nat /\ started \in Nat /\ skew \in Nat
      /\ g \in Nat /\ h \in Nat
  <2>1. /\ kind \in Kinds /\ h \in 1..Len(HostScript[kind]) /\ now \in 0..AckTimeout
        /\ g \in 1..(Len(AgentScript[kind]) + 1) /\ started \in 0..AckTimeout
        /\ epoch \in 0..AckTimeout /\ skew \in 0..(AckTimeout + 1)
    BY DEF TypeOK, NoSkew
  <2> QED
    BY <2>1, ScriptLengths, SessionAssumption
<1>2. epoch' = epoch /\ started' = started /\ now' \in Nat /\ now' >= now
  OBVIOUS
<1>3. epoch' <= now' /\ (started <= now => started' <= now')
  BY <1>1, <1>2 DEF ClockInv
<1>4. skew' = skew /\ Dated => Dated'
  <2>1. skew <= now - epoch => skew <= now' - epoch
    BY <1>1, <1>2, Later
  <2> QED
    BY <1>2, <2>1 DEF Dated
<1>5. skew' = skew => Fresh' = Fresh
  BY DEF Fresh
<1>6. CASE kind # "resume"
  BY <1>3, <1>6 DEF ClockInv
<1>7. CASE kind = "resume" /\ h < 13
  BY <1>1, <1>3, <1>7 DEF ClockInv
<1>8. CASE kind = "resume" /\ skew' = skew
  BY <1>1, <1>3, <1>4, <1>5, <1>8 DEF ClockInv
<1> QED
  BY <1>6, <1>7, <1>8

(* A base has no clock to apply.                                           *)
LEMMA ClockIdle ==
    ASSUME ClockInv, kind # "resume", UNCHANGED <<kind, epoch, now>>
    PROVE  ClockInv'
BY DEF ClockInv

(* The host holds the agent to its budget and to its challenges.           *)
LEMMA ClockStep ==
    ASSUME TypeOK, ToGuestInv, ToHostInv, AgentInv, ClockInv, [Next]_vars
    PROVE  ClockInv'
<1>1. /\ toGuest \in Seq(Frames) /\ toHost \in Seq(Frames)
      /\ kind \in Kinds /\ agent \in {"faithful", "hasty"}
      /\ h \in 1..Len(HostScript[kind]) /\ h \in Nat
      /\ g \in 1..(Len(AgentScript[kind]) + 1) /\ g \in Nat \ {0}
      /\ Len(AgentScript[kind]) \in Nat
      /\ now \in Nat /\ epoch \in Nat /\ epoch <= now /\ skew \in Nat /\ started \in Nat
      /\ Second \in Nat \ {0}
  <2>1. /\ toGuest \in Seq(Frames) /\ toHost \in Seq(Frames)
        /\ kind \in Kinds /\ agent \in {"faithful", "hasty"}
        /\ h \in 1..Len(HostScript[kind]) /\ now \in 0..AckTimeout
        /\ g \in 1..(Len(AgentScript[kind]) + 1) /\ started \in 0..AckTimeout
        /\ epoch \in 0..AckTimeout /\ skew \in 0..(AckTimeout + 1)
    BY DEF TypeOK, NoSkew
  <2> QED
    BY <2>1, ScriptLengths, SessionAssumption DEF ClockInv
<1>2. CASE Tick
  BY <1>1, <1>2, ClockKept DEF Tick, hostVars, guestVars
<1>3. CASE Accept
  BY <1>1, <1>3, ClockKept DEF Accept, hostVars, guestVars
<1>4. CASE ReadPreface
  BY <1>1, <1>4, ClockKept DEF ReadPreface, hostVars, guestVars
<1>5. CASE WindowExpires
  BY <1>1, <1>5, ClockKept DEF WindowExpires, hostVars, guestVars
<1>6. CASE Retire
  BY <1>1, <1>6, ClockKept DEF Retire, hostVars, guestVars
<1>7. CASE SendFrame
  <2>1. UNCHANGED <<kind, agent, started, epoch, known, g, skew, now>>
    BY <1>7 DEF SendFrame, guestVars
  <2>2. CASE h' = h
    BY <1>1, <2>1, <2>2, ClockKept
  <2>3. CASE h' = h + 1 /\ kind = "resume"
    <3>1. h \notin {10, 11, 12, 13, 15}
      BY <1>1, <2>3, <1>7, HostTable DEF SendFrame, HostStep
    <3>2. (Fresh' <=> Fresh) /\ (Dated' <=> Dated)
      BY <2>1 DEF Fresh, Dated
    <3> QED
      BY <1>1, <2>1, <2>3, <3>1, <3>2 DEF ClockInv
  <2>4. CASE kind # "resume"
    BY <2>1, <2>4, ClockIdle
  <2> QED
    BY <2>2, <2>3, <2>4, <1>7 DEF SendFrame, Advance
<1>8. CASE ExpectRecord
  <2>1. UNCHANGED <<kind, agent, started, epoch, known, g, skew, now>>
    BY <1>8 DEF ExpectRecord, guestVars
  <2>2. CASE h' = h
    BY <1>1, <2>1, <2>2, ClockKept
  <2>3. CASE h' = h + 1 /\ kind = "resume"
    <3>1. h \notin {10, 11, 13}
      BY <1>1, <2>3, <1>8, HostTable DEF ExpectRecord, HostStep
    <3>2. (Fresh' <=> Fresh) /\ (Dated' <=> Dated)
      BY <2>1 DEF Fresh, Dated
    <3>3. /\ toHost # <<>>
          /\ Head(toHost) = <<HostScript[kind][h].rec, HostScript[kind][h].ch>>
      BY <1>1, <2>3, <1>8 DEF ExpectRecord, Accepted
    <3>4. Head(toHost) \in On(toHost)
      BY <1>1, <3>3, Pop
    <3>5. h = 12 => "clock" \in known /\ (agent = "faithful" => g > 16)
      <4> HAVE h = 12
      <4>1. Head(toHost)[1] = "APPLIED_clock" /\ Head(toHost)[2] = "clock"
        <5>1. HostScript[kind][h].rec = "APPLIED_clock" /\ HostScript[kind][h].ch = "clock"
          BY <1>1, <2>3, HostTable
        <5> QED
          BY <3>3, <5>1
      <4> QED
        BY <3>4, <4>1 DEF ToHostInv, NoChallenge
    <3>6. h = 12 => Dated
      BY <1>1, <2>3, <3>5 DEF AgentInv
    <3>7. h = 15 => "continue" \in known
      <4> HAVE h = 15
      <4>1. Head(toHost)[2] = "continue"
        BY <1>1, <2>3, <3>3, HostTable
      <4> QED
        BY <3>4, <4>1 DEF ToHostInv, NoChallenge
    <3>8. h' >= 13 => "clock" \in known /\ Dated /\ (agent = "faithful" => g > 16)
      BY <1>1, <2>3, <3>5, <3>6 DEF ClockInv
    <3>9. h' >= 16 => "continue" \in known
      BY <1>1, <2>3, <3>7 DEF ClockInv
    <3>10. /\ h' >= 11 => started <= now
           /\ h' >= 12 => started < epoch + Second
           /\ h' >= 14 => Fresh
      BY <1>1, <2>3, <3>1 DEF ClockInv
    <3> QED
      BY <1>1, <2>1, <2>3, <3>2, <3>8, <3>9, <3>10 DEF ClockInv
  <2>4. CASE kind # "resume"
    BY <2>1, <2>4, ClockIdle
  <2> QED
    BY <2>2, <2>3, <2>4, <1>8 DEF ExpectRecord, Advance
<1>9. CASE StartClock
  <2>1. /\ kind = "resume" /\ h = 10 /\ h' = 11 /\ started' = now
        /\ UNCHANGED <<kind, epoch, now>>
    BY <1>1, <1>9, HostTable DEF StartClock, HostStep, guestVars
  <2> QED
    BY <1>1, <2>1 DEF ClockInv
<1>10. CASE SampleClock
  <2>1. /\ kind = "resume" /\ h = 11 /\ h' = 12 /\ started <= now
        /\ epoch' = (now \div Second) * Second
        /\ UNCHANGED <<kind, started, now>>
    BY <1>1, <1>10, HostTable DEF SampleClock, HostStep, guestVars, ClockInv
  <2>2. epoch' \in Nat /\ epoch' <= now /\ now < epoch' + Second
    BY <1>1, <2>1, WholeSeconds, SessionAssumption
  <2>3. started < epoch' + Second
    BY <1>1, <2>1, <2>2
  <2> QED
    BY <1>1, <2>1, <2>2, <2>3 DEF ClockInv
<1>11. CASE ApplyExpires
  BY <1>1, <1>11, ClockKept DEF ApplyExpires, hostVars, guestVars
<1>12. CASE Validate
  <2>1. kind = "resume" /\ h = 13 /\ UNCHANGED <<kind, agent, started, epoch, known, g, skew, now>>
    BY <1>1, <1>12, HostTable DEF Validate, HostStep, guestVars
  <2>2. CASE h' = h
    BY <1>1, <2>1, <2>2, ClockKept
  <2>3. CASE h' = h + 1 /\ AppliedInTime
    <3>1. PICK c : c = ClockApplyMax * Second /\ c \in Nat
      BY SessionAssumption
    <3>2. now - started < c
      BY <2>3, <3>1 DEF AppliedInTime
    <3>3. skew <= now - epoch /\ started < epoch + Second
      BY <2>1 DEF ClockInv, Dated
    <3>4. skew < c + Second
      BY <1>1, <3>1, <3>2, <3>3
    <3>5. Fresh
      BY <3>1, <3>4, OneMore DEF Fresh
    <3>6. Fresh' /\ (Dated' <=> Dated)
      BY <2>1, <3>5 DEF Fresh, Dated
    <3> QED
      BY <1>1, <2>1, <2>3, <3>6 DEF ClockInv
  <2> QED
    BY <2>2, <2>3, <1>12 DEF Validate
<1>13. CASE AwaitClose
  <2>1. kind = "provision" /\ UNCHANGED <<kind, epoch, now>>
    BY <1>1, <1>13, HostTable DEF AwaitClose, HostStep
  <2> QED
    BY <2>1, ClockIdle
<1>14. CASE AcceptBeacon
  <2>1. kind = "provision" /\ UNCHANGED <<kind, epoch, now>>
    BY <1>1, <1>14, HostTable DEF AcceptBeacon, HostStep
  <2> QED
    BY <2>1, ClockIdle
<1>15. CASE ReadBeacon
  <2>1. kind = "provision" /\ UNCHANGED <<kind, epoch, now>>
    BY <1>1, <1>15, HostTable DEF ReadBeacon, HostStep
  <2> QED
    BY <2>1, ClockIdle
<1>16. CASE AwaitResult
  BY <1>1, <1>16, ClockKept DEF AwaitResult, hostVars, guestVars
<1>17. CASE AwaitTimeout
  BY <1>1, <1>17, ClockKept DEF AwaitTimeout, hostVars, guestVars
<1>18. CASE Abort
  BY <1>1, <1>18, ClockKept DEF Abort, hostVars, guestVars
<1>19. CASE Connect
  BY <1>1, <1>19, ClockKept DEF Connect, hostVars, guestVars
<1>20. CASE Preface
  BY <1>1, <1>20, ClockKept DEF Preface, hostVars, guestVars
<1>21. CASE ConnectRefused
  BY <1>1, <1>21, ClockKept DEF ConnectRefused, hostVars, guestVars
<1>22. CASE AgentRecv
  BY <1>1, <1>22, ClockKept DEF AgentRecv, Learn, hostVars, guestVars
<1>23. CASE AgentDo
  <2>1. /\ UNCHANGED <<kind, agent, h, started, epoch, known, now>>
        /\ agent = "faithful" /\ g \in 1..Len(AgentScript[kind]) /\ g' = g + 1
    BY <1>1, <1>23 DEF AgentDo, AgentStep, hostVars
  <2>2. kind = "resume" /\ skew' # skew => g = 15
    BY <1>1, <2>1, <1>23, AgentTable DEF AgentDo
  <2>3. skew' = skew \/ (kind = "resume" => h < 13)
    BY <1>1, <2>1, <2>2 DEF ClockInv
  <2> QED
    BY <1>1, <2>1, <2>3, ClockKept
<1>24. CASE AgentSend
  BY <1>1, <1>24, ClockKept DEF AgentSend, hostVars, guestVars
<1>25. CASE AgentBeacon
  BY <1>1, <1>25, ClockKept DEF AgentBeacon, hostVars, guestVars
<1>26. CASE Beacon
  BY <1>1, <1>26, ClockKept DEF Beacon, hostVars, guestVars
<1>27. CASE AgentExit
  BY <1>1, <1>27, ClockKept DEF AgentExit, hostVars, guestVars
<1>28. CASE AgentFails
  BY <1>1, <1>28, ClockKept DEF AgentFails, hostVars, guestVars
<1>29. CASE HastyRecv
  <2>1. /\ UNCHANGED <<kind, agent, h, started, epoch, now, g>>
        /\ known \subseteq known' /\ toGuest # <<>>
        /\ skew' # skew => Head(toGuest)[1] = "CLOCK"
    BY <1>29 DEF HastyRecv, Learn, hostVars
  <2>2. Head(toGuest) \in On(toGuest)
    BY <1>1, <2>1, Pop
  <2>3. skew' # skew => "clock" \notin known
    BY <2>1, <2>2 DEF ToGuestInv
  <2>4. skew' = skew \/ (kind = "resume" => h < 13)
    BY <1>1, <2>3 DEF ClockInv
  <2> QED
    BY <1>1, <2>1, <2>4, ClockKept
<1>30. CASE HastySend
  BY <1>1, <1>30, ClockKept DEF HastySend, hostVars, guestVars
<1>31. CASE UNCHANGED vars
  BY <1>1, <1>31, ClockKept DEF vars, hostVars, guestVars
<1> QED
  BY <1>2, <1>3, <1>4, <1>5, <1>6, <1>7, <1>8, <1>9, <1>10, <1>11, <1>12,
     <1>13, <1>14, <1>15, <1>16, <1>17, <1>18, <1>19, <1>20, <1>21, <1>22,
     <1>23, <1>24, <1>25, <1>26, <1>27, <1>28, <1>29, <1>30, <1>31 DEF Next,
     HostNext

(* While the task does not come to its end, and a closed agent stays so.   *)
LEMMA EndKept ==
    ASSUME EndInv, UNCHANGED <<kind, agent, h>>,
           hpc' = "ended" <=> ~Serving', task' = "ok" => task = "ok" /\ g' = g,
           gpc \in {"exited", "failed"} => gpc' \in {"exited", "failed"},
           result' = "ok" => result = "ok" /\ task' = task /\ endpoint' \subseteq endpoint
    PROVE  EndInv'
BY DEF EndInv

(* A task that has ended well leaves the agent nothing to do.              *)
LEMMA AgentAtEnd ==
    ASSUME TypeOK, EndInv, agent = "faithful", g <= Len(AgentScript[kind])
    PROVE  task # "ok"
<1>1. kind \in Kinds /\ g \in 1..(Len(AgentScript[kind]) + 1)
  BY DEF TypeOK
<1>2. Len(AgentScript[kind]) \in Nat
  BY <1>1, ScriptLengths
<1> QED
  BY <1>1, <1>2 DEF EndInv

(* The host comes to a good end only after the agent.                      *)
LEMMA EndStep ==
    ASSUME TypeOK, CandInv, AcceptInv, ToHostInv, AgentInv, EndInv, [Next]_vars
    PROVE  EndInv'
<1>1. /\ toHost \in Seq(Frames) /\ kind \in Kinds /\ agent \in {"faithful", "hasty"}
      /\ h \in 1..Len(HostScript[kind]) /\ h \in Nat /\ cur \in 0..MaxConnects
      /\ gpc \in {"connect", "preface", "script", "exited", "failed"}
      /\ task \in {"running", "aborting", "ok", "err", "aborted"}
      /\ endpoint \subseteq {"main", "beacon"} /\ MaxConnects \in Nat
  BY ScriptLengths, SessionAssumption DEF TypeOK
<1>2. /\ kind = "secrets" => Len(HostScript[kind]) = 2 /\ Len(AgentScript[kind]) = 3
      /\ kind = "provision" => Len(HostScript[kind]) = 9 /\ Len(AgentScript[kind]) = 11
      /\ kind = "resume" => Len(HostScript[kind]) = 17 /\ Len(AgentScript[kind]) = 21
  BY Scripts
<1>3. CASE Tick
  BY <1>1, <1>3, EndKept DEF Tick, hostVars, guestVars, Serving, EndInv
<1>4. CASE Accept
  BY <1>1, <1>4, EndKept DEF Accept, hostVars, guestVars, Serving, EndInv
<1>5. CASE ReadPreface
  BY <1>1, <1>5, EndKept DEF ReadPreface, Finish, MayRetry, hostVars,
     guestVars, Serving, EndInv
<1>6. CASE WindowExpires
  BY <1>1, <1>6, EndKept DEF WindowExpires, Finish, hostVars, guestVars,
     Serving, EndInv
<1>7. CASE Retire
  BY <1>1, <1>7, EndKept DEF Retire, Finish, hostVars, guestVars, Serving,
     EndInv
<1>8. CASE SendFrame
  <2>1. /\ Serving /\ hpc = "script" /\ task # "ok" /\ result # "ok"
        /\ UNCHANGED <<kind, agent, gpc, g, result>>
    BY <1>8 DEF SendFrame, HostStep, Serving, EndInv, guestVars
  <2>2. CASE h' = h /\ Finish("err")
    BY <1>1, <2>1, <2>2 DEF Finish, Serving, EndInv
  <2>3. CASE h' = h + 1 /\ UNCHANGED <<task, hpc>>
    <3>1. kind = "provision" => h # 7
      BY <1>1, <1>8, HostTable DEF SendFrame, HostStep
    <3> QED
      BY <1>1, <2>1, <2>3, <3>1 DEF Serving, EndInv
  <2>4. h # Len(HostScript[kind])
    BY <1>1, <1>8, HostTable DEF SendFrame, HostStep
  <2> QED
    BY <2>2, <2>3, <2>4, <1>8 DEF SendFrame, Advance
<1>9. CASE ExpectRecord
  <2>1. /\ Serving /\ hpc = "script" /\ task # "ok" /\ result # "ok"
        /\ UNCHANGED <<kind, agent, gpc, g, result>>
    BY <1>9 DEF ExpectRecord, HostStep, Serving, EndInv, guestVars
  <2>2. CASE h' = h /\ Finish("err")
    BY <1>1, <2>1, <2>2 DEF Finish, Serving, EndInv
  <2>3. CASE h' = h + 1 /\ UNCHANGED <<task, hpc>>
    <3>1. kind = "provision" => h # 7
      BY <1>1, <1>9, HostTable DEF ExpectRecord, HostStep
    <3> QED
      BY <1>1, <2>1, <2>3, <3>1 DEF Serving, EndInv
  <2>4. CASE /\ h = Len(HostScript[kind]) /\ Finish("ok") /\ h' = h /\ toHost # <<>>
             /\ Head(toHost) = <<HostScript[kind][h].rec, HostScript[kind][h].ch>>
    <3>1. Head(toHost) \in On(toHost)
      BY <1>1, <2>4, Pop
    <3>2. kind # "provision"
      BY <1>1, <1>2, <2>4, <1>9, HostTable DEF ExpectRecord, HostStep
    <3>3. kind = "secrets" => Head(toHost)[1] = "OK"
      <4> HAVE kind = "secrets"
      <4>1. HostScript[kind][h].rec = "OK"
        BY <1>1, <1>2, <2>4, HostTable
      <4> QED
        BY <2>4, <4>1
    <3>4. kind = "resume" => Head(toHost)[1] = "ACK_resume"
      <4> HAVE kind = "resume"
      <4>1. HostScript[kind][h].rec = "ACK_resume"
        <5>1. h = 17
          BY <1>2, <2>4
        <5> QED
          BY <1>1, <5>1, HostTable
      <4> QED
        BY <2>4, <4>1
    <3>5. agent = "faithful" => g = Len(AgentScript[kind]) + 1
      <4>1. CASE kind = "secrets"
        <5>1. agent = "faithful" => g = 4
          BY <3>1, <3>3, <4>1 DEF ToHostInv
        <5>2. Len(AgentScript[kind]) = 3
          BY <1>2, <4>1
        <5> QED
          BY <5>1, <5>2
      <4>2. CASE kind = "resume"
        <5>1. agent = "faithful" => g = 22
          BY <3>1, <3>4, <4>2 DEF ToHostInv
        <5>2. Len(AgentScript[kind]) = 21
          BY <1>2, <4>2
        <5> QED
          BY <5>1, <5>2
      <4> QED
        BY <1>1, <3>2, <4>1, <4>2 DEF Kinds
    <3>6. hpc' = "ended" /\ task' \in {"aborted", "ok"}
      BY <2>4 DEF Finish
    <3> QED
      BY <2>1, <2>4, <3>2, <3>5, <3>6 DEF Serving, EndInv
  <2> QED
    BY <2>2, <2>3, <2>4, <1>9 DEF ExpectRecord, Advance, Accepted
<1>10. CASE StartClock
  <2>1. /\ Serving /\ hpc = "script" /\ task # "ok" /\ result # "ok"
        /\ UNCHANGED <<kind, agent, gpc, g, result>>
    BY <1>10 DEF StartClock, HostStep, Serving, EndInv, guestVars
  <2>2. kind = "resume"
    BY <1>1, <1>10, HostTable DEF StartClock, HostStep
  <2> QED
    BY <2>1, <2>2, <1>10 DEF StartClock, Serving, EndInv
<1>11. CASE SampleClock
  <2>1. /\ Serving /\ hpc = "script" /\ task # "ok" /\ result # "ok"
        /\ UNCHANGED <<kind, agent, gpc, g, result>>
    BY <1>11 DEF SampleClock, HostStep, Serving, EndInv, guestVars
  <2>2. kind = "resume"
    BY <1>1, <1>11, HostTable DEF SampleClock, HostStep
  <2> QED
    BY <2>1, <2>2, <1>11 DEF SampleClock, Serving, EndInv
<1>12. CASE ApplyExpires
  BY <1>1, <1>12, EndKept DEF ApplyExpires, HostStep, Finish, hostVars,
     guestVars, Serving, EndInv
<1>13. CASE Validate
  <2>1. /\ Serving /\ hpc = "script" /\ task # "ok" /\ result # "ok"
        /\ UNCHANGED <<kind, agent, gpc, g, result>>
    BY <1>13 DEF Validate, HostStep, Serving, EndInv, guestVars
  <2>2. kind = "resume"
    BY <1>1, <1>13, HostTable DEF Validate, HostStep
  <2> QED
    BY <2>1, <2>2, <1>13 DEF Validate, Finish, Serving, EndInv
<1>14. CASE AwaitClose
  <2>1. /\ Serving /\ hpc = "script" /\ task # "ok" /\ result # "ok"
        /\ UNCHANGED <<kind, agent, gpc, g, result>>
    BY <1>14 DEF AwaitClose, HostStep, Serving, EndInv, guestVars
  <2>2. CASE h' = h /\ Finish("err")
    BY <1>1, <2>1, <2>2 DEF Finish, Serving, EndInv
  <2>3. CASE gpc # "script" /\ Advance
    <3>1. kind = "provision" /\ h = 7 /\ Len(HostScript[kind]) = 9
      BY <1>1, <1>2, <1>14, HostTable DEF AwaitClose, HostStep
    <3>2. h' = 8 /\ UNCHANGED <<task, hpc>>
      BY <2>3, <3>1 DEF Advance
    <3>3. cur \in 1..MaxConnects /\ cand[cur] = "full"
      BY <1>1, <2>1 DEF AcceptInv
    <3>4. gpc \in {"exited", "failed"}
      BY <1>1, <2>3, <3>3 DEF CandInv, Live
    <3> QED
      BY <2>1, <3>1, <3>2, <3>4 DEF Serving, EndInv
  <2> QED
    BY <2>2, <2>3, <1>14 DEF AwaitClose
<1>15. CASE AcceptBeacon
  <2>1. /\ Serving /\ hpc = "script" /\ task # "ok" /\ result # "ok"
        /\ UNCHANGED <<kind, agent, gpc, g, result>>
    BY <1>15 DEF AcceptBeacon, HostStep, Serving, EndInv, guestVars
  <2>2. kind = "provision" /\ h = 8
    BY <1>1, <1>15, HostTable DEF AcceptBeacon, HostStep
  <2> QED
    BY <2>1, <2>2, <1>15 DEF AcceptBeacon, Finish, Serving, EndInv
<1>16. CASE ReadBeacon
  <2>1. /\ Serving /\ hpc = "script" /\ task # "ok" /\ result # "ok"
        /\ UNCHANGED <<kind, agent, gpc, g, result>>
    BY <1>16 DEF ReadBeacon, HostStep, Serving, EndInv, guestVars
  <2>2. kind = "provision" /\ h = 9 /\ h = Len(HostScript[kind])
    BY <1>1, <1>2, <1>16, HostTable DEF ReadBeacon, HostStep
  <2>3. beacon = "whole" => g = Len(AgentScript[kind]) + 1
    <3>1. beacon = "whole" => g = 12
      BY DEF AgentInv
    <3>2. Len(AgentScript[kind]) = 11
      BY <1>2, <2>2
    <3> QED
      BY <3>1, <3>2
  <2>4. /\ h' = h /\ hpc' = "ended"
        /\ task' \in {"aborted", "ok", "err"} /\ (task' = "ok" => beacon = "whole")
    BY <2>2, <1>16 DEF ReadBeacon, Advance, Finish
  <2> QED
    BY <2>1, <2>2, <2>3, <2>4 DEF Serving, EndInv
<1>17. CASE AwaitResult
  BY <1>1, <1>17, EndKept DEF AwaitResult, hostVars, guestVars, Serving, EndInv
<1>18. CASE AwaitTimeout
  BY <1>1, <1>18, EndKept DEF AwaitTimeout, hostVars, guestVars, Serving, EndInv
<1>19. CASE Abort
  BY <1>1, <1>19, EndKept DEF Abort, Finish, hostVars, guestVars, Serving,
     EndInv
<1>20. CASE Connect
  BY <1>1, <1>20, EndKept DEF Connect, hostVars, guestVars, Serving, EndInv
<1>21. CASE Preface
  BY <1>1, <1>21, EndKept DEF Preface, hostVars, guestVars, Serving, EndInv
<1>22. CASE ConnectRefused
  BY <1>1, <1>22, EndKept DEF ConnectRefused, hostVars, guestVars, Serving,
     EndInv
<1>23. CASE AgentRecv
  <2>1. task # "ok"
    BY <1>1, <1>23, AgentAtEnd DEF AgentRecv, AgentStep
  <2> QED
    BY <2>1, <1>23, EndKept DEF AgentRecv, AgentStep, hostVars, Serving, EndInv
<1>24. CASE AgentDo
  <2>1. task # "ok"
    BY <1>1, <1>24, AgentAtEnd DEF AgentDo, AgentStep
  <2> QED
    BY <2>1, <1>24, EndKept DEF AgentDo, AgentStep, hostVars, Serving, EndInv
<1>25. CASE AgentSend
  <2>1. task # "ok"
    BY <1>1, <1>25, AgentAtEnd DEF AgentSend, AgentStep
  <2> QED
    BY <2>1, <1>25, EndKept DEF AgentSend, AgentStep, hostVars, Serving, EndInv
<1>26. CASE AgentBeacon
  <2>1. task # "ok"
    BY <1>1, <1>26, AgentAtEnd DEF AgentBeacon, AgentStep
  <2> QED
    BY <2>1, <1>26, EndKept DEF AgentBeacon, AgentStep, hostVars, Serving,
       EndInv
<1>27. CASE Beacon
  BY <1>1, <1>27, EndKept DEF Beacon, hostVars, guestVars, Serving, EndInv
<1>28. CASE AgentExit
  BY <1>1, <1>28, EndKept DEF AgentExit, hostVars, guestVars, Serving, EndInv
<1>29. CASE AgentFails
  BY <1>1, <1>29, EndKept DEF AgentFails, hostVars, guestVars, Serving, EndInv
<1>30. CASE HastyRecv
  BY <1>1, <1>30, EndKept DEF HastyRecv, Learn, hostVars, guestVars, Serving,
     EndInv
<1>31. CASE HastySend
  BY <1>1, <1>31, EndKept DEF HastySend, hostVars, guestVars, Serving, EndInv
<1>32. CASE UNCHANGED vars
  BY <1>1, <1>32, EndKept DEF vars, hostVars, guestVars, Serving, EndInv
<1> QED
  BY <1>3, <1>4, <1>5, <1>6, <1>7, <1>8, <1>9, <1>10, <1>11, <1>12, <1>13,
     <1>14, <1>15, <1>16, <1>17, <1>18, <1>19, <1>20, <1>21, <1>22, <1>23,
     <1>24, <1>25, <1>26, <1>27, <1>28, <1>29, <1>30, <1>31, <1>32 DEF Next,
     HostNext

(* What the host asks of a resumed agent are records.                      *)
LEMMA AnswersTyped == Answers \subseteq Records
<1> SUFFICES ASSUME NEW i \in 1..Len(HostScript["resume"]),
                    HostScript["resume"][i].op = "expect"
             PROVE  HostScript["resume"][i].rec \in Records
  BY DEF Answers
<1> QED
  BY Scripts, ResumeTable

(* Every step keeps the types.                                             *)
LEMMA TypeStep ==
    ASSUME TypeOK, CandInv, AcceptInv, ClockInv, [Next]_vars
    PROVE  TypeOK'
<1>1. PICK n : n = Len(HostScript[kind]) /\ n \in Nat /\ h \in 1..n /\ kind \in Kinds
  BY ScriptLengths DEF TypeOK
<1>2. PICK a : a = Len(AgentScript[kind]) /\ a \in Nat /\ g \in 1..(a + 1)
  BY ScriptLengths DEF TypeOK
<1>3. /\ now \in 0..AckTimeout /\ epoch \in 0..AckTimeout /\ epoch <= now
      /\ skew \in 0..(AckTimeout + 1) /\ AckTimeout \in Nat /\ Second \in Nat \ {0}
  BY SessionAssumption DEF TypeOK, ClockInv, NoSkew
<1>4. /\ cand \in [1..MaxConnects -> {"unused", "connected", "full", "retired", "wrong"}]
      /\ backlog \in Seq(1..MaxConnects) /\ MaxConnects \in Nat
      /\ seen \in 0..MaxCandidates /\ tried \in 0..MaxCandidates
      /\ MaxCandidates \in Nat /\ deadline \in Nat
  BY SessionAssumption DEF TypeOK
<1>5. /\ toGuest \in Seq(Frames) /\ toHost \in Seq(Frames)
      /\ echo \in Challenges \cup {NoChallenge} /\ known \subseteq Challenges
  BY DEF TypeOK
<1>6. /\ gpc \in {"connect", "preface", "script", "exited", "failed"}
      /\ task \in {"running", "aborting", "ok", "err", "aborted"}
      /\ hpc \in {"accept", "preface", "retire", "script", "ended"}
  BY DEF TypeOK
<1>7. /\ kind = "provision" => n = 9
      /\ kind = "resume" => n = 17
  BY <1>1, Scripts
<1>8. CASE Tick
  <2>1. now' \in 0..AckTimeout
    BY <1>3, <1>8 DEF Tick
  <2> QED
    BY <2>1, <1>8 DEF Tick, hostVars, guestVars, TypeOK
<1>9. CASE Accept
  <2>1. Head(backlog) \in 1..MaxConnects /\ Tail(backlog) \in Seq(1..MaxConnects)
    BY <1>4, <1>9, Pop DEF Accept
  <2>2. cur' \in 0..MaxConnects /\ backlog' \in Seq(1..MaxConnects)
    BY <1>4, <2>1, <1>9 DEF Accept
  <2>3. seen' \in 0..MaxCandidates
    BY <1>4, <1>9 DEF Accept, AcceptInv
  <2>4. deadline' \in Nat
    <3>1. RetryWindow * Second \in Nat
      BY SessionAssumption
    <3> QED
      BY <1>3, <1>4, <3>1, <1>9 DEF Accept
  <2> QED
    BY <2>2, <2>3, <2>4, <1>9, SMTT(30) DEF Accept, guestVars, TypeOK
<1>10. CASE ReadPreface
  <2>1. task' \in {"running", "aborting", "ok", "err", "aborted"}
    BY <1>6, <1>10 DEF ReadPreface, Finish
  <2>2. hpc' \in {"accept", "preface", "retire", "script", "ended"}
    BY <1>10 DEF ReadPreface, Finish
  <2>3. cur' \in 0..MaxConnects
    BY <1>4, <1>10 DEF ReadPreface, TypeOK
  <2> QED
    BY <2>1, <2>2, <2>3, <1>10 DEF ReadPreface, guestVars, TypeOK
<1>11. CASE WindowExpires
  BY <1>11 DEF WindowExpires, Finish, hostVars, guestVars, TypeOK
<1>12. CASE Retire
  <2>1. backlog' \in Seq(1..MaxConnects)
    BY <1>12 DEF Retire
  <2> QED
    BY <2>1, <1>12 DEF Retire, Finish, guestVars, TypeOK
<1>13. CASE SendFrame
  <2>1. h' \in 1..Len(HostScript[kind]) /\ kind' = kind
    <3>1. h' = h \/ (h' = h + 1 /\ h # n)
      BY <1>1, <1>13 DEF SendFrame, Advance
    <3>2. h' \in 1..n
      BY <1>1, <3>1
    <3> QED
      BY <1>1, <3>2, <1>13 DEF SendFrame
  <2>2. toGuest' \in Seq(Frames)
    <3>1. /\ HostScript[kind][h].rec \in Records
          /\ HostScript[kind][h].ch \in Challenges \cup {NoChallenge}
      BY <1>1, <1>13, HostTable DEF SendFrame, HostStep, Challenges
    <3>2. PICK m : m = <<HostScript[kind][h].rec, HostScript[kind][h].ch>>
      OBVIOUS
    <3>3. m \in Frames
      BY <3>1, <3>2 DEF Frames
    <3>4. Append(toGuest, m) \in Seq(Frames)
      BY <1>5, <3>3, Push
    <3> QED
      BY <1>5, <3>2, <3>4, <1>13 DEF SendFrame
  <2>3. /\ task' \in {"running", "aborting", "ok", "err", "aborted"}
        /\ hpc' \in {"accept", "preface", "retire", "script", "ended"}
    BY <1>6, <1>13 DEF SendFrame, Advance, Finish
  <2> QED
    BY <2>1, <2>2, <2>3, <1>13 DEF SendFrame, guestVars, TypeOK
<1>14. CASE ExpectRecord
  <2>1. h' \in 1..Len(HostScript[kind]) /\ kind' = kind
    <3>1. h' = h \/ (h' = h + 1 /\ h # n)
      BY <1>1, <1>14 DEF ExpectRecord, Advance
    <3>2. h' \in 1..n
      BY <1>1, <3>1
    <3> QED
      BY <1>1, <3>2, <1>14 DEF ExpectRecord
  <2>2. toHost' \in Seq(Frames)
    BY <1>5, <1>14, Pop DEF ExpectRecord
  <2>3. /\ task' \in {"running", "aborting", "ok", "err", "aborted"}
        /\ hpc' \in {"accept", "preface", "retire", "script", "ended"}
    BY <1>6, <1>14 DEF ExpectRecord, Advance, Finish
  <2> QED
    BY <2>1, <2>2, <2>3, <1>14 DEF ExpectRecord, guestVars, TypeOK
<1>15. CASE StartClock
  <2>1. h' \in 1..Len(HostScript[kind]) /\ kind' = kind
    <3>1. h' = h \/ (h' = h + 1 /\ h # n)
      <4>1. kind = "resume" /\ h = 10
        BY <1>1, <1>15, HostTable DEF StartClock, HostStep
      <4>2. h # n
        BY <1>7, <4>1
      <4> QED
        BY <4>2, <1>15 DEF StartClock
    <3>2. h' \in 1..n
      BY <1>1, <3>1
    <3> QED
      BY <1>1, <3>2, <1>15 DEF StartClock
  <2> QED
    BY <2>1, <1>15 DEF StartClock, guestVars, TypeOK
<1>16. CASE SampleClock
  <2>1. h' \in 1..Len(HostScript[kind]) /\ kind' = kind
    <3>1. h' = h \/ (h' = h + 1 /\ h # n)
      <4>1. kind = "resume" /\ h = 11
        BY <1>1, <1>16, HostTable DEF SampleClock, HostStep
      <4>2. h # n
        BY <1>7, <4>1
      <4> QED
        BY <4>2, <1>16 DEF SampleClock
    <3>2. h' \in 1..n
      BY <1>1, <3>1
    <3> QED
      BY <1>1, <3>2, <1>16 DEF SampleClock
  <2>2. epoch' \in 0..AckTimeout
    <3>1. epoch' = (now \div Second) * Second
      BY <1>16 DEF SampleClock
    <3>2. epoch' \in Nat /\ epoch' <= now
      BY <1>3, <3>1, WholeSeconds
    <3> QED
      BY <1>3, <3>2
  <2>3. toGuest' \in Seq(Frames)
    <3>1. PICK m : m = <<"CLOCK", "clock">>
      OBVIOUS
    <3>2. m \in Frames
      BY <3>1 DEF Frames, Records, Challenges
    <3>3. Append(toGuest, m) \in Seq(Frames)
      BY <1>5, <3>2, Push
    <3> QED
      BY <3>1, <3>3, <1>16 DEF SampleClock
  <2> QED
    BY <2>1, <2>2, <2>3, <1>16, SMTT(30) DEF SampleClock, guestVars, TypeOK
<1>17. CASE ApplyExpires
  BY <1>17 DEF ApplyExpires, HostStep, Finish, hostVars, guestVars, TypeOK
<1>18. CASE Validate
  <2>1. h' \in 1..Len(HostScript[kind]) /\ kind' = kind
    <3>1. h' = h \/ (h' = h + 1 /\ h # n)
      <4>1. kind = "resume" /\ h = 13
        BY <1>1, <1>18, HostTable DEF Validate, HostStep
      <4>2. h # n
        BY <1>7, <4>1
      <4> QED
        BY <4>2, <1>18 DEF Validate
    <3>2. h' \in 1..n
      BY <1>1, <3>1
    <3> QED
      BY <1>1, <3>2, <1>18 DEF Validate
  <2>2. /\ task' \in {"running", "aborting", "ok", "err", "aborted"}
        /\ hpc' \in {"accept", "preface", "retire", "script", "ended"}
    BY <1>6, <1>18 DEF Validate, Finish
  <2> QED
    BY <2>1, <2>2, <1>18 DEF Validate, guestVars, TypeOK
<1>19. CASE AwaitClose
  <2>1. h' \in 1..Len(HostScript[kind]) /\ kind' = kind
    <3>1. h' = h \/ (h' = h + 1 /\ h # n)
      BY <1>1, <1>19 DEF AwaitClose, Advance
    <3>2. h' \in 1..n
      BY <1>1, <3>1
    <3> QED
      BY <1>1, <3>2, <1>19 DEF AwaitClose
  <2>2. /\ task' \in {"running", "aborting", "ok", "err", "aborted"}
        /\ hpc' \in {"accept", "preface", "retire", "script", "ended"}
    BY <1>6, <1>19 DEF AwaitClose, Advance, Finish
  <2> QED
    BY <2>1, <2>2, <1>19 DEF AwaitClose, guestVars, TypeOK
<1>20. CASE AcceptBeacon
  <2>1. h' \in 1..Len(HostScript[kind]) /\ kind' = kind
    <3>1. h' = h \/ (h' = h + 1 /\ h # n)
      <4>1. kind = "provision" /\ h = 8
        BY <1>1, <1>20, HostTable DEF AcceptBeacon, HostStep
      <4>2. h # n
        BY <1>7, <4>1
      <4> QED
        BY <4>2, <1>20 DEF AcceptBeacon
    <3>2. h' \in 1..n
      BY <1>1, <3>1
    <3> QED
      BY <1>1, <3>2, <1>20 DEF AcceptBeacon
  <2>2. /\ task' \in {"running", "aborting", "ok", "err", "aborted"}
        /\ hpc' \in {"accept", "preface", "retire", "script", "ended"}
    BY <1>6, <1>20 DEF AcceptBeacon, Finish
  <2> QED
    BY <2>1, <2>2, <1>20 DEF AcceptBeacon, guestVars, TypeOK
<1>21. CASE ReadBeacon
  <2>1. h' \in 1..Len(HostScript[kind]) /\ kind' = kind
    <3>1. h' = h \/ (h' = h + 1 /\ h # n)
      BY <1>1, <1>21 DEF ReadBeacon, Advance
    <3>2. h' \in 1..n
      BY <1>1, <3>1
    <3> QED
      BY <1>1, <3>2, <1>21 DEF ReadBeacon
  <2>2. /\ task' \in {"running", "aborting", "ok", "err", "aborted"}
        /\ hpc' \in {"accept", "preface", "retire", "script", "ended"}
    BY <1>6, <1>21 DEF ReadBeacon, Advance, Finish
  <2> QED
    BY <2>1, <2>2, <1>21 DEF ReadBeacon, guestVars, TypeOK
<1>22. CASE AwaitResult
  BY <1>22 DEF AwaitResult, hostVars, guestVars, TypeOK
<1>23. CASE AwaitTimeout
  BY <1>23 DEF AwaitTimeout, hostVars, guestVars, TypeOK
<1>24. CASE Abort
  BY <1>24 DEF Abort, Finish, hostVars, guestVars, TypeOK
<1>25. CASE Connect
  <2>1. PICK m :
        /\ m = Mine /\ m \in 0..MaxConnects /\ m < MaxConnects
        /\ cand' = [cand EXCEPT ![m + 1] = IF kind = "resume" THEN "connected" ELSE "full"]
        /\ backlog' = Append(backlog, m + 1)
    BY <1>25, MineFacts DEF Connect, CandInv
  <2>2. backlog' \in Seq(1..MaxConnects)
    <3>1. PICK c \in 1..MaxConnects : c = m + 1
      BY <1>4, <2>1
    <3> QED
      BY <1>4, <2>1, <3>1
  <2>3. cand' \in [1..MaxConnects -> {"unused", "connected", "full", "retired", "wrong"}]
    BY <1>4, <2>1
  <2> QED
    BY <2>2, <2>3, <1>25 DEF Connect, hostVars, TypeOK
<1>26. CASE Preface
  <2>1. PICK v \in {"full", "retired", "wrong"} : cand' = [cand EXCEPT ![Mine] = v]
    BY <1>26 DEF Preface
  <2>2. cand' \in [1..MaxConnects -> {"unused", "connected", "full", "retired", "wrong"}]
    BY <1>4, <2>1
  <2>3. tried' \in 0..MaxCandidates
    BY <1>4, <1>26 DEF Preface, AcceptInv
  <2> QED
    BY <2>2, <2>3, <1>26 DEF Preface, hostVars, TypeOK
<1>27. CASE ConnectRefused
  BY <1>27 DEF ConnectRefused, hostVars, guestVars, TypeOK
<1>28. CASE AgentRecv
  <2>1. toGuest # <<>> => /\ Head(toGuest)[2] \in Challenges \cup {NoChallenge}
                          /\ Tail(toGuest) \in Seq(Frames)
    <3>1. toGuest # <<>> => Head(toGuest) \in Frames /\ Tail(toGuest) \in Seq(Frames)
      BY <1>5, Pop
    <3> QED
      BY <3>1 DEF Frames
  <2>2. /\ echo' \in Challenges \cup {NoChallenge} /\ known' \subseteq Challenges
        /\ toGuest' \in Seq(Frames)
    BY <1>5, <2>1, <1>28 DEF AgentRecv, Learn, AgentStep
  <2>3. g' \in 1..(Len(AgentScript[kind]) + 1) /\ kind' = kind
    <3>1. g' = g \/ (g' = g + 1 /\ g <= a)
      BY <1>2, <1>28 DEF AgentRecv, AgentStep
    <3>2. g' \in 1..(a + 1)
      BY <1>2, <3>1
    <3> QED
      BY <1>2, <3>2, <1>28 DEF AgentRecv
  <2>4. gpc' \in {"connect", "preface", "script", "exited", "failed"}
    BY <1>6, <1>28 DEF AgentRecv
  <2> QED
    BY <2>2, <2>3, <2>4, <1>28 DEF AgentRecv, hostVars, TypeOK
<1>29. CASE AgentDo
  <2>1. g' \in 1..(Len(AgentScript[kind]) + 1) /\ kind' = kind
    <3>1. g' = g \/ (g' = g + 1 /\ g <= a)
      BY <1>2, <1>29 DEF AgentDo, AgentStep
    <3>2. g' \in 1..(a + 1)
      BY <1>2, <3>1
    <3> QED
      BY <1>2, <3>2, <1>29 DEF AgentDo
  <2>2. done' \subseteq Duties(kind)
    <3>1. g \in 1..Len(AgentScript[kind]) /\ AgentScript[kind][g].op = "do"
      BY <1>2, <1>29 DEF AgentDo, AgentStep
    <3>2. AgentScript[kind][g].rec \in Duties(kind)
      BY <3>1 DEF Duties
    <3> QED
      BY <3>2, <1>29 DEF AgentDo, TypeOK
  <2>3. skew' \in 0..NoSkew
    BY <1>3, <1>29 DEF AgentDo, NoSkew
  <2> QED
    BY <2>1, <2>2, <2>3, <1>29 DEF AgentDo, hostVars, TypeOK
<1>30. CASE AgentSend
  <2>1. g' \in 1..(Len(AgentScript[kind]) + 1) /\ kind' = kind
    <3>1. g' = g \/ (g' = g + 1 /\ g <= a)
      BY <1>2, <1>30 DEF AgentSend, AgentStep
    <3>2. g' \in 1..(a + 1)
      BY <1>2, <3>1
    <3> QED
      BY <1>2, <3>2, <1>30 DEF AgentSend
  <2>2. toHost' \in Seq(Frames)
    <3>1. AgentScript[kind][g].rec \in Records
      BY <1>1, <1>2, <1>30, AgentTable DEF AgentSend, AgentStep
    <3>2. PICK m :
             m = <<AgentScript[kind][g].rec,
                   IF AgentScript[kind][g].rec \in {"APPLIED_clock", "STEP_clock"}
                   THEN echo ELSE NoChallenge>>
      OBVIOUS
    <3>3. m \in Frames
      BY <1>5, <3>1, <3>2 DEF Frames
    <3>4. Append(toHost, m) \in Seq(Frames)
      BY <1>5, <3>3, Push
    <3> QED
      BY <1>5, <3>2, <3>4, <1>30 DEF AgentSend
  <2>3. gpc' \in {"connect", "preface", "script", "exited", "failed"}
    BY <1>6, <1>30 DEF AgentSend
  <2>4. UNCHANGED <<agent, now, endpoint, backlog, cand, tried, task, hpc, cur, seen,
                    deadline, h, started, epoch, result, echo, known, done, skew,
                    beacon, toGuest>>
    BY <1>30 DEF AgentSend, hostVars
  <2> QED
    BY <2>1, <2>2, <2>3, <2>4 DEF TypeOK
<1>31. CASE AgentBeacon
  <2>1. g' \in 1..(Len(AgentScript[kind]) + 1) /\ kind' = kind
    <3>1. g' = g \/ (g' = g + 1 /\ g <= a)
      BY <1>2, <1>31 DEF AgentBeacon, AgentStep
    <3>2. g' \in 1..(a + 1)
      BY <1>2, <3>1
    <3> QED
      BY <1>2, <3>2, <1>31 DEF AgentBeacon
  <2> QED
    BY <2>1, <1>31 DEF AgentBeacon, hostVars, TypeOK
<1>32. CASE Beacon
  BY <1>32 DEF Beacon, hostVars, guestVars, TypeOK
<1>33. CASE AgentExit
  BY <1>33 DEF AgentExit, hostVars, guestVars, TypeOK
<1>34. CASE AgentFails
  <2>1. toHost' \in Seq(Frames)
    <3>1. PICK m : m = <<"ERR", NoChallenge>>
      OBVIOUS
    <3>2. m \in Frames
      BY <3>1 DEF Frames, Records
    <3>3. Append(toHost, m) \in Seq(Frames)
      BY <1>5, <3>2, Push
    <3> QED
      BY <1>5, <3>1, <3>3, <1>34 DEF AgentFails
  <2> QED
    BY <2>1, <1>34 DEF AgentFails, hostVars, TypeOK
<1>35. CASE HastyRecv
  <2>1. toGuest # <<>> => /\ Head(toGuest)[2] \in Challenges \cup {NoChallenge}
                          /\ Tail(toGuest) \in Seq(Frames)
    <3>1. toGuest # <<>> => Head(toGuest) \in Frames /\ Tail(toGuest) \in Seq(Frames)
      BY <1>5, Pop
    <3> QED
      BY <3>1 DEF Frames
  <2>2. /\ echo' \in Challenges \cup {NoChallenge} /\ known' \subseteq Challenges
        /\ toGuest' \in Seq(Frames)
    BY <1>5, <2>1, <1>35 DEF HastyRecv, Learn
  <2>3. skew' \in 0..NoSkew
    BY <1>3, <1>35 DEF HastyRecv, NoSkew
  <2> QED
    BY <2>2, <2>3, <1>35 DEF HastyRecv, hostVars, TypeOK
<1>36. CASE HastySend
  <2>1. PICK rec \in Answers, ch \in known \cup {NoChallenge} :
           toHost' = Append(toHost, <<rec, ch>>)
    BY <1>36 DEF HastySend
  <2>2. PICK m : m = <<rec, ch>>
    OBVIOUS
  <2>3. m \in Frames
    BY <1>5, <2>1, <2>2, AnswersTyped DEF Frames
  <2>4. Append(toHost, m) \in Seq(Frames)
    BY <1>5, <2>3, Push
  <2>5. toHost' \in Seq(Frames)
    BY <2>1, <2>2, <2>4
  <2> QED
    BY <2>5, <1>36 DEF HastySend, hostVars, guestVars, TypeOK
<1>37. CASE UNCHANGED vars
  BY <1>37 DEF vars, hostVars, guestVars, TypeOK
<1> QED
  BY <1>8, <1>9, <1>10, <1>11, <1>12, <1>13, <1>14, <1>15, <1>16, <1>17, <1>18,
     <1>19, <1>20, <1>21, <1>22, <1>23, <1>24, <1>25, <1>26, <1>27, <1>28,
     <1>29, <1>30, <1>31, <1>32, <1>33, <1>34, <1>35, <1>36, <1>37 DEF Next,
     HostNext

-----------------------------------------------------------------------------
(* The invariant and what follows from it                                  *)

(* The session begins with the invariant.                                  *)
LEMMA InitInv == Init => IndInv
<1> SUFFICES ASSUME Init PROVE IndInv
  OBVIOUS
<1>1. /\ kind \in Kinds /\ agent \in {"faithful", "hasty"}
      /\ kind # "resume" => agent = "faithful"
  BY DEF Init
<1>2. On(<<>>) = {} /\ Done(kind, 0) = {}
  BY DEF On, Done
<1>3. TypeOK
  <2>1. 1 \in 1..Len(HostScript[kind]) /\ 1 \in 1..(Len(AgentScript[kind]) + 1)
    BY <1>1, ScriptLengths
  <2>2. NoSkew \in 0..NoSkew /\ 0 \in 0..AckTimeout /\ 0 \in 0..MaxConnects
        /\ 0 \in 0..MaxCandidates
    BY SessionAssumption DEF NoSkew
  <2>3. endpoint \subseteq {"main", "beacon"}
    BY DEF Init, Bound
  <2>4. cand \in [1..MaxConnects -> {"unused", "connected", "full", "retired", "wrong"}]
    BY DEF Init
  <2>5. backlog \in Seq(1..MaxConnects) /\ toGuest \in Seq(Frames) /\ toHost \in Seq(Frames)
    BY DEF Init
  <2> QED
    BY <1>1, <2>1, <2>2, <2>3, <2>4, <2>5 DEF Init, TypeOK
<1>4. CandInv
  <2>1. \A c \in 1..MaxConnects : cand[c] = "unused"
    BY DEF Init
  <2>2. Opened(0) /\ 0 \in 0..MaxConnects
    BY <2>1, SessionAssumption DEF Opened
  <2>3. \A c \in 1..MaxConnects : ~Live(c)
    BY <2>1 DEF Live
  <2> QED
    BY <2>2, <2>3 DEF Init, CandInv
<1>5. AcceptInv
  BY <1>2, SessionAssumption DEF Init, AcceptInv
<1>6. ToGuestInv /\ ToHostInv
  BY <1>2 DEF Init, ToGuestInv, ToHostInv
<1>7. AgentInv
  BY <1>1, <1>2 DEF Init, AgentInv
<1>8. ClockInv
  BY DEF Init, ClockInv
<1>9. EndInv
  BY DEF Init, EndInv, Serving
<1> QED
  BY <1>3, <1>4, <1>5, <1>6, <1>7, <1>8, <1>9 DEF IndInv

(* Every step keeps it.                                                    *)
LEMMA StepInv == IndInv /\ [Next]_vars => IndInv'
<1> SUFFICES ASSUME IndInv, [Next]_vars PROVE IndInv'
  OBVIOUS
<1> QED
  BY TypeStep, CandStep, AcceptStep, ToGuestStep, ToHostStep, AgentInvStep,
     ClockStep,
     EndStep DEF IndInv

(* The inductive invariant holds throughout a session of any kind, with    *)
(* any number of connections and any timing.                               *)
THEOREM Invariance == Spec => []IndInv
BY InitInv, StepInv, PTL DEF Spec

(* Every variable keeps its type: no position runs off its script, and     *)
(* only frames of the protocol are in flight.                              *)
THEOREM TypeCorrect == Spec => []TypeOK
<1>1. IndInv => TypeOK
  BY DEF IndInv
<1> QED
  BY <1>1, Invariance, PTL

(* serve_stream, serve_provisioning_inner and serve_resume_inner give the  *)
(* payload to the one connection they retired the endpoint for.            *)
THEOREM PayloadSafe == Spec => []PayloadToOne
<1>1. IndInv => PayloadToOne
  <2> SUFFICES ASSUME IndInv, hpc = "script"
               PROVE  /\ cand[cur] = "full" /\ "main" \notin endpoint /\ backlog = <<>>
                      /\ \A c \in 1..MaxConnects :
                            cand[c] \in {"connected", "full"} => c = cur
    BY DEF PayloadToOne
  <2>1. /\ cand[cur] = "full" /\ "main" \notin endpoint /\ backlog = <<>> /\ cur # 0
    BY DEF IndInv, AcceptInv
  <2>2. cur \in 1..MaxConnects
    BY <2>1, SessionAssumption DEF IndInv, TypeOK
  <2>3. \A c \in 1..MaxConnects : cand[c] \in {"connected", "full"} => c = cur
    BY <2>1, <2>2 DEF IndInv, CandInv, Live
  <2> QED
    BY <2>1, <2>3
<1> QED
  BY <1>1, Invariance, PTL

(* A waiting command is told "ok" only after the agent did its duties and  *)
(* read both challenges, and with nothing left open.                       *)
THEOREM SuccessSafe == Spec => []SuccessIsEarned
<1>1. IndInv => SuccessIsEarned
  <2> SUFFICES ASSUME IndInv, result = "ok"
               PROVE  /\ agent = "faithful" => done = Duties(kind)
                      /\ kind = "resume" => known = Challenges
                      /\ kind = "provision" => gpc # "script" /\ endpoint = {}
    BY DEF SuccessIsEarned
  <2>1. /\ endpoint = {} /\ h = Len(HostScript[kind])
        /\ agent = "faithful" => g = Len(AgentScript[kind]) + 1
    BY DEF IndInv, EndInv
  <2>2. agent = "faithful" => done = Duties(kind)
    <3> HAVE agent = "faithful"
    <3>1. Len(AgentScript[kind]) \in Nat
      BY ScriptLengths DEF IndInv, TypeOK
    <3>2. g - 1 = Len(AgentScript[kind])
      BY <2>1, <3>1
    <3> QED
      BY <3>2 DEF IndInv, AgentInv, Done, Duties
  <2>3. kind = "resume" => known = Challenges
    <3> HAVE kind = "resume"
    <3>1. h = 17
      BY <2>1, Scripts
    <3>2. "clock" \in known /\ "continue" \in known
      BY <3>1 DEF IndInv, ClockInv
    <3>3. known \subseteq Challenges
      BY DEF IndInv, TypeOK
    <3> QED
      BY <3>2, <3>3 DEF Challenges
  <2>4. kind = "provision" => gpc # "script"
    <3> HAVE kind = "provision"
    <3>1. h = 9
      BY <2>1, Scripts
    <3> QED
      BY <3>1 DEF IndInv, EndInv
  <2> QED
    BY <2>1, <2>2, <2>3, <2>4
<1> QED
  BY <1>1, Invariance, PTL

(* rooms-resume-apply opens ssh, and a restore reports success, only with  *)
(* a clock within the budget that validate_clock_application_elapsed       *)
(* enforces, whatever the delays between host and guest.                   *)
THEOREM ClockSafe == Spec => []IngressClockFresh
<1>1. IndInv => IngressClockFresh
  <2> SUFFICES ASSUME IndInv, "sshd" \in done \/ (kind = "resume" /\ result = "ok")
               PROVE  Fresh
    BY DEF IngressClockFresh, Fresh
  <2>1. CASE "sshd" \in done
    <3>1. kind \in Kinds /\ Len(AgentScript[kind]) \in Nat
          /\ g \in 1..(Len(AgentScript[kind]) + 1)
      BY ScriptLengths DEF IndInv, TypeOK
    <3>2. PICK i \in 1..(g - 1) : AgentScript[kind][i].rec = "sshd"
      BY <2>1 DEF IndInv, AgentInv, Done
    <3>3. kind = "resume" /\ i = 19
      BY <3>1, <3>2, AgentTable
    <3>4. g > 17 /\ h \in Nat
      BY <3>1, <3>2, <3>3, ScriptLengths DEF IndInv, TypeOK
    <3>5. agent = "faithful"
      BY <3>1, <3>4 DEF IndInv, TypeOK, AgentInv
    <3>6. h >= 15
      BY <3>3, <3>4, <3>5 DEF IndInv, AgentInv
    <3> QED
      BY <3>3, <3>4, <3>6 DEF IndInv, ClockInv
  <2>2. CASE kind = "resume" /\ result = "ok"
    <3>1. h = 17
      BY <2>2, Scripts DEF IndInv, EndInv
    <3> QED
      BY <2>2, <3>1 DEF IndInv, ClockInv
  <2> QED
    BY <2>1, <2>2
<1> QED
  BY <1>1, Invariance, PTL
=============================================================================
