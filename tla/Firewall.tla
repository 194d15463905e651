------------------------------ MODULE Firewall ------------------------------
(***************************************************************************)
(* The egress policy of flat rooms and clones on the host's filter table   *)
(* (src/src/egress.rs, veth_isolation.rs) and what the witness makes of it *)
(* (artifacts.rs, egress_audit.rs).  A step is one iptables command, which *)
(* may fail; between two commands the processes of other rooms run theirs, *)
(* and a process may die.  IPTABLES_TRANSACTION is a lock of one process   *)
(* and orders nothing here: every room is driven by a process of its own.  *)
(*                                                                         *)
(* An interface names its room, the room's address and its policy chain    *)
(* (ROOMS_EG_k of tap-fck, ROOMS_CEG_n of veth-hn).  A rule is a record of *)
(* the sets it matches; two lines of a dump are equal iff the records are. *)
(***************************************************************************)
EXTENDS Integers, Sequences, FiniteSets, SequencesExt, FiniteSetsExt

CONSTANTS
    Taps,       \* interfaces of flat rooms
    Veths,      \* root-side interfaces of clones
    Crews,      \* the sets of rooms that may live on the host at a time
    Edits       \* whether the host's own chains may differ from setup-tap.sh's

(* No interface of a room has a name of something else. *)
OtherNames == {"up", "docker", "veth+", "flatnet", "vethnet", "p10", "p192", "p172",
               "pub1", "pub2", "host", "ACCEPT", "DROP", "LOG", "ROOMS_FWD",
               "ROOMS_VETH_FWD"}

ASSUME FirewallAssumption ==
    /\ Taps \cap Veths = {}
    /\ (Taps \cup Veths) \cap OtherNames = {}
    /\ Crews \subseteq SUBSET (Taps \cup Veths)
    /\ Edits \in BOOLEAN

Rooms == Taps \cup Veths
Allowed == {"pub1"}         \* what an allowlist permits
Plans == {"observe", "none", "allowlist"}

(* "veth+" makes the pattern veth-h+ a set of interfaces like any other.   *)
VethAny == Veths \cup {"veth+"}
Interfaces == Taps \cup VethAny \cup {"up", "docker"}

Supernet == Taps \cup {"flatnet"}
VethSupernet == Veths \cup {"vethnet"}
Net10 == {"p10"}
Net192 == {"p192"}
Net172 == Supernet \cup VethSupernet \cup {"p172"}
Points == Net10 \cup Net192 \cup Net172 \cup {"pub1", "pub2"}

Rule(to) == [neg |-> FALSE, s |-> Points, d |-> Points, i |-> Interfaces,
             o |-> Interfaces, est |-> FALSE, to |-> to]
From(net, to) == [Rule(to) EXCEPT !.s = net]
Between(src, dst, to) == [Rule(to) EXCEPT !.s = src, !.d = dst]
Entering(i, to) == [Rule(to) EXCEPT !.i = i]

(* setup-tap.sh --host *)
Egress(net) == [From(net, "ACCEPT") EXCEPT !.o = {"up"}]
Return(net) == [Rule("ACCEPT") EXCEPT !.i = {"up"}, !.d = net, !.est = TRUE]
Drops(net) == <<Between(net, net, "DROP"), Between(net, Net10, "DROP"),
                Between(net, Net192, "DROP"), Between(net, Net172, "DROP")>>
Trailer(net) == <<Egress(net), Return(net), From(net, "DROP")>>
Antispoof == [From(VethSupernet, "DROP") EXCEPT !.neg = TRUE, !.i = VethAny]

Substrate == [
    FORWARD |-> <<Rule("ROOMS_FWD"), Entering(VethAny, "ROOMS_VETH_FWD"),
                  [Rule("ROOMS_VETH_FWD") EXCEPT !.o = VethAny],
                  Entering({"docker"}, "ACCEPT")>>,
    ROOMS_FWD |-> Drops(Supernet) \o Trailer(Supernet),
    ROOMS_VETH_FWD |-> <<Antispoof>> \o Drops(VethSupernet) \o Trailer(VethSupernet),
    INPUT |-> <<Entering({"docker"}, "ACCEPT")>> ]
Shared == {"FORWARD", "ROOMS_FWD", "ROOMS_VETH_FWD", "INPUT"}

VARIABLES
    table,      \* the shared chains
    policy,     \* the policy chain of a room: a sequence of rules, or Absent
    pc,         \* what the process of a room does next
    plan,       \* the resolved plan of a room; "observe" when it has none
    mode,       \* why it removes: "install", "rollback" or "remove"
    at,         \* the insertion position it computed, 0 when it starts over
    users,      \* the rooms of this behaviour
    raced       \* history: flat rooms whose position another room's removal
                \* made stale before they used it; no action depends on it

vars == <<table, policy, pc, plan, mode, at, users, raced>>
Absent == <<Rule("absent")>>

Parent(x) == IF x \in Taps THEN "ROOMS_FWD" ELSE "ROOMS_VETH_FWD"
Jump(x) == Entering({x}, x)
InputDrop(x) == Entering({x}, "DROP")
Binding(x) == [From({x}, "DROP") EXCEPT !.neg = TRUE, !.i = {x}]

-----------------------------------------------------------------------------
(* What the kernel does with a packet: the reference.                      *)

Matches(r, p) ==
    /\ IF r.neg THEN p.s \notin r.s ELSE p.s \in r.s
    /\ p.d \in r.d /\ p.i \in r.i /\ p.o \in r.o
    /\ ~r.est

(* A rule's own verdict, into[c] being that of a jump to the chain c.      *)
Effect(r, into) ==
    CASE r.to \in {"ACCEPT", "DROP"} -> r.to
      [] r.to = "LOG" -> "return"
      [] OTHER -> into[r.to]

(* The first matching rule that has one decides. *)
Deciding(rules, p, into) ==
    {k \in DOMAIN rules : Matches(rules[k], p) /\ Effect(rules[k], into) # "return"}
Decide(rules, p, into) ==
    LET hits == Deciding(rules, p, into)
    IN  IF hits = {} THEN "return" ELSE Effect(rules[Min(hits)], into)

(* A policy chain and the INPUT chain jump nowhere. *)
NoChains == [c \in {} |-> "return"]
InPolicy(x, p) ==
    IF policy[x] = Absent THEN "return" ELSE Decide(policy[x], p, NoChains)
InShared(c, p) == Decide(table[c], p, [x \in Rooms |-> InPolicy(x, p)])

(* The FORWARD policy is ACCEPT, the kernel's default. *)
Forwarded(p) ==
    Decide(table["FORWARD"], p,
           [c \in {"ROOMS_FWD", "ROOMS_VETH_FWD"} |-> InShared(c, p)]) # "DROP"
Received(x) ==
    Decide(table["INPUT"], [s |-> x, d |-> x, i |-> x, o |-> x], NoChains) # "DROP"

(* The namespace of a clone masquerades the flat addresses of its guest;   *)
(* nothing else constrains what a guest puts in the source field.          *)
Sources(x) == IF x \in Taps THEN Points ELSE Points \ Supernet
OutOf(d) == IF d \in Rooms THEN d ELSE "up"
Packets(x) == {[s |-> s, d |-> d, i |-> x, o |-> OutOf(d)] :
                  s \in Sources(x), d \in Points \ {x}}

-----------------------------------------------------------------------------
(* The predicates over dumps.                                              *)

Negated(r) == r.neg
Wild(is) == "veth+" \in is

FlatRuleDisjointNegated(r) ==
    \/ r.s = Supernet
    \/ \E x \in Taps : r.i = {x}
    \/ r.d = Supernet /\ r.i # Interfaces /\ ~Wild(r.i) /\ r.i \cap Veths = {}

(* flat_rule_is_disjoint_from_veth *)
FlatRuleDisjoint(r) ==
    /\ ~Negated(r)
    /\ \/ r.s = Supernet
       \/ \E x \in Taps : r.i = {x}
       \/ r.d = Supernet /\ r.i # Interfaces /\ ~Wild(r.i) /\ r.i \cap Veths = {}

FallsThrough(rules) ==
    /\ rules # <<>>
    /\ \A k \in DOMAIN rules : FlatRuleDisjoint(rules[k])

JumpsOrdered(rules) ==
    /\ Len(rules) >= 3
    /\ SubSeq(rules, 1, 3) = SubSeq(Substrate.FORWARD, 1, 3)
    /\ \A k \in 4..Len(rules) : rules[k].to \notin {"ROOMS_FWD", "ROOMS_VETH_FWD"}

(* rooms_veth_fwd_isolates: bindings, the fixed drops, jumps of bound      *)
(* clones, the fixed tail; no binding and no jump twice.                   *)
Isolates(rules) ==
    \E n, m \in 0..Len(rules) :
        LET bound == SubSeq(rules, 1, n)
            jumps == SubSeq(rules, n + 6, n + 5 + m)
        IN  /\ n + m + 8 = Len(rules)
            /\ \A k \in 1..n : \E x \in Veths : bound[k] = Binding(x)
            /\ IsInjective(bound)
            /\ SubSeq(rules, n + 1, n + 5) = <<Antispoof>> \o Drops(VethSupernet)
            /\ \A k \in 1..m : \E x \in Veths :
                  jumps[k] = Jump(x) /\ Contains(bound, Binding(x))
            /\ IsInjective(jumps)
            /\ SubSeq(rules, n + m + 6, n + m + 8) = Trailer(VethSupernet)

CloneSubstrate ==
    /\ JumpsOrdered(table["FORWARD"])
    /\ FallsThrough(table["ROOMS_FWD"])
    /\ Isolates(table["ROOMS_VETH_FWD"])

(* insert_position, out_iface; clone_insert_position.                      *)
SupernetAccepts(rules) ==
    {k \in DOMAIN rules : /\ rules[k].s = Supernet
                          /\ rules[k].o # Interfaces
                          /\ rules[k].to = "ACCEPT"}
CloneHead(rules) ==
    {k \in DOMAIN rules : \/ rules[k] = Egress(VethSupernet)
                          \/ \E x \in Veths : rules[k] = Jump(x)}
InsertPositionBelow(x) ==
    1 + Min(IF x \in Taps THEN SupernetAccepts(table[Parent(x)])
                          ELSE CloneHead(table[Parent(x)]))
InsertPosition(x) ==
    Min(IF x \in Taps THEN SupernetAccepts(table[Parent(x)])
                      ELSE CloneHead(table[Parent(x)]))

(* subchain_rules *)
ToUp(r) == [r EXCEPT !.o = {"up"}]
SubchainRules(pl) ==
    (IF pl = "allowlist" THEN <<ToUp([Rule("ACCEPT") EXCEPT !.d = Allowed])>>
                         ELSE <<>>)
        \o <<ToUp(Rule("LOG")), ToUp(Rule("DROP"))>>

(* prior_rule_preserves_drop *)
PriorPreserves(r, x) ==
    \/ ~Negated(r) /\ r.i # Interfaces /\ x \notin r.i /\ ~Wild(r.i)
    \/ r.to \in {"DROP", "LOG"}

InputDropPresent(x) ==
    \E k \in DOMAIN table["INPUT"] :
        /\ table["INPUT"][k] = InputDrop(x)
        /\ \A j \in 1..(k - 1) : PriorPreserves(table["INPUT"][j], x)

(* verify_clone_locked with clone_egress_enforced, clone_observe_unenforced *)
Verified(x) ==
    /\ CloneSubstrate
    /\ Contains(table["ROOMS_VETH_FWD"], Binding(x))
    /\ IF plan[x] = "observe"
       THEN /\ ~Contains(table["ROOMS_VETH_FWD"], Jump(x))
            /\ ~Contains(table["INPUT"], InputDrop(x))
       ELSE /\ Contains(table["ROOMS_VETH_FWD"], Jump(x))
            /\ policy[x] = SubchainRules(plan[x])
            /\ plan[x] = "none" => InputDropPresent(x)

-----------------------------------------------------------------------------
(* The host before the first room: what setup-tap.sh left, or that with    *)
(* one rule taken out, exchanged with the next or put in by someone else.  *)

Foreign == {Rule("ACCEPT"), Entering({"docker"}, "ACCEPT"), Rule("LOG"),
            Entering(VethAny, "ACCEPT"), From(VethSupernet, "ACCEPT"),
            From(Supernet, "ACCEPT"), [From(Supernet, "ACCEPT") EXCEPT !.neg = TRUE],
            Between(Points, Supernet, "ACCEPT"), Rule("ROOMS_VETH_FWD")}
            \cup {Entering({x}, "ACCEPT") : x \in Rooms}

Swapped(rules, k) == [rules EXCEPT ![k] = rules[k + 1], ![k + 1] = rules[k]]
Edited(rules, c) ==
    {RemoveAt(rules, k) : k \in 1..Len(rules)}
    \cup {Swapped(rules, k) : k \in 1..(Len(rules) - 1)}
    \cup {InsertAt(rules, k, f) : k \in 1..(Len(rules) + 1),
             f \in IF c = "FORWARD" THEN Foreign ELSE Foreign \ {Rule("ROOMS_VETH_FWD")}}

Init ==
    /\ \/ table = Substrate /\ users \in Crews
       \/ /\ Edits
          /\ \E c \in Shared : \E rules \in Edited(Substrate[c], c) :
                table = [Substrate EXCEPT ![c] = rules]
          /\ users \in {{x} : x \in Veths}
    /\ policy = [x \in Rooms |-> Absent]
    /\ pc = [x \in Rooms |-> "free"]
    /\ plan = [x \in Rooms |-> "observe"]
    /\ mode = [x \in Rooms |-> "install"]
    /\ at = [x \in Rooms |-> 0]
    /\ raced = {}

Goto(x, label) == pc' = [pc EXCEPT ![x] = label]
SetChain(c, rules) == table' = [table EXCEPT ![c] = rules]
Without(rules, r) == RemoveFirst(rules, r)

-----------------------------------------------------------------------------
(* Removal: every copy of the exact INPUT drop and of the exact jump, then *)
(* the chain.  It comes first in an install, and undoes a failed one.      *)

StartRemove(x, why) ==
    /\ mode' = [mode EXCEPT ![x] = why]
    /\ at' = [at EXCEPT ![x] = 0]
    /\ Goto(x, "input_off")

(* Of a flat room an install goes on, and a teardown frees the slot, after *)
(* an incomplete removal; of a clone it is an error.                       *)
RemoveEnds(x, complete) ==
    /\ CASE mode[x] = "install" ->
              IF complete \/ x \in Taps THEN Goto(x, "dump") ELSE Goto(x, "stale")
         [] mode[x] = "remove" /\ x \in Taps ->
              IF complete THEN Goto(x, "free")
                          ELSE \E l \in {"free", "stale"} : Goto(x, l)
         [] mode[x] = "remove" /\ x \in Veths ->
              Goto(x, IF complete THEN "unbind" ELSE "stale")
         [] mode[x] = "rollback" -> Goto(x, "stale")
    /\ UNCHANGED <<plan, mode, at, users>>

InputOff(x) ==
    /\ pc[x] = "input_off"
    /\ UNCHANGED <<policy, plan, mode, at, users>>
    /\ IF Contains(table["INPUT"], InputDrop(x))
       THEN SetChain("INPUT", Without(table["INPUT"], InputDrop(x))) /\ UNCHANGED pc
       ELSE Goto(x, "jump_off") /\ UNCHANGED table

JumpOff(x) ==
    /\ pc[x] = "jump_off"
    /\ IF policy[x] = Absent
       THEN RemoveEnds(x, TRUE) /\ UNCHANGED <<table, policy>>
       ELSE /\ IF Contains(table[Parent(x)], Jump(x))
               THEN /\ SetChain(Parent(x), Without(table[Parent(x)], Jump(x)))
                    /\ UNCHANGED pc
               ELSE Goto(x, "flush") /\ UNCHANGED table
            /\ UNCHANGED <<policy, plan, mode, at, users>>

Flush(x) ==
    /\ pc[x] = "flush"
    /\ policy' = [policy EXCEPT ![x] = <<>>]
    /\ Goto(x, "delete")
    /\ UNCHANGED <<table, plan, mode, at, users>>

DeleteChain(x) ==
    /\ pc[x] = "delete"
    /\ policy' = [policy EXCEPT ![x] = Absent]
    /\ RemoveEnds(x, TRUE)
    /\ UNCHANGED table

RemoveFails(x) ==
    /\ pc[x] \in {"input_off", "jump_off", "flush", "delete"}
    /\ RemoveEnds(x, FALSE)
    /\ UNCHANGED <<table, policy>>

-----------------------------------------------------------------------------
(* Install.                                                                *)

(* The last command of clonenet's create plan. *)
Bind(x) ==
    /\ x \in Veths
    /\ pc[x] = "free"
    /\ SetChain(Parent(x), <<Binding(x)>> \o table[Parent(x)])
    /\ Goto(x, "bound")
    /\ UNCHANGED <<policy, plan, mode, at, users>>

Unbind(x) ==
    /\ pc[x] = "unbind"
    /\ SetChain(Parent(x), Without(table[Parent(x)], Binding(x)))
    /\ Goto(x, "free")
    /\ UNCHANGED <<policy, plan, mode, at, users>>

(* An observing flat room touches nothing; an observing clone proves that  *)
(* nothing of an earlier owner is left.                                    *)
Install(x) ==
    /\ pc[x] = IF x \in Taps THEN "free" ELSE "bound"
    /\ \E pl \in Plans : plan' = [plan EXCEPT ![x] = pl]
    /\ IF x \in Taps /\ plan'[x] = "observe"
       THEN Goto(x, "up") /\ UNCHANGED <<mode, at>>
       ELSE StartRemove(x, "install")
    /\ UNCHANGED <<table, policy, users>>

(* dump_forward; dump_verified_clone_substrate. *)
Dump(x) ==
    /\ pc[x] = "dump"
    /\ LET found == IF x \in Taps
                    THEN SupernetAccepts(table[Parent(x)]) # {}
                    ELSE CloneSubstrate /\ Contains(table[Parent(x)], Binding(x))
       IN  CASE x \in Veths /\ plan[x] = "observe" ->
                  Goto(x, "verify") /\ UNCHANGED at
             [] ~(x \in Veths /\ plan[x] = "observe") /\ found ->
                  /\ at' = [at EXCEPT ![x] = InsertPosition(x)]
                  /\ Goto(x, "new")
             [] OTHER -> Goto(x, "failed") /\ UNCHANGED at
    /\ UNCHANGED <<table, policy, plan, mode, users>>

NewChain(x) ==
    /\ pc[x] = "new"
    /\ IF policy[x] = Absent
       THEN policy' = [policy EXCEPT ![x] = <<>>] /\ Goto(x, "append")
       ELSE Goto(x, "failed") /\ UNCHANGED policy
    /\ UNCHANGED <<table, plan, mode, at, users>>

AppendRule(x) ==
    /\ pc[x] = "append"
    /\ LET rules == SubchainRules(plan[x]) IN
       /\ policy' = [policy EXCEPT ![x] = Append(@, rules[Len(@) + 1])]
       /\ Goto(x, IF policy'[x] = rules THEN "jump" ELSE "append")
    /\ UNCHANGED <<table, plan, mode, at, users>>

AfterRules(x) == IF x \in Taps THEN "up" ELSE "verify"

InsertJump(x) ==
    /\ pc[x] = "jump"
    /\ IF at[x] <= Len(table[Parent(x)]) + 1
       THEN /\ SetChain(Parent(x), InsertAt(table[Parent(x)], at[x], Jump(x)))
            /\ Goto(x, IF plan[x] = "none" THEN "input" ELSE AfterRules(x))
       ELSE Goto(x, "failed") /\ UNCHANGED table
    /\ UNCHANGED <<policy, plan, mode, at, users>>

InsertInputDrop(x) ==
    /\ pc[x] = "input"
    /\ SetChain("INPUT", <<InputDrop(x)>> \o table["INPUT"])
    /\ Goto(x, AfterRules(x))
    /\ UNCHANGED <<policy, plan, mode, at, users>>

(* The proof after the install, and the one before an enforced resume.     *)
Verify(x) ==
    /\ pc[x] \in {"verify", "loaded"}
    /\ LET installing == pc[x] = "verify" /\ plan[x] # "observe"
       IN  Goto(x, IF Verified(x) THEN IF installing THEN "loaded" ELSE "up"
                                  ELSE IF installing THEN "failed" ELSE "stale")
    /\ UNCHANGED <<table, policy, plan, mode, at, users>>

InstallFails(x) ==
    /\ pc[x] \in {"dump", "new", "append", "jump", "input", "verify"}
    /\ Goto(x, "failed")
    /\ UNCHANGED <<table, policy, plan, mode, at, users>>

(* An error of a clone's install is cleaned up before it is returned; a    *)
(* flat room is left to its guard.                                         *)
Rollback(x) ==
    /\ pc[x] = "failed"
    /\ IF x \in Veths THEN StartRemove(x, "rollback") ELSE StartRemove(x, "remove")
    /\ plan' = [plan EXCEPT ![x] = "observe"]
    /\ UNCHANGED <<table, policy, users>>

(* RoomGuard, finish_teardown, gc. *)
Teardown(x) ==
    /\ pc[x] \in {"up", "loaded", "stale", "bound"}
    /\ StartRemove(x, "remove")
    /\ plan' = [plan EXCEPT ![x] = "observe"]
    /\ UNCHANGED <<table, policy, users>>

Crash(x) ==
    /\ pc[x] \notin {"free", "stale"}
    /\ Goto(x, "stale")
    /\ UNCHANGED <<table, policy, plan, mode, at, users>>

Step(x) ==
    \/ InputOff(x) \/ JumpOff(x) \/ Flush(x) \/ DeleteChain(x) \/ RemoveFails(x)
    \/ Bind(x) \/ Unbind(x) \/ Install(x) \/ Dump(x) \/ NewChain(x)
    \/ AppendRule(x) \/ InsertJump(x) \/ InsertInputDrop(x) \/ Verify(x)
    \/ InstallFails(x) \/ Rollback(x) \/ Teardown(x) \/ Crash(x)

(* Between the dump that ranks the ACCEPT and the insertion at that rank.  *)
Splicing == {"new", "append", "jump"}

(* A jump is taken out of ROOMS_FWD while other flat rooms are splicing    *)
(* theirs in; a room that starts over will compute a rank anew.            *)
Watch(x) ==
    raced' = IF Len(table'["ROOMS_FWD"]) < Len(table["ROOMS_FWD"])
             THEN raced \cup {y \in Taps \ {x} : pc[y] \in Splicing}
             ELSE IF pc'[x] = "input_off" THEN raced \ {x} ELSE raced

Next == \E x \in users : Step(x) /\ Watch(x)

Spec == Init /\ [][Next]_vars

-----------------------------------------------------------------------------
(* The witness of a run: the flows a guest attempted, seen on its own      *)
(* interface ahead of the drops, and the verdict drawn from them.          *)

(* A flow to the room's own link ("host", the gateway) is no egress.       *)
Flows == [d : {"pub1", "pub2"}, port : {80}, name : {"none"}]
         \cup [d : {"pub1", "host"}, port : {53}, name : {"sentinel"}]
Targets == {"pub1", "pub2", "sentinel"}

Summarize(flows) == {f \in flows : f.d # "host"}
Permitted(pl) == IF pl = "allowlist" THEN Allowed ELSE {}
BlockedUnderAnyPlan(pl, flows) ==
    {f \in Summarize(flows) : f.d \notin Permitted(pl)}
Blocked(pl, flows) ==
    IF pl = "observe" THEN {} ELSE {f \in Summarize(flows) : f.d \notin Permitted(pl)}

(* Where the allowlist lets a resolver through, a stopped query elsewhere  *)
(* says nothing of the name: only the closed run of the gate is judged.    *)
Classify(t, pl, flows) ==
    LET seen == {f \in Summarize(flows) : t \in {f.d, f.name}}
        stopped == {f \in Blocked(pl, flows) :
                       f.d = t \/ (t = "sentinel" /\ f.port = 53)}
    IN  IF t = "sentinel" /\ seen = {} THEN "not_attempted"
        ELSE IF stopped # {} THEN "contained"
        ELSE IF seen # {} THEN "escaped" ELSE "not_attempted"

Leaves(x, f) ==
    IF f.d = "host" THEN Received(x)
    ELSE \E p \in Packets(x) : p.d = f.d /\ Forwarded(p)

-----------------------------------------------------------------------------
Up == {x \in users : pc[x] = "up"}

Enforced(x) ==
    /\ plan[x] # "observe" =>
          \A p \in Packets(x) : p.o = "up" /\ Forwarded(p) => p.d \in Permitted(plan[x])
    /\ plan[x] = "none" => ~Received(x)

(* A room that runs under a policy sends nothing upstream that the policy  *)
(* does not permit, whatever source it claims, and under `none` nothing to *)
(* the host (install, install_clone, verify_clone): whatever a dead owner  *)
(* of the interface left behind, and whatever other rooms install, remove, *)
(* fail or leave behind meanwhile.  The one exception is a flat room from  *)
(* under whose rank another one's jump was removed: see FlatEnforced.      *)
EgressEnforced == \A x \in Up \ raced : Enforced(x)

(* Whatever its plan and whatever the host's own rules, a clone that was   *)
(* let run reaches no other guest and no private network, and only its own *)
(* address leaves it (clone_forwarding_substrate).                         *)
ClonesIsolated ==
    \A x \in Up \cap Veths : \A p \in Packets(x) :
        Forwarded(p) => p.s = x /\ p.d \notin Net10 \cup Net192 \cup Net172

(* "contained" is never said of an attempt that went through: the audit    *)
(* infers it from the plan, the kernel decides by its rules (classify,     *)
(* record_egress); with the exception of EgressEnforced.                   *)
ContainedIsStopped ==
    \A x \in Up \ raced : \A f \in Flows : Leaves(x, f) =>
        \A flows \in SUBSET Flows : \A t \in {f.d, f.name} \cap Targets :
            f \in flows /\ (plan[x] = "allowlist" => t # "sentinel")
            => Classify(t, plan[x], flows) # "contained"

(* A tap of a flat room carries only what is permitted, also when other    *)
(* `rooms run` processes come and go (install).                            *)
FlatEnforced ==
    \A x \in Up \cap Taps : plan[x] # "observe" =>
        \A p \in Packets(x) : p.o = "up" /\ Forwarded(p) => p.d \in Permitted(plan[x])
=============================================================================
