--------------------------- MODULE FirewallProofs ---------------------------
(***************************************************************************)
(* The theorems of Firewall, for any number of flat rooms and clones.      *)
(*                                                                         *)
(* A rule guards a room when a packet of the room meets it before anything *)
(* that may accept (Shields).  A step of another room puts in or takes out *)
(* one rule on that room's own interface (StepTable), which no packet of   *)
(* this one enters, so guards stay (ShieldKept).  A clone runs only after  *)
(* a verification that finds all of its guards in the chains it dumped     *)
(* (VerifiedGuards), whatever the host's own rules are: CloneInv.          *)
(*                                                                         *)
(* A flat room does not verify.  Its jump is a guard because the rank that *)
(* it computed from a dump is still within the head of its chain when it   *)
(* inserts: only drops and jumps of other rooms stand before the           *)
(* supernet's ACCEPT (HeadAt).  A jump that another flat room puts in      *)
(* meanwhile pushes the ACCEPT down, below the rank; one that is taken out *)
(* lets it move up past the rank, and the run FirewallRace shows what      *)
(* comes of it.  FlatInv is the invariant of the rooms to which that did   *)
(* not happen (raced).                                                     *)
(***************************************************************************)
EXTENDS Firewall, WellFoundedInduction, TLAPS

(* What the process of a room may do next.                                 *)
Labels == {"free", "bound", "input_off", "jump_off", "flush", "delete", "unbind",
           "dump", "new", "append", "jump", "input", "verify", "loaded", "up",
           "failed", "stale"}
(* Where a rule may send a packet, and the rules.                          *)
RuleTargets == {"ACCEPT", "DROP", "LOG", "ROOMS_FWD", "ROOMS_VETH_FWD"} \cup Rooms
RuleSet == [neg : BOOLEAN, s : SUBSET Points, d : SUBSET Points,
            i : SUBSET Interfaces, o : SUBSET Interfaces, est : BOOLEAN,
            to : RuleTargets]

(* A rule g shields a room x where every rule ahead of it is g itself, no  *)
(* rule that accepts or jumps, or one that a packet of x does not enter.   *)
Harmless(r, g, x) == r = g \/ r.to \in {"DROP", "LOG"} \/ x \notin r.i
ShieldedAt(rules, g, x, j) ==
    /\ rules[j] = g
    /\ \A k \in 1..(j - 1) : Harmless(rules[k], g, x)
Shields(rules, g, x) == \E j \in 1..Len(rules) : ShieldedAt(rules, g, x, j)

-----------------------------------------------------------------------------
(* The chains as sequences.                                                *)

(* A set of positions has a least one.                                     *)
LEMMA MinOfRanks ==
    ASSUME NEW S, S \subseteq Nat, S # {}
    PROVE  Min(S) \in S /\ \A y \in S : Min(S) =< y
<1>1. PICK x \in S : \A y \in S : ~(<<y, x>> \in OpToRel(<, Nat))
  BY WFMin, NatLessThanWellFounded
<1>2. OpToRel(<, Nat) = {ss \in Nat \X Nat : ss[1] < ss[2]}
  BY DEF OpToRel
<1>3. ASSUME NEW y \in S
      PROVE  x =< y
  <2>1. x \in Nat /\ y \in Nat
    OBVIOUS
  <2>2. ~(<<y, x>> \in {ss \in Nat \X Nat : ss[1] < ss[2]})
    BY <1>1, <1>2
  <2>3. ~(y < x)
    BY <2>1, <2>2
  <2> QED
    BY <2>1, <2>3
<1> QED
  BY <1>3 DEF Min

(* What the positions of a concatenation hold.                             *)
LEMMA Concat ==
    ASSUME NEW S, NEW s \in Seq(S), NEW t \in Seq(S)
    PROVE  /\ s \o t \in Seq(S)
           /\ Len(s \o t) = Len(s) + Len(t)
           /\ \A k \in 1..Len(s) : (s \o t)[k] = s[k]
           /\ \A k \in 1..Len(t) : (s \o t)[Len(s) + k] = t[k]
OBVIOUS

(* One element and two more.                                               *)
LEMMA OneAndTwo ==
    ASSUME NEW S, NEW a \in S, NEW b \in S, NEW c \in S
    PROVE  <<a>> \o <<b, c>> = <<a, b, c>>
<1> DEFINE u == <<a>> \o <<b, c>>
           v == <<a, b, c>>
<1>1. u \in Seq(S) /\ Len(u) = 3 /\ u[1] = a /\ u[2] = b /\ u[3] = c
  OBVIOUS
<1>2. v \in Seq(S) /\ Len(v) = 3 /\ v[1] = a /\ v[2] = b /\ v[3] = c
  OBVIOUS
<1> HIDE DEF u, v
<1>3. ASSUME NEW p \in Seq(S), NEW q \in Seq(S), Len(p) = Len(q),
             \A k \in 1..Len(p) : p[k] = q[k]
      PROVE  p = q
  BY <1>3
<1>4. \A k \in 1..Len(u) : u[k] = v[k]
  BY <1>1, <1>2
<1>5. u = v
  BY <1>1, <1>2, <1>3, <1>4
<1> QED
  BY <1>5 DEF u, v

(* What the positions of a part of a sequence hold.                        *)
LEMMA Slice ==
    ASSUME NEW S, NEW s \in Seq(S), NEW m \in 1..(Len(s) + 1), NEW n \in 0..Len(s),
           m =< n + 1
    PROVE  /\ SubSeq(s, m, n) \in Seq(S)
           /\ Len(SubSeq(s, m, n)) = n - m + 1
           /\ \A k \in 1..(n - m + 1) : SubSeq(s, m, n)[k] = s[m + k - 1]
OBVIOUS

(* t is s with e put in at i; t is s with the i-th taken out.              *)
Inserted(t, s, i, e) ==
    /\ Len(t) = Len(s) + 1
    /\ t[i] = e
    /\ \A k \in 1..(i - 1) : t[k] = s[k]
    /\ \A k \in i..Len(s) : t[k + 1] = s[k]
Removed(t, s, i) ==
    /\ Len(t) = Len(s) - 1
    /\ \A k \in 1..(i - 1) : t[k] = s[k]
    /\ \A k \in i..(Len(s) - 1) : t[k] = s[k + 1]

(* InsertAt of SequencesExt puts one element in.                           *)
LEMMA InsertForm ==
    ASSUME NEW S, NEW s \in Seq(S), NEW e \in S, NEW i \in 1..(Len(s) + 1)
    PROVE  InsertAt(s, i, e) \in Seq(S) /\ Inserted(InsertAt(s, i, e), s, i, e)
<1> DEFINE a == SubSeq(s, 1, i - 1)
           c == SubSeq(s, i, Len(s))
           t == InsertAt(s, i, e)
<1>1. /\ a \in Seq(S) /\ Len(a) = i - 1
      /\ \A k \in 1..(i - 1) : a[k] = s[k]
  BY Slice
<1>2. /\ c \in Seq(S) /\ Len(c) = Len(s) - i + 1
      /\ \A k \in 1..(Len(s) - i + 1) : c[k] = s[i + k - 1]
  BY Slice
<1>3. t = (a \o <<e>>) \o c
  BY DEF InsertAt
<1> HIDE DEF a, c, t
<1>4. /\ a \o <<e>> \in Seq(S) /\ Len(a \o <<e>>) = i
      /\ (a \o <<e>>)[i] = e
      /\ \A k \in 1..(i - 1) : (a \o <<e>>)[k] = s[k]
  <2>1. PICK w : w = <<e>>
    OBVIOUS
  <2>2. w \in Seq(S) /\ Len(w) = 1 /\ w[1] = e
    BY <2>1
  <2>3. PICK v : v = a \o w
    OBVIOUS
  <2>4. /\ v \in Seq(S) /\ Len(v) = Len(a) + Len(w)
        /\ \A k \in 1..Len(a) : v[k] = a[k]
        /\ \A k \in 1..Len(w) : v[Len(a) + k] = w[k]
    <3>1. a \in Seq(S) /\ w \in Seq(S)
      BY <1>1, <2>2
    <3>2. /\ a \o w \in Seq(S) /\ Len(a \o w) = Len(a) + Len(w)
          /\ \A k \in 1..Len(a) : (a \o w)[k] = a[k]
          /\ \A k \in 1..Len(w) : (a \o w)[Len(a) + k] = w[k]
      BY <3>1, Concat
    <3> QED
      BY <2>3, <3>2, Zenon
  <2>5. Len(v) = i /\ v[i] = e /\ \A k \in 1..(i - 1) : v[k] = s[k]
    BY <1>1, <2>2, <2>4
  <2> QED
    BY <2>1, <2>3, <2>4, <2>5
<1>5. PICK u : u = a \o <<e>>
  OBVIOUS
<1>6. /\ t \in Seq(S) /\ Len(t) = i + Len(c)
      /\ \A k \in 1..i : t[k] = u[k]
      /\ \A k \in 1..Len(c) : t[i + k] = c[k]
  <2>1. u \in Seq(S) /\ Len(u) = i /\ t = u \o c
    BY <1>3, <1>4, <1>5
  <2>2. /\ u \o c \in Seq(S) /\ Len(u \o c) = Len(u) + Len(c)
        /\ \A k \in 1..Len(u) : (u \o c)[k] = u[k]
        /\ \A k \in 1..Len(c) : (u \o c)[Len(u) + k] = c[k]
    BY <1>2, <2>1, Concat
  <2> QED
    BY <2>1, <2>2
<1>7. \A k \in i..Len(s) : t[k + 1] = s[k]
  <2> TAKE k \in i..Len(s)
  <2>1. PICK n \in 1..(Len(s) - i + 1) : k = i + n - 1
    <3>1. k - i + 1 \in 1..(Len(s) - i + 1) /\ k = i + (k - i + 1) - 1
      OBVIOUS
    <3> QED
      BY <3>1
  <2>2. t[i + n] = c[n] /\ c[n] = s[i + n - 1] /\ k + 1 = i + n
    BY <1>2, <1>6, <2>1
  <2> QED
    BY <2>1, <2>2
<1> QED
  BY <1>2, <1>4, <1>5, <1>6, <1>7 DEF t, Inserted

(* So does a rule put in front (iptables -I without a position).           *)
LEMMA PrependForm ==
    ASSUME NEW S, NEW s \in Seq(S), NEW e \in S
    PROVE  <<e>> \o s \in Seq(S) /\ Inserted(<<e>> \o s, s, 1, e)
<1>1. /\ <<e>> \o s \in Seq(S) /\ Len(<<e>> \o s) = 1 + Len(s)
      /\ (<<e>> \o s)[1] = e
      /\ \A k \in 1..Len(s) : (<<e>> \o s)[1 + k] = s[k]
  OBVIOUS
<1>2. \A k \in 1..Len(s) : k + 1 = 1 + k
  OBVIOUS
<1> QED
  BY <1>1, <1>2 DEF Inserted

(* RemoveFirst of SequencesExt takes one occurrence out.                   *)
LEMMA RemoveForm ==
    ASSUME NEW S, NEW s \in Seq(S), NEW e, Contains(s, e)
    PROVE  /\ RemoveFirst(s, e) \in Seq(S)
           /\ \E i \in 1..Len(s) : s[i] = e /\ Removed(RemoveFirst(s, e), s, i)
<1> DEFINE I == {k \in 1..Len(s) : s[k] = e}
           m == Min(I)
<1>1. RemoveFirst(s, e) = RemoveAt(s, m)
  BY DEF RemoveFirst, SelectInSeq, Contains
<1>2. m \in 1..Len(s) /\ s[m] = e
  BY MinOfRanks DEF Contains
<1> HIDE DEF m
<1> DEFINE a == SubSeq(s, 1, m - 1)
           c == SubSeq(s, m + 1, Len(s))
           t == RemoveFirst(s, e)
<1>3. /\ a \in Seq(S) /\ Len(a) = m - 1
      /\ \A k \in 1..(m - 1) : a[k] = s[k]
  BY <1>2, Slice
<1>4. /\ c \in Seq(S) /\ Len(c) = Len(s) - m
      /\ \A k \in 1..(Len(s) - m) : c[k] = s[m + k]
  BY <1>2, Slice
<1>5. t = a \o c
  BY <1>1 DEF RemoveAt
<1> HIDE DEF a, c, t
<1>6. /\ t \in Seq(S) /\ Len(t) = Len(s) - 1
      /\ \A k \in 1..(m - 1) : t[k] = s[k]
      /\ \A k \in 1..Len(c) : t[(m - 1) + k] = c[k]
  <2>1. /\ a \o c \in Seq(S) /\ Len(a \o c) = Len(a) + Len(c)
        /\ \A k \in 1..Len(a) : (a \o c)[k] = a[k]
        /\ \A k \in 1..Len(c) : (a \o c)[Len(a) + k] = c[k]
    <3>1. a \in Seq(S) /\ c \in Seq(S)
      BY <1>3, <1>4
    <3> QED
      BY ONLY <3>1, Concat
  <2>2. /\ t \in Seq(S) /\ Len(t) = (m - 1) + Len(c)
        /\ \A k \in 1..(m - 1) : t[k] = a[k]
        /\ \A k \in 1..Len(c) : t[(m - 1) + k] = c[k]
    BY <1>3, <1>5, <2>1
  <2> QED
    BY <1>2, <1>3, <1>4, <2>2
<1>7. \A k \in m..(Len(s) - 1) : t[k] = s[k + 1]
  <2> TAKE k \in m..(Len(s) - 1)
  <2>1. PICK n \in 1..(Len(s) - m) : k = m - 1 + n
    <3>1. k - m + 1 \in 1..(Len(s) - m) /\ k = m - 1 + (k - m + 1)
      BY <1>2
    <3> QED
      BY <3>1
  <2>2. t[(m - 1) + n] = c[n] /\ c[n] = s[m + n] /\ k + 1 = m + n
    BY <1>2, <1>4, <1>6, <2>1
  <2> QED
    BY <2>1, <2>2
<1> QED
  BY <1>2, <1>6, <1>7 DEF t, Removed

-----------------------------------------------------------------------------
(* The rules.                                                              *)

(* The interfaces of the rooms are points of their own, apart from the     *)
(* host's names.                                                           *)
LEMMA Names ==
    /\ Rooms \subseteq Points /\ Rooms \subseteq Interfaces
    /\ \A x \in Rooms : x \notin OtherNames
    /\ Veths \subseteq VethAny /\ VethAny \subseteq Interfaces
    /\ \A x \in Veths : x \notin Supernet /\ x \in VethSupernet /\ x \notin Taps
    /\ Supernet \subseteq Points /\ VethSupernet \subseteq Points
    /\ {"up"} \subseteq Interfaces /\ {"docker"} \subseteq Interfaces
BY FirewallAssumption DEF Rooms, Points, Interfaces, OtherNames, VethAny,
   Supernet,
   VethSupernet, Net172

(* The fields of a rule; a record put together with EXCEPT is used by      *)
(* them alone.                                                             *)
HasFields(r, neg, s, d, i, o, est, to) ==
    /\ r.neg = neg /\ r.s = s /\ r.d = d /\ r.i = i
    /\ r.o = o /\ r.est = est /\ r.to = to

(* The fields of a clone's binding rule.                                   *)
LEMMA BindingForm ==
    ASSUME NEW x
    PROVE  HasFields(Binding(x), TRUE, {x}, Points, {x}, Interfaces, FALSE, "DROP")
BY DEF HasFields, Binding, From, Rule

(* The fields of the jump to a policy chain.                               *)
LEMMA JumpForm ==
    ASSUME NEW x
    PROVE  HasFields(Jump(x), FALSE, Points, Points, {x}, Interfaces, FALSE, x)
BY DEF HasFields, Jump, Entering, Rule

(* The fields of the INPUT drop of a room.                                 *)
LEMMA InputDropForm ==
    ASSUME NEW x
    PROVE  HasFields(InputDrop(x), FALSE, Points, Points, {x}, Interfaces, FALSE, "DROP")
BY DEF HasFields, InputDrop, Entering, Rule

(* The fields of a rule between two nets.                                  *)
LEMMA BetweenForm ==
    ASSUME NEW net, NEW d, NEW to
    PROVE  HasFields(Between(net, d, to), FALSE, net, d, Interfaces, Interfaces, FALSE, to)
BY DEF HasFields, Between, Rule

(* The fields of the antispoofing drop.                                    *)
LEMMA AntispoofForm ==
    HasFields(Antispoof, TRUE, VethSupernet, Points, VethAny, Interfaces, FALSE, "DROP")
BY DEF HasFields, Antispoof, From, Rule

(* The rules a room puts in are rules.                                     *)
LEMMA OwnRules ==
    ASSUME NEW x \in Rooms
    PROVE  {Binding(x), Jump(x), InputDrop(x)} \subseteq RuleSet
<1>1. x \in RuleTargets /\ "DROP" \in RuleTargets
  BY DEF RuleTargets
<1>2. Binding(x) \in RuleSet
  BY <1>1, Names DEF RuleSet, Binding, From, Rule
<1>3. Jump(x) \in RuleSet
  BY <1>1, Names DEF RuleSet, Jump, Entering, Rule
<1>4. InputDrop(x) \in RuleSet
  BY <1>1, Names DEF RuleSet, InputDrop, Entering, Rule
<1> QED
  BY <1>2, <1>3, <1>4

(* The rules of setup-tap.sh and those that other software may add.        *)
LEMMA HostRules ==
    ASSUME NEW net \in SUBSET Points, NEW d \in SUBSET Points,
           NEW is \in SUBSET Interfaces, NEW to \in RuleTargets
    PROVE  /\ Rule(to) \in RuleSet /\ From(net, to) \in RuleSet
           /\ Between(net, d, to) \in RuleSet /\ Entering(is, to) \in RuleSet
           /\ Egress(net) \in RuleSet /\ Return(net) \in RuleSet
           /\ Antispoof \in RuleSet
           /\ [Rule(to) EXCEPT !.o = is] \in RuleSet
           /\ [From(net, to) EXCEPT !.neg = TRUE] \in RuleSet
<1>1. Rule(to) \in RuleSet /\ [Rule(to) EXCEPT !.o = is] \in RuleSet
  BY DEF Rule, RuleSet
<1>2. From(net, to) \in RuleSet /\ [From(net, to) EXCEPT !.neg = TRUE] \in RuleSet
  BY DEF From, Rule, RuleSet
<1>3. Between(net, d, to) \in RuleSet
  BY DEF Between, Rule, RuleSet
<1>4. Entering(is, to) \in RuleSet
  BY DEF Entering, Rule, RuleSet
<1>5. Egress(net) \in RuleSet
  BY Names DEF Egress, From, Rule, RuleSet, RuleTargets
<1>6. Return(net) \in RuleSet
  BY Names DEF Return, Rule, RuleSet, RuleTargets
<1>7. Antispoof \in RuleSet
  BY Names DEF Antispoof, From, Rule, RuleSet, RuleTargets
<1> QED
  BY <1>1, <1>2, <1>3, <1>4, <1>5, <1>6, <1>7

(* The drops and the trailer of a net are sequences of rules.              *)
LEMMA NetChains ==
    ASSUME NEW net \in {Supernet, VethSupernet}
    PROVE  Drops(net) \in Seq(RuleSet) /\ Trailer(net) \in Seq(RuleSet)
<1>1. /\ net \in SUBSET Points /\ Net10 \in SUBSET Points /\ Net192 \in SUBSET Points
      /\ Net172 \in SUBSET Points
  BY Names DEF Points, Net10, Net192, Net172
<1>2. "DROP" \in RuleTargets
  BY DEF RuleTargets
<1>3. /\ Between(net, net, "DROP") \in RuleSet
      /\ Between(net, Net10, "DROP") \in RuleSet
      /\ Between(net, Net192, "DROP") \in RuleSet
      /\ Between(net, Net172, "DROP") \in RuleSet
  BY <1>1, <1>2, HostRules
<1>4. Egress(net) \in RuleSet /\ Return(net) \in RuleSet /\ From(net, "DROP") \in RuleSet
  BY <1>1, <1>2, HostRules
<1> QED
  BY <1>3, <1>4 DEF Drops, Trailer

(* setup-tap.sh leaves chains of rules.                                    *)
LEMMA SubstrateType == Substrate \in [Shared -> Seq(RuleSet)]
<1>1. VethAny \in SUBSET Interfaces /\ {"docker"} \in SUBSET Interfaces
  BY Names
<1>2. {"ACCEPT", "DROP", "LOG", "ROOMS_FWD", "ROOMS_VETH_FWD"} \subseteq RuleTargets
  BY DEF RuleTargets
<1>3. ASSUME NEW net \in {Supernet, VethSupernet}
      PROVE  Drops(net) \in Seq(RuleSet) /\ Trailer(net) \in Seq(RuleSet)
  BY NetChains
<1>4. Substrate["FORWARD"] \in Seq(RuleSet)
  <2>1. /\ Rule("ROOMS_FWD") \in RuleSet
        /\ Entering(VethAny, "ROOMS_VETH_FWD") \in RuleSet
        /\ [Rule("ROOMS_VETH_FWD") EXCEPT !.o = VethAny] \in RuleSet
        /\ Entering({"docker"}, "ACCEPT") \in RuleSet
    BY <1>1, <1>2, HostRules
  <2> QED
    BY <2>1 DEF Substrate
<1>5. Substrate["ROOMS_FWD"] \in Seq(RuleSet)
  BY <1>3 DEF Substrate
<1>6. Substrate["ROOMS_VETH_FWD"] \in Seq(RuleSet)
  <2>1. Antispoof \in RuleSet
    BY <1>1, <1>2, HostRules
  <2>2. /\ <<Antispoof>> \in Seq(RuleSet) /\ Drops(VethSupernet) \in Seq(RuleSet)
        /\ Trailer(VethSupernet) \in Seq(RuleSet)
    BY <1>3, <2>1
  <2> QED
    BY <2>2 DEF Substrate
<1>7. Substrate["INPUT"] \in Seq(RuleSet)
  <2>1. Entering({"docker"}, "ACCEPT") \in RuleSet
    BY <1>1, <1>2, HostRules
  <2> QED
    BY <2>1 DEF Substrate
<1>8. \A c \in Shared : Substrate[c] \in Seq(RuleSet)
  BY <1>4, <1>5, <1>6, <1>7 DEF Shared
<1>9. DOMAIN Substrate = Shared /\ Substrate = [c \in Shared |-> Substrate[c]]
  BY DEF Substrate, Shared
<1> QED
  BY <1>8, <1>9

(* An edited chain is a chain of rules.                                    *)
LEMMA EditedType ==
    ASSUME NEW rules \in Seq(RuleSet), NEW c, NEW t \in Edited(rules, c)
    PROVE  t \in Seq(RuleSet)
<1>1. CASE \E k \in 1..Len(rules) : t = RemoveAt(rules, k)
  BY <1>1, Slice DEF RemoveAt
<1>2. CASE \E k \in 1..(Len(rules) - 1) : t = Swapped(rules, k)
  BY <1>2 DEF Swapped
<1>3. CASE \E k \in 1..(Len(rules) + 1), f \in Foreign : t = InsertAt(rules, k, f)
  <2>1. Foreign \subseteq RuleSet
    <3>1. /\ VethAny \in SUBSET Interfaces /\ {"docker"} \in SUBSET Interfaces
          /\ VethSupernet \in SUBSET Points /\ Supernet \in SUBSET Points
          /\ Points \in SUBSET Points
          /\ {"ACCEPT", "LOG", "ROOMS_VETH_FWD"} \subseteq RuleTargets
          /\ \A x \in Rooms : {x} \in SUBSET Interfaces
      BY Names DEF RuleTargets
    <3>2. /\ Rule("ACCEPT") \in RuleSet /\ Entering({"docker"}, "ACCEPT") \in RuleSet
          /\ Rule("LOG") \in RuleSet /\ Entering(VethAny, "ACCEPT") \in RuleSet
          /\ From(VethSupernet, "ACCEPT") \in RuleSet
          /\ From(Supernet, "ACCEPT") \in RuleSet
          /\ [From(Supernet, "ACCEPT") EXCEPT !.neg = TRUE] \in RuleSet
          /\ Between(Points, Supernet, "ACCEPT") \in RuleSet
          /\ Rule("ROOMS_VETH_FWD") \in RuleSet
      BY <3>1, HostRules
    <3>3. \A x \in Rooms : Entering({x}, "ACCEPT") \in RuleSet
      BY <3>1, HostRules
    <3> QED
      BY <3>2, <3>3 DEF Foreign
  <2> QED
    BY <1>3, <2>1, InsertForm
<1> QED
  BY <1>1, <1>2, <1>3 DEF Edited

(* The types; only clones unbind, and a rank is known before it is used.   *)
TypeInv ==
    /\ users \subseteq Rooms
    /\ table \in [Shared -> Seq(RuleSet)]
    /\ pc \in [Rooms -> Labels]
    /\ plan \in [Rooms -> Plans]
    /\ mode \in [Rooms -> {"install", "rollback", "remove"}]
    /\ at \in [Rooms -> Nat]
    /\ DOMAIN policy = Rooms
    /\ \A x \in Rooms : pc[x] = "unbind" => x \in Veths
    /\ \A x \in Rooms : pc[x] \in {"new", "append", "jump"} => at[x] # 0

-----------------------------------------------------------------------------
(* The walk over a chain.                                                  *)

(* A harmless rule put in anywhere leaves the shield up.                   *)
LEMMA ShieldsInsert ==
    ASSUME NEW s \in Seq(RuleSet), NEW g, NEW x, NEW e \in RuleSet,
           NEW i \in 1..(Len(s) + 1), NEW t, Inserted(t, s, i, e),
           Harmless(e, g, x), Shields(s, g, x)
    PROVE  Shields(t, g, x)
<1>1. PICK j \in 1..Len(s) : ShieldedAt(s, g, x, j)
  BY DEF Shields
<1>2. /\ Len(t) = Len(s) + 1 /\ t[i] = e
      /\ \A k \in 1..(i - 1) : t[k] = s[k]
      /\ \A k \in i..Len(s) : t[k + 1] = s[k]
  BY DEF Inserted
<1>3. PICK n \in Nat : n = Len(s)
  OBVIOUS
<1>4. CASE j < i
  <2>1. ShieldedAt(t, g, x, j) /\ j \in 1..Len(t)
    BY <1>1, <1>2, <1>3, <1>4 DEF ShieldedAt
  <2> QED
    BY <2>1 DEF Shields
<1>5. CASE i =< j
  <2>1. t[j + 1] = g /\ j + 1 \in 1..Len(t)
    BY <1>1, <1>2, <1>3, <1>5 DEF ShieldedAt
  <2>2. ASSUME NEW k \in 1..((j + 1) - 1)
        PROVE  Harmless(t[k], g, x)
    <3>1. CASE k < i
      BY <1>1, <1>2, <1>3, <1>5, <3>1 DEF ShieldedAt
    <3>2. CASE k = i
      BY <1>2, <3>2
    <3>3. CASE k > i
      <4>1. k - 1 \in i..Len(s) /\ k - 1 \in 1..(j - 1) /\ (k - 1) + 1 = k
        BY <1>3, <1>5, <3>3
      <4> QED
        BY <1>1, <1>2, <4>1 DEF ShieldedAt
    <3> QED
      BY <3>1, <3>2, <3>3
  <2> QED
    BY <2>1, <2>2 DEF Shields, ShieldedAt
<1> QED
  BY <1>4, <1>5

(* So does any rule but the guard itself taken out.                        *)
LEMMA ShieldsRemove ==
    ASSUME NEW s \in Seq(RuleSet), NEW g, NEW x, NEW t, NEW i \in 1..Len(s),
           s[i] # g, Removed(t, s, i), Shields(s, g, x)
    PROVE  Shields(t, g, x)
<1>1. PICK j \in 1..Len(s) : ShieldedAt(s, g, x, j)
  BY DEF Shields
<1>2. /\ Len(t) = Len(s) - 1
      /\ \A k \in 1..(i - 1) : t[k] = s[k]
      /\ \A k \in i..(Len(s) - 1) : t[k] = s[k + 1]
  BY DEF Removed
<1>3. PICK n \in Nat : n = Len(s)
  OBVIOUS
<1>4. j # i
  BY <1>1, <1>2 DEF ShieldedAt
<1>5. CASE j < i
  <2>1. ShieldedAt(t, g, x, j) /\ j \in 1..Len(t)
    BY <1>1, <1>2, <1>3, <1>5 DEF ShieldedAt
  <2> QED
    BY <2>1 DEF Shields
<1>6. CASE i < j
  <2>1. /\ j - 1 \in i..(Len(s) - 1) /\ (j - 1) + 1 = j
        /\ j - 1 \in 1..Len(t)
    BY <1>2, <1>3, <1>6
  <2>2. t[j - 1] = g
    BY <1>1, <1>2, <2>1 DEF ShieldedAt
  <2>3. ASSUME NEW k \in 1..((j - 1) - 1)
        PROVE  Harmless(t[k], g, x)
    <3>1. CASE k < i
      BY <1>1, <1>2, <1>3, <1>6, <3>1 DEF ShieldedAt
    <3>2. CASE k >= i
      <4>1. k \in i..(Len(s) - 1) /\ k + 1 \in 1..(j - 1)
        BY <1>3, <1>6, <3>2
      <4> QED
        BY <1>1, <1>2, <4>1 DEF ShieldedAt
    <3> QED
      BY <3>1, <3>2
  <2> QED
    BY <2>1, <2>2, <2>3 DEF Shields, ShieldedAt
<1> QED
  BY <1>4, <1>5, <1>6

(* A packet that a shielding rule matches is dropped or meets that rule's  *)
(* own verdict.                                                            *)
LEMMA ShieldDecides ==
    ASSUME NEW rules \in Seq(RuleSet), NEW p, NEW into, NEW g, Shields(rules, g, p.i),
           Matches(g, p), Effect(g, into) # "return"
    PROVE  Decide(rules, p, into) \in {"DROP", Effect(g, into)}
<1> DEFINE hits == Deciding(rules, p, into)
           m == Min(hits)
<1>1. PICK j \in 1..Len(rules) : ShieldedAt(rules, g, p.i, j)
  BY DEF Shields
<1>2. j \in hits /\ hits \subseteq 1..Len(rules)
  BY <1>1 DEF Deciding, ShieldedAt
<1>3. /\ m \in 1..Len(rules) /\ m =< j
      /\ Matches(rules[m], p) /\ Effect(rules[m], into) # "return"
  <2>1. m \in hits /\ m =< j
    <3>1. hits \subseteq Nat /\ hits # {}
      BY <1>2
    <3> HIDE DEF hits
    <3> QED
      BY <1>2, <3>1, MinOfRanks
  <2> HIDE DEF m
  <2> QED
    BY <1>2, <2>1 DEF Deciding
<1>4. Decide(rules, p, into) = Effect(rules[m], into)
  <2>1. hits # {}
    BY <1>2
  <2> HIDE DEF m
  <2> QED
    BY <2>1 DEF Decide, m
<1> HIDE DEF hits, m
<1>5. CASE m = j
  BY <1>1, <1>4, <1>5 DEF ShieldedAt
<1>6. CASE m < j
  <2>1. Harmless(rules[m], g, p.i)
    BY <1>1, <1>3, <1>6 DEF ShieldedAt
  <2>2. p.i \in rules[m].i
    BY <1>3 DEF Matches
  <2>3. rules[m] = g \/ rules[m].to = "DROP"
    BY <1>3, <2>1, <2>2 DEF Harmless, Effect
  <2> QED
    BY <1>4, <2>3 DEF Effect
<1> QED
  BY <1>3, <1>5, <1>6

(* A packet that no rule of a chain matches falls through it.              *)
LEMMA Unmatched ==
    ASSUME NEW rules, NEW p, NEW into, \A k \in DOMAIN rules : ~Matches(rules[k], p)
    PROVE  Decide(rules, p, into) = "return"
BY DEF Decide, Deciding

(* The first rule that matches and has a verdict decides.                  *)
LEMMA FirstHit ==
    ASSUME NEW rules \in Seq(RuleSet), NEW p, NEW into, NEW j \in 1..Len(rules),
           Matches(rules[j], p), Effect(rules[j], into) # "return",
           \A k \in 1..(j - 1) :
               ~Matches(rules[k], p) \/ Effect(rules[k], into) = "return"
    PROVE  Decide(rules, p, into) = Effect(rules[j], into)
<1> DEFINE hits == Deciding(rules, p, into)
           m == Min(hits)
<1>1. j \in hits /\ hits \subseteq 1..Len(rules)
  BY DEF Deciding
<1>2. m \in hits /\ m =< j
  <2>1. hits \subseteq Nat /\ hits # {}
    BY <1>1
  <2> HIDE DEF hits
  <2> QED
    BY <1>1, <2>1, MinOfRanks
<1> HIDE DEF m
<1>3. m = j
  <2>1. m \in 1..Len(rules) /\ ~(m \in 1..(j - 1))
    BY <1>1, <1>2 DEF Deciding
  <2> QED
    BY <1>2, <2>1
<1>4. hits # {}
  BY <1>1
<1> QED
  BY <1>3, <1>4 DEF Decide, m

(* What keeps a running clone apart: FORWARD reaches the clone chain, the  *)
(* flat chain passes it by, and its binding and the drops come first.      *)
CloneGuarded(x) ==
    /\ JumpsOrdered(table["FORWARD"])
    /\ \A k \in DOMAIN table["ROOMS_FWD"] : FlatRuleDisjoint(table["ROOMS_FWD"][k])
    /\ Shields(table["ROOMS_VETH_FWD"], Binding(x), x)
    /\ \A n \in 1..4 : Shields(table["ROOMS_VETH_FWD"], Drops(VethSupernet)[n], x)

(* What keeps a room to its plan: its jump comes first, its chain is the   *)
(* plan's and, under `none`, so is its INPUT drop.                         *)
PolicyGuarded(x) ==
    plan[x] # "observe" =>
        /\ Shields(table[Parent(x)], Jump(x), x)
        /\ policy[x] = SubchainRules(plan[x])
        /\ plan[x] = "none" => Shields(table["INPUT"], InputDrop(x), x)

(* A packet of a room.                                                     *)
LEMMA PacketForm ==
    ASSUME NEW x \in Rooms, NEW p \in Packets(x)
    PROVE  /\ p.i = x /\ p.i \in Interfaces /\ p.s \in Points /\ p.d \in Points
           /\ p.o \in Interfaces
           /\ p.o = OutOf(p.d)
           /\ x \in Veths => p.s \notin Supernet
<1>1. PICK a \in Sources(x), b \in Points \ {x} :
        p = [s |-> a, d |-> b, i |-> x, o |-> OutOf(b)]
  BY DEF Packets
<1>2. OutOf(b) \in Interfaces
  BY Names DEF OutOf
<1>3. a \in Points /\ (x \in Veths => a \notin Supernet)
  BY Names DEF Sources
<1> QED
  BY <1>1, <1>2, <1>3, Names

(* FORWARD hands a clone's packet to ROOMS_VETH_FWD.                       *)
LEMMA CloneForward ==
    ASSUME TypeInv, NEW x \in Veths, NEW p \in Packets(x),
           JumpsOrdered(table["FORWARD"]),
           \A k \in DOMAIN table["ROOMS_FWD"] : FlatRuleDisjoint(table["ROOMS_FWD"][k]),
           InShared("ROOMS_VETH_FWD", p) # "return", Forwarded(p)
    PROVE  InShared("ROOMS_VETH_FWD", p) # "DROP"
<1> DEFINE into == [c \in {"ROOMS_FWD", "ROOMS_VETH_FWD"} |-> InShared(c, p)]
           F == table["FORWARD"]
<1>1. /\ p.i = x /\ p.i \in Interfaces /\ p.s \in Points /\ p.d \in Points
      /\ p.o \in Interfaces /\ p.s \notin Supernet
  BY PacketForm DEF Rooms
<1>2. InShared("ROOMS_FWD", p) = "return"
  <2>1. ASSUME NEW k \in DOMAIN table["ROOMS_FWD"]
        PROVE  ~Matches(table["ROOMS_FWD"][k], p)
    <3>1. PICK r : r = table["ROOMS_FWD"][k]
      OBVIOUS
    <3>2. FlatRuleDisjoint(r)
      BY <3>1
    <3>3. ~Matches(r, p)
      <4> SUFFICES ASSUME Matches(r, p)
                   PROVE  FALSE
        OBVIOUS
      <4>1. ~r.neg
        BY <3>2 DEF FlatRuleDisjoint, Negated
      <4>2. p.s \in r.s /\ x \in r.i
        BY <1>1, <4>1 DEF Matches
      <4>4. r.s # Supernet
        BY <1>1, <4>2
      <4>5. \A t \in Taps : r.i # {t}
        BY <4>2, Names
      <4>6. r.i \cap Veths # {}
        BY <4>2
      <4> QED
        BY <3>2, <4>4, <4>5, <4>6 DEF FlatRuleDisjoint
    <3> QED
      BY <3>1, <3>3
  <2> QED
    BY <2>1, Unmatched DEF InShared
<1>3. /\ F \in Seq(RuleSet) /\ Len(F) >= 3
      /\ F[1] = Rule("ROOMS_FWD") /\ F[2] = Entering(VethAny, "ROOMS_VETH_FWD")
  <2>1. F \in Seq(RuleSet) /\ Len(F) >= 3
    BY DEF TypeInv, Shared, JumpsOrdered
  <2>2. SubSeq(F, 1, 3) = SubSeq(Substrate.FORWARD, 1, 3)
    BY DEF JumpsOrdered
  <2>3. SubSeq(F, 1, 3)[1] = F[1] /\ SubSeq(F, 1, 3)[2] = F[2]
    BY <2>1
  <2>4. /\ SubSeq(Substrate.FORWARD, 1, 3)[1] = Rule("ROOMS_FWD")
        /\ SubSeq(Substrate.FORWARD, 1, 3)[2] = Entering(VethAny, "ROOMS_VETH_FWD")
    BY DEF Substrate
  <2> QED
    BY <2>1, <2>2, <2>3, <2>4
<1>4. /\ Effect(F[1], into) = "return"
      /\ Effect(F[2], into) = InShared("ROOMS_VETH_FWD", p)
      /\ Matches(F[2], p)
  <2>1. F[1].to = "ROOMS_FWD" /\ F[2].to = "ROOMS_VETH_FWD"
    BY <1>3 DEF Entering, Rule
  <2>2. Effect(F[1], into) = "return"
    BY <1>2, <2>1 DEF Effect
  <2>3. Effect(F[2], into) = InShared("ROOMS_VETH_FWD", p)
    BY <2>1 DEF Effect
  <2>4. /\ F[2].s = Points /\ F[2].d = Points /\ F[2].i = VethAny
        /\ F[2].o = Interfaces
    BY <1>3 DEF Entering, Rule
  <2>5. F[2].neg = FALSE /\ F[2].est = FALSE
    BY <1>3 DEF Entering, Rule
  <2>6. Matches(F[2], p)
    BY <1>1, <2>4, <2>5, Names DEF Matches
  <2> QED
    BY <2>2, <2>3, <2>6
<1>5. Decide(F, p, into) = Effect(F[2], into)
  <2>1. \A k \in 1..(2 - 1) : Effect(F[k], into) = "return"
    BY <1>4
  <2>2. 2 \in 1..Len(F)
    BY <1>3
  <2> HIDE DEF F, into
  <2> QED
    BY <1>3, <1>4, <2>1, <2>2, FirstHit
<1> QED
  BY <1>4, <1>5 DEF Forwarded

(* A guarded clone reaches only public addresses and only as itself.       *)
LEMMA GuardedIsolated ==
    ASSUME TypeInv, NEW x \in Veths, CloneGuarded(x), NEW p \in Packets(x), Forwarded(p)
    PROVE  p.s = x /\ p.d \notin Net10 \cup Net192 \cup Net172
<1> DEFINE V == table["ROOMS_VETH_FWD"]
           into == [y \in Rooms |-> InPolicy(y, p)]
<1>1. /\ p.i = x /\ p.i \in Interfaces /\ p.s \in Points /\ p.d \in Points
      /\ p.o \in Interfaces
  BY PacketForm DEF Rooms
<1>2. V \in Seq(RuleSet)
  BY DEF TypeInv, Shared
<1>3. ASSUME NEW g, g.to = "DROP", Matches(g, p), Shields(V, g, x)
      PROVE  FALSE
  <2>1. Effect(g, into) = "DROP"
    BY <1>3 DEF Effect
  <2>2. Decide(V, p, into) = "DROP"
    <3> HIDE DEF V, into
    <3> QED
      BY <1>1, <1>2, <1>3, <2>1, ShieldDecides
  <2>3. InShared("ROOMS_VETH_FWD", p) = "DROP"
    BY <2>2 DEF InShared
  <2> QED
    BY <2>3, CloneForward DEF CloneGuarded
<1>4. p.s = x
  <2>1. Shields(V, Binding(x), x)
    BY DEF CloneGuarded
  <2>2. HasFields(Binding(x), TRUE, {x}, Points, {x}, Interfaces, FALSE, "DROP")
    BY BindingForm
  <2>3. p.s # x => Matches(Binding(x), p)
    BY <1>1, <2>2 DEF HasFields, Matches
  <2>4. Binding(x).to = "DROP"
    BY <2>2 DEF HasFields
  <2> QED
    BY <1>3, <2>1, <2>3, <2>4
<1>5. ASSUME NEW n \in 1..4, NEW net,
             Drops(VethSupernet)[n] = Between(VethSupernet, net, "DROP"),
             p.d \in net
      PROVE  FALSE
  <2>1. Shields(V, Between(VethSupernet, net, "DROP"), x)
    BY <1>5 DEF CloneGuarded
  <2>2. HasFields(Between(VethSupernet, net, "DROP"), FALSE, VethSupernet, net,
                  Interfaces, Interfaces, FALSE, "DROP")
    BY BetweenForm
  <2>3. p.s \in VethSupernet
    BY <1>4, Names
  <2>4. Matches(Between(VethSupernet, net, "DROP"), p)
    BY <1>1, <1>5, <2>2, <2>3 DEF HasFields, Matches
  <2>5. Between(VethSupernet, net, "DROP").to = "DROP"
    BY <2>2 DEF HasFields
  <2> QED
    BY <1>3, <2>1, <2>4, <2>5
<1>6. /\ Drops(VethSupernet)[2] = Between(VethSupernet, Net10, "DROP")
      /\ Drops(VethSupernet)[3] = Between(VethSupernet, Net192, "DROP")
      /\ Drops(VethSupernet)[4] = Between(VethSupernet, Net172, "DROP")
  BY DEF Drops
<1> QED
  BY <1>4, <1>5, <1>6

(* The policy chain of a plan decides every packet that goes upstream, and *)
(* accepts only what the plan permits.                                     *)
LEMMA PolicyVerdict ==
    ASSUME NEW x \in Rooms, plan[x] \in {"none", "allowlist"},
           policy[x] = SubchainRules(plan[x]),
           NEW p \in Packets(x), p.o = "up"
    PROVE  /\ InPolicy(x, p) \in {"ACCEPT", "DROP"}
           /\ InPolicy(x, p) = "ACCEPT" => p.d \in Permitted(plan[x])
<1> DEFINE A == ToUp([Rule("ACCEPT") EXCEPT !.d = Allowed])
           L == ToUp(Rule("LOG"))
           D == ToUp(Rule("DROP"))
<1>1. /\ p.i \in Interfaces /\ p.s \in Points /\ p.d \in Points
  BY PacketForm
<1>2. /\ A.to = "ACCEPT" /\ L.to = "LOG" /\ D.to = "DROP"
      /\ Matches(D, p) /\ (Matches(A, p) <=> p.d \in Allowed)
  <2>1. A.to = "ACCEPT" /\ L.to = "LOG" /\ D.to = "DROP"
    BY DEF ToUp, Rule
  <2>2. /\ D.s = Points /\ D.d = Points /\ D.i = Interfaces /\ D.o = {"up"}
        /\ A.s = Points /\ A.d = Allowed /\ A.i = Interfaces /\ A.o = {"up"}
    BY DEF ToUp, Rule
  <2>3. ~D.neg /\ ~D.est /\ ~A.neg /\ ~A.est
    BY DEF ToUp, Rule
  <2> HIDE DEF A, L, D
  <2> QED
    BY <1>1, <2>1, <2>2, <2>3 DEF Matches
<1>3. A \in RuleSet /\ L \in RuleSet /\ D \in RuleSet
  BY Names DEF ToUp, Rule, RuleSet, RuleTargets, Allowed, Points
<1>4. SubchainRules(plan[x]) = IF plan[x] = "allowlist" THEN <<A, L, D>> ELSE <<L, D>>
  <2>1. SubchainRules(plan[x]) =
          (IF plan[x] = "allowlist" THEN <<A>> ELSE <<>>) \o <<L, D>>
    BY Zenon DEF SubchainRules
  <2> HIDE DEF A, L, D
  <2>2. <<A>> \o <<L, D>> = <<A, L, D>>
    BY <1>3, OneAndTwo
  <2>3. <<>> \o <<L, D>> = <<L, D>>
    OBVIOUS
  <2> QED
    BY <2>1, <2>2, <2>3
<1> HIDE DEF A, L, D
<1>5. policy[x] # Absent
  <2>1. Len(policy[x]) # 1
    BY <1>4
  <2> QED
    BY <2>1 DEF Absent
<1>6. InPolicy(x, p) = Decide(policy[x], p, NoChains)
  BY <1>5 DEF InPolicy
<1>7. /\ Effect(A, NoChains) = "ACCEPT" /\ Effect(L, NoChains) = "return"
      /\ Effect(D, NoChains) = "DROP"
  BY <1>2 DEF Effect
<1>8. CASE plan[x] = "none"
  <2>1. /\ policy[x] \in Seq(RuleSet) /\ policy[x][1] = L /\ policy[x][2] = D
        /\ Len(policy[x]) = 2
    BY <1>3, <1>4, <1>8
  <2>2. PICK c : c = policy[x]
    OBVIOUS
  <2>3. Decide(c, p, NoChains) = Effect(c[2], NoChains)
    <3>1. \A k \in 1..(2 - 1) : Effect(c[k], NoChains) = "return"
      BY <1>7, <2>1, <2>2
    <3>2. 2 \in 1..Len(c) /\ Matches(c[2], p) /\ Effect(c[2], NoChains) # "return"
      BY <1>2, <1>7, <2>1, <2>2
    <3> QED
      BY <2>1, <2>2, <3>1, <3>2, FirstHit
  <2> QED
    BY <1>6, <1>7, <2>1, <2>2, <2>3
<1>9. CASE plan[x] = "allowlist"
  <2>1. /\ policy[x] \in Seq(RuleSet) /\ policy[x][1] = A /\ policy[x][2] = L
        /\ policy[x][3] = D /\ Len(policy[x]) = 3
    BY <1>3, <1>4, <1>9
  <2>2. PICK c : c = policy[x]
    OBVIOUS
  <2>3. CASE p.d \in Allowed
    <3>1. Decide(c, p, NoChains) = Effect(c[1], NoChains)
      <4>1. /\ 1 \in 1..Len(c) /\ Matches(c[1], p) /\ Effect(c[1], NoChains) # "return"
            /\ \A k \in 1..(1 - 1) : Effect(c[k], NoChains) = "return"
        BY <1>2, <1>7, <2>1, <2>2, <2>3
      <4> QED
        BY <2>1, <2>2, <4>1, FirstHit
    <3> QED
      BY <1>6, <1>7, <1>9, <2>1, <2>2, <2>3, <3>1 DEF Permitted
  <2>4. CASE p.d \notin Allowed
    <3>1. Decide(c, p, NoChains) = Effect(c[3], NoChains)
      <4>1. \A k \in 1..(3 - 1) : ~Matches(c[k], p) \/ Effect(c[k], NoChains) = "return"
        BY <1>2, <1>7, <2>1, <2>2, <2>4
      <4>2. 3 \in 1..Len(c) /\ Matches(c[3], p) /\ Effect(c[3], NoChains) # "return"
        BY <1>2, <1>7, <2>1, <2>2
      <4> QED
        BY <2>1, <2>2, <4>1, <4>2, FirstHit
    <3> QED
      BY <1>6, <1>7, <2>1, <2>2, <3>1
  <2> QED
    BY <2>3, <2>4
<1> QED
  BY <1>8, <1>9

(* The room's chain decides a packet that goes upstream.                   *)
LEMMA ParentVerdict ==
    ASSUME TypeInv, NEW x \in Rooms, plan[x] # "observe", PolicyGuarded(x),
           NEW p \in Packets(x), p.o = "up"
    PROVE  /\ InShared(Parent(x), p) \in {"ACCEPT", "DROP"}
           /\ InShared(Parent(x), p) = "ACCEPT" => p.d \in Permitted(plan[x])
<1> DEFINE c == table[Parent(x)]
           into == [y \in Rooms |-> InPolicy(y, p)]
<1>1. c \in Seq(RuleSet)
  BY DEF TypeInv, Shared, Parent
<1>2. /\ p.i = x /\ p.i \in Interfaces /\ p.s \in Points /\ p.d \in Points
      /\ p.o \in Interfaces
  BY PacketForm
<1>3. /\ InPolicy(x, p) \in {"ACCEPT", "DROP"}
      /\ InPolicy(x, p) = "ACCEPT" => p.d \in Permitted(plan[x])
  <2>1. plan[x] \in {"none", "allowlist"} /\ policy[x] = SubchainRules(plan[x])
    BY DEF TypeInv, Plans, PolicyGuarded
  <2> QED
    BY <2>1, PolicyVerdict
<1>4. HasFields(Jump(x), FALSE, Points, Points, {x}, Interfaces, FALSE, x)
  BY JumpForm
<1>5. Matches(Jump(x), p)
  BY <1>2, <1>4 DEF HasFields, Matches
<1>6. Effect(Jump(x), into) = InPolicy(x, p)
  <2>1. Jump(x).to = x /\ x \notin {"ACCEPT", "DROP", "LOG"}
    BY <1>4, Names DEF HasFields, OtherNames
  <2> QED
    BY <2>1 DEF Effect
<1>7. Shields(c, Jump(x), x)
  BY DEF PolicyGuarded
<1>8. Decide(c, p, into) \in {"DROP", Effect(Jump(x), into)}
  <2> HIDE DEF c, into
  <2> QED
    BY <1>1, <1>2, <1>3, <1>5, <1>6, <1>7, ShieldDecides
<1> QED
  BY <1>3, <1>6, <1>8 DEF InShared

(* Behind its INPUT drop a room reaches nothing on the host.               *)
LEMMA InputGuarded ==
    ASSUME TypeInv, NEW x \in Rooms, Shields(table["INPUT"], InputDrop(x), x)
    PROVE  ~Received(x)
<1> DEFINE p == [s |-> x, d |-> x, i |-> x, o |-> x]
           c == table["INPUT"]
<1>1. c \in Seq(RuleSet)
  BY DEF TypeInv, Shared
<1>2. p.s \in Points /\ p.d \in Points /\ p.o \in Interfaces /\ p.i = x
  BY Names
<1>3. HasFields(InputDrop(x), FALSE, Points, Points, {x}, Interfaces, FALSE, "DROP")
  BY InputDropForm
<1> HIDE DEF p, c
<1>4. Matches(InputDrop(x), p)
  BY <1>2, <1>3 DEF HasFields, Matches
<1>5. Effect(InputDrop(x), NoChains) = "DROP"
  <2>1. InputDrop(x).to = "DROP"
    BY <1>3 DEF HasFields
  <2> QED
    BY <2>1 DEF Effect
<1>6. Shields(c, InputDrop(x), p.i)
  BY <1>2 DEF c
<1>7. Decide(c, p, NoChains) = "DROP"
  BY <1>1, <1>4, <1>5, <1>6, ShieldDecides
<1> QED
  BY <1>7 DEF Received, c, p

(* A guarded clone is enforced.                                            *)
LEMMA GuardedCloneEnforced ==
    ASSUME TypeInv, NEW x \in Veths, CloneGuarded(x), PolicyGuarded(x)
    PROVE  Enforced(x)
<1>1. x \in Rooms /\ Parent(x) = "ROOMS_VETH_FWD"
  BY Names DEF Rooms, Parent
<1>2. ASSUME plan[x] # "observe", NEW p \in Packets(x), p.o = "up", Forwarded(p)
      PROVE  p.d \in Permitted(plan[x])
  <2>1. /\ InShared("ROOMS_VETH_FWD", p) \in {"ACCEPT", "DROP"}
        /\ InShared("ROOMS_VETH_FWD", p) = "ACCEPT" => p.d \in Permitted(plan[x])
    BY <1>1, <1>2, ParentVerdict
  <2>2. InShared("ROOMS_VETH_FWD", p) # "DROP"
    BY <1>2, <2>1, CloneForward DEF CloneGuarded
  <2> QED
    BY <2>1, <2>2
<1>3. plan[x] = "none" => ~Received(x)
  BY <1>1, InputGuarded DEF PolicyGuarded
<1> QED
  BY <1>2, <1>3 DEF Enforced

(* A guarded flat room is enforced under the FORWARD of setup-tap.sh.      *)
LEMMA GuardedFlatEnforced ==
    ASSUME TypeInv, NEW x \in Taps, table["FORWARD"] = Substrate["FORWARD"],
           PolicyGuarded(x)
    PROVE  Enforced(x)
<1>1. x \in Rooms /\ Parent(x) = "ROOMS_FWD"
  BY Names DEF Rooms, Parent
<1>2. ASSUME plan[x] # "observe", NEW p \in Packets(x), p.o = "up", Forwarded(p)
      PROVE  p.d \in Permitted(plan[x])
  <2> DEFINE into == [c \in {"ROOMS_FWD", "ROOMS_VETH_FWD"} |-> InShared(c, p)]
             F == table["FORWARD"]
  <2>1. /\ InShared("ROOMS_FWD", p) \in {"ACCEPT", "DROP"}
        /\ InShared("ROOMS_FWD", p) = "ACCEPT" => p.d \in Permitted(plan[x])
    BY <1>1, <1>2, ParentVerdict
  <2>2. F \in Seq(RuleSet) /\ F[1] = Rule("ROOMS_FWD") /\ Len(F) >= 1
    <3>1. F \in Seq(RuleSet)
      BY DEF TypeInv, Shared
    <3>2. F = <<Rule("ROOMS_FWD"), Entering(VethAny, "ROOMS_VETH_FWD"),
                [Rule("ROOMS_VETH_FWD") EXCEPT !.o = VethAny],
                Entering({"docker"}, "ACCEPT")>>
      BY DEF Substrate
    <3>3. Len(F) = 4 /\ F[1] = Rule("ROOMS_FWD")
      BY <3>2
    <3> QED
      BY <3>1, <3>3
  <2>3. Effect(F[1], into) = InShared("ROOMS_FWD", p)
    <3>1. F[1].to = "ROOMS_FWD"
      BY <2>2 DEF Rule
    <3> QED
      BY <3>1 DEF Effect
  <2>4. Matches(F[1], p)
    <3>1. /\ F[1].s = Points /\ F[1].d = Points /\ F[1].i = Interfaces
          /\ F[1].o = Interfaces
      BY <2>2 DEF Rule
    <3>2. ~F[1].neg /\ ~F[1].est
      BY <2>2 DEF Rule
    <3>3. /\ p.i \in Interfaces /\ p.s \in Points /\ p.d \in Points
          /\ p.o \in Interfaces
      BY <1>1, PacketForm
    <3> QED
      BY <3>1, <3>2, <3>3 DEF Matches
  <2>5. Decide(F, p, into) = InShared("ROOMS_FWD", p)
    <3>1. /\ 1 \in 1..Len(F) /\ Effect(F[1], into) # "return"
          /\ \A k \in 1..(1 - 1) : Effect(F[k], into) = "return"
      BY <2>1, <2>2, <2>3
    <3> HIDE DEF F, into
    <3> QED
      BY <2>2, <2>3, <2>4, <3>1, FirstHit
  <2> QED
    BY <1>2, <2>1, <2>5 DEF Forwarded
<1>3. plan[x] = "none" => ~Received(x)
  BY <1>1, InputGuarded DEF PolicyGuarded
<1> QED
  BY <1>2, <1>3 DEF Enforced

-----------------------------------------------------------------------------
(* What the proof of the substrate establishes.                            *)

(* What rooms_veth_fwd_isolates accepts, position by position: bindings,   *)
(* antispoofing, the four drops, jumps of bound clones and the trailer.    *)
LEMMA IsolatesShape ==
    ASSUME NEW rules \in Seq(RuleSet), Isolates(rules)
    PROVE  \E n, m \in Nat :
              /\ n + m + 8 = Len(rules)
              /\ \A k \in 1..n : \E y \in Veths : rules[k] = Binding(y)
              /\ rules[n + 1] = Antispoof
              /\ \A k \in 1..4 : rules[n + 1 + k] = Drops(VethSupernet)[k]
              /\ \A k \in 1..m : \E y \in Veths : rules[n + 5 + k] = Jump(y)
              /\ rules[n + m + 6] = Egress(VethSupernet)
              /\ rules[n + m + 7] = Return(VethSupernet)
              /\ rules[n + m + 8] = From(VethSupernet, "DROP")
<1>1. PICK n, m \in 0..Len(rules) :
        /\ n + m + 8 = Len(rules)
        /\ \A k \in 1..n : \E y \in Veths : SubSeq(rules, 1, n)[k] = Binding(y)
        /\ SubSeq(rules, n + 1, n + 5) = <<Antispoof>> \o Drops(VethSupernet)
        /\ \A k \in 1..m : \E y \in Veths :
              SubSeq(rules, n + 6, n + 5 + m)[k] = Jump(y)
        /\ SubSeq(rules, n + m + 6, n + m + 8) = Trailer(VethSupernet)
  BY DEF Isolates
<1>2. PICK N \in Nat : N = Len(rules)
  OBVIOUS
<1>3. \A k \in 1..n : SubSeq(rules, 1, n)[k] = rules[k]
  BY <1>1, <1>2, Slice
<1>4. \A k \in 1..5 : SubSeq(rules, n + 1, n + 5)[k] = rules[n + k]
  <2>1. /\ n + 1 \in 1..(Len(rules) + 1) /\ n + 5 \in 0..Len(rules)
        /\ n + 1 =< (n + 5) + 1 /\ (n + 5) - (n + 1) + 1 = 5
    BY <1>1, <1>2
  <2>2. \A k \in 1..((n + 5) - (n + 1) + 1) :
           SubSeq(rules, n + 1, n + 5)[k] = rules[(n + 1) + k - 1]
    BY <2>1, Slice
  <2>3. \A k \in 1..5 : (n + 1) + k - 1 = n + k
    BY <1>1
  <2> QED
    BY <2>1, <2>2, <2>3
<1>5. \A k \in 1..m : SubSeq(rules, n + 6, n + 5 + m)[k] = rules[n + 5 + k]
  <2>1. /\ n + 6 \in 1..(Len(rules) + 1) /\ n + 5 + m \in 0..Len(rules)
        /\ n + 6 =< (n + 5 + m) + 1 /\ (n + 5 + m) - (n + 6) + 1 = m
    BY <1>1, <1>2
  <2>2. \A k \in 1..((n + 5 + m) - (n + 6) + 1) :
           SubSeq(rules, n + 6, n + 5 + m)[k] = rules[(n + 6) + k - 1]
    BY <2>1, Slice
  <2>3. \A k \in 1..m : (n + 6) + k - 1 = n + 5 + k
    BY <1>1
  <2> QED
    BY <2>1, <2>2, <2>3
<1>6. \A k \in 1..3 : SubSeq(rules, n + m + 6, n + m + 8)[k] = rules[n + m + 5 + k]
  <2>1. /\ n + m + 6 \in 1..(Len(rules) + 1) /\ n + m + 8 \in 0..Len(rules)
        /\ n + m + 6 =< (n + m + 8) + 1 /\ (n + m + 8) - (n + m + 6) + 1 = 3
    BY <1>1, <1>2
  <2>2. \A k \in 1..((n + m + 8) - (n + m + 6) + 1) :
           SubSeq(rules, n + m + 6, n + m + 8)[k] = rules[(n + m + 6) + k - 1]
    BY <2>1, Slice
  <2>3. \A k \in 1..3 : (n + m + 6) + k - 1 = n + m + 5 + k
    BY <1>1
  <2> QED
    BY <2>1, <2>2, <2>3
<1>7. rules[n + 1] = Antispoof /\ \A k \in 1..4 : rules[n + 1 + k] = Drops(VethSupernet)[k]
  <2>1. PICK Q : Q = <<Antispoof>> \o Drops(VethSupernet)
    OBVIOUS
  <2>2. Q[1] = Antispoof /\ \A k \in 1..4 : Q[1 + k] = Drops(VethSupernet)[k]
    BY <2>1 DEF Drops
  <2>3. \A k \in 1..5 : Q[k] = rules[n + k]
    BY <1>1, <1>4, <2>1
  <2>4. \A k \in 1..4 : 1 + k \in 1..5 /\ n + (1 + k) = n + 1 + k
    BY <1>1
  <2> QED
    BY <2>2, <2>3, <2>4
<1>8. /\ rules[n + m + 6] = Egress(VethSupernet)
      /\ rules[n + m + 7] = Return(VethSupernet)
      /\ rules[n + m + 8] = From(VethSupernet, "DROP")
  <2>1. PICK Q : Q = Trailer(VethSupernet)
    OBVIOUS
  <2>2. /\ Q[1] = Egress(VethSupernet) /\ Q[2] = Return(VethSupernet)
        /\ Q[3] = From(VethSupernet, "DROP")
    BY <2>1 DEF Trailer
  <2>3. \A k \in 1..3 : Q[k] = rules[n + m + 5 + k]
    BY <1>1, <1>6, <2>1
  <2>4. /\ n + m + 5 + 1 = n + m + 6 /\ n + m + 5 + 2 = n + m + 7
        /\ n + m + 5 + 3 = n + m + 8
    BY <1>1
  <2>5. /\ Q[1] = rules[n + m + 5 + 1] /\ Q[2] = rules[n + m + 5 + 2]
        /\ Q[3] = rules[n + m + 5 + 3]
    BY <2>3
  <2> QED
    BY <2>2, <2>4, <2>5
<1>9. n \in Nat /\ m \in Nat
  OBVIOUS
<1>10. \A k \in 1..n : \E y \in Veths : rules[k] = Binding(y)
  BY <1>1, <1>3
<1>11. \A k \in 1..m : \E y \in Veths : rules[n + 5 + k] = Jump(y)
  BY <1>1, <1>5
<1> QED
  BY <1>1, <1>7, <1>8, <1>9, <1>10, <1>11

(* On an isolating chain the fixed drops, the binding and the jump of a    *)
(* clone are met before anything that accepts.                             *)
LEMMA IsolatesShields ==
    ASSUME NEW rules \in Seq(RuleSet), Isolates(rules), NEW x \in Veths
    PROVE  /\ Contains(rules, Binding(x)) => Shields(rules, Binding(x), x)
           /\ \A k \in 1..4 : Shields(rules, Drops(VethSupernet)[k], x)
           /\ Contains(rules, Jump(x)) => Shields(rules, Jump(x), x)
           /\ CloneHead(rules) # {}
<1>1. PICK n, m \in Nat :
              /\ n + m + 8 = Len(rules)
              /\ \A k \in 1..n : \E y \in Veths : rules[k] = Binding(y)
              /\ rules[n + 1] = Antispoof
              /\ \A k \in 1..4 : rules[n + 1 + k] = Drops(VethSupernet)[k]
              /\ \A k \in 1..m : \E y \in Veths : rules[n + 5 + k] = Jump(y)
              /\ rules[n + m + 6] = Egress(VethSupernet)
              /\ rules[n + m + 7] = Return(VethSupernet)
              /\ rules[n + m + 8] = From(VethSupernet, "DROP")
  BY IsolatesShape
<1>2. PICK N \in Nat : N = Len(rules) /\ N = n + m + 8
  BY <1>1
<1>3. x \in Rooms /\ x \notin OtherNames
  BY Names DEF Rooms
<1>4. ASSUME NEW k \in 1..(n + 5)
      PROVE  rules[k].to = "DROP"
  <2>1. CASE k \in 1..n
    <3>1. PICK y \in Veths : rules[k] = Binding(y)
      BY <1>1, <2>1
    <3>2. HasFields(Binding(y), TRUE, {y}, Points, {y}, Interfaces, FALSE, "DROP")
      BY BindingForm
    <3> QED
      BY <3>1, <3>2 DEF HasFields
  <2>2. CASE k = n + 1
    BY <1>1, <2>2, AntispoofForm DEF HasFields
  <2>3. CASE k \in (n + 2)..(n + 5)
    <3>1. PICK i \in 1..4 : k = n + 1 + i
      <4>1. k - n - 1 \in 1..4 /\ k = n + 1 + (k - n - 1)
        BY <2>3
      <4> QED
        BY <4>1
    <3>2. rules[k] = Drops(VethSupernet)[i]
      BY <1>1, <3>1
    <3>3. \E net : Drops(VethSupernet)[i] = Between(VethSupernet, net, "DROP")
      BY DEF Drops
    <3>4. PICK net : rules[k] = Between(VethSupernet, net, "DROP")
      BY <3>2, <3>3
    <3> QED
      BY <3>4 DEF Between, Rule
  <2> QED
    BY <2>1, <2>2, <2>3
<1>5. ASSUME NEW j \in 1..(n + 5)
      PROVE  Shields(rules, rules[j], x)
  <2>1. \A k \in 1..(j - 1) : Harmless(rules[k], rules[j], x)
    BY <1>4 DEF Harmless
  <2>2. j \in 1..Len(rules)
    BY <1>2
  <2> QED
    BY <2>1, <2>2 DEF Shields, ShieldedAt
<1>6. \A k \in 1..4 : Shields(rules, Drops(VethSupernet)[k], x)
  <2> TAKE k \in 1..4
  <2>1. n + 1 + k \in 1..(n + 5)
    OBVIOUS
  <2> QED
    BY <1>1, <1>5, <2>1
<1>7. ASSUME NEW j \in 1..Len(rules), j > n + 5
      PROVE  \/ \E a \in 1..m : j = n + 5 + a
             \/ j = n + m + 6 \/ j = n + m + 7 \/ j = n + m + 8
  <2>1. CASE j =< n + m + 5
    <3>1. j - n - 5 \in 1..m /\ j = n + 5 + (j - n - 5)
      BY <1>2, <1>7, <2>1
    <3> QED
      BY <3>1
  <2> QED
    BY <1>2, <1>7, <2>1
<1>8. /\ HasFields(Binding(x), TRUE, {x}, Points, {x}, Interfaces, FALSE, "DROP")
      /\ HasFields(Jump(x), FALSE, Points, Points, {x}, Interfaces, FALSE, x)
  BY BindingForm, JumpForm
<1>9. /\ rules[n + m + 6].to = "ACCEPT" /\ rules[n + m + 7].to = "ACCEPT"
      /\ rules[n + m + 8].to = "DROP" /\ rules[n + m + 8].i = Interfaces
  BY <1>1 DEF Egress, Return, From, Rule
<1>10. ASSUME Contains(rules, Binding(x))
       PROVE  Shields(rules, Binding(x), x)
  <2>1. PICK j \in 1..Len(rules) : rules[j] = Binding(x)
    BY <1>10 DEF Contains
  <2>2. rules[j].to = "DROP" /\ rules[j].i = {x}
    BY <1>8, <2>1 DEF HasFields
  <2>3. j =< n + 5
    <3> SUFFICES ASSUME j > n + 5
                 PROVE  FALSE
      BY <1>2
    <3>1. ASSUME NEW a \in 1..m, j = n + 5 + a
          PROVE  FALSE
      <4>1. PICK y \in Veths : rules[j] = Jump(y)
        BY <1>1, <3>1
      <4>2. HasFields(Jump(y), FALSE, Points, Points, {y}, Interfaces, FALSE, y)
        BY JumpForm
      <4>3. rules[j].to = y /\ y # "DROP"
        BY <4>1, <4>2, Names DEF HasFields, Rooms, OtherNames
      <4> QED
        BY <2>2, <4>3
    <3>2. j # n + m + 6 /\ j # n + m + 7
      BY <1>9, <2>2
    <3>3. j # n + m + 8
      <4>1. "up" \in Interfaces /\ "docker" \in Interfaces
        BY Names
      <4> QED
        BY <1>9, <2>2, <4>1
    <3> QED
      BY <1>7, <3>1, <3>2, <3>3
  <2>4. j \in 1..(n + 5)
    BY <2>3
  <2> QED
    BY <1>5, <2>1, <2>4
<1>11. ASSUME Contains(rules, Jump(x))
       PROVE  Shields(rules, Jump(x), x)
  <2>1. PICK j \in 1..Len(rules) : rules[j] = Jump(x)
    BY <1>11 DEF Contains
  <2>2. rules[j].to = x /\ x \notin {"DROP", "ACCEPT"}
    BY <1>3, <1>8, <2>1 DEF HasFields, OtherNames
  <2>3. j > n + 5
    <3>1. ~(j \in 1..(n + 5))
      BY <1>4, <2>2
    <3> QED
      BY <3>1
  <2>4. PICK a \in 1..m : j = n + 5 + a
    BY <1>7, <1>9, <2>2, <2>3
  <2>5. ASSUME NEW k \in 1..(j - 1)
        PROVE  Harmless(rules[k], Jump(x), x)
    <3>1. CASE k =< n + 5
      BY <1>4, <3>1 DEF Harmless
    <3>2. CASE k > n + 5
      <4>1. k - n - 5 \in 1..m /\ k = n + 5 + (k - n - 5)
        BY <2>4, <3>2
      <4>2. PICK y \in Veths : rules[k] = Jump(y)
        BY <1>1, <4>1
      <4>3. HasFields(Jump(y), FALSE, Points, Points, {y}, Interfaces, FALSE, y)
        BY JumpForm
      <4> QED
        BY <4>2, <4>3 DEF Harmless, HasFields
    <3> QED
      BY <3>1, <3>2
  <2> QED
    BY <2>1, <2>5 DEF Shields, ShieldedAt
<1>12. CloneHead(rules) # {}
  <2>1. n + m + 6 \in DOMAIN rules
    <3>1. DOMAIN rules = 1..Len(rules)
      OBVIOUS
    <3>2. n + m + 6 \in 1..Len(rules)
      BY <1>2
    <3> QED
      BY <3>1, <3>2
  <2> QED
    BY <1>1, <2>1 DEF CloneHead
<1> QED
  BY <1>6, <1>10, <1>11, <1>12

(* A clone that verify_clone_locked passes is guarded.                     *)
LEMMA VerifiedGuards ==
    ASSUME TypeInv, NEW x \in Veths, Verified(x)
    PROVE  CloneGuarded(x) /\ PolicyGuarded(x)
<1> DEFINE V == table["ROOMS_VETH_FWD"]
<1>1. V \in Seq(RuleSet) /\ Isolates(V) /\ Contains(V, Binding(x))
  BY DEF TypeInv, Shared, Verified, CloneSubstrate
<1>2. CloneGuarded(x)
  <2>1. Shields(V, Binding(x), x) /\ \A k \in 1..4 : Shields(V, Drops(VethSupernet)[k], x)
    BY <1>1, IsolatesShields
  <2> QED
    BY <2>1 DEF CloneGuarded, Verified, CloneSubstrate, FallsThrough
<1>3. ASSUME plan[x] # "observe"
      PROVE  /\ Shields(table[Parent(x)], Jump(x), x)
             /\ policy[x] = SubchainRules(plan[x])
             /\ plan[x] = "none" => Shields(table["INPUT"], InputDrop(x), x)
  <2>1. /\ Contains(V, Jump(x)) /\ policy[x] = SubchainRules(plan[x])
        /\ plan[x] = "none" => InputDropPresent(x)
    BY <1>3 DEF Verified
  <2>2. Parent(x) = "ROOMS_VETH_FWD"
    BY Names DEF Parent
  <2>3. Shields(table[Parent(x)], Jump(x), x)
    BY <1>1, <2>1, <2>2, IsolatesShields
  <2>4. ASSUME InputDropPresent(x)
        PROVE  Shields(table["INPUT"], InputDrop(x), x)
    <3>1. table["INPUT"] \in Seq(RuleSet)
      BY DEF TypeInv, Shared
    <3>2. PICK k \in DOMAIN table["INPUT"] :
            /\ table["INPUT"][k] = InputDrop(x)
            /\ \A j \in 1..(k - 1) : PriorPreserves(table["INPUT"][j], x)
      BY <2>4 DEF InputDropPresent
    <3>3. \A j \in 1..(k - 1) : Harmless(table["INPUT"][j], InputDrop(x), x)
      BY <3>2 DEF PriorPreserves, Harmless
    <3> QED
      BY <3>1, <3>2, <3>3 DEF Shields, ShieldedAt
  <2> QED
    BY <2>1, <2>3, <2>4
<1> QED
  BY <1>2, <1>3 DEF PolicyGuarded

-----------------------------------------------------------------------------
(* What a step of the room y changes.                                      *)

(* The rules of a chain that belong to a room.                             *)
Own(c, y) ==
    {r \in {Jump(y)} : c = Parent(y)}
    \cup {r \in {Binding(y)} : c = "ROOMS_VETH_FWD" /\ y \in Veths}
    \cup {r \in {InputDrop(y)} : c = "INPUT"}

(* A chain as it was, or with one rule of the room put in or taken out.    *)
ChainEdit(c, y) ==
    \/ table'[c] = table[c]
    \/ \E i \in 1..(Len(table[c]) + 1), r \in Own(c, y) :
          Inserted(table'[c], table[c], i, r)
    \/ \E i \in 1..Len(table[c]) :
          table[c][i] \in Own(c, y) /\ Removed(table'[c], table[c], i)

(* The table with at most such edits.                                      *)
TableEdit(y) ==
    /\ table' \in [Shared -> Seq(RuleSet)]
    /\ \A c \in Shared : ChainEdit(c, y)

(* A change of one chain edits the table.                                  *)
LEMMA OneChain ==
    ASSUME TypeInv, NEW y, NEW c \in Shared, NEW t \in Seq(RuleSet),
           table' = [table EXCEPT ![c] = t],
           \/ t = table[c]
           \/ \E i \in 1..(Len(table[c]) + 1), r \in Own(c, y) :
                 Inserted(t, table[c], i, r)
           \/ \E i \in 1..Len(table[c]) :
                 table[c][i] \in Own(c, y) /\ Removed(t, table[c], i)
    PROVE  TableEdit(y)
<1>1. table' \in [Shared -> Seq(RuleSet)] /\ table'[c] = t
  BY DEF TypeInv
<1>2. \A b \in Shared \ {c} : table'[b] = table[b]
  BY DEF TypeInv
<1>3. ChainEdit(c, y)
  BY <1>1 DEF ChainEdit
<1> QED
  BY <1>1, <1>2, <1>3 DEF TableEdit, ChainEdit

(* Taking out a rule of the room edits its chain.                          *)
LEMMA TakeOut ==
    ASSUME TypeInv, NEW y, NEW c \in Shared, NEW r \in Own(c, y),
           table' = [table EXCEPT ![c] = Without(table[c], r)]
    PROVE  TableEdit(y)
<1>1. table[c] \in Seq(RuleSet)
  BY DEF TypeInv
<1>2. CASE Contains(table[c], r)
  <2>1. /\ Without(table[c], r) \in Seq(RuleSet)
        /\ \E i \in 1..Len(table[c]) :
              table[c][i] \in Own(c, y) /\ Removed(Without(table[c], r), table[c], i)
    BY <1>1, <1>2, RemoveForm DEF Without
  <2> QED
    BY <2>1, OneChain
<1>3. CASE ~Contains(table[c], r)
  <2>1. Without(table[c], r) = table[c]
    BY <1>3 DEF Without, RemoveFirst, Contains
  <2> QED
    BY <1>1, <2>1, OneChain
<1> QED
  BY <1>2, <1>3

(* Putting in a rule of the room edits its chain.                          *)
LEMMA PutIn ==
    ASSUME TypeInv, NEW y \in Rooms, NEW c \in Shared, NEW r \in Own(c, y),
           NEW i \in 1..(Len(table[c]) + 1), NEW t \in Seq(RuleSet),
           Inserted(t, table[c], i, r), table' = [table EXCEPT ![c] = t]
    PROVE  TableEdit(y)
BY OneChain

(* A step of a room puts in or takes out at most one rule, its own.        *)
LEMMA StepTable ==
    ASSUME TypeInv, NEW y \in Rooms, Step(y)
    PROVE  TableEdit(y)
<1>1. {Binding(y), Jump(y), InputDrop(y)} \subseteq RuleSet
  BY OwnRules
<1>2. /\ Parent(y) \in Shared /\ "INPUT" \in Shared
      /\ Jump(y) \in Own(Parent(y), y) /\ InputDrop(y) \in Own("INPUT", y)
  BY DEF Parent, Shared, Own
<1>3. y \in Veths => Binding(y) \in Own(Parent(y), y)
  BY Names DEF Parent, Own
<1>4. \A c \in Shared : table[c] \in Seq(RuleSet)
  BY DEF TypeInv
<1>5. CASE UNCHANGED table
  BY <1>5 DEF TableEdit, ChainEdit, TypeInv
<1>6. CASE InputOff(y)
  <2>1. \/ UNCHANGED table
        \/ table' = [table EXCEPT !["INPUT"] = Without(table["INPUT"], InputDrop(y))]
    BY <1>6 DEF InputOff, SetChain
  <2> QED
    BY <1>2, <1>5, <2>1, TakeOut
<1>7. CASE JumpOff(y)
  <2>1. \/ UNCHANGED table
        \/ table' = [table EXCEPT ![Parent(y)] = Without(table[Parent(y)], Jump(y))]
    BY <1>7 DEF JumpOff, SetChain
  <2> QED
    BY <1>2, <1>5, <2>1, TakeOut
<1>8. CASE Bind(y)
  <2>1. /\ y \in Veths
        /\ table' = [table EXCEPT ![Parent(y)] = <<Binding(y)>> \o table[Parent(y)]]
    BY <1>8 DEF Bind, SetChain
  <2>2. /\ <<Binding(y)>> \o table[Parent(y)] \in Seq(RuleSet)
        /\ Inserted(<<Binding(y)>> \o table[Parent(y)], table[Parent(y)], 1, Binding(y))
    BY <1>1, <1>2, <1>4, PrependForm
  <2>3. 1 \in 1..(Len(table[Parent(y)]) + 1)
    BY <1>2, <1>4
  <2> QED
    BY <1>2, <1>3, <2>1, <2>2, <2>3, PutIn
<1>9. CASE Unbind(y)
  <2>1. /\ y \in Veths
        /\ table' = [table EXCEPT ![Parent(y)] = Without(table[Parent(y)], Binding(y))]
    BY <1>9 DEF Unbind, SetChain, TypeInv
  <2> QED
    BY <1>2, <1>3, <2>1, TakeOut
<1>10. CASE InsertJump(y)
  <2>1. CASE UNCHANGED table
    BY <1>5, <2>1
  <2>2. CASE ~UNCHANGED table
    <3>1. /\ pc[y] = "jump" /\ at[y] =< Len(table[Parent(y)]) + 1
          /\ table' = [table EXCEPT ![Parent(y)] =
                                       InsertAt(table[Parent(y)], at[y], Jump(y))]
      BY <1>10, <2>2 DEF InsertJump, SetChain
    <3>2. at[y] \in 1..(Len(table[Parent(y)]) + 1)
      <4>1. at[y] \in Nat /\ at[y] # 0
        BY <3>1 DEF TypeInv
      <4>2. Len(table[Parent(y)]) \in Nat
        BY <1>2, <1>4
      <4> QED
        BY <3>1, <4>1, <4>2
    <3>3. /\ InsertAt(table[Parent(y)], at[y], Jump(y)) \in Seq(RuleSet)
          /\ Inserted(InsertAt(table[Parent(y)], at[y], Jump(y)), table[Parent(y)],
                      at[y], Jump(y))
      BY <1>1, <1>2, <1>4, <3>2, InsertForm
    <3> QED
      BY <1>2, <3>1, <3>2, <3>3, PutIn
  <2> QED
    BY <2>1, <2>2
<1>11. CASE InsertInputDrop(y)
  <2>1. table' = [table EXCEPT !["INPUT"] = <<InputDrop(y)>> \o table["INPUT"]]
    BY <1>11 DEF InsertInputDrop, SetChain
  <2>2. /\ <<InputDrop(y)>> \o table["INPUT"] \in Seq(RuleSet)
        /\ Inserted(<<InputDrop(y)>> \o table["INPUT"], table["INPUT"], 1, InputDrop(y))
    BY <1>1, <1>2, <1>4, PrependForm
  <2>3. 1 \in 1..(Len(table["INPUT"]) + 1)
    BY <1>2, <1>4
  <2> QED
    BY <1>2, <2>1, <2>2, <2>3, PutIn
<1>12. CASE \/ Flush(y) \/ DeleteChain(y) \/ RemoveFails(y) \/ Install(y) \/ Dump(y)
            \/ NewChain(y) \/ AppendRule(y) \/ Verify(y) \/ InstallFails(y)
            \/ Rollback(y) \/ Teardown(y) \/ Crash(y)
  BY <1>5, <1>12 DEF Flush, DeleteChain, RemoveFails, Install, Dump, NewChain,
     AppendRule, Verify, InstallFails, Rollback, Teardown, Crash
<1> QED
  BY <1>6, <1>7, <1>8, <1>9, <1>10, <1>11, <1>12 DEF Step

(* A step of y leaves the other rooms' state alone.                        *)
Local(y) ==
    /\ users' = users
    /\ pc' \in [Rooms -> Labels] /\ plan' \in [Rooms -> Plans]
    /\ mode' \in [Rooms -> {"install", "rollback", "remove"}]
    /\ at' \in [Rooms -> Nat] /\ DOMAIN policy' = Rooms
    /\ \A x \in Rooms \ {y} : /\ pc'[x] = pc[x] /\ plan'[x] = plan[x]
                              /\ at'[x] = at[x] /\ policy'[x] = policy[x]

(* What the label that a step of y reaches says of it.                     *)
Labelled(y) ==
    /\ pc'[y] = "unbind" => y \in Veths
    /\ pc'[y] \in {"new", "append", "jump"} => at'[y] # 0
    /\ pc'[y] = "up" /\ y \in Veths =>
          Verified(y) /\ UNCHANGED <<table, policy, plan>>

(* Where a removal leads.                                                  *)
LEMMA RemoveEndsGoto ==
    ASSUME TypeInv, NEW y \in Rooms, NEW b \in BOOLEAN, RemoveEnds(y, b)
    PROVE  /\ UNCHANGED <<plan, mode, at, users>>
           /\ \E l \in {"dump", "stale", "free", "unbind"} :
                 pc' = [pc EXCEPT ![y] = l] /\ (l = "unbind" => y \in Veths)
<1>1. mode[y] \in {"install", "rollback", "remove"} /\ (y \in Taps \/ y \in Veths)
  BY DEF TypeInv, Rooms
<1>2. CASE mode[y] = "install"
  BY <1>2 DEF RemoveEnds, Goto
<1>3. CASE mode[y] = "rollback"
  BY <1>3 DEF RemoveEnds, Goto
<1>4. CASE mode[y] = "remove" /\ y \in Taps
  BY <1>4, Names DEF RemoveEnds, Goto
<1>5. CASE mode[y] = "remove" /\ y \in Veths
  BY <1>5, Names DEF RemoveEnds, Goto
<1> QED
  BY <1>1, <1>2, <1>3, <1>4, <1>5

(* The rank that an install computes exists.                               *)
LEMMA RankExists ==
    ASSUME TypeInv, NEW y \in Rooms,
           IF y \in Taps THEN SupernetAccepts(table[Parent(y)]) # {} ELSE CloneSubstrate
    PROVE  InsertPosition(y) \in Nat \ {0}
<1>1. Parent(y) \in Shared /\ table[Parent(y)] \in Seq(RuleSet)
  BY DEF TypeInv, Shared, Parent
<1>2. PICK S : S = IF y \in Taps THEN SupernetAccepts(table[Parent(y)])
                                 ELSE CloneHead(table[Parent(y)])
  OBVIOUS
<1>3. S \subseteq DOMAIN table[Parent(y)]
  BY <1>2 DEF SupernetAccepts, CloneHead
<1>4. S \subseteq Nat \ {0}
  BY <1>1, <1>3
<1>5. S # {}
  <2>1. CASE y \in Taps
    BY <1>2, <2>1
  <2>2. CASE y \notin Taps
    <3>1. y \in Veths /\ Parent(y) = "ROOMS_VETH_FWD"
      BY <2>2 DEF Rooms, Parent
    <3>2. CloneHead(table[Parent(y)]) # {}
      BY <1>1, <2>2, <3>1, IsolatesShields DEF CloneSubstrate
    <3> QED
      BY <1>2, <2>2, <3>2
  <2> QED
    BY <2>1, <2>2
<1>6. InsertPosition(y) = Min(S)
  BY <1>2 DEF InsertPosition
<1> QED
  BY <1>4, <1>5, <1>6, MinOfRanks

(* A step to a label changes no other room.                                *)
LEMMA GotoLocal ==
    ASSUME TypeInv, NEW y \in Rooms, NEW l \in Labels, pc' = [pc EXCEPT ![y] = l],
           UNCHANGED <<plan, at, users>>,
           UNCHANGED policy \/ \E c : policy' = [policy EXCEPT ![y] = c],
           UNCHANGED mode \/ \E m \in {"install", "rollback", "remove"} :
                                mode' = [mode EXCEPT ![y] = m]
    PROVE  Local(y) /\ pc'[y] = l
<1>1. pc' \in [Rooms -> Labels] /\ pc'[y] = l /\ \A x \in Rooms \ {y} : pc'[x] = pc[x]
  BY DEF TypeInv
<1>2. DOMAIN policy' = Rooms /\ \A x \in Rooms \ {y} : policy'[x] = policy[x]
  BY DEF TypeInv
<1>3. mode' \in [Rooms -> {"install", "rollback", "remove"}]
  BY DEF TypeInv
<1> QED
  BY <1>1, <1>2, <1>3 DEF Local, TypeInv

(* A step of a room changes no other room, and lets a clone run only       *)
(* on a successful verification of the table as it is.                     *)
LEMMA StepLocal ==
    ASSUME TypeInv, NEW y \in Rooms, Step(y)
    PROVE  Local(y) /\ Labelled(y)
<1>0. pc[y] \in Labels /\ pc = [pc EXCEPT ![y] = pc[y]]
  BY DEF TypeInv
<1>1. CASE InputOff(y)
  <2>1. /\ pc[y] = "input_off" /\ UNCHANGED <<policy, plan, mode, at, users>>
        /\ \E l \in {"input_off", "jump_off"} : pc' = [pc EXCEPT ![y] = l]
    BY <1>0, <1>1 DEF InputOff, Goto
  <2> QED
    BY <2>1, GotoLocal DEF Labels, Labelled
<1>2. CASE JumpOff(y)
  <2>1. CASE policy[y] = Absent
    <3>1. RemoveEnds(y, TRUE) /\ UNCHANGED <<table, policy>>
      BY <1>2, <2>1 DEF JumpOff
    <3> QED
      BY <3>1, RemoveEndsGoto, GotoLocal DEF Labels, Labelled
  <2>2. CASE policy[y] # Absent
    <3>1. /\ pc[y] = "jump_off" /\ UNCHANGED <<policy, plan, mode, at, users>>
          /\ \E l \in {"jump_off", "flush"} : pc' = [pc EXCEPT ![y] = l]
      BY <1>0, <1>2, <2>2 DEF JumpOff, Goto
    <3> QED
      BY <3>1, GotoLocal DEF Labels, Labelled
  <2> QED
    BY <2>1, <2>2
<1>3. CASE Flush(y)
  <2>1. /\ pc' = [pc EXCEPT ![y] = "delete"] /\ policy' = [policy EXCEPT ![y] = <<>>]
        /\ UNCHANGED <<plan, mode, at, users>>
    BY <1>3 DEF Flush, Goto
  <2> QED
    BY <2>1, GotoLocal DEF Labels, Labelled
<1>4. CASE DeleteChain(y)
  <2>1. policy' = [policy EXCEPT ![y] = Absent] /\ RemoveEnds(y, TRUE)
    BY <1>4 DEF DeleteChain
  <2> QED
    BY <2>1, RemoveEndsGoto, GotoLocal DEF Labels, Labelled
<1>5. CASE RemoveFails(y)
  <2>1. UNCHANGED policy /\ RemoveEnds(y, FALSE)
    BY <1>5 DEF RemoveFails
  <2> QED
    BY <2>1, RemoveEndsGoto, GotoLocal DEF Labels, Labelled
<1>6. CASE Bind(y)
  <2>1. pc' = [pc EXCEPT ![y] = "bound"] /\ UNCHANGED <<policy, plan, mode, at, users>>
    BY <1>6 DEF Bind, Goto
  <2> QED
    BY <2>1, GotoLocal DEF Labels, Labelled
<1>7. CASE Unbind(y)
  <2>1. pc' = [pc EXCEPT ![y] = "free"] /\ UNCHANGED <<policy, plan, mode, at, users>>
    BY <1>7 DEF Unbind, Goto
  <2> QED
    BY <2>1, GotoLocal DEF Labels, Labelled
<1>8. CASE Install(y)
  <2>1. PICK pl \in Plans : plan' = [plan EXCEPT ![y] = pl]
    BY <1>8 DEF Install
  <2>2. plan' \in [Rooms -> Plans] /\ \A x \in Rooms \ {y} : plan'[x] = plan[x]
    BY <2>1 DEF TypeInv
  <2>3. /\ UNCHANGED <<table, policy, users>>
        /\ \/ /\ pc' = [pc EXCEPT ![y] = "up"]
              /\ UNCHANGED <<mode, at>> /\ y \in Taps
           \/ /\ pc' = [pc EXCEPT ![y] = "input_off"]
              /\ mode' = [mode EXCEPT ![y] = "install"] /\ at' = [at EXCEPT ![y] = 0]
    BY <1>8 DEF Install, StartRemove, Goto
  <2>4. /\ pc' \in [Rooms -> Labels] /\ \A x \in Rooms \ {y} : pc'[x] = pc[x]
        /\ pc'[y] \in {"up", "input_off"} /\ (pc'[y] = "up" => y \in Taps)
    BY <2>3 DEF TypeInv, Labels
  <2>5. /\ mode' \in [Rooms -> {"install", "rollback", "remove"}]
        /\ at' \in [Rooms -> Nat] /\ \A x \in Rooms \ {y} : at'[x] = at[x]
    BY <2>3 DEF TypeInv
  <2>6. Local(y)
    BY <2>2, <2>3, <2>4, <2>5 DEF Local, TypeInv
  <2> QED
    BY <2>4, <2>6, Names DEF Labelled
<1>9. CASE Dump(y)
  <2>1. CASE UNCHANGED at
    <3>1. /\ UNCHANGED <<policy, plan, mode, users>>
          /\ \E l \in {"verify", "failed", "new"} : pc' = [pc EXCEPT ![y] = l]
      BY <1>9 DEF Dump, Goto
    <3>2. PICK l \in {"verify", "failed", "new"} : pc' = [pc EXCEPT ![y] = l]
      BY <3>1
    <3>3. Local(y) /\ pc'[y] = l
      BY <2>1, <3>1, <3>2, GotoLocal DEF Labels
    <3>4. l = "new" => at'[y] # 0
      <4>1. CASE l = "new"
        <5>1. at' = [at EXCEPT ![y] = InsertPosition(y)]
          BY <1>9, <2>1, <3>2, <3>3, <4>1 DEF Dump, Goto, TypeInv
        <5>2. IF y \in Taps THEN SupernetAccepts(table[Parent(y)]) # {} ELSE CloneSubstrate
          BY <1>9, <2>1, <3>2, <3>3, <4>1 DEF Dump, Goto, TypeInv
        <5>3. InsertPosition(y) \in Nat \ {0}
          BY <5>2, RankExists
        <5> QED
          BY <5>1, <5>3 DEF TypeInv
      <4> QED
        BY <4>1
    <3> QED
      BY <3>3, <3>4 DEF Labelled
  <2>2. CASE ~UNCHANGED at
    <3>1. /\ at' = [at EXCEPT ![y] = InsertPosition(y)]
          /\ pc' = [pc EXCEPT ![y] = "new"]
          /\ UNCHANGED <<policy, plan, mode, users>>
      BY <1>9, <2>2 DEF Dump, Goto
    <3>2. IF y \in Taps THEN SupernetAccepts(table[Parent(y)]) # {} ELSE CloneSubstrate
      BY <1>9, <2>2 DEF Dump
    <3>3. InsertPosition(y) \in Nat \ {0}
      BY <3>2, RankExists
    <3>4. /\ at' \in [Rooms -> Nat] /\ at'[y] # 0 /\ \A x \in Rooms \ {y} : at'[x] = at[x]
      BY <3>1, <3>3 DEF TypeInv
    <3>5. /\ pc' \in [Rooms -> Labels] /\ \A x \in Rooms \ {y} : pc'[x] = pc[x]
          /\ pc'[y] = "new"
      BY <3>1 DEF TypeInv, Labels
    <3>6. Local(y)
      BY <3>1, <3>4, <3>5 DEF Local, TypeInv
    <3> QED
      BY <3>4, <3>5, <3>6 DEF Labelled
  <2> QED
    BY <2>1, <2>2
<1>10. CASE NewChain(y)
  <2>1. /\ pc[y] = "new" /\ UNCHANGED <<plan, mode, at, users>>
        /\ UNCHANGED policy \/ policy' = [policy EXCEPT ![y] = <<>>]
        /\ \E l \in {"append", "failed"} : pc' = [pc EXCEPT ![y] = l]
    BY <1>10 DEF NewChain, Goto
  <2>2. at[y] # 0
    BY <2>1 DEF TypeInv
  <2> QED
    BY <2>1, <2>2, GotoLocal DEF Labels, Labelled
<1>11. CASE AppendRule(y)
  <2>1. /\ pc[y] = "append" /\ UNCHANGED <<plan, mode, at, users>>
        /\ \E c : policy' = [policy EXCEPT ![y] = c]
        /\ \E l \in {"append", "jump"} : pc' = [pc EXCEPT ![y] = l]
    BY <1>11 DEF AppendRule, Goto
  <2>2. at[y] # 0
    BY <2>1 DEF TypeInv
  <2> QED
    BY <2>1, <2>2, GotoLocal DEF Labels, Labelled
<1>12. CASE InsertJump(y)
  <2>1. /\ UNCHANGED <<policy, plan, mode, at, users>>
        /\ \E l \in {"input", "up", "verify", "failed"} :
              pc' = [pc EXCEPT ![y] = l] /\ (l = "up" => y \in Taps)
    BY <1>12 DEF InsertJump, Goto, AfterRules
  <2> QED
    BY <2>1, GotoLocal, Names DEF Labels, Labelled
<1>13. CASE InsertInputDrop(y)
  <2>1. /\ UNCHANGED <<policy, plan, mode, at, users>>
        /\ \E l \in {"up", "verify"} :
              pc' = [pc EXCEPT ![y] = l] /\ (l = "up" => y \in Taps)
    BY <1>13 DEF InsertInputDrop, Goto, AfterRules
  <2> QED
    BY <2>1, GotoLocal, Names DEF Labels, Labelled
<1>14. CASE Verify(y)
  <2>1. /\ UNCHANGED <<table, policy, plan, mode, at, users>>
        /\ \E l \in {"failed", "stale", "loaded", "up"} :
              pc' = [pc EXCEPT ![y] = l] /\ (l = "up" => Verified(y))
    <3>1. UNCHANGED <<table, policy, plan, mode, at, users>>
      BY <1>14 DEF Verify
    <3>2. CASE Verified(y)
      <4>1. \E l \in {"loaded", "up"} : pc' = [pc EXCEPT ![y] = l]
        BY <1>14, <3>2 DEF Verify, Goto
      <4> QED
        BY <3>1, <3>2, <4>1
    <3>3. CASE ~Verified(y)
      <4>1. \E l \in {"failed", "stale"} : pc' = [pc EXCEPT ![y] = l]
        <5>1. CASE pc[y] = "verify" /\ plan[y] # "observe"
          BY <1>14, <3>3, <5>1 DEF Verify, Goto
        <5>2. CASE ~(pc[y] = "verify" /\ plan[y] # "observe")
          BY <1>14, <3>3, <5>2 DEF Verify, Goto
        <5> QED
          BY <5>1, <5>2
      <4> QED
        BY <3>1, <4>1
    <3> QED
      BY <3>2, <3>3
  <2> QED
    BY <2>1, GotoLocal DEF Labels, Labelled
<1>15. CASE InstallFails(y)
  <2>1. pc' = [pc EXCEPT ![y] = "failed"] /\ UNCHANGED <<policy, plan, mode, at, users>>
    BY <1>15 DEF InstallFails, Goto
  <2> QED
    BY <2>1, GotoLocal DEF Labels, Labelled
<1>16. CASE Rollback(y) \/ Teardown(y)
  <2>1. /\ pc' = [pc EXCEPT ![y] = "input_off"] /\ UNCHANGED <<policy, users>>
        /\ \E m \in {"rollback", "remove"} : mode' = [mode EXCEPT ![y] = m]
        /\ plan' = [plan EXCEPT ![y] = "observe"] /\ at' = [at EXCEPT ![y] = 0]
    BY <1>16 DEF Rollback, Teardown, StartRemove, Goto
  <2>2. /\ pc' \in [Rooms -> Labels] /\ pc'[y] = "input_off"
        /\ \A x \in Rooms \ {y} : pc'[x] = pc[x]
    BY <2>1 DEF TypeInv, Labels
  <2>3. /\ plan' \in [Rooms -> Plans] /\ at' \in [Rooms -> Nat]
        /\ \A x \in Rooms \ {y} : plan'[x] = plan[x] /\ at'[x] = at[x]
    BY <2>1 DEF TypeInv, Plans
  <2>4. mode' \in [Rooms -> {"install", "rollback", "remove"}]
    BY <2>1 DEF TypeInv
  <2>5. Local(y)
    BY <2>1, <2>2, <2>3, <2>4 DEF Local, TypeInv
  <2> QED
    BY <2>2, <2>5 DEF Labelled
<1>17. CASE Crash(y)
  <2>1. pc' = [pc EXCEPT ![y] = "stale"] /\ UNCHANGED <<policy, plan, mode, at, users>>
    BY <1>17 DEF Crash, Goto
  <2> QED
    BY <2>1, GotoLocal DEF Labels, Labelled
<1> QED
  BY <1>1, <1>2, <1>3, <1>4, <1>5, <1>6, <1>7, <1>8, <1>9, <1>10, <1>11, <1>12,
     <1>13,
     <1>14, <1>15, <1>16, <1>17 DEF Step

(* Every clone that runs is guarded.                                       *)
CloneInv == \A x \in Up \cap Veths : CloneGuarded(x) /\ PolicyGuarded(x)

(* A rule that is not the room's own and that shields another room goes on *)
(* shielding it.                                                           *)
LEMMA ShieldKept ==
    ASSUME TypeInv, NEW y \in Rooms, TableEdit(y), NEW c \in Shared, NEW x \in Rooms,
           x # y, NEW g, g \notin {Jump(y), Binding(y), InputDrop(y)},
           Shields(table[c], g, x)
    PROVE  Shields(table'[c], g, x)
<1>1. table[c] \in Seq(RuleSet) /\ ChainEdit(c, y)
  BY DEF TypeInv, TableEdit
<1>2. Own(c, y) \subseteq {Jump(y), Binding(y), InputDrop(y)}
  BY DEF Own
<1>3. CASE table'[c] = table[c]
  BY <1>3
<1>4. ASSUME NEW i \in 1..(Len(table[c]) + 1), NEW r \in Own(c, y),
             Inserted(table'[c], table[c], i, r)
      PROVE  Shields(table'[c], g, x)
  <2>1. r \in RuleSet
    BY <1>2, OwnRules
  <2>2. r.i = {y}
    BY <1>2 DEF Jump, Binding, InputDrop, Entering, From, Rule
  <2>3. Harmless(r, g, x)
    BY <2>2 DEF Harmless
  <2>4. PICK s, t : s = table[c] /\ t = table'[c]
    OBVIOUS
  <2>5. Shields(t, g, x)
    BY <1>1, <1>4, <2>1, <2>3, <2>4, ShieldsInsert
  <2> QED
    BY <2>4, <2>5
<1>5. ASSUME NEW i \in 1..Len(table[c]), table[c][i] \in Own(c, y),
             Removed(table'[c], table[c], i)
      PROVE  Shields(table'[c], g, x)
  <2>1. table[c][i] # g
    BY <1>2, <1>5
  <2>2. PICK s, t : s = table[c] /\ t = table'[c]
    OBVIOUS
  <2>3. Shields(t, g, x)
    BY <1>1, <1>5, <2>1, <2>2, ShieldsRemove
  <2> QED
    BY <2>2, <2>3
<1> QED
  BY <1>1, <1>3, <1>4, <1>5 DEF ChainEdit

(* The rules of two rooms differ, and none is a fixed drop.                *)
LEMMA OwnApart ==
    ASSUME NEW x \in Rooms, NEW y \in Rooms, x # y, NEW k \in 1..4
    PROVE  {Jump(x), Binding(x), InputDrop(x), Drops(VethSupernet)[k]}
              \cap {Jump(y), Binding(y), InputDrop(y)} = {}
<1>1. \A z \in Rooms : \A r \in {Jump(z), Binding(z), InputDrop(z)} : r.i = {z}
  BY DEF Jump, Binding, InputDrop, Entering, From, Rule
<1>2. Drops(VethSupernet)[k].i = Interfaces
  <2>1. PICK net : Drops(VethSupernet)[k] = Between(VethSupernet, net, "DROP")
    BY DEF Drops
  <2> QED
    BY <2>1 DEF Between, Rule
<1>3. "up" \in Interfaces /\ "docker" \in Interfaces
  BY Names
<1> QED
  BY <1>1, <1>2, <1>3

(* The guards of a room survive the steps of the others.                   *)
LEMMA GuardsKept ==
    ASSUME TypeInv, NEW y \in Rooms, TableEdit(y), Local(y), NEW x \in Rooms, x # y
    PROVE  /\ PolicyGuarded(x) => PolicyGuarded(x)'
           /\ x \in Veths /\ CloneGuarded(x) => CloneGuarded(x)'
<1>1. /\ plan'[x] = plan[x] /\ policy'[x] = policy[x]
      /\ SubchainRules(plan'[x]) = SubchainRules(plan[x])
  BY DEF Local
<1>2. /\ Jump(x) \notin {Jump(y), Binding(y), InputDrop(y)}
      /\ Binding(x) \notin {Jump(y), Binding(y), InputDrop(y)}
      /\ InputDrop(x) \notin {Jump(y), Binding(y), InputDrop(y)}
      /\ \A k \in 1..4 :
            Drops(VethSupernet)[k] \notin {Jump(y), Binding(y), InputDrop(y)}
  <2>1. \A k \in 1..4 : {Jump(x), Binding(x), InputDrop(x), Drops(VethSupernet)[k]}
                            \cap {Jump(y), Binding(y), InputDrop(y)} = {}
    BY OwnApart
  <2>2. {Jump(x), Binding(x), InputDrop(x), Drops(VethSupernet)[1]}
           \cap {Jump(y), Binding(y), InputDrop(y)} = {}
    BY <2>1
  <2> QED
    BY <2>1, <2>2
<1>3. /\ Parent(x) \in Shared /\ "INPUT" \in Shared /\ "ROOMS_VETH_FWD" \in Shared
      /\ "FORWARD" \in Shared /\ "ROOMS_FWD" \in Shared
  BY DEF Parent, Shared
<1>4. ASSUME PolicyGuarded(x)
      PROVE  PolicyGuarded(x)'
  <2>1. ASSUME plan[x] # "observe"
        PROVE  /\ Shields(table'[Parent(x)], Jump(x), x)
               /\ policy'[x] = SubchainRules(plan'[x])
               /\ plan'[x] = "none" => Shields(table'["INPUT"], InputDrop(x), x)
    BY <1>1, <1>2, <1>3, <1>4, <2>1, ShieldKept DEF PolicyGuarded
  <2> QED
    BY <1>1, <2>1 DEF PolicyGuarded
<1>5. ASSUME x \in Veths, CloneGuarded(x)
      PROVE  CloneGuarded(x)'
  <2>1. /\ Shields(table'["ROOMS_VETH_FWD"], Binding(x), x)
        /\ \A k \in 1..4 : Shields(table'["ROOMS_VETH_FWD"], Drops(VethSupernet)[k], x)
    BY <1>2, <1>3, <1>5, ShieldKept DEF CloneGuarded
  <2>2. table'["FORWARD"] = table["FORWARD"]
    <3>1. Own("FORWARD", y) = {}
      BY DEF Own, Parent
    <3> QED
      BY <1>3, <3>1 DEF TableEdit, ChainEdit
  <2>3. ASSUME NEW k \in DOMAIN table'["ROOMS_FWD"]
        PROVE  FlatRuleDisjoint(table'["ROOMS_FWD"][k])
    <3>1. PICK s, t : s = table["ROOMS_FWD"] /\ t = table'["ROOMS_FWD"]
      OBVIOUS
    <3>2. s \in Seq(RuleSet) /\ t \in Seq(RuleSet)
      BY <1>3, <3>1 DEF TypeInv, TableEdit
    <3>3. \A i \in 1..Len(s) : FlatRuleDisjoint(s[i])
      BY <1>5, <3>1, <3>2 DEF CloneGuarded
    <3>4. \A r \in Own("ROOMS_FWD", y) : FlatRuleDisjoint(r)
      <4>1. Own("ROOMS_FWD", y) # {} => y \in Taps /\ Own("ROOMS_FWD", y) = {Jump(y)}
        BY DEF Own, Parent
      <4>2. Jump(y).i = {y} /\ ~Jump(y).neg
        BY DEF Jump, Entering, Rule
      <4> QED
        BY <4>1, <4>2 DEF FlatRuleDisjoint, Negated
    <3>5. k \in 1..Len(t)
      BY <2>3, <3>1, <3>2
    <3>6. CASE t = s
      BY <3>1, <3>3, <3>5, <3>6
    <3>7. ASSUME NEW i \in 1..(Len(s) + 1), NEW r \in Own("ROOMS_FWD", y),
                 Inserted(t, s, i, r)
          PROVE  FlatRuleDisjoint(t[k])
      <4>1. Len(t) = Len(s) + 1 /\ Len(s) \in Nat
        BY <3>2, <3>7 DEF Inserted
      <4>2. CASE k < i
        <5>1. k \in 1..(i - 1) /\ k \in 1..Len(s)
          BY <3>5, <4>1, <4>2
        <5> QED
          BY <3>3, <3>7, <5>1 DEF Inserted
      <4>3. CASE k = i
        BY <3>4, <3>7, <4>3 DEF Inserted
      <4>4. CASE k > i
        <5>1. k - 1 \in i..Len(s) /\ (k - 1) + 1 = k /\ k - 1 \in 1..Len(s)
          BY <3>5, <4>1, <4>4
        <5> QED
          BY <3>3, <3>7, <5>1 DEF Inserted
      <4> QED
        BY <3>5, <4>2, <4>3, <4>4
    <3>8. ASSUME NEW i \in 1..Len(s), Removed(t, s, i)
          PROVE  FlatRuleDisjoint(t[k])
      <4>1. Len(t) = Len(s) - 1 /\ Len(s) \in Nat
        BY <3>2, <3>8 DEF Removed
      <4>2. CASE k < i
        <5>1. k \in 1..(i - 1) /\ k \in 1..Len(s)
          BY <3>5, <4>1, <4>2
        <5> QED
          BY <3>3, <3>8, <5>1 DEF Removed
      <4>3. CASE k >= i
        <5>1. k \in i..(Len(s) - 1) /\ k + 1 \in 1..Len(s)
          BY <3>5, <4>1, <4>3
        <5> QED
          BY <3>3, <3>8, <5>1 DEF Removed
      <4> QED
        BY <3>5, <4>2, <4>3
    <3>9. FlatRuleDisjoint(t[k])
      <4>1. ChainEdit("ROOMS_FWD", y)
        BY <1>3 DEF TableEdit
      <4> QED
        BY <3>1, <3>6, <3>7, <3>8, <4>1 DEF ChainEdit
    <3> QED
      BY <3>1, <3>9
  <2> QED
    BY <1>5, <2>1, <2>2, <2>3 DEF CloneGuarded
<1> QED
  BY <1>4, <1>5

(* A step keeps the types.                                                 *)
LEMMA TypeStep ==
    ASSUME TypeInv, NEW y \in Rooms, TableEdit(y), Local(y), Labelled(y)
    PROVE  TypeInv'
<1>1. \A x \in Rooms : pc'[x] = "unbind" => x \in Veths
  BY DEF TypeInv, Local, Labelled
<1>2. \A x \in Rooms : pc'[x] \in {"new", "append", "jump"} => at'[x] # 0
  BY DEF TypeInv, Local, Labelled
<1> QED
  BY <1>1, <1>2 DEF TypeInv, Local, TableEdit

(* A step keeps the clones that run guarded: the clone's own step is the   *)
(* verification, every other leaves its guards alone.                      *)
LEMMA CloneStep ==
    ASSUME TypeInv, CloneInv, NEW y \in Rooms, TableEdit(y), Local(y), Labelled(y)
    PROVE  CloneInv'
<1> SUFFICES ASSUME NEW x \in (Up \cap Veths)'
             PROVE  (CloneGuarded(x) /\ PolicyGuarded(x))'
  BY DEF CloneInv
<1>1. x \in users /\ x \in Veths /\ pc'[x] = "up" /\ x \in Rooms
  BY DEF Up, Local, Rooms
<1>2. CASE x # y
  <2>1. x \in Up
    BY <1>1, <1>2 DEF Up, Local
  <2>2. CloneGuarded(x) /\ PolicyGuarded(x)
    BY <1>1, <2>1 DEF CloneInv
  <2> QED
    BY <1>1, <1>2, <2>2, GuardsKept
<1>3. CASE x = y
  <2>1. Verified(x) /\ UNCHANGED <<table, policy, plan>>
    BY <1>1, <1>3 DEF Labelled
  <2>2. CloneGuarded(x) /\ PolicyGuarded(x)
    BY <1>1, <2>1, VerifiedGuards
  <2>3. CloneGuarded(x)' = CloneGuarded(x) /\ PolicyGuarded(x)' = PolicyGuarded(x)
    BY <2>1 DEF CloneGuarded, PolicyGuarded
  <2> QED
    BY <2>2, <2>3
<1> QED
  BY <1>2, <1>3

-----------------------------------------------------------------------------
(* Flat rooms.                                                             *)

(* The ACCEPT of the supernet stands at e and only drops and jumps of      *)
(* taps stand before it: a jump spliced in at e precedes every ACCEPT.     *)
HeadAt(rules, e) ==
    /\ e \in 1..Len(rules)
    /\ rules[e] = Egress(Supernet)
    /\ \A k \in 1..(e - 1) : rules[k].to = "DROP" \/ \E t \in Taps : rules[k] = Jump(t)

(* What a flat room relies on at each of its steps: while it splices, the  *)
(* rank it computed is still within the head.                              *)
FlatReady(x) ==
    /\ pc[x] \notin {"verify", "loaded"}
    /\ pc[x] \in {"jump", "input"} => policy[x] = SubchainRules(plan[x])
    /\ x \notin raced =>
          /\ pc[x] \in Splicing => \E e \in 1..Len(table["ROOMS_FWD"]) :
                HeadAt(table["ROOMS_FWD"], e) /\ at[x] =< e
          /\ pc[x] = "input" => Shields(table["ROOMS_FWD"], Jump(x), x)
          /\ pc[x] = "up" => PolicyGuarded(x)

(* What holds of the flat rooms and of the chains they meet.               *)
FlatInv ==
    \A x \in users \cap Taps :
        /\ table["FORWARD"] = Substrate["FORWARD"]
        /\ \E e \in 1..Len(table["ROOMS_FWD"]) : HeadAt(table["ROOMS_FWD"], e)
        /\ FlatReady(x)

(* Jumps of taps that come and go leave the ACCEPT at the end of the head. *)
LEMMA HeadInsert ==
    ASSUME NEW s \in Seq(RuleSet), NEW t \in Seq(RuleSet), NEW x \in Taps,
           NEW i \in 1..(Len(s) + 1), Inserted(t, s, i, Jump(x)), NEW e, HeadAt(s, e)
    PROVE  \E f \in 1..Len(t) : HeadAt(t, f) /\ e =< f
<1>1. /\ e \in 1..Len(s) /\ Len(t) = Len(s) + 1 /\ Len(s) \in Nat
  BY DEF HeadAt, Inserted
<1>2. CASE e < i
  <2>1. e \in 1..Len(t) /\ \A k \in 1..e : k \in 1..(i - 1)
    BY <1>1, <1>2
  <2>2. \A k \in 1..e : t[k] = s[k]
    BY <2>1 DEF Inserted
  <2>3. HeadAt(t, e) /\ e =< e
    BY <1>1, <2>1, <2>2 DEF HeadAt
  <2> QED
    BY <2>1, <2>3
<1>3. CASE i =< e
  <2>1. e + 1 \in 1..Len(t) /\ t[e + 1] = Egress(Supernet)
    BY <1>1, <1>3 DEF HeadAt, Inserted
  <2>2. ASSUME NEW k \in 1..((e + 1) - 1)
        PROVE  t[k].to = "DROP" \/ \E z \in Taps : t[k] = Jump(z)
    <3>1. CASE k < i
      <4>1. k \in 1..(i - 1) /\ k \in 1..(e - 1)
        BY <1>1, <1>3, <3>1
      <4> QED
        BY <4>1 DEF HeadAt, Inserted
    <3>2. CASE k = i
      BY <3>2 DEF Inserted
    <3>3. CASE k > i
      <4>1. k - 1 \in i..Len(s) /\ k - 1 \in 1..(e - 1) /\ (k - 1) + 1 = k
        BY <1>1, <1>3, <3>3
      <4> QED
        BY <4>1 DEF HeadAt, Inserted
    <3> QED
      BY <1>1, <3>1, <3>2, <3>3
  <2>3. HeadAt(t, e + 1) /\ e =< e + 1
    BY <1>1, <2>1, <2>2 DEF HeadAt
  <2> QED
    BY <2>1, <2>3
<1> QED
  BY <1>1, <1>2, <1>3

(* The same where a jump goes.                                             *)
LEMMA HeadRemove ==
    ASSUME NEW s \in Seq(RuleSet), NEW t \in Seq(RuleSet), NEW x \in Taps,
           NEW i \in 1..Len(s), s[i] = Jump(x), Removed(t, s, i), NEW e, HeadAt(s, e)
    PROVE  \E f \in 1..Len(t) : HeadAt(t, f)
<1>1. /\ e \in 1..Len(s) /\ Len(t) = Len(s) - 1 /\ Len(s) \in Nat
  BY DEF HeadAt, Removed
<1>2. e # i
  <2>1. Jump(x).o = Interfaces /\ Egress(Supernet).o = {"up"}
    BY DEF Jump, Entering, Egress, From, Rule
  <2>2. "docker" \in Interfaces
    BY Names
  <2> QED
    BY <2>1, <2>2 DEF HeadAt
<1>3. CASE e < i
  <2>1. e \in 1..Len(t) /\ \A k \in 1..e : k \in 1..(i - 1)
    BY <1>1, <1>3
  <2>2. \A k \in 1..e : t[k] = s[k]
    BY <2>1 DEF Removed
  <2>3. HeadAt(t, e)
    BY <1>1, <2>1, <2>2 DEF HeadAt
  <2> QED
    BY <2>1, <2>3
<1>4. CASE i < e
  <2>1. /\ e - 1 \in i..(Len(s) - 1) /\ (e - 1) + 1 = e /\ e - 1 \in 1..Len(t)
    BY <1>1, <1>4
  <2>2. t[e - 1] = Egress(Supernet)
    BY <2>1 DEF HeadAt, Removed
  <2>3. ASSUME NEW k \in 1..((e - 1) - 1)
        PROVE  t[k].to = "DROP" \/ \E z \in Taps : t[k] = Jump(z)
    <3>1. CASE k < i
      <4>1. k \in 1..(i - 1) /\ k \in 1..(e - 1)
        BY <1>1, <1>4, <3>1
      <4> QED
        BY <4>1 DEF HeadAt, Removed
    <3>2. CASE k >= i
      <4>1. k \in i..(Len(s) - 1) /\ k + 1 \in 1..(e - 1)
        BY <1>1, <1>4, <3>2
      <4> QED
        BY <4>1 DEF HeadAt, Removed
    <3> QED
      BY <1>1, <3>1, <3>2
  <2> QED
    BY <2>1, <2>2, <2>3 DEF HeadAt
<1> QED
  BY <1>1, <1>2, <1>3, <1>4

(* insert_position finds the end of the head.                              *)
LEMMA HeadRank ==
    ASSUME NEW s \in Seq(RuleSet), NEW e, HeadAt(s, e)
    PROVE  SupernetAccepts(s) # {} /\ HeadAt(s, Min(SupernetAccepts(s)))
<1>1. e \in 1..Len(s) /\ s[e] = Egress(Supernet)
  BY DEF HeadAt
<1>2. e \in SupernetAccepts(s)
  <2>1. /\ s[e].s = Supernet /\ s[e].o = {"up"} /\ s[e].to = "ACCEPT"
    BY <1>1 DEF Egress, From, Rule
  <2>2. "docker" \in Interfaces
    BY Names
  <2> QED
    BY <1>1, <2>1, <2>2 DEF SupernetAccepts
<1>3. PICK m : m = Min(SupernetAccepts(s))
  OBVIOUS
<1>4. m \in SupernetAccepts(s) /\ m =< e
  <2>1. SupernetAccepts(s) \subseteq Nat
    BY DEF SupernetAccepts
  <2> QED
    BY <1>2, <1>3, <2>1, MinOfRanks
<1>5. m \in 1..Len(s) /\ s[m].to = "ACCEPT"
  BY <1>4 DEF SupernetAccepts
<1>6. m = e
  <2> SUFFICES ASSUME m \in 1..(e - 1)
               PROVE  FALSE
    BY <1>1, <1>4, <1>5
  <2>1. PICK z \in Taps : s[m] = Jump(z)
    BY <1>5 DEF HeadAt
  <2>2. s[m].to = z /\ z # "ACCEPT"
    <3>1. Jump(z).to = z
      BY DEF Jump, Entering, Rule
    <3> QED
      BY <2>1, <3>1, Names DEF Rooms, OtherNames
  <2> QED
    BY <1>5, <2>2
<1> QED
  BY <1>2, <1>3, <1>6

(* A jump put into the head, or where it ends, shields its room.           *)
LEMMA HeadShields ==
    ASSUME NEW s \in Seq(RuleSet), NEW t, NEW x \in Taps, NEW e, HeadAt(s, e),
           NEW i \in 1..e, Inserted(t, s, i, Jump(x))
    PROVE  Shields(t, Jump(x), x)
<1>1. e \in 1..Len(s) /\ Len(s) \in Nat /\ Len(t) = Len(s) + 1 /\ t[i] = Jump(x)
  BY DEF HeadAt, Inserted
<1>2. i \in 1..Len(t)
  BY <1>1
<1>3. ASSUME NEW k \in 1..(i - 1)
      PROVE  Harmless(t[k], Jump(x), x)
  <2>1. t[k] = s[k] /\ k \in 1..(e - 1)
    BY <1>1 DEF Inserted
  <2>2. CASE s[k].to = "DROP"
    BY <2>1, <2>2 DEF Harmless
  <2>3. ASSUME NEW z \in Taps, s[k] = Jump(z)
        PROVE  Harmless(t[k], Jump(x), x)
    <3>1. Jump(z).i = {z}
      BY DEF Jump, Entering, Rule
    <3> QED
      BY <2>1, <2>3, <3>1 DEF Harmless
  <2> QED
    BY <2>1, <2>2, <2>3 DEF HeadAt
<1> QED
  BY <1>1, <1>2, <1>3 DEF Shields, ShieldedAt

(* FORWARD never changes, a clone leaves ROOMS_FWD alone, and any room     *)
(* leaves it a head.                                                       *)
LEMMA FlatChains ==
    ASSUME TypeInv, NEW y \in Rooms, TableEdit(y)
    PROVE  /\ table'["FORWARD"] = table["FORWARD"]
           /\ y \in Veths => table'["ROOMS_FWD"] = table["ROOMS_FWD"]
           /\ \A e \in 1..Len(table["ROOMS_FWD"]) : HeadAt(table["ROOMS_FWD"], e) =>
                 \E f \in 1..Len(table'["ROOMS_FWD"]) : HeadAt(table'["ROOMS_FWD"], f)
<1>1. ChainEdit("FORWARD", y) /\ ChainEdit("ROOMS_FWD", y)
  BY DEF TableEdit, Shared
<1>2. Own("FORWARD", y) = {}
  BY DEF Own, Parent
<1>3. table'["FORWARD"] = table["FORWARD"]
  BY <1>1, <1>2 DEF ChainEdit
<1>4. y \in Veths => Own("ROOMS_FWD", y) = {}
  BY Names DEF Own, Parent
<1>5. y \in Veths => table'["ROOMS_FWD"] = table["ROOMS_FWD"]
  BY <1>1, <1>4 DEF ChainEdit
<1>6. ASSUME NEW e \in 1..Len(table["ROOMS_FWD"]), HeadAt(table["ROOMS_FWD"], e)
      PROVE  \E f \in 1..Len(table'["ROOMS_FWD"]) : HeadAt(table'["ROOMS_FWD"], f)
  <2>1. PICK s, t : s = table["ROOMS_FWD"] /\ t = table'["ROOMS_FWD"]
    OBVIOUS
  <2>2. s \in Seq(RuleSet) /\ t \in Seq(RuleSet) /\ e \in 1..Len(s) /\ HeadAt(s, e)
    BY <1>6, <2>1 DEF TypeInv, TableEdit, Shared
  <2>3. \A r \in Own("ROOMS_FWD", y) : y \in Taps /\ r = Jump(y)
    BY DEF Own, Parent
  <2>4. \E f \in 1..Len(t) : HeadAt(t, f)
    <3>1. CASE t = s
      BY <2>2, <3>1
    <3>2. ASSUME NEW i \in 1..(Len(s) + 1), NEW r \in Own("ROOMS_FWD", y),
                 Inserted(t, s, i, r)
          PROVE  \E f \in 1..Len(t) : HeadAt(t, f)
      BY <2>2, <2>3, <3>2, HeadInsert
    <3>3. ASSUME NEW i \in 1..Len(s), s[i] \in Own("ROOMS_FWD", y), Removed(t, s, i)
          PROVE  \E f \in 1..Len(t) : HeadAt(t, f)
      BY <2>2, <2>3, <3>3, HeadRemove
    <3> QED
      BY <1>1, <2>1, <3>1, <3>2, <3>3 DEF ChainEdit
  <2> QED
    BY <2>1, <2>4
<1> QED
  BY <1>3, <1>5, <1>6

(* What a step of the flat room itself leaves it ready for.                *)
LEMMA FlatOwn ==
    ASSUME TypeInv, NEW x \in Taps, Step(x), Watch(x), TableEdit(x), Local(x), FlatReady(x),
           \E e \in 1..Len(table["ROOMS_FWD"]) : HeadAt(table["ROOMS_FWD"], e)
    PROVE  FlatReady(x)'
<1> DEFINE R == table["ROOMS_FWD"]
<1>1. /\ x \in Rooms /\ x \notin Veths /\ Parent(x) = "ROOMS_FWD"
      /\ R \in Seq(RuleSet)
  BY Names DEF Rooms, Parent, TypeInv, Shared
<1>0. pc'[x] # "input_off" => (x \notin raced' => x \notin raced)
  BY DEF Watch
<1>2. ASSUME pc'[x] \notin Splicing \cup {"input", "up", "verify", "loaded"}
      PROVE  FlatReady(x)'
  BY <1>2 DEF FlatReady, Splicing
<1>3. ASSUME NEW l \in Labels, pc' = [pc EXCEPT ![x] = l]
      PROVE  pc'[x] = l
  BY <1>1, <1>3 DEF TypeInv
<1>4. CASE \/ InputOff(x) \/ JumpOff(x) \/ Flush(x) \/ DeleteChain(x) \/ RemoveFails(x)
           \/ Bind(x) \/ Unbind(x) \/ InstallFails(x) \/ Rollback(x) \/ Teardown(x)
           \/ Crash(x)
  <2>1. CASE InputOff(x) \/ (JumpOff(x) /\ policy[x] # Absent)
    <3>1. pc[x] \in {"input_off", "jump_off"}
      BY <2>1 DEF InputOff, JumpOff
    <3>2. \/ pc' = pc
          \/ \E l \in {"jump_off", "flush"} : pc' = [pc EXCEPT ![x] = l]
      BY <2>1 DEF InputOff, JumpOff, Goto
    <3>3. pc'[x] \in {"input_off", "jump_off", "flush"}
      BY <1>3, <3>1, <3>2 DEF Labels
    <3> QED
      BY <1>2, <3>3 DEF Splicing
  <2>2. CASE \/ JumpOff(x) /\ policy[x] = Absent
             \/ DeleteChain(x)
             \/ RemoveFails(x)
    <3>1. RemoveEnds(x, TRUE) \/ RemoveEnds(x, FALSE)
      BY <2>2 DEF JumpOff, DeleteChain, RemoveFails
    <3>2. PICK l \in {"dump", "stale", "free", "unbind"} : pc' = [pc EXCEPT ![x] = l]
      BY <1>1, <3>1, RemoveEndsGoto
    <3>3. pc'[x] = l
      BY <1>3, <3>2 DEF Labels
    <3> QED
      BY <1>2, <3>3 DEF Splicing
  <2>3. CASE \/ Flush(x) \/ Bind(x) \/ Unbind(x) \/ InstallFails(x) \/ Rollback(x)
             \/ Teardown(x) \/ Crash(x)
    <3>1. PICK l \in {"delete", "bound", "free", "failed", "input_off", "stale"} :
            pc' = [pc EXCEPT ![x] = l]
      BY <2>3 DEF Flush, Bind, Unbind, InstallFails, Rollback, Teardown, Crash,
         StartRemove, Goto
    <3>2. pc'[x] = l
      BY <1>3, <3>1 DEF Labels
    <3> QED
      BY <1>2, <3>2 DEF Splicing
  <2> QED
    BY <1>4, <2>1, <2>2, <2>3
<1>5. CASE Install(x)
  <2>1. PICK pl \in Plans : plan' = [plan EXCEPT ![x] = pl]
    BY <1>5 DEF Install
  <2>2. plan'[x] = pl
    BY <1>1, <2>1 DEF TypeInv
  <2>3. CASE pl = "observe"
    <3>1. pc' = [pc EXCEPT ![x] = "up"]
      BY <1>5, <2>2, <2>3 DEF Install, Goto
    <3>2. pc'[x] = "up"
      BY <1>3, <3>1 DEF Labels
    <3>3. PolicyGuarded(x)'
      BY <2>2, <2>3 DEF PolicyGuarded
    <3> QED
      BY <3>2, <3>3 DEF FlatReady, Splicing
  <2>4. CASE pl # "observe"
    <3>1. pc' = [pc EXCEPT ![x] = "input_off"]
      BY <1>5, <2>2, <2>4 DEF Install, StartRemove, Goto
    <3>2. pc'[x] = "input_off"
      BY <1>3, <3>1 DEF Labels
    <3> QED
      BY <1>2, <3>2 DEF Splicing
  <2> QED
    BY <2>3, <2>4
<1>6. CASE Dump(x)
  <2>1. PICK e \in 1..Len(R) : HeadAt(R, e)
    OBVIOUS
  <2>2. SupernetAccepts(R) # {} /\ HeadAt(R, InsertPosition(x))
    BY <1>1, <2>1, HeadRank DEF InsertPosition
  <2>3. /\ at' = [at EXCEPT ![x] = InsertPosition(x)] /\ pc' = [pc EXCEPT ![x] = "new"]
        /\ UNCHANGED table
    BY <1>1, <1>6, <2>2 DEF Dump, Goto
  <2>4. pc'[x] = "new" /\ at'[x] = InsertPosition(x)
    BY <1>1, <2>3 DEF TypeInv
  <2>5. HeadAt(table'["ROOMS_FWD"], at'[x]) /\ at'[x] \in 1..Len(table'["ROOMS_FWD"])
        /\ at'[x] =< at'[x]
    BY <1>1, <2>2, <2>3, <2>4 DEF HeadAt
  <2> QED
    BY <2>4, <2>5 DEF FlatReady, Splicing
<1>7. CASE NewChain(x)
  <2>1. /\ pc[x] = "new" /\ UNCHANGED <<table, at>>
        /\ \E l \in {"append", "failed"} : pc' = [pc EXCEPT ![x] = l]
    BY <1>7 DEF NewChain, Goto
  <2>2. pc'[x] \in {"append", "failed"}
    BY <1>3, <2>1 DEF Labels
  <2>3. x \notin raced' => \E e \in 1..Len(table'["ROOMS_FWD"]) :
                              HeadAt(table'["ROOMS_FWD"], e) /\ at'[x] =< e
    BY <1>0, <2>1, <2>2 DEF FlatReady, Splicing
  <2> QED
    BY <2>2, <2>3 DEF FlatReady, Splicing
<1>8. CASE AppendRule(x)
  <2>1. pc[x] = "append" /\ UNCHANGED <<table, at, plan>>
    BY <1>8 DEF AppendRule
  <2>0. \E l \in {"jump", "append"} : pc' = [pc EXCEPT ![x] = l]
    BY <1>8 DEF AppendRule, Goto
  <2>2. x \notin raced' => \E e \in 1..Len(table'["ROOMS_FWD"]) :
                              HeadAt(table'["ROOMS_FWD"], e) /\ at'[x] =< e
    <3>1. pc'[x] \in {"jump", "append"}
      BY <1>3, <2>0 DEF Labels
    <3> QED
      BY <1>0, <2>1, <3>1 DEF FlatReady, Splicing
  <2>3. CASE policy'[x] = SubchainRules(plan[x])
    <3>1. pc' = [pc EXCEPT ![x] = "jump"]
      BY <1>8, <2>3 DEF AppendRule, Goto
    <3>2. pc'[x] = "jump"
      BY <1>3, <3>1 DEF Labels
    <3>3. (policy[x] = SubchainRules(plan[x]))'
      BY <2>1, <2>3
    <3> QED
      BY <2>2, <3>2, <3>3 DEF FlatReady, Splicing
  <2>4. CASE policy'[x] # SubchainRules(plan[x])
    <3>1. pc' = [pc EXCEPT ![x] = "append"]
      BY <1>8, <2>4 DEF AppendRule, Goto
    <3>2. pc'[x] = "append"
      BY <1>3, <3>1 DEF Labels
    <3> QED
      BY <2>2, <3>2 DEF FlatReady, Splicing
  <2> QED
    BY <2>3, <2>4
<1>9. CASE InsertJump(x)
  <2>1. /\ pc[x] = "jump" /\ UNCHANGED <<policy, plan>>
    BY <1>9 DEF InsertJump
  <2>2. policy[x] = SubchainRules(plan[x])
    BY <2>1 DEF FlatReady
  <2>3. CASE at[x] > Len(R) + 1
    <3>1. pc' = [pc EXCEPT ![x] = "failed"]
      <4>1. at[x] \in Nat /\ Len(R) \in Nat
        BY <1>1 DEF TypeInv
      <4>2. ~(at[x] =< Len(R) + 1)
        BY <2>3, <4>1
      <4> QED
        BY <1>1, <1>9, <4>2 DEF InsertJump, Goto
    <3>2. pc'[x] = "failed"
      BY <1>3, <3>1 DEF Labels
    <3> QED
      BY <1>2, <3>2 DEF Splicing
  <2>4. CASE at[x] =< Len(R) + 1
    <3>1. at[x] \in 1..(Len(R) + 1)
      <4>1. at[x] \in Nat /\ at[x] # 0 /\ Len(R) \in Nat
        BY <1>1, <2>1 DEF TypeInv
      <4> QED
        BY <2>4, <4>1
    <3>2. /\ table' = [table EXCEPT !["ROOMS_FWD"] = InsertAt(R, at[x], Jump(x))]
          /\ pc' = [pc EXCEPT ![x] = IF plan[x] = "none" THEN "input" ELSE "up"]
      BY <1>1, <1>9, <2>4 DEF InsertJump, SetChain, Goto, AfterRules
    <3>3. table'["ROOMS_FWD"] = InsertAt(R, at[x], Jump(x))
      BY <3>2 DEF TypeInv, Shared
    <3>5. pc'[x] = IF plan[x] = "none" THEN "input" ELSE "up"
      BY <1>1, <3>2 DEF TypeInv
    <3>4. x \notin raced' => Shields(table'["ROOMS_FWD"], Jump(x), x)
      <4> SUFFICES ASSUME x \notin raced
                   PROVE  Shields(table'["ROOMS_FWD"], Jump(x), x)
        BY <1>0, <3>5
      <4>1. PICK e \in 1..Len(R) : HeadAt(R, e) /\ at[x] =< e
        BY <2>1 DEF FlatReady, Splicing
      <4>2. at[x] \in 1..e
        BY <3>1, <4>1
      <4>3. Inserted(InsertAt(R, at[x], Jump(x)), R, at[x], Jump(x))
        BY <1>1, <3>1, OwnRules, InsertForm
      <4> QED
        BY <1>1, <3>3, <4>1, <4>2, <4>3, HeadShields
    <3>6. CASE plan[x] = "none"
      <4>1. pc'[x] = "input" /\ policy'[x] = SubchainRules(plan'[x])
        BY <2>1, <2>2, <3>5, <3>6
      <4> QED
        BY <3>4, <4>1 DEF FlatReady, Splicing
    <3>7. CASE plan[x] # "none"
      <4>1. pc'[x] = "up" /\ policy'[x] = SubchainRules(plan'[x]) /\ plan'[x] # "none"
        BY <2>1, <2>2, <3>5, <3>7
      <4>2. x \notin raced' => PolicyGuarded(x)'
        BY <1>1, <3>4, <4>1 DEF PolicyGuarded
      <4> QED
        BY <4>1, <4>2 DEF FlatReady, Splicing
    <3> QED
      BY <3>6, <3>7
  <2>5. at[x] > Len(R) + 1 \/ at[x] =< Len(R) + 1
    <3>1. at[x] \in Nat /\ Len(R) \in Nat
      BY <1>1 DEF TypeInv
    <3> QED
      BY <3>1
  <2> QED
    BY <2>3, <2>4, <2>5
<1>10. CASE InsertInputDrop(x)
  <2>1. /\ pc[x] = "input" /\ UNCHANGED <<policy, plan>>
        /\ table' = [table EXCEPT !["INPUT"] = <<InputDrop(x)>> \o table["INPUT"]]
        /\ pc' = [pc EXCEPT ![x] = "up"]
    BY <1>10 DEF InsertInputDrop, SetChain, Goto, AfterRules
  <2>2. /\ x \notin raced' => Shields(R, Jump(x), x)
        /\ policy[x] = SubchainRules(plan[x])
    <3>1. pc'[x] = "up"
      BY <1>3, <2>1 DEF Labels
    <3> QED
      BY <1>0, <2>1, <3>1 DEF FlatReady
  <2>3. /\ table'["ROOMS_FWD"] = R /\ pc'[x] = "up"
        /\ table'["INPUT"] = <<InputDrop(x)>> \o table["INPUT"]
    BY <1>1, <2>1 DEF TypeInv, Shared
  <2>4. Shields(table'["INPUT"], InputDrop(x), x)
    <3>1. table["INPUT"] \in Seq(RuleSet) /\ InputDrop(x) \in RuleSet
      BY <1>1, OwnRules DEF TypeInv, Shared
    <3>2. PICK t : t = <<InputDrop(x)>> \o table["INPUT"]
      OBVIOUS
    <3>3. t[1] = InputDrop(x) /\ Len(t) >= 1
      BY <3>1, <3>2
    <3>4. ShieldedAt(t, InputDrop(x), x, 1) /\ 1 \in 1..Len(t)
      <4>1. t \in Seq(RuleSet) /\ Len(t) \in Nat
        BY <3>1, <3>2
      <4> QED
        BY <3>3, <4>1 DEF ShieldedAt
    <3> QED
      BY <2>3, <3>2, <3>4 DEF Shields
  <2>5. x \notin raced' => PolicyGuarded(x)'
    BY <1>1, <2>1, <2>2, <2>3, <2>4 DEF PolicyGuarded
  <2> QED
    BY <2>3, <2>5 DEF FlatReady, Splicing
<1>11. CASE Verify(x)
  BY <1>11 DEF Verify, FlatReady
<1> QED
  BY <1>4, <1>5, <1>6, <1>7, <1>8, <1>9, <1>10, <1>11 DEF Step

(* A rank within the head stays there while others put in and take out     *)
(* jumps, unless one is taken out: then the room is raced.                 *)
LEMMA RankKept ==
    ASSUME TypeInv, NEW y \in Rooms, Watch(y), TableEdit(y), NEW x \in Taps, x # y,
           pc[x] \in Splicing, x \notin raced',
           NEW e \in 1..Len(table["ROOMS_FWD"]), HeadAt(table["ROOMS_FWD"], e),
           at[x] =< e
    PROVE  \E f \in 1..Len(table'["ROOMS_FWD"]) :
              HeadAt(table'["ROOMS_FWD"], f) /\ at[x] =< f
<1>1. PICK s : s = table["ROOMS_FWD"]
  OBVIOUS
<1>2. PICK t : t = table'["ROOMS_FWD"]
  OBVIOUS
<1>3. /\ s \in Seq(RuleSet) /\ t \in Seq(RuleSet) /\ e \in 1..Len(s) /\ HeadAt(s, e)
      /\ Len(s) \in Nat /\ Len(t) \in Nat /\ at[x] \in Nat
  BY <1>1, <1>2 DEF TypeInv, TableEdit, Shared, Rooms
<1>4. ~(Len(t) < Len(s))
  BY <1>1, <1>2 DEF Watch
<1>5. \A r \in Own("ROOMS_FWD", y) : y \in Taps /\ r = Jump(y)
  BY DEF Own, Parent
<1>6. \/ t = s
      \/ \E i \in 1..(Len(s) + 1), r \in Own("ROOMS_FWD", y) : Inserted(t, s, i, r)
      \/ \E i \in 1..Len(s) : Removed(t, s, i)
  <2>1. ChainEdit("ROOMS_FWD", y)
    BY DEF TableEdit, Shared
  <2> QED
    BY <1>1, <1>2, <2>1 DEF ChainEdit
<1>7. \E f \in 1..Len(t) : HeadAt(t, f) /\ at[x] =< f
  <2>1. CASE t = s
    BY <1>3, <2>1
  <2>2. ASSUME NEW i \in 1..(Len(s) + 1), NEW r \in Own("ROOMS_FWD", y),
               Inserted(t, s, i, r)
        PROVE  \E f \in 1..Len(t) : HeadAt(t, f) /\ at[x] =< f
    <3>1. PICK f \in 1..Len(t) : HeadAt(t, f) /\ e =< f
      BY <1>3, <1>5, <2>2, HeadInsert
    <3>2. at[x] =< f
      BY <1>3, <3>1
    <3> QED
      BY <3>1, <3>2
  <2>3. ASSUME NEW i \in 1..Len(s), Removed(t, s, i)
        PROVE  FALSE
    <3>1. Len(t) = Len(s) - 1
      BY <2>3 DEF Removed
    <3> QED
      BY <1>3, <1>4, <3>1
  <2> QED
    BY <1>6, <2>1, <2>2, <2>3
<1> QED
  BY <1>1, <1>2, <1>7

(* A step keeps what the flat rooms are ready for.                         *)
LEMMA FlatStep ==
    ASSUME TypeInv, FlatInv, NEW y \in users, Step(y), Watch(y), TableEdit(y), Local(y)
    PROVE  FlatInv'
<1>1. ASSUME NEW x \in users \cap Taps
      PROVE  /\ table'["FORWARD"] = Substrate["FORWARD"]
             /\ \E e \in 1..Len(table'["ROOMS_FWD"]) : HeadAt(table'["ROOMS_FWD"], e)
             /\ FlatReady(x)'
  <2>1. /\ table["FORWARD"] = Substrate["FORWARD"]
        /\ \E e \in 1..Len(table["ROOMS_FWD"]) : HeadAt(table["ROOMS_FWD"], e)
        /\ FlatReady(x)
    BY <1>1 DEF FlatInv
  <2>2. x \in Rooms /\ y \in Rooms
    BY DEF TypeInv
  <2>3. /\ table'["FORWARD"] = Substrate["FORWARD"]
        /\ \E e \in 1..Len(table'["ROOMS_FWD"]) : HeadAt(table'["ROOMS_FWD"], e)
    BY <2>1, <2>2, FlatChains
  <2>4. CASE x = y
    <3>1. Step(x) /\ Watch(x) /\ TableEdit(x) /\ Local(x) /\ x \in Taps
      BY <1>1, <2>4
    <3> QED
      BY <2>1, <2>3, <3>1, FlatOwn
  <2>5. CASE x # y
    <3>1. x \notin raced' => x \notin raced
      BY <2>5 DEF Watch
    <3>2. /\ pc'[x] = pc[x] /\ plan'[x] = plan[x] /\ at'[x] = at[x]
          /\ policy'[x] = policy[x]
      BY <2>2, <2>5 DEF Local
    <3>3. PolicyGuarded(x) => PolicyGuarded(x)'
      BY <2>2, <2>5, GuardsKept
    <3>4. Shields(table["ROOMS_FWD"], Jump(x), x) => Shields(table'["ROOMS_FWD"], Jump(x), x)
      <4>1. Jump(x) \notin {Jump(y), Binding(y), InputDrop(y)}
        <5>1. \A k \in 1..4 : {Jump(x), Binding(x), InputDrop(x), Drops(VethSupernet)[k]}
                                  \cap {Jump(y), Binding(y), InputDrop(y)} = {}
          BY <2>2, <2>5, OwnApart
        <5>2. {Jump(x), Binding(x), InputDrop(x), Drops(VethSupernet)[1]}
                 \cap {Jump(y), Binding(y), InputDrop(y)} = {}
          BY <5>1
        <5> QED
          BY <5>2
      <4>2. "ROOMS_FWD" \in Shared
        BY DEF Shared
      <4> QED
        BY <2>2, <2>5, <4>1, <4>2, ShieldKept
    <3>5. ASSUME x \notin raced', pc'[x] \in Splicing
          PROVE  \E f \in 1..Len(table'["ROOMS_FWD"]) :
                    HeadAt(table'["ROOMS_FWD"], f) /\ at'[x] =< f
      <4>1. PICK e \in 1..Len(table["ROOMS_FWD"]) :
              HeadAt(table["ROOMS_FWD"], e) /\ at[x] =< e
        BY <2>1, <3>1, <3>2, <3>5 DEF FlatReady
      <4> QED
        BY <1>1, <2>2, <2>5, <3>2, <3>5, <4>1, RankKept
    <3>6. (pc[x] \notin {"verify", "loaded"})'
      BY <2>1, <3>2 DEF FlatReady
    <3>7. (pc[x] \in {"jump", "input"} => policy[x] = SubchainRules(plan[x]))'
      BY <2>1, <3>2 DEF FlatReady
    <3>8. ASSUME x \notin raced', pc'[x] = "input"
          PROVE  Shields(table'["ROOMS_FWD"], Jump(x), x)
      BY <2>1, <3>1, <3>2, <3>4, <3>8 DEF FlatReady
    <3>9. ASSUME x \notin raced', pc'[x] = "up"
          PROVE  PolicyGuarded(x)'
      BY <2>1, <3>1, <3>2, <3>3, <3>9 DEF FlatReady
    <3>10. FlatReady(x)'
      BY <3>5, <3>6, <3>7, <3>8, <3>9 DEF FlatReady
    <3> QED
      BY <2>3, <3>10
  <2> QED
    BY <2>3, <2>4, <2>5
<1>2. users' = users
  BY DEF Local
<1> QED
  BY <1>1, <1>2 DEF FlatInv

-----------------------------------------------------------------------------
(* The beginning.                                                          *)

(* The host before the first room has its type, whatever was edited.       *)
LEMMA InitType ==
    ASSUME Init
    PROVE  TypeInv
<1>1. users \subseteq Rooms
  BY FirewallAssumption DEF Init, Rooms
<1>2. table \in [Shared -> Seq(RuleSet)]
  <2>1. CASE table = Substrate
    BY <2>1, SubstrateType
  <2>2. CASE \E c \in Shared : \E rules \in Edited(Substrate[c], c) :
               table = [Substrate EXCEPT ![c] = rules]
    <3>1. PICK c \in Shared : \E rules \in Edited(Substrate[c], c) :
            table = [Substrate EXCEPT ![c] = rules]
      BY <2>2
    <3>2. PICK rules \in Edited(Substrate[c], c) :
            table = [Substrate EXCEPT ![c] = rules]
      BY <3>1
    <3>3. Substrate[c] \in Seq(RuleSet)
      BY SubstrateType
    <3>4. rules \in Seq(RuleSet)
      BY <3>3, EditedType
    <3> QED
      BY <3>2, <3>4, SubstrateType
  <2> QED
    BY <2>1, <2>2 DEF Init
<1> QED
  BY <1>1, <1>2 DEF Init, TypeInv, Labels, Plans

(* No room runs yet.                                                       *)
LEMMA InitClone ==
    ASSUME Init
    PROVE  CloneInv
<1>1. users \subseteq Rooms
  BY InitType DEF TypeInv
<1>2. Up = {}
  BY <1>1 DEF Init, Up
<1> QED
  BY <1>2 DEF CloneInv

(* The flat rooms begin on the chains that setup-tap.sh left.                *)
LEMMA InitFlat ==
    ASSUME Init
    PROVE  FlatInv
<1> SUFFICES ASSUME NEW x \in users \cap Taps
             PROVE  /\ table["FORWARD"] = Substrate["FORWARD"]
                    /\ \E e \in 1..Len(table["ROOMS_FWD"]) :
                          HeadAt(table["ROOMS_FWD"], e)
                    /\ FlatReady(x)
  BY DEF FlatInv
<1>1. x \in Rooms /\ x \notin Veths
  BY Names DEF Rooms
<1>2. table = Substrate
  BY <1>1 DEF Init
<1>3. pc[x] = "free"
  BY <1>1 DEF Init
<1>4. FlatReady(x)
  BY <1>3 DEF FlatReady, Splicing
<1>5. table["ROOMS_FWD"] = Drops(Supernet) \o Trailer(Supernet)
  BY <1>2 DEF Substrate
<1>6. PICK d : d = Drops(Supernet)
  OBVIOUS
<1>7. PICK t : t = Trailer(Supernet)
  OBVIOUS
<1>8. PICK s : s = table["ROOMS_FWD"]
  OBVIOUS
<1>9. /\ Len(s) = 7 /\ s[5] = Egress(Supernet)
      /\ \A k \in 1..4 : s[k].to = "DROP"
  <2>1. /\ d \in Seq(RuleSet) /\ Len(d) = 4
        /\ \A k \in 1..4 : d[k].to = "DROP"
    <3>1. /\ d = <<Between(Supernet, Supernet, "DROP"), Between(Supernet, Net10, "DROP"),
                   Between(Supernet, Net192, "DROP"), Between(Supernet, Net172, "DROP")>>
      BY <1>6 DEF Drops
    <3>2. \A n : Between(Supernet, n, "DROP").to = "DROP"
      BY DEF Between, Rule
    <3>3. d \in Seq(RuleSet)
      BY <1>6, NetChains
    <3> QED
      BY <3>1, <3>2, <3>3
  <2>2. /\ t \in Seq(RuleSet) /\ Len(t) = 3 /\ t[1] = Egress(Supernet)
    <3>1. t = <<Egress(Supernet), Return(Supernet), From(Supernet, "DROP")>>
      BY <1>7 DEF Trailer
    <3>2. t \in Seq(RuleSet)
      BY <1>7, NetChains
    <3> QED
      BY <3>1, <3>2
  <2>3. s = d \o t
    BY <1>5, <1>6, <1>7, <1>8
  <2>4. /\ Len(s) = 7
        /\ \A k \in 1..4 : s[k] = d[k]
        /\ s[4 + 1] = t[1]
    <3>1. d \in Seq(RuleSet) /\ t \in Seq(RuleSet)
      BY <2>1, <2>2
    <3>2. /\ Len(d \o t) = Len(d) + Len(t)
          /\ \A k \in 1..Len(d) : (d \o t)[k] = d[k]
          /\ \A k \in 1..Len(t) : (d \o t)[Len(d) + k] = t[k]
      BY <3>1
    <3> QED
      BY <2>1, <2>2, <2>3, <3>2
  <2> QED
    BY <2>1, <2>2, <2>4
<1>10. HeadAt(s, 5) /\ 5 \in 1..Len(s)
  BY <1>9 DEF HeadAt
<1> QED
  BY <1>2, <1>4, <1>8, <1>10

-----------------------------------------------------------------------------
(* Every step.                                                             *)

(* A step of any room, and a stutter, keep all three invariants.           *)
LEMMA NextKeeps ==
    ASSUME TypeInv, CloneInv, [Next]_vars
    PROVE  TypeInv' /\ CloneInv' /\ (FlatInv => FlatInv')
<1>1. CASE UNCHANGED vars
  <2>1. TypeInv'
    BY <1>1 DEF vars, TypeInv
  <2>2. Up' = Up
    BY <1>1 DEF vars, Up
  <2>3. ASSUME NEW x
        PROVE  /\ CloneGuarded(x) => CloneGuarded(x)'
               /\ PolicyGuarded(x) => PolicyGuarded(x)'
    BY <1>1 DEF vars, CloneGuarded, PolicyGuarded
  <2>4. CloneInv'
    BY <2>2, <2>3 DEF CloneInv
  <2>5. FlatInv => FlatInv'
    <3>1. ASSUME NEW x
          PROVE  FlatReady(x) => FlatReady(x)'
      BY <1>1, <2>3 DEF vars, FlatReady
    <3> QED
      BY <1>1, <3>1 DEF vars, FlatInv
  <2> QED
    BY <2>1, <2>4, <2>5
<1>2. CASE Next
  <2>1. PICK y \in users : Step(y) /\ Watch(y)
    BY <1>2 DEF Next
  <2>2. y \in Rooms
    BY DEF TypeInv
  <2>3. TableEdit(y) /\ Local(y) /\ Labelled(y)
    BY <2>1, <2>2, StepTable, StepLocal
  <2>4. TypeInv' /\ CloneInv'
    BY <2>2, <2>3, TypeStep, CloneStep
  <2>5. FlatInv => FlatInv'
    BY <2>1, <2>3, FlatStep
  <2> QED
    BY <2>4, <2>5
<1> QED
  BY <1>1, <1>2

(* The tables, labels and positions keep their types.                      *)
THEOREM TypeCorrect == Spec => []TypeInv
<1>1. Init => TypeInv /\ CloneInv
  BY InitType, InitClone
<1>2. TypeInv /\ CloneInv /\ [Next]_vars => (TypeInv /\ CloneInv)'
  BY NextKeeps
<1> QED
  BY <1>1, <1>2, PTL DEF Spec

(* A clone that runs is guarded by its binding, by the drops between the   *)
(* nets and, under a policy, by its jump: verification met all of them     *)
(* ahead of anything that accepts, and no other room's edit changes that.  *)
THEOREM ClonesStayGuarded == Spec => []CloneInv
<1>1. Init => TypeInv /\ CloneInv
  BY InitType, InitClone
<1>2. TypeInv /\ CloneInv /\ [Next]_vars => (TypeInv /\ CloneInv)'
  BY NextKeeps
<1> QED
  BY <1>1, <1>2, PTL DEF Spec

(* A clone that was let run reaches no other guest and no private network, *)
(* and sends only from its own address (clone_forwarding_substrate), on    *)
(* any number of rooms and any host table of Init.                         *)
THEOREM ClonesAreIsolated == Spec => []ClonesIsolated
<1>1. TypeInv /\ CloneInv => ClonesIsolated
  BY GuardedIsolated DEF CloneInv, ClonesIsolated
<1> QED
  BY <1>1, TypeCorrect, ClonesStayGuarded, PTL

(* What EgressEnforced says of the clones alone. *)
CloneEgressEnforced == \A x \in Up \cap Veths : Enforced(x)

(* A clone that runs sends upstream only what its plan permits, and under  *)
(* `none` nothing to the host (install_clone, verify_clone), on any number *)
(* of flat rooms and clones and on any host table of Init.                 *)
THEOREM ClonesAreEnforced == Spec => []CloneEgressEnforced
<1>1. TypeInv /\ CloneInv => CloneEgressEnforced
  BY GuardedCloneEnforced DEF CloneInv, CloneEgressEnforced
<1> QED
  BY <1>1, TypeCorrect, ClonesStayGuarded, PTL

(* Both also hold where the host starts with any rules of the types of the *)
(* model in any of its chains, and any leftovers of earlier rooms: what a  *)
(* running clone relies on is what verify_clone_locked saw.                *)
THEOREM AnyTableVerified ==
    TypeInv /\ Up = {} /\ [][Next]_vars => [](ClonesIsolated /\ CloneEgressEnforced)
<1>1. Up = {} => CloneInv
  BY DEF CloneInv
<1>2. TypeInv /\ CloneInv /\ [Next]_vars => (TypeInv /\ CloneInv)'
  BY NextKeeps
<1>3. TypeInv /\ CloneInv => ClonesIsolated /\ CloneEgressEnforced
  BY GuardedIsolated, GuardedCloneEnforced DEF CloneInv, ClonesIsolated,
     CloneEgressEnforced
<1> QED
  BY <1>1, <1>2, <1>3, PTL

(* On a host with any number of flat rooms the ACCEPT of the supernet      *)
(* stays at the end of the head of ROOMS_FWD, and the rank of a room that  *)
(* splices its jump in stays within that head unless a jump is removed     *)
(* meanwhile (install, remove).                                            *)
THEOREM FlatStaysReady == Spec => []FlatInv
<1>1. Init => TypeInv /\ CloneInv /\ FlatInv
  BY InitType, InitClone, InitFlat
<1>2. TypeInv /\ CloneInv /\ FlatInv /\ [Next]_vars => (TypeInv /\ CloneInv /\ FlatInv)'
  BY NextKeeps
<1> QED
  BY <1>1, <1>2, PTL DEF Spec

(* Every room that runs is enforced, unless it was raced.                  *)
LEMMA AllEnforced ==
    ASSUME TypeInv, CloneInv, FlatInv
    PROVE  EgressEnforced
<1> SUFFICES ASSUME NEW x \in Up \ raced
             PROVE  Enforced(x)
  BY DEF EgressEnforced
<1>1. x \in users /\ pc[x] = "up" /\ x \in Rooms
  BY DEF Up, TypeInv
<1>2. CASE x \in Veths
  BY <1>2, GuardedCloneEnforced DEF CloneInv
<1>3. CASE x \in Taps
  <2>1. table["FORWARD"] = Substrate["FORWARD"] /\ PolicyGuarded(x)
    BY <1>1, <1>3 DEF FlatInv, FlatReady
  <2> QED
    BY <1>3, <2>1, GuardedFlatEnforced
<1> QED
  BY <1>1, <1>2, <1>3 DEF Rooms

(* A room that runs under a policy sends upstream only what the policy     *)
(* permits, flat or clone (install, install_clone), on any number of flat  *)
(* rooms and clones.  Whatever the others install, remove, fail at or      *)
(* leave behind, only the removal of a jump inside the room's own dump and *)
(* insertion can break it.                                                 *)
THEOREM RoomsAreEnforced == Spec => []EgressEnforced
<1>1. TypeInv /\ CloneInv /\ FlatInv => EgressEnforced
  BY AllEnforced
<1> QED
  BY <1>1, TypeCorrect, ClonesStayGuarded, FlatStaysReady, PTL

(* The audit's "contained" is true of a room that is enforced.             *)
LEMMA EnforcedContained ==
    ASSUME TypeInv, EgressEnforced
    PROVE  ContainedIsStopped
<1> SUFFICES ASSUME NEW x \in Up \ raced, NEW f \in Flows, Leaves(x, f),
                    NEW flows \in SUBSET Flows, NEW t \in {f.d, f.name} \cap Targets,
                    f \in flows, plan[x] = "allowlist" => t # "sentinel",
                    Classify(t, plan[x], flows) = "contained"
             PROVE  FALSE
  BY DEF ContainedIsStopped
<1>1. x \in Rooms /\ plan[x] \in Plans /\ Enforced(x)
  BY DEF Up, TypeInv, EgressEnforced
<1>2. PICK g \in Blocked(plan[x], flows) : g.d = t \/ (t = "sentinel" /\ g.port = 53)
  BY DEF Classify
<1>3. plan[x] \in {"none", "allowlist"} /\ g.d \notin Permitted(plan[x])
  BY <1>1, <1>2 DEF Blocked, Plans
<1>4. ASSUME f.d # "host"
      PROVE  f.d \in Permitted(plan[x])
  <2>1. PICK p \in Packets(x) : p.d = f.d /\ Forwarded(p)
    BY <1>4 DEF Leaves
  <2>2. f.d \in {"pub1", "pub2"}
    BY <1>4 DEF Flows
  <2>3. p.o = "up"
    BY <1>1, <2>1, <2>2, PacketForm, FirewallAssumption DEF OutOf, Rooms,
       OtherNames
  <2> QED
    BY <1>1, <1>3, <2>1, <2>3 DEF Enforced
<1>5. CASE t = "sentinel"
  <2>1. plan[x] = "none"
    BY <1>3, <1>5
  <2>2. f.d = "host" => ~Leaves(x, f)
    BY <1>1, <2>1 DEF Enforced, Leaves
  <2> QED
    BY <1>4, <2>1, <2>2 DEF Permitted
<1>6. CASE t # "sentinel"
  <2>1. f.name \in {"none", "sentinel"} /\ t \in {"pub1", "pub2"}
    BY <1>6 DEF Flows, Targets
  <2>2. f.d = t /\ f.d # "host"
    BY <2>1
  <2> QED
    BY <1>2, <1>3, <1>4, <1>6, <2>2
<1> QED
  BY <1>5, <1>6

(* "contained" is never said of an attempt that went through (classify,    *)
(* record_egress), of any number of flat rooms and clones.                 *)
THEOREM ContainedRoomsAreStopped == Spec => []ContainedIsStopped
<1>1. TypeInv /\ EgressEnforced => ContainedIsStopped
  BY EnforcedContained
<1> QED
  BY <1>1, TypeCorrect, RoomsAreEnforced, PTL

=============================================================================
