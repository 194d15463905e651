--------------------------- MODULE RoutePreflight ---------------------------
(***************************************************************************)
(* The routing preflight of a clone network (check_clone_subnet_available  *)
(* in src/src/clonenet.rs): which hosts it accepts, judged against what    *)
(* the kernel then does with every address of every clone network.         *)
(*                                                                         *)
(* Addresses have Width bits instead of 32 and the clone supernet is the   *)
(* /3 that starts with the bits 101 instead of 172.17.0.0/24, so that      *)
(* catch-alls (/0, /1), a wider private network (/2), the supernet itself, *)
(* parts of it and single hosts all remain distinct cases. The names carry *)
(* a prefix so that CloneNetPoolProofs extends this module and the pool's. *)
(***************************************************************************)
EXTENDS Integers, Sequences, SequencesExt

CONSTANT Width  \* bits of an address

ASSUME RouteAssumption == Width \in 7..32

PrefixLengths == 0..Width
LinkPrefix == Width - 2                       \* a clone network's /30
Size(prefix) == 2 ^ (Width - prefix)
Supernet == [network |-> 5 * Size(3), prefix |-> 3]
Within(a, c) == a \div Size(c.prefix) = c.network \div Size(c.prefix)

(* CloneNet::derive *)
NetIndices == 1..(Size(3) \div 4 - 1)
BaseIp(n) == Supernet.network + 4 * n
HostIp(n) == BaseIp(n) + 1

Kinds == {"unicast", "local", "broadcast", "throw", "special"}
Tables == {"local", "main", "default", "other"}
Route(kind, network, prefix, tab, dev, src) ==
    [kind |-> kind, network |-> network, prefix |-> prefix, table |-> tab,
     dev |-> dev, via |-> FALSE, src |-> src]

(* What the kernel adds for the address of veth-hn, and `ip route replace` *)
(* writes again.                                                           *)
OwnRoutes(n) ==
    {Route("unicast", BaseIp(n), LinkPrefix, "main", n, n),
     Route("local", HostIp(n), Width, "local", n, n),
     Route("broadcast", BaseIp(n), Width, "local", n, n),
     Route("broadcast", BaseIp(n) + 3, Width, "local", n, n)}
HostDefault == [Route("unicast", 0, 0, "main", 0, 0) EXCEPT !.via = TRUE]

(* dev n stands for veth-hn, src n for its address; 0 is any other.        *)
CidrsOf(prefix) == {k * Size(prefix) : k \in 0..(2 ^ prefix - 1)}
Cidrs == UNION {{[network |-> w, prefix |-> p] : w \in CidrsOf(p)} : p \in PrefixLengths}
ForeignRoutes ==
    {[kind |-> k, network |-> c.network, prefix |-> c.prefix, table |-> t,
      dev |-> d, via |-> v, src |-> s] :
        k \in Kinds, c \in Cidrs, t \in Tables \ {"default"}, d \in NetIndices \cup {0},
        v \in BOOLEAN, s \in {0, 1}}

DefaultPolicyRules == <<"local", "main", "default">>
RuleLists ==
    {RemoveAt(DefaultPolicyRules, k) : k \in 1..3}
    \cup {InsertAt(DefaultPolicyRules, k, t) : k \in 1..4, t \in Tables}

VARIABLES
    rules,      \* the RPDB: the tables consulted, in order of priority
    routes,     \* the routes of all tables
    marked,     \* the indices whose owner marker exists
    step

routeVars == <<rules, routes, marked, step>>

RouteInit ==
    /\ marked \in {{}, {1}, {1, 2}}
    /\ LET own == (UNION {OwnRoutes(n) : n \in marked}) \cup {HostDefault} IN
       \/ /\ rules = DefaultPolicyRules
          /\ \E r \in ForeignRoutes : routes = own \cup {r}
       \/ /\ rules \in RuleLists
          /\ routes = own \cup {[HostDefault EXCEPT !.table = "other"]}
    /\ step = "check"

-----------------------------------------------------------------------------
(* validate_policy_rules: every rule is a default one, each exactly once.  *)
ValidPolicyRules ==
    /\ \A k \in DOMAIN rules : Contains(DefaultPolicyRules, rules[k])
    /\ \A t \in ToSet(DefaultPolicyRules) :
          \E k \in DOMAIN rules : \A j \in DOMAIN rules : rules[j] = t <=> j = k

(* overlaps_clone_supernet, on the ends of the two ranges.                 *)
Overlaps(r) ==
    /\ r.network <= Supernet.network + Size(Supernet.prefix) - 1
    /\ Supernet.network <= r.network + Size(r.prefix) - 1

InLocalTable(r) == r.table = "local"

(* rooms_route_index: the index whose network the route belongs to, or 0.  *)
RoomsRouteIndex(r) ==
    LET n == r.dev
        shape == \/ r.kind = "unicast" /\ r.prefix = LinkPrefix /\ r.network = BaseIp(n)
                 \/ r.kind = "local" /\ r.prefix = Width /\ r.network = HostIp(n)
                 \/ /\ r.kind = "broadcast" /\ r.prefix = Width
                    /\ r.network \in {BaseIp(n), BaseIp(n) + 3}
    IN  IF ~r.via /\ n \in NetIndices /\ shape /\ r.src = n THEN n ELSE 0

(* classify_route; a clone's own index, "disjoint" as -1, "foreign" as 0.  *)
Disjoint == -1
ClassifyRouteAnyTable(r) ==
    CASE ~Overlaps(r) -> Disjoint
      [] Overlaps(r) /\ (r.prefix <= 1 \/ (r.kind = "throw" /\ InLocalTable(r))) -> Disjoint
      [] OTHER -> RoomsRouteIndex(r)
ClassifyRoute(r) ==
    IF \/ ~Overlaps(r)
       \/ r.kind = "throw" /\ InLocalTable(r)
       \/ r.prefix <= 1 /\ ~InLocalTable(r)
    THEN Disjoint
    ELSE RoomsRouteIndex(r)

SubnetAvailable ==
    /\ ValidPolicyRules
    /\ \A r \in routes : ClassifyRoute(r) \in {Disjoint} \cup marked

(* check_clone_subnet_available; a refusal is an error of the allocation.  *)
CheckSubnet ==
    /\ step = "check"
    /\ step' = IF SubnetAvailable THEN "accepted" ELSE "refused"
    /\ UNCHANGED <<rules, routes, marked>>

(* The route replaces the one to the same prefix in the main table.        *)
CreateNet(n) ==
    /\ step = "accepted"
    /\ n \notin marked
    /\ marked' = marked \cup {n}
    /\ routes' = OwnRoutes(n) \cup
          {r \in routes : ~(r.table = "main" /\ r.prefix = LinkPrefix /\ r.network = BaseIp(n))}
    /\ step' = "created"
    /\ UNCHANGED rules

RouteNext == CheckSubnet \/ \E n \in NetIndices : CreateNet(n)

RouteSpec == RouteInit /\ [][RouteNext]_routeVars

-----------------------------------------------------------------------------
(* The kernel's lookup: the tables in the order of the rules; in a table   *)
(* the longest prefix; a throw, like no match, goes on to the next rule.   *)

Best(a, t) ==
    LET hits == {r \in routes : r.table = t /\ Within(a, r)}
    IN  {r \in hits : \A q \in hits : q.prefix <= r.prefix}

Deliver(r) ==
    CASE r.kind = "unicast" -> <<"out", r.dev>>
      [] r.kind \in {"local", "broadcast"} -> <<"here", 0>>
      [] OTHER -> <<"nowhere", 0>>

(* Every outcome of the lookup: of routes to one prefix the older or the   *)
(* lower metric wins, either may be it.                                    *)
Lookup(a) ==
    LET passes(k) == \/ Best(a, rules[k]) = {}
                     \/ \E r \in Best(a, rules[k]) : r.kind = "throw"
        reached(k) == \A j \in 1..(k - 1) : passes(j)
        ending(k) == {r \in Best(a, rules[k]) : r.kind # "throw"}
    IN  (UNION {{Deliver(r) : r \in ending(k)} : k \in {j \in DOMAIN rules : reached(j)}})
        \cup (IF reached(Len(rules) + 1) THEN {<<"nowhere", 0>>} ELSE {})

(* On a host that the preflight accepted, what is sent to the guest of a   *)
(* clone leaves by the veth of that clone, whatever other routes the host  *)
(* has and in whichever table (classify_route, validate_policy_rules).     *)
NetworksRouted ==
    step \in {"accepted", "created"} =>
        \A n \in marked : Lookup(BaseIp(n) + 2) = {<<"out", n>>}
=============================================================================
