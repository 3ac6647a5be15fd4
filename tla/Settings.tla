------------------------------ MODULE Settings ------------------------------
(***************************************************************************)
(* What a configuration comes to: the defaults, the rules of each family,  *)
(* and what is refused, once by the NixOS module when a host is built and  *)
(* once by the program when it starts.                                     *)
(*                                                                         *)
(* Source: internal/config, internal/settings, internal/nptv6 (Resolve),   *)
(* internal/probe (Validate), nix/module/route-balancer.nix.               *)
(*                                                                         *)
(* A configuration is a record.  What may be absent is a set of at most    *)
(* one: {} is null in the module and no field in the file, {""} is a text  *)
(* that is there and empty.  A text is the class of those that the two     *)
(* validators tell apart:                                                  *)
(*   prefix    "" empty, "bad" none at all, or what its parsing comes to;  *)
(*   internal  "ula", "gua" (another), "longula" (it begins as a ULA and   *)
(*             is refused for its length or its form), "wideula" (it       *)
(*             begins as one; its network, as of fd00::/4, is none);       *)
(*   subnet    "inside", "padded" (a /064 inside), "outside" (a text that  *)
(*             ends in /64 and is no /64 inside), "length" (any other);    *)
(*   duration  "given", "" empty, "slight" (digits and units that come to  *)
(*             nothing or too much: 0.1ns), "terse" (.5s), "bad".          *)
(* The name of an nftables table is <<n, k>>: n with k times "-ndp" added. *)
(***************************************************************************)
EXTENDS Integers, Sequences, FiniteSets

Families == {"ipv4", "ipv6"}

\* The value of what may be absent.
Else(option, default) == IF option = {} THEN default ELSE CHOOSE x \in option : TRUE

NoName == <<"", 0>>

DefaultTable    == <<"route-balancer", 0>>
DefaultNptTable == <<"route-balancer-nptv6", 0>>

-----------------------------------------------------------------------------
(* internal/config                                                          *)

SetDefaults(c) ==
  [c EXCEPT !.offset = IF @ = 0 THEN 100 ELSE @,
            !.firewall = IF @ = "" THEN "iptables" ELSE @,
            !.table = IF @ = NoName THEN DefaultTable ELSE @]

IPv4ECMPEnabled(c) == Else(c.ecmp4, TRUE)

MatchFamilyName(r) == IF r.family = "" THEN "ipv4" ELSE r.family

\* Every duration of the file; `every` is reconcile_interval.
Durations(c) ==
  c.every \cup UNION {n.timeout : n \in c.nptv6}
    \cup UNION {UNION {{h.interval, h.timeout} : h \in c.gateways[k].health} : k \in DOMAIN c.gateways}

\* Load fails unless each is empty or comes to some time.
DurationsParse(c) == Durations(c) \subseteq {"given", "terse", ""}

KnownFamily(r) == MatchFamilyName(r) \in Families \cup {"both"}

\* The places of the rules that name a port and match the family.
PortRulesFor(c, family) ==
  {k \in DOMAIN c.rules : c.rules[k].ports # <<>> /\ MatchFamilyName(c.rules[k]) \in {family, "both"}}

\* An address of one family only.
NamesADestination(p) == p.type \in {"http", "https", "tcp", "dns"}

\* The probe of a family, if it has one: an IPv4 destination is not probed for IPv6,
\* and "none" is not run.
ProbeFor(h, family) ==
  LET fallback == IF family = "ipv6" /\ NamesADestination(h.probe) THEN {} ELSE {h.probe}
      chosen   == IF family = "ipv6" /\ h.probe6 # {} THEN h.probe6 ELSE fallback
  IN  {p \in chosen : p.type # "none"}

NPTv6Enabled(c) == \E n \in c.nptv6 : n.enable

NPTv6Table(c) ==
  LET named == {n.table : n \in c.nptv6} \ {NoName} IN Else(named, DefaultNptTable)

NPTv6NdpTable(c) == <<NPTv6Table(c)[1], NPTv6Table(c)[2] + 1>>

PrefixSourceName(u) == IF u.source = "" THEN "route" ELSE u.source

\* Unless it is said, an uplink proxies if its prefix is on the link.
ProxyNDPEnabled(u) == Else(u.proxyNDP, PrefixSourceName(u) = "ra")

\* The gateways' place in the order of their names is their mark; 0 is none.
Mark(c, name) == IF \E k \in DOMAIN c.gateways : c.gateways[k].name = name
                 THEN CHOOSE k \in DOMAIN c.gateways : c.gateways[k].name = name ELSE 0

-----------------------------------------------------------------------------
(* internal/nptv6: Resolve                                                  *)

InternalIsValid(n) ==
  n.internal \in (IF n.allowNonULA THEN {"ula", "gua", "wideula"} ELSE {"ula"})

SubnetsAreValid(n) ==
  DOMAIN n.subnets # {} /\ \A s \in DOMAIN n.subnets : n.subnets[s] \in {"inside", "padded"}

UplinkIsValid(n, u) ==
  /\ PrefixSourceName(u) \in {"route", "ra", "static"}
  /\ PrefixSourceName(u) = "static" => Else(u.static, "") = "fits"
  /\ Else(u.match, "") # "bad"
  /\ u.priority # <<>>
  /\ \A k \in DOMAIN u.priority : u.priority[k] \in DOMAIN n.subnets
  /\ \A j, k \in DOMAIN u.priority : u.priority[j] = u.priority[k] => j = k

FromRoutes(n) == {name \in DOMAIN n.uplinks : PrefixSourceName(n.uplinks[name]) = "route"}

\* A discard route does not say whose it is: of several, each needs a match.
RoutesAreTold(n) ==
  Cardinality(FromRoutes(n)) > 1 => \A name \in FromRoutes(n) : Else(n.uplinks[name].match, "") # ""

NptResolves(c) ==
  \A n \in {x \in c.nptv6 : x.enable} :
    /\ InternalIsValid(n) /\ SubnetsAreValid(n)
    /\ DOMAIN n.uplinks # {} /\ \A name \in DOMAIN n.uplinks : UplinkIsValid(n, n.uplinks[name])
    /\ Else(n.maxHosts, 0) >= 0
    /\ RoutesAreTold(n)

\* The uplinks that translate.
Uplinks(c) == UNION {DOMAIN n.uplinks : n \in {x \in c.nptv6 : x.enable}}

\* ndpOpts: those of them that proxy.
NdpUplinks(c) ==
  UNION {{name \in DOMAIN n.uplinks : ProxyNDPEnabled(n.uplinks[name])} :
           n \in {x \in c.nptv6 : x.enable}}

-----------------------------------------------------------------------------
(* internal/settings                                                        *)

ManagedFamilies(c) ==
  {f \in Families : IF f = "ipv4" THEN IPv4ECMPEnabled(c) ELSE c.ecmp6}

ObservedFamilies(c) ==
  {f \in Families : \/ f \in ManagedFamilies(c) \/ PortRulesFor(c, f) # {}
                    \/ (f = "ipv6" /\ NPTv6Enabled(c))}

ManagesSomething(c) ==
  ManagedFamilies(c) # {} \/ (\E f \in Families : PortRulesFor(c, f) # {}) \/ NPTv6Enabled(c)

\* 253 to 255 are the kernel's own tables, and the lowest index is 1.
ValidTableOffset(c) == c.offset \in 0..251

\* probe.Validate: what a type needs is there.
ProbeIsValid(p) ==
  /\ p.type \in {"http", "https", "tcp", "dns", "exec", "icmp", "", "none"}
  /\ NamesADestination(p) \/ p.type = "exec" => p.needs = "given"

ValidProbes(c) ==
  \A k \in DOMAIN c.gateways : \A h \in c.gateways[k].health :
    \A f \in ObservedFamilies(c) : \A p \in ProbeFor(h, f) : ProbeIsValid(p)

\* The names of the tables in use; the marks' counts if the backend is nftables.
ClaimedTables(c) ==
  (IF c.firewall = "nftables" THEN <<c.table>> ELSE <<>>)
    \o (IF NPTv6Enabled(c) THEN <<NPTv6Table(c)>> ELSE <<>>)
    \o (IF NdpUplinks(c) # {} THEN <<NPTv6NdpTable(c)>> ELSE <<>>)

ValidNftTables(c) ==
  LET T == ClaimedTables(c) IN \A j, k \in DOMAIN T : T[j] = T[k] => j = k

\* IPv6 is steered only to where it is translated, and marked by nftables.
ValidRules(c) ==
  LET six == PortRulesFor(c, "ipv6") IN
  /\ \A k \in DOMAIN c.rules : KnownFamily(c.rules[k])
  /\ six # {} =>
       /\ NPTv6Enabled(c) /\ c.firewall = "nftables"
       /\ \A k \in six : c.rules[k].gateway \in Uplinks(c)

\* Load and Resolve: the program starts with it.
Accepted(c) ==
  /\ DurationsParse(c) /\ NptResolves(c)
  /\ ManagesSomething(c) /\ c.firewall \in {"iptables", "nftables"}
  /\ ValidTableOffset(c) /\ ValidProbes(c) /\ ValidNftTables(c) /\ ValidRules(c)

-----------------------------------------------------------------------------
(* nix/module/route-balancer.nix                                            *)

ModulePortRules(c, families) ==
  {k \in DOMAIN c.rules : c.rules[k].ports # <<>> /\ MatchFamilyName(c.rules[k]) \in families}

\* Digits with units, and one digit that is not 0.
goDuration == {"given", "slight"}

\* What the types of the options admit: enums, ranges, and durations.
ProbeIsTyped(p) == p.type \in {"icmp", "http", "https", "tcp", "dns", "exec", "none"}

WellTyped(c) ==
  /\ c.firewall \in {"iptables", "nftables"} /\ c.offset \in 1..251
  /\ Durations(c) \subseteq goDuration
  /\ \A k \in DOMAIN c.gateways : \A h \in c.gateways[k].health :
       \A p \in {h.probe} \cup h.probe6 : ProbeIsTyped(p)
  /\ \A k \in DOMAIN c.rules : KnownFamily(c.rules[k])
  /\ \A n \in c.nptv6 :
       /\ \A hosts \in n.maxHosts : hosts > 0
       /\ \A name \in DOMAIN n.uplinks : n.uplinks[name].source \in {"route", "ra", "static"}

\* A url that is there but is none is not noticed.
ProbeComplaint(p) ==
  (NamesADestination(p) \/ p.type = "exec") /\ p.needs = "missing"

ProbeServesIPv6(h) == h.probe6 = {} /\ ~NamesADestination(h.probe)

\* A bug: `probe` is judged only where IPv4 is in play.
ProbesOfIPv4Complete(c) ==
  LET ipv4 == IPv4ECMPEnabled(c) \/ ModulePortRules(c, {"ipv4", "both"}) # {}
      ipv6 == c.ecmp6 \/ NPTv6Enabled(c)
  IN  \A k \in DOMAIN c.gateways : \A h \in c.gateways[k].health :
        /\ ipv4 => ~ProbeComplaint(h.probe)
        /\ ipv6 => \A p \in h.probe6 : ~ProbeComplaint(p)

ProbesComplete(c) ==
  LET ipv4 == IPv4ECMPEnabled(c) \/ ModulePortRules(c, {"ipv4", "both"}) # {}
      ipv6 == c.ecmp6 \/ NPTv6Enabled(c)
  IN  \A k \in DOMAIN c.gateways : \A h \in c.gateways[k].health :
        /\ ipv4 \/ (ipv6 /\ ProbeServesIPv6(h)) => ~ProbeComplaint(h.probe)
        /\ ipv6 => \A p \in h.probe6 : ~ProbeComplaint(p)

GatewaysAreNamed(c) ==
  \A r \in {c.rules[k] : k \in DOMAIN c.rules} : Mark(c, r.gateway) # 0

RulesAreBacked(c) ==
  LET six == ModulePortRules(c, {"ipv6", "both"}) IN
  /\ six # {} => NPTv6Enabled(c) /\ c.firewall = "nftables"
  /\ \A k \in six : \A n \in c.nptv6 : c.rules[k].gateway \in DOMAIN n.uplinks

\* What is read off the text: that internalPrefix begins as a ULA, and how a subnet ends.
\* A prefix that is not null is there, if it is empty.
NptIsSound(n) ==
  LET up == DOMAIN n.uplinks IN
  /\ n.internal # "" /\ (n.allowNonULA \/ n.internal \in {"ula", "longula", "wideula"})
  /\ DOMAIN n.subnets # {} /\ \A s \in DOMAIN n.subnets : n.subnets[s] \in {"inside", "outside"}
  /\ up # {}
  /\ \A u \in up :
       LET w == n.uplinks[u] IN
       /\ w.priority # <<>> /\ \A k \in DOMAIN w.priority : w.priority[k] \in DOMAIN n.subnets
       /\ \A j, k \in DOMAIN w.priority : w.priority[j] = w.priority[k] => j = k
       /\ w.source = "static" => w.static # {}
  /\ LET routed == {u \in up : n.uplinks[u].source = "route"} IN
       Cardinality(routed) > 1 => \A u \in routed : n.uplinks[u].match # {}

\* The assertions, as far as they are about this service's own options.
ModuleAccepts(c) ==
  /\ WellTyped(c)
  /\ c.gateways # <<>> /\ GatewaysAreNamed(c)
  /\ IPv4ECMPEnabled(c) \/ c.ecmp6 \/ ModulePortRules(c, Families \cup {"both"}) # {} \/ NPTv6Enabled(c)
  /\ ProbesComplete(c) /\ RulesAreBacked(c)
  /\ \A n \in {x \in c.nptv6 : x.enable} : NptIsSound(n)
=============================================================================
