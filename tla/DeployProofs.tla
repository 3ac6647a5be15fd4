---------------------------- MODULE DeployProofs ----------------------------
(***************************************************************************)
(* The two validators of a configuration agree, whatever an operator       *)
(* writes: any gateways, rules, subnets, uplinks and probes.               *)
(***************************************************************************)
EXTENDS Deploy, TLAPS

\* What the defaults leave alone, and that options within their types have none missing
\* but the name of the table.
LEMMA DefaultsOf ==
  ASSUME NEW o \in Written, WellTyped(o)
  PROVE  LET c == SetDefaults(o) IN
         /\ c.firewall = o.firewall /\ c.offset = o.offset
         /\ c.ecmp4 = o.ecmp4 /\ c.ecmp6 = o.ecmp6
         /\ c.gateways = o.gateways /\ c.rules = o.rules /\ c.nptv6 = o.nptv6
         /\ c.every = o.every
<1>1. DOMAIN o = {"firewall", "table", "offset", "ecmp4", "ecmp6", "every", "gateways", "rules", "nptv6"}
  BY WrittenAssumption
<1>2. o.firewall \in {"iptables", "nftables"} /\ o.offset \in 1..251
  BY Zenon DEF WellTyped
<1>3. o.offset # 0 /\ o.firewall # ""
  <2>1. o.offset # 0
    BY <1>2
  <2>2. o.firewall = "iptables" \/ o.firewall = "nftables"
    BY <1>2, Zenon
  <2>3. o.firewall # ""
    BY <2>2
  <2> QED
    BY <2>1, <2>3
<1> QED
  BY <1>1, <1>3 DEF SetDefaults

\* What the configuration is judged by is the same with and without the defaults.
LEMMA SameJudged ==
  ASSUME NEW o \in Written, WellTyped(o)
  PROVE  LET c == SetDefaults(o) IN
         /\ IPv4ECMPEnabled(c) = IPv4ECMPEnabled(o) /\ NPTv6Enabled(c) = NPTv6Enabled(o)
         /\ ManagedFamilies(c) = ManagedFamilies(o) /\ ObservedFamilies(c) = ObservedFamilies(o)
         /\ \A f : PortRulesFor(c, f) = PortRulesFor(o, f)
         /\ Uplinks(c) = Uplinks(o) /\ NptResolves(c) = NptResolves(o)
         /\ ManagesSomething(c) = ManagesSomething(o)
         /\ ValidTableOffset(c) = ValidTableOffset(o) /\ ValidProbes(c) = ValidProbes(o)
         /\ ValidRules(c) = ValidRules(o) /\ Durations(c) = Durations(o)
<1> DEFINE c == SetDefaults(o)
<1>1. /\ c.firewall = o.firewall /\ c.offset = o.offset
      /\ c.ecmp4 = o.ecmp4 /\ c.ecmp6 = o.ecmp6
      /\ c.gateways = o.gateways /\ c.rules = o.rules /\ c.nptv6 = o.nptv6
      /\ c.every = o.every
  BY DefaultsOf
<1> HIDE DEF c
<1>2. IPv4ECMPEnabled(c) = IPv4ECMPEnabled(o) /\ NPTv6Enabled(c) = NPTv6Enabled(o)
  BY <1>1, Zenon DEF IPv4ECMPEnabled, NPTv6Enabled
<1>3. \A f : PortRulesFor(c, f) = PortRulesFor(o, f)
  BY <1>1, Zenon DEF PortRulesFor
<1>4. ManagedFamilies(c) = ManagedFamilies(o)
  BY <1>1, <1>2, Zenon DEF ManagedFamilies
<1>5. ObservedFamilies(c) = ObservedFamilies(o)
  BY <1>2, <1>3, <1>4, Zenon DEF ObservedFamilies
<1>6. Uplinks(c) = Uplinks(o) /\ NptResolves(c) = NptResolves(o)
  BY <1>1, Zenon DEF Uplinks, NptResolves
<1>7. ManagesSomething(c) = ManagesSomething(o)
  BY <1>2, <1>3, <1>4, Zenon DEF ManagesSomething
<1>8. ValidTableOffset(c) = ValidTableOffset(o) /\ ValidProbes(c) = ValidProbes(o)
  BY <1>1, <1>5, Zenon DEF ValidTableOffset, ValidProbes
<1>9. ValidRules(c) = ValidRules(o)
  <2>1. PortRulesFor(c, "ipv6") = PortRulesFor(o, "ipv6")
    BY <1>3
  <2> QED
    BY <1>1, <1>2, <1>6, <2>1, Zenon DEF ValidRules
<1>10. Durations(c) = Durations(o)
  BY <1>1, Zenon DEF Durations
<1> QED
  BY <1>2, <1>3, <1>4, <1>5, <1>6, <1>7, <1>8, <1>9, <1>10 DEF c

-----------------------------------------------------------------------------
(* What the module lets through, the program accepts.                       *)

\* A rule of IPv6 is one of "ipv6" or "both".
LEMMA SixAlike ==
  ASSUME NEW o
  PROVE  /\ PortRulesFor(o, "ipv6") = ModulePortRules(o, {"ipv6", "both"})
         /\ PortRulesFor(o, "ipv4") = ModulePortRules(o, {"ipv4", "both"})
BY DEF PortRulesFor, ModulePortRules

\* The rules.
LEMMA RulesAlike ==
  ASSUME NEW o \in Written, WellTyped(o)
  PROVE  RulesAreBacked(o) <=> ValidRules(o)
<1> DEFINE six == PortRulesFor(o, "ipv6")
<1>1. six = ModulePortRules(o, {"ipv6", "both"})
  BY SixAlike
<1>2. \A m, n \in o.nptv6 : m = n
  BY WrittenAssumption
<1>3. \A k \in DOMAIN o.rules : KnownFamily(o.rules[k])
  BY DEF WellTyped
<1> HIDE DEF six
<1>4. ASSUME NPTv6Enabled(o), NEW k \in six
      PROVE  (\A n \in o.nptv6 : o.rules[k].gateway \in DOMAIN n.uplinks)
                <=> o.rules[k].gateway \in Uplinks(o)
  <2>1. PICK n \in o.nptv6 : n.enable
    BY <1>4 DEF NPTv6Enabled
  <2>2. o.nptv6 = {n} /\ {x \in o.nptv6 : x.enable} = {n}
    BY <2>1, <1>2
  <2>3. Uplinks(o) = DOMAIN n.uplinks
    BY <2>2 DEF Uplinks
  <2> QED
    BY <2>2, <2>3
<1>5. CASE six = {}
  BY <1>1, <1>3, <1>5 DEF RulesAreBacked, ValidRules, six
<1>6. CASE six # {}
  BY <1>1, <1>3, <1>4, <1>6 DEF RulesAreBacked, ValidRules, six
<1> QED
  BY <1>5, <1>6

\* There is something to manage.
LEMMA PurposeAlike ==
  ASSUME NEW o \in Written
  PROVE  ManagesSomething(o)
           <=> \/ IPv4ECMPEnabled(o) \/ o.ecmp6
               \/ ModulePortRules(o, Families \cup {"both"}) # {} \/ NPTv6Enabled(o)
<1>1. ManagedFamilies(o) # {} <=> IPv4ECMPEnabled(o) \/ o.ecmp6
  <2>1. \A f : f \in ManagedFamilies(o) <=>
                 f \in {"ipv4", "ipv6"} /\ IF f = "ipv4" THEN IPv4ECMPEnabled(o) ELSE o.ecmp6
    BY Zenon DEF ManagedFamilies, Families
  <2>2. /\ "ipv4" \in ManagedFamilies(o) <=> IPv4ECMPEnabled(o)
        /\ "ipv6" \in ManagedFamilies(o) <=> o.ecmp6
        /\ ManagedFamilies(o) \subseteq {"ipv4", "ipv6"}
    BY <2>1
  <2> QED
    BY <2>2
<1>2. ModulePortRules(o, Families \cup {"both"})
        = PortRulesFor(o, "ipv4") \cup PortRulesFor(o, "ipv6")
  BY DEF ModulePortRules, PortRulesFor, Families
<1> QED
  BY <1>1, <1>2, Zenon DEF ManagesSomething, Families

\* The families in play are those that are observed, once rules of IPv6 are backed.
LEMMA PlayAlike ==
  ASSUME NEW o \in Written, RulesAreBacked(o)
  PROVE  ObservedFamilies(o) =
           {f \in Families :
              IF f = "ipv4" THEN IPv4ECMPEnabled(o) \/ ModulePortRules(o, {"ipv4", "both"}) # {}
              ELSE o.ecmp6 \/ NPTv6Enabled(o)}
<1>1. PortRulesFor(o, "ipv6") # {} => NPTv6Enabled(o)
  BY SixAlike DEF RulesAreBacked
<1>2. /\ "ipv4" \in ManagedFamilies(o) <=> IPv4ECMPEnabled(o)
      /\ "ipv6" \in ManagedFamilies(o) <=> o.ecmp6
  BY DEF ManagedFamilies, Families
<1> QED
  BY <1>1, <1>2, SixAlike DEF ObservedFamilies, Families

\* A probe of what is written, within its type: it is complete, it is complained of, or
\* only the program sees what is wrong with it.
LEMMA OneProbe ==
  ASSUME NEW p, p.needs \in {"given", "missing", "malformed"},
         ProbeIsTyped(p)
  PROVE  /\ ProbeIsValid(p) => ~ProbeComplaint(p)
         /\ ~ProbeComplaint(p) /\ p.needs # "malformed" => ProbeIsValid(p)
         /\ p.type = "none" => ~ProbeComplaint(p)
BY DEF ProbeIsValid, ProbeComplaint, NamesADestination, ProbeIsTyped

\* The probes of each family that is run.
LEMMA ProbesOfFamily ==
  ASSUME NEW h
  PROVE  /\ ProbeFor(h, "ipv4") = {p \in {h.probe} : p.type # "none"}
         /\ ProbeFor(h, "ipv6") = {p \in (IF ProbeServesIPv6(h) THEN {h.probe} ELSE h.probe6) :
                                     p.type # "none"}
BY Zenon DEF ProbeFor, ProbeServesIPv6

LEMMA ProbesAlike ==
  ASSUME NEW o \in Written, WellTyped(o), RulesAreBacked(o)
  PROVE  /\ ValidProbes(o) => ProbesComplete(o)
         /\ \/ ~ProbesComplete(o) \/ ValidProbes(o)
            \/ \E k \in DOMAIN o.gateways : \E h \in o.gateways[k].health :
                 \E p \in {h.probe} \cup h.probe6 : p.needs = "malformed"
<1> DEFINE ipv4 == IPv4ECMPEnabled(o) \/ ModulePortRules(o, {"ipv4", "both"}) # {}
           ipv6 == o.ecmp6 \/ NPTv6Enabled(o)
           Complete(h) == /\ ipv4 \/ (ipv6 /\ ProbeServesIPv6(h)) => ~ProbeComplaint(h.probe)
                          /\ ipv6 => \A p \in h.probe6 : ~ProbeComplaint(p)
           Valid(h) == \A f \in ObservedFamilies(o) : \A p \in ProbeFor(h, f) : ProbeIsValid(p)
<1>1. /\ "ipv4" \in ObservedFamilies(o) <=> ipv4
      /\ "ipv6" \in ObservedFamilies(o) <=> ipv6
      /\ ObservedFamilies(o) \subseteq {"ipv4", "ipv6"}
  BY PlayAlike DEF Families
<1>2. ASSUME NEW k \in DOMAIN o.gateways, NEW h \in o.gateways[k].health, NEW p \in {h.probe} \cup h.probe6
      PROVE  /\ p.needs \in {"given", "missing", "malformed"}
             /\ ProbeIsTyped(p)
  BY WrittenAssumption DEF WellTyped
<1> HIDE DEF ipv4, ipv6
<1>3. ASSUME NEW k \in DOMAIN o.gateways, NEW h \in o.gateways[k].health
      PROVE  /\ Valid(h) => Complete(h)
             /\ Complete(h) => Valid(h) \/ \E p \in {h.probe} \cup h.probe6 : p.needs = "malformed"
  <2>1. \A p \in {h.probe} \cup h.probe6 :
          /\ ProbeIsValid(p) => ~ProbeComplaint(p)
          /\ ~ProbeComplaint(p) /\ p.needs # "malformed" => ProbeIsValid(p)
          /\ p.type = "none" => ~ProbeComplaint(p)
    BY <1>2, OneProbe
  <2>2. ProbeServesIPv6(h) => h.probe6 = {}
    BY DEF ProbeServesIPv6
  <2>3. Valid(h) <=> /\ ipv4 => (h.probe.type # "none" => ProbeIsValid(h.probe))
                     /\ ipv6 => \A p \in (IF ProbeServesIPv6(h) THEN {h.probe} ELSE h.probe6) :
                                  p.type # "none" => ProbeIsValid(p)
    BY <1>1, ProbesOfFamily
  <2> HIDE DEF Valid
  <2> QED
    BY <2>1, <2>2, <2>3
<1>4. /\ ProbesComplete(o) <=> \A k \in DOMAIN o.gateways : \A h \in o.gateways[k].health : Complete(h)
      /\ ValidProbes(o) <=> \A k \in DOMAIN o.gateways : \A h \in o.gateways[k].health : Valid(h)
  BY Zenon DEF ProbesComplete, ValidProbes, ipv4, ipv6
<1> HIDE DEF Complete, Valid
<1> QED
  BY <1>3, <1>4, Zenon

-----------------------------------------------------------------------------
(* Prefix translation.                                                      *)

\* What the module asks of an uplink w of n.
Sound(n, w) ==
  /\ w.priority # <<>> /\ \A k \in DOMAIN w.priority : w.priority[k] \in DOMAIN n.subnets
  /\ \A j, k \in DOMAIN w.priority : w.priority[j] = w.priority[k] => j = k
  /\ w.source = "static" => w.static # {}

\* An uplink within its type, and one of which only the program sees what is wrong.
Typed(w) ==
  /\ w.source \in {"route", "ra", "static"}
  /\ w.static = {} \/ \E s \in {"", "fits", "long", "bad"} : w.static = {s}
  /\ w.match = {} \/ \E s \in {"", "some", "bad"} : w.match = {s}

Unread(w) ==
  w.match = {"bad"} \/ (w.source = "static" /\ w.static \in {{""}, {"bad"}, {"long"}})

\* What is absent is taken for the empty text.
LEMMA ElseOf ==
  /\ Else({}, "") = ""
  /\ \A s : Else({s}, "") = s
<1>1. \A s : {s} # {} /\ (CHOOSE x \in {s} : TRUE) = s
  OBVIOUS
<1> QED
  BY <1>1 DEF Else

LEMMA UplinkAlike ==
  ASSUME NEW n, NEW w, Typed(w)
  PROVE  /\ UplinkIsValid(n, w) => Sound(n, w)
         /\ Sound(n, w) /\ ~Unread(w) => UplinkIsValid(n, w)
<1>1. PrefixSourceName(w) = w.source
  BY DEF Typed, PrefixSourceName
<1>2. /\ Else(w.static, "") = "fits" <=> w.static = {"fits"}
      /\ Else(w.match, "") = "bad" <=> w.match = {"bad"}
  BY ElseOf DEF Typed
<1>3. /\ w.static = {"fits"} => w.static # {}
      /\ w.static # {} => w.static = {"fits"} \/ w.static \in {{""}, {"bad"}, {"long"}}
  BY DEF Typed
<1>4. w.source \in {"route", "ra", "static"}
  BY DEF Typed
<1> QED
  BY <1>1, <1>2, <1>3, <1>4, ZenonT(60) DEF UplinkIsValid, Sound, Unread

LEMMA NptAlike ==
  ASSUME NEW o \in Written, WellTyped(o), NEW n \in o.nptv6
  PROVE  LET Resolves == /\ InternalIsValid(n) /\ SubnetsAreValid(n)
                         /\ DOMAIN n.uplinks # {}
                         /\ \A name \in DOMAIN n.uplinks : UplinkIsValid(n, n.uplinks[name])
                         /\ Else(n.maxHosts, 0) >= 0
                         /\ RoutesAreTold(n)
         IN  /\ Resolves => NptIsSound(n) \/ OnlyTheModuleMinds(o)
             /\ NptIsSound(n) =>
                  \/ Resolves
                  \/ n.internal \notin {"ula", "gua", "wideula"}
                  \/ n.internal = "wideula" /\ ~n.allowNonULA
                  \/ \E s \in DOMAIN n.subnets : n.subnets[s] \in {"outside", "length"}
                  \/ Misread(n)
<1> DEFINE up == DOMAIN n.uplinks
           routed == {u \in up : n.uplinks[u].source = "route"}
           told == Cardinality(routed) > 1 => \A u \in routed : n.uplinks[u].match # {}
           there == DOMAIN n.subnets # {} /\ \A s \in DOMAIN n.subnets : n.subnets[s] \in {"inside", "outside"}
           internal == n.internal # "" /\ (n.allowNonULA \/ n.internal \in {"ula", "longula", "wideula"})
<1>1. NptIsSound(n) <=> internal /\ there /\ up # {} /\ (\A u \in up : Sound(n, n.uplinks[u])) /\ told
  BY Zenon DEF NptIsSound, Sound
<1>2. Else(n.maxHosts, 0) >= 0
  <2>1. \A hosts \in n.maxHosts : hosts > 0
    BY DEF WellTyped
  <2>2. CASE n.maxHosts = {}
    BY <2>2 DEF Else
  <2>3. CASE \E hosts \in Int : n.maxHosts = {hosts}
    <3>1. PICK hosts \in Int : n.maxHosts = {hosts}
      BY <2>3
    <3>2. Else(n.maxHosts, 0) = hosts
      BY <3>1 DEF Else
    <3> QED
      BY <2>1, <3>1, <3>2
  <2> QED
    BY <2>2, <2>3, WrittenAssumption
<1>3. \A u \in up : Typed(n.uplinks[u])
  <2> SUFFICES ASSUME NEW u \in up
               PROVE  Typed(n.uplinks[u])
    OBVIOUS
  <2>1. n.uplinks[u].source \in {"route", "ra", "static"}
    BY Zenon DEF WellTyped
  <2>2. /\ n.uplinks[u].static \in {{}} \cup {{s} : s \in {"", "fits", "long", "bad"}}
        /\ n.uplinks[u].match \in {{}} \cup {{s} : s \in {"", "some", "bad"}}
    BY WrittenAssumption, Zenon
  <2> DEFINE w == n.uplinks[u]
  <2> HIDE DEF w
  <2>3. w.static \in {{}} \cup {{s} : s \in {"", "fits", "long", "bad"}}
          => w.static = {} \/ \E s \in {"", "fits", "long", "bad"} : w.static = {s}
    OBVIOUS
  <2>4. w.match \in {{}} \cup {{s} : s \in {"", "some", "bad"}}
          => w.match = {} \/ \E s \in {"", "some", "bad"} : w.match = {s}
    OBVIOUS
  <2> QED
    BY <2>1, <2>2, <2>3, <2>4, Zenon DEF Typed, w
<1>4. /\ RoutesAreTold(n) => told
      /\ told => RoutesAreTold(n) \/ Misread(n)
  <2>1. FromRoutes(n) = routed
    BY <1>3 DEF FromRoutes, PrefixSourceName, Typed
  <2>2. \A u \in routed : /\ Else(n.uplinks[u].match, "") # "" => n.uplinks[u].match # {}
                          /\ n.uplinks[u].match # {} =>
                               Else(n.uplinks[u].match, "") # "" \/ n.uplinks[u].match = {""}
    BY <1>3, ElseOf DEF Typed
  <2>3. RoutesAreTold(n) => told
    BY <2>1, <2>2, Zenon DEF RoutesAreTold
  <2>4. ASSUME told, ~RoutesAreTold(n)
        PROVE  Misread(n)
    <3>1. Cardinality(routed) > 1 /\ \E u \in routed : Else(n.uplinks[u].match, "") = ""
      BY <2>1, <2>4, Zenon DEF RoutesAreTold
    <3>2. \E u \in routed : n.uplinks[u].match = {""}
      BY <2>2, <2>4, <3>1, Zenon
    <3> QED
      BY <2>1, <3>1, <3>2, Zenon DEF Misread
  <2> QED
    BY <2>3, <2>4
<1>5. \A u \in up :
        /\ UplinkIsValid(n, n.uplinks[u]) => Sound(n, n.uplinks[u])
        /\ Sound(n, n.uplinks[u]) /\ ~Misread(n) => UplinkIsValid(n, n.uplinks[u])
  BY <1>3, UplinkAlike, Zenon DEF Misread, Unread
<1>6. /\ InternalIsValid(n) => internal
      /\ internal => \/ InternalIsValid(n) \/ n.internal \notin {"ula", "gua", "wideula"}
                     \/ n.internal = "wideula" /\ ~n.allowNonULA
  <2>1. n.allowNonULA \in BOOLEAN
    BY WrittenAssumption
  <2> QED
    BY <2>1 DEF InternalIsValid
<1>7. /\ SubnetsAreValid(n) => there \/ OnlyTheModuleMinds(o)
      /\ there => \/ SubnetsAreValid(n)
                  \/ \E s \in DOMAIN n.subnets : n.subnets[s] \in {"outside", "length"}
  BY DEF SubnetsAreValid, OnlyTheModuleMinds
<1> HIDE DEF told, there, internal
<1> QED
  BY <1>1, <1>2, <1>4, <1>5, <1>6, <1>7, Zenon DEF up

-----------------------------------------------------------------------------
(* The whole of it.                                                         *)

\* What the module lets through, the program accepts, unless only it can see why not.
LEMMA LetThrough ==
  ASSUME NEW o \in Written, ModuleAccepts(o)
  PROVE  Accepted(SetDefaults(o)) \/ OnlyTheProgramSees(SetDefaults(o))
<1> DEFINE c == SetDefaults(o)
<1> SUFFICES ASSUME ~OnlyTheProgramSees(c)
             PROVE  Accepted(c)
  OBVIOUS
<1>1. /\ WellTyped(o) /\ RulesAreBacked(o) /\ ProbesComplete(o)
      /\ \A n \in {x \in o.nptv6 : x.enable} : NptIsSound(n)
      /\ \/ IPv4ECMPEnabled(o) \/ o.ecmp6
         \/ ModulePortRules(o, Families \cup {"both"}) # {} \/ NPTv6Enabled(o)
  BY Zenon DEF ModuleAccepts
<1>2. /\ c.gateways = o.gateways /\ c.nptv6 = o.nptv6
      /\ c.firewall = o.firewall /\ c.offset = o.offset
  BY <1>1, DefaultsOf
<1>3. /\ NptResolves(c) = NptResolves(o) /\ ManagesSomething(c) = ManagesSomething(o)
      /\ ValidProbes(c) = ValidProbes(o) /\ ValidRules(c) = ValidRules(o)
      /\ Durations(c) = Durations(o)
  BY <1>1, SameJudged
<1> HIDE DEF c
<1>4. ValidNftTables(c)
  BY DEF OnlyTheProgramSees
<1>5. ValidRules(c)
  BY <1>1, <1>3, RulesAlike
<1>6. ManagesSomething(c)
  BY <1>1, <1>3, PurposeAlike, Zenon
<1>7. ValidProbes(c)
  <2>1. ~\E k \in DOMAIN o.gateways : \E h \in o.gateways[k].health :
           \E p \in {h.probe} \cup h.probe6 : p.needs = "malformed"
    BY <1>2, Zenon DEF OnlyTheProgramSees
  <2>2. ValidProbes(o)
    BY <1>1, <2>1, ProbesAlike, Zenon
  <2> QED
    BY <2>2, <1>3, Zenon
<1>8. NptResolves(c)
  BY <1>1, <1>2, NptAlike, Zenon DEF OnlyTheProgramSees, NptResolves
<1>9. c.firewall \in {"iptables", "nftables"} /\ ValidTableOffset(c)
  BY <1>1, <1>2 DEF WellTyped, ValidTableOffset
<1>10. DurationsParse(c)
  <2>1. Durations(o) \subseteq {"given", "slight"}
    BY <1>1 DEF WellTyped, goDuration
  <2>2. "slight" \notin Durations(c)
    BY Zenon DEF OnlyTheProgramSees
  <2>3. Durations(c) = Durations(o)
    BY <1>3, Zenon
  <2> HIDE DEF OnlyTheProgramSees
  <2>4. \A d \in Durations(c) : d \in {"given", "slight"} /\ d # "slight"
    BY <2>1, <2>2, <2>3, Zenon
  <2> QED
    BY <2>4 DEF DurationsParse
<1> QED
  BY <1>4, <1>5, <1>6, <1>7, <1>8, <1>9, <1>10 DEF Accepted, c

\* What the program accepts, the module lets through.
LEMMA AcceptedIsLetThrough ==
  ASSUME NEW o \in Written, WellTyped(o), GatewaysAreNamed(o), o.gateways # <<>>,
         ~OnlyTheModuleMinds(o), Accepted(SetDefaults(o))
  PROVE  ModuleAccepts(o)
<1> DEFINE c == SetDefaults(o)
<1>1. NptResolves(c) /\ ManagesSomething(c) /\ ValidProbes(c) /\ ValidRules(c)
  BY DEF Accepted
<1> HIDE DEF c
<1>2. NptResolves(o) /\ ManagesSomething(o) /\ ValidProbes(o) /\ ValidRules(o)
  BY <1>1, SameJudged DEF c
<1>3. RulesAreBacked(o)
  BY <1>2, RulesAlike
<1>4. ProbesComplete(o)
  BY <1>2, <1>3, ProbesAlike
<1>5. \A n \in {x \in o.nptv6 : x.enable} : NptIsSound(n)
  BY <1>2, NptAlike, Zenon DEF NptResolves
<1> QED
  BY <1>2, <1>3, <1>4, <1>5, PurposeAlike, Zenon DEF ModuleAccepts

\* What a unit's state says of what was written.
Judged ==
  /\ options \in Written
  /\ unit \in {"starting", "failed"} => ModuleAccepts(options)
  /\ unit = "failed" => ~Accepted(SetDefaults(options))
  /\ unit = "rejected" => ~ModuleAccepts(options)

LEMMA JudgedStays ==
  Judged /\ [Next]_vars => Judged'
<1> SUFFICES ASSUME Judged, [Next]_vars
             PROVE  Judged'
  OBVIOUS
<1>1. CASE Evaluate
  BY <1>1, Zenon DEF Judged, Evaluate
<1>2. CASE Start
  BY <1>2, Zenon DEF Judged, Start
<1>3. CASE Restart
  BY <1>3, Zenon DEF Judged, Restart
<1>4. CASE UNCHANGED vars
  BY <1>4, Zenon DEF Judged, vars
<1> QED
  BY <1>1, <1>2, <1>3, <1>4 DEF Next

\* What the program would refuse is refused when the host is built, unless only the
\* program can see it, and nothing that it would accept is refused but for no gateways,
\* rules that name none, a /064 and values outside an option's type: for whatever an
\* operator writes.
THEOREM Agreement ==
  Spec => []ValidatorsAgree
<1>1. Init => Judged
  BY DEF Init, Judged
<1>2. Judged => ValidatorsAgree
  <2> SUFFICES ASSUME Judged
               PROVE  ValidatorsAgree
    OBVIOUS
  <2>1. unit = "failed" => OnlyTheProgramSees(SetDefaults(options))
    BY LetThrough DEF Judged
  <2>2. unit = "rejected" /\ WellTyped(options) /\ GatewaysAreNamed(options)
          /\ options.gateways # <<>> /\ ~OnlyTheModuleMinds(options)
          => ~Accepted(SetDefaults(options))
    BY AcceptedIsLetThrough DEF Judged
  <2> QED
    BY <2>1, <2>2 DEF ValidatorsAgree
<1> QED
  BY <1>1, <1>2, JudgedStays, PTL DEF Spec
=============================================================================
