---------------------------- MODULE RoutingProofs ----------------------------
(***************************************************************************)
(* What holds of IPv4 routing for any uplinks, addresses, next hops and    *)
(* table offsets, and any number of interfaces, changes and faults.        *)
(***************************************************************************)
EXTENDS Routing, FiniteSetTheorems, WellFoundedInduction, TLAPS

-----------------------------------------------------------------------------
(* Numbers and texts.                                                       *)

\* A set of natural numbers that is not empty has a least element.
LEMMA Least ==
  ASSUME NEW S \in SUBSET Nat, S # {}
  PROVE  \E m \in S : \A n \in S : m <= n
<1> DEFINE R == OpToRel(<, Nat)
<1>1. \A x, y \in Nat : <<x, y>> \in R <=> x < y
  BY DEF OpToRel
<1>2. IsWellFoundedOn(R, Nat)
  BY NatLessThanWellFounded
<1> HIDE DEF R
<1>3. PICK m \in S : \A n \in S : <<n, m>> \notin R
  BY <1>2, WFMin
<1>4. \A n \in S : ~(n < m)
  BY <1>1, <1>3, Zenon
<1> QED
  BY <1>4

\* The texts of next hops can be sorted: a key's place as a number, least for the
\* text that is last.
Place(v) == 1000 * (999 - Padded(v, 9)) + v

LEMMA Sorted ==
  ASSUME NEW v \in 0..255, NEW w \in 0..255
  PROVE  /\ Place(v) \in Nat
         /\ KeyFirst(v, w) <=> Place(w) <= Place(v)
<1> DEFINE p == Padded(v, 9)
           q == Padded(w, 9)
<1>1. p \in 0..999 /\ q \in 0..999
  BY DEF Padded
<1>2. /\ Place(v) = 1000 * (999 - p) + v /\ Place(w) = 1000 * (999 - q) + w
      /\ KeyFirst(v, w) <=> p < q \/ (p = q /\ v >= w)
  BY DEF Place, KeyFirst
<1> HIDE DEF p, q
<1> QED
  BY <1>1, <1>2

\* Of the gateways of an interface one has the last key.
LEMMA LastKey ==
  ASSUME NEW on, on # {}, \A g \in on : g.via \in 0..255
  PROVE  \E x \in on : x.via = Direct \/ \A y \in on : y.via # Direct /\ KeyFirst(y.via, x.via)
<1>1. CASE \E x \in on : x.via = Direct
  BY <1>1
<1>2. CASE \A x \in on : x.via # Direct
  <2> DEFINE P == {Place(g.via) : g \in on}
  <2>1. P \in SUBSET Nat /\ P # {}
    BY Sorted
  <2>2. PICK m \in P : \A n \in P : m <= n
    BY <2>1, Least
  <2>3. PICK x \in on : m = Place(x.via)
    BY <2>2
  <2>4. \A y \in on : Place(x.via) <= Place(y.via)
    BY <2>2, <2>3
  <2>5. \A y \in on : KeyFirst(y.via, x.via)
    BY <2>4, Sorted
  <2> QED
    BY <1>2, <2>5
<1> QED
  BY <1>1, <1>2

-----------------------------------------------------------------------------
(* What is read and wanted.                                                 *)

\* Next hops and addresses are numbers that an octet can be.
LEMMA Octets ==
  /\ Hop \subseteq 0..255 /\ Address \subseteq 1..255
  /\ \A u \in Uplink : u \in Nat /\ u # 0
  /\ \A u \in Uplink : Pool[u] \subseteq Address /\ Via[u] \subseteq Hop
  BY RoutingAssumption DEF Hop, Address

\* The gateways of a pass are gateways, on the interfaces it knows.
LEMMA GatewaysType ==
  ASSUME TypeOK, NEW unreadable
  PROVE  Gateways(unreadable) \subseteq Gateway
<1>1. \A n \in routes \cup ecmp : n \in Uplink \X Hop
  BY DEF TypeOK, Nexthop
<1>2. Foreign(unreadable) \subseteq routes \cup ecmp
  BY DEF Foreign
<1>3. \A n \in Foreign(unreadable) : ifaces[n[1]] # Gone =>
         [up |-> n[1], via |-> n[2], index |-> ifaces[n[1]]] \in Gateway
  BY <1>1, <1>2 DEF TypeOK, Gateway
<1>4. gateways \subseteq Gateway
  BY DEF TypeOK
<1> QED
  BY <1>3, <1>4 DEF Gateways

\* The table that is wanted of an interface is through one of its gateways.
LEMMA WantedTableFacts ==
  ASSUME TypeOK, NEW G \in SUBSET Gateway, NEW i \in WantedTables(G)
  PROVE  /\ i \in Index /\ Usable(i) /\ addrs[i] \in Address
         /\ \E g \in G : /\ g.index = i
                         /\ WantedTable(G, i) = [dev |-> g.up, via |-> g.via, src |-> addrs[i]]
<1> DEFINE on == {g \in G : g.index = i}
           Last(x) == x.via = Direct \/ \A y \in on : y.via # Direct /\ KeyFirst(y.via, x.via)
           g == CHOOSE x \in on : Last(x)
<1>1. i \in Index /\ Usable(i) /\ addrs[i] \in Address /\ on # {}
  BY DEF WantedTables, TypeOK
<1>2. \A x \in on : x.via \in 0..255
  BY Octets DEF Gateway
<1>3. \E x \in on : Last(x)
  BY <1>1, <1>2, LastKey
<1>4. g \in on
  BY <1>3
<1>5. WantedTable(G, i) = [dev |-> g.up, via |-> g.via, src |-> addrs[i]]
  BY DEF WantedTable
<1> HIDE DEF g
<1> QED
  BY <1>1, <1>4, <1>5

\* The mark rules that are wanted.
LEMMA WantedMarksFacts ==
  ASSUME TypeOK
  PROVE  \A m \in WantedMarks : /\ m = [up |-> m.up, index |-> m.index]
                                /\ m.up \in Steered /\ m.up \in Uplink
                                /\ m.index = ifaces[m.up] /\ m.index \in Index /\ Usable(m.index)
  BY RoutingAssumption DEF WantedMarks, TypeOK

-----------------------------------------------------------------------------
(* The commands.                                                            *)

\* The two commands of a teardown.
LEMMA TeardownFacts ==
  ASSUME NEW i \in Index, NEW v \in Hop \cup {Direct}
  PROVE  /\ \A c \in Teardown(i, v) : c \in Command /\ c.do \in {"del_rule", "flush"} /\ c.index = i
         /\ \A d \in {"del_rule", "flush"} : \E c \in Teardown(i, v) : c.do = d
<1>1. \A d \in {"del_rule", "flush"} : Cmd(d, 0, i, v, NoAddr) \in Command
  BY DEF Cmd, Command
<1>2. \A d \in {"del_rule", "flush"} : /\ Cmd(d, 0, i, v, NoAddr).do = d
                                       /\ Cmd(d, 0, i, v, NoAddr).index = i
  BY DEF Cmd
<1> QED
  BY <1>1, <1>2 DEF Teardown

\* The commands that restore a table and its rule.
LEMMA TableActionsFacts ==
  ASSUME NEW i \in Index, NEW want, want.dev \in Uplink, want.via \in Hop, want.src \in Address
  PROVE  /\ \A c \in TableActions(i, want) : c \in Command /\ c.do \in {"table", "rule"}
         /\ \A c \in TableActions(i, want) : c.index = i /\ c.src = want.src
         /\ \A c \in TableActions(i, want) : c.do = "table" => c.up = want.dev /\ c.via = want.via
         /\ \A d \in {"table", "rule"} : \E c \in TableActions(i, want) : c.do = d
<1> DEFINE t == Cmd("table", want.dev, i, want.via, want.src)
           r == Cmd("rule", 0, i, Direct, want.src)
<1>1. t \in Command /\ t.do = "table" /\ t.index = i /\ t.src = want.src
      /\ t.up = want.dev /\ t.via = want.via
  BY DEF Cmd, Command
<1>2. r \in Command /\ r.do = "rule" /\ r.index = i /\ r.src = want.src
  BY DEF Cmd, Command
<1>3. TableActions(i, want) = {t, r}
  BY DEF TableActions
<1> HIDE DEF t, r
<1> QED
  BY <1>1, <1>2, <1>3

\* A command for a mark rule.
LEMMA MarkFacts ==
  ASSUME NEW u \in Uplink, NEW i \in Index, NEW d \in {"mark", "del_mark"}
  PROVE  LET c == Cmd(d, u, i, Direct, NoAddr) IN
           c \in Command /\ c.do = d /\ c.up = u /\ c.index = i
  BY DEF Cmd, Command

\* A command for the ECMP route.
LEMMA EcmpFacts ==
  ASSUME NEW hops \in SUBSET Nexthop, NEW add \in BOOLEAN, NEW d \in {"ecmp", "del_ecmp"}
  PROVE  LET c == EcmpCmd(d, hops, add) IN
           c \in Command /\ c.do = d /\ c.hops = hops /\ c.add = add
  BY DEF EcmpCmd, Command

-----------------------------------------------------------------------------
(* The plan of a pass, by what could not be read.                           *)

Downs(unreadable) == unhealthy \cap StillProbed(Gateways(unreadable))

Unsettled(unreadable) ==
  {i \in WantedTables(Gateways(unreadable)) :
     TableNeedsRestore(i, WantedTable(Gateways(unreadable), i), unreadable)}

Teardowns(unreadable) ==
  UNION {Teardown(i, Direct) : i \in StaleTables(Gateways(unreadable), unreadable)}

Restores(unreadable) ==
  UNION {TableActions(i, WantedTable(Gateways(unreadable), i)) : i \in Unsettled(unreadable)}

MarkRestores(unreadable) == IF MarksNeedRestore(unreadable) THEN MarkActions ELSE {}

EcmpChange(unreadable) == EcmpActions(Active(Gateways(unreadable), Downs(unreadable)), unreadable)

Planned(unreadable) ==
  Teardowns(unreadable) \cup Restores(unreadable) \cup MarkRestores(unreadable)
    \cup EcmpChange(unreadable)

PlanWith(unreadable) ==
  /\ IF unreadable = "" THEN UNCHANGED <<faults, failed>> ELSE Fault(unreadable) /\ failed' = TRUE
  /\ gateways' = Gateways(unreadable)
  /\ unhealthy' = Downs(unreadable)
  /\ batch' = Planned(unreadable)

LEMMA PlanReads ==
  ASSUME Plan
  PROVE  \E unreadable \in {"", "routes", "own", "abandoned", "rules", "tables"} : PlanWith(unreadable)
  BY Zenon DEF Plan, PlanWith, Planned, Teardowns, Restores, MarkRestores, EcmpChange, Unsettled, Downs

\* The tables that are torn down.
LEMMA StaleFacts ==
  ASSUME TypeOK, NEW G, NEW unreadable
  PROVE  \A i \in StaleTables(G, unreadable) : /\ i \in Index /\ Usable(i) /\ i \notin WantedTables(G)
                                               /\ ~stale
                                               /\ \E r \in rules : r.index = i
<1>1. \A r \in rules : r.index \in Index
  BY DEF TypeOK
<1>2. \A i \in InstalledTables(unreadable) : i \in Index /\ Usable(i) /\ \E r \in rules : r.index = i
  BY <1>1 DEF InstalledTables
<1> QED
  BY <1>2 DEF StaleTables

\* What the commands of a plan are.
PlannedAs(c, unreadable) ==
  LET G == Gateways(unreadable) IN
  \/ c.do \in {"del_rule", "flush"} /\ c.index \in StaleTables(G, unreadable)
  \/ /\ c.do \in {"table", "rule"} /\ c.index \in Unsettled(unreadable)
     /\ c.src = WantedTable(G, c.index).src
     /\ c.do = "table" => c.up = WantedTable(G, c.index).dev /\ c.via = WantedTable(G, c.index).via
  \/ c.do = "mark" /\ [up |-> c.up, index |-> c.index] \in WantedMarks
  \/ /\ c.do = "ecmp" /\ managed /\ c.hops = Active(G, Downs(unreadable))
     /\ c.add => ecmp = {} \/ unreadable = "own"
  \/ c.do = "del_ecmp" /\ ~managed

LEMMA PlannedFacts ==
  ASSUME TypeOK, NEW unreadable, NEW c \in Planned(unreadable)
  PROVE  c \in Command /\ PlannedAs(c, unreadable)
<1> DEFINE G == Gateways(unreadable)
           active == Active(G, Downs(unreadable))
<1>g. G \subseteq Gateway
  BY GatewaysType
<1>1. CASE c \in Teardowns(unreadable)
  <2>1. PICK i \in StaleTables(G, unreadable) : c \in Teardown(i, Direct)
    BY <1>1 DEF Teardowns
  <2>2. i \in Index
    BY StaleFacts
  <2> QED
    BY <2>1, <2>2, TeardownFacts DEF PlannedAs
<1>2. CASE c \in Restores(unreadable)
  <2>1. PICK i \in Unsettled(unreadable) : c \in TableActions(i, WantedTable(G, i))
    BY <1>2 DEF Restores
  <2>2. i \in WantedTables(G)
    BY DEF Unsettled
  <2> DEFINE want == WantedTable(G, i)
  <2>3. i \in Index /\ want.dev \in Uplink /\ want.via \in Hop /\ want.src \in Address
    BY <1>g, <2>2, WantedTableFacts DEF Gateway
  <2> HIDE DEF want
  <2>4. /\ c \in Command /\ c.do \in {"table", "rule"} /\ c.index = i /\ c.src = want.src
        /\ c.do = "table" => c.up = want.dev /\ c.via = want.via
    BY <2>1, <2>3, TableActionsFacts DEF want
  <2> QED
    BY <2>4, Zenon DEF PlannedAs, want
<1>3. CASE c \in MarkRestores(unreadable)
  <2>1. PICK m \in WantedMarks : c = Cmd("mark", m.up, m.index, Direct, NoAddr)
    BY <1>3 DEF MarkRestores, MarkActions
  <2>2. m = [up |-> m.up, index |-> m.index] /\ m.up \in Uplink /\ m.index \in Index
    BY WantedMarksFacts
  <2>3. c \in Command /\ c.do = "mark" /\ c.up = m.up /\ c.index = m.index
    BY <2>1, <2>2, MarkFacts
  <2> QED
    BY <2>2, <2>3 DEF PlannedAs
<1>4. CASE c \in EcmpChange(unreadable)
  <2> DEFINE present == ecmp # {} /\ unreadable # (IF managed THEN "own" ELSE "abandoned")
  <2>1. active \in SUBSET Nexthop
    BY <1>g DEF Active, Gateway, Nexthop
  <2>2. (~present) \in BOOLEAN
    BY Zenon
  <2>3. \/ managed /\ c = EcmpCmd("ecmp", active, ~present)
        \/ ~managed /\ c = EcmpCmd("del_ecmp", {}, FALSE)
    BY <1>4, Zenon DEF EcmpChange, EcmpActions
  <2>4. managed /\ ~present => ecmp = {} \/ unreadable = "own"
    OBVIOUS
  <2> DEFINE add == ~present
  <2> HIDE DEF present, active, add
  <2>5. CASE managed /\ c = EcmpCmd("ecmp", active, add)
    <3>1. c \in Command /\ c.do = "ecmp" /\ c.hops = active /\ c.add = add
      BY <2>1, <2>2, <2>5, EcmpFacts, Zenon DEF add
    <3> QED
      BY <3>1, <2>5, <2>4, Zenon DEF PlannedAs, active, add
  <2>6. CASE ~managed /\ c = EcmpCmd("del_ecmp", {}, FALSE)
    <3>1. c \in Command /\ c.do = "del_ecmp"
      BY <2>6, EcmpFacts
    <3> QED
      BY <3>1, <2>6 DEF PlannedAs
  <2> QED
    BY <2>3, <2>5, <2>6, Zenon DEF add
<1> QED
  BY <1>1, <1>2, <1>3, <1>4 DEF Planned

\* And what commands there are.
LEMMA PlannedHas ==
  ASSUME TypeOK, NEW unreadable
  PROVE  LET G      == Gateways(unreadable)
             active == Active(G, Downs(unreadable))
         IN  /\ \A i \in StaleTables(G, unreadable) : \A d \in {"del_rule", "flush"} :
                  \E c \in Planned(unreadable) : c.do = d /\ c.index = i
             /\ \A i \in Unsettled(unreadable) : \A d \in {"table", "rule"} :
                  \E c \in Planned(unreadable) : c.do = d /\ c.index = i
             /\ MarksNeedRestore(unreadable) => \A m \in WantedMarks :
                  \E c \in Planned(unreadable) : c.do = "mark" /\ c.up = m.up /\ c.index = m.index
             /\ managed /\ active # {} /\ active # ecmp => \E c \in Planned(unreadable) : c.do = "ecmp"
             /\ ~managed /\ ecmp # {} /\ unreadable # "abandoned" =>
                  \E c \in Planned(unreadable) : c.do = "del_ecmp"
<1> DEFINE G      == Gateways(unreadable)
           active == Active(G, Downs(unreadable))
<1>g. G \subseteq Gateway
  BY GatewaysType
<1>1. ASSUME NEW i \in StaleTables(G, unreadable), NEW d \in {"del_rule", "flush"}
      PROVE  \E c \in Planned(unreadable) : c.do = d /\ c.index = i
  <2>1. i \in Index
    BY StaleFacts
  <2>2. PICK c \in Teardown(i, Direct) : c.do = d /\ c.index = i
    BY <2>1, TeardownFacts
  <2>3. c \in Teardowns(unreadable)
    BY <2>2 DEF Teardowns
  <2> QED
    BY <2>2, <2>3 DEF Planned
<1>2. ASSUME NEW i \in Unsettled(unreadable), NEW d \in {"table", "rule"}
      PROVE  \E c \in Planned(unreadable) : c.do = d /\ c.index = i
  <2> DEFINE want == WantedTable(G, i)
  <2>1. i \in WantedTables(G)
    BY DEF Unsettled
  <2>2. i \in Index /\ want.dev \in Uplink /\ want.via \in Hop /\ want.src \in Address
    BY <1>g, <2>1, WantedTableFacts DEF Gateway
  <2>3. PICK c \in TableActions(i, want) : c.do = d /\ c.index = i
    BY <2>2, TableActionsFacts
  <2>4. c \in Restores(unreadable)
    BY <2>3 DEF Restores
  <2> QED
    BY <2>3, <2>4 DEF Planned
<1>3. ASSUME MarksNeedRestore(unreadable), NEW m \in WantedMarks
      PROVE  \E c \in Planned(unreadable) : c.do = "mark" /\ c.up = m.up /\ c.index = m.index
  <2> DEFINE c == Cmd("mark", m.up, m.index, Direct, NoAddr)
  <2>1. c \in Planned(unreadable)
    BY <1>3 DEF Planned, MarkRestores, MarkActions
  <2>2. c.do = "mark" /\ c.up = m.up /\ c.index = m.index
    BY WantedMarksFacts, MarkFacts
  <2> HIDE DEF c
  <2> QED
    BY <2>1, <2>2
<1>4. active \in SUBSET Nexthop
  BY <1>g DEF Active, Gateway, Nexthop
<1> DEFINE present == ecmp # {} /\ unreadable # (IF managed THEN "own" ELSE "abandoned")
           add == ~present
<1>5. add \in BOOLEAN
  BY Zenon
<1> HIDE DEF active
<1>6. ASSUME managed, active # {}, active # ecmp
      PROVE  \E c \in Planned(unreadable) : c.do = "ecmp"
  <2>1. EcmpCmd("ecmp", active, add) \in EcmpChange(unreadable)
    BY <1>6 DEF EcmpChange, EcmpActions, active
  <2> HIDE DEF add
  <2>2. EcmpCmd("ecmp", active, add).do = "ecmp"
    BY <1>4, <1>5, EcmpFacts
  <2> QED
    BY <2>1, <2>2 DEF Planned
<1>7. ASSUME ~managed, ecmp # {}, unreadable # "abandoned"
      PROVE  \E c \in Planned(unreadable) : c.do = "del_ecmp"
  <2>1. EcmpCmd("del_ecmp", {}, FALSE) \in EcmpChange(unreadable)
    BY <1>7 DEF EcmpChange, EcmpActions
  <2>2. EcmpCmd("del_ecmp", {}, FALSE).do = "del_ecmp"
    BY EcmpFacts
  <2> QED
    BY <2>1, <2>2 DEF Planned
<1> HIDE DEF G
<1> QED
  BY <1>1, <1>2, <1>3, <1>6, <1>7 DEF active, G

\* A command names what it needs.
WellFormed(c) ==
  /\ c.do \notin {"ecmp", "del_ecmp"} => c.index \in Index
  /\ c.do \in {"table", "mark", "del_mark"} => c.up \in Uplink
  /\ c.do \in {"table", "rule"} => c.src \in Address
  /\ c.do = "table" => c.via \in Hop

LEMMA PlannedWellFormed ==
  ASSUME TypeOK, NEW unreadable, NEW c \in Planned(unreadable)
  PROVE  WellFormed(c)
<1> DEFINE G == Gateways(unreadable)
<1>1. c \in Command /\ PlannedAs(c, unreadable)
  BY PlannedFacts
<1>2. G \subseteq Gateway
  BY GatewaysType
<1>3. CASE c.do \in {"table", "rule"} /\ c.index \in Unsettled(unreadable)
  <2>1. c.index \in WantedTables(G)
    BY <1>3 DEF Unsettled
  <2> DEFINE want == WantedTable(G, c.index)
  <2>2. c.index \in Index /\ want.dev \in Uplink /\ want.via \in Hop /\ want.src \in Address
    BY <1>2, <2>1, WantedTableFacts DEF Gateway
  <2>3. c.src = want.src /\ (c.do = "table" => c.up = want.dev /\ c.via = want.via)
    BY <1>1, <1>3 DEF PlannedAs
  <2> HIDE DEF want
  <2> QED
    BY <1>3, <2>2, <2>3 DEF WellFormed
<1>4. CASE c.do \in {"del_rule", "flush"} /\ c.index \in StaleTables(G, unreadable)
  BY <1>4, StaleFacts DEF WellFormed
<1>5. CASE c.do = "mark" /\ [up |-> c.up, index |-> c.index] \in WantedMarks
  BY <1>5, WantedMarksFacts DEF WellFormed
<1>6. CASE c.do \in {"ecmp", "del_ecmp"}
  BY <1>6 DEF WellFormed
<1> QED
  BY <1>1, <1>3, <1>4, <1>5, <1>6 DEF PlannedAs

\* What the last turn takes back.
Withdrawals ==
  UNION {Teardown(g.index, g.via) : g \in {x \in gateways : Usable(x.index)}}

Cleanup ==
  (IF managed THEN {EcmpCmd("del_ecmp", {}, FALSE)} ELSE {})
    \cup Withdrawals
    \cup {Cmd("del_mark", m.up, m.index, Direct, NoAddr) : m \in WantedMarks}

LEMMA CleanupFacts ==
  ASSUME TypeOK
  PROVE  /\ \A c \in Cleanup : /\ c \in Command /\ WellFormed(c)
                               /\ c.do \in {"del_ecmp", "del_rule", "flush", "del_mark"}
         /\ managed => \E c \in Cleanup : c.do = "del_ecmp"
         /\ \A g \in gateways : Usable(g.index) => \A d \in {"del_rule", "flush"} :
              \E c \in Cleanup : c.do = d /\ c.index = g.index
         /\ \A m \in WantedMarks :
              \E c \in Cleanup : c.do = "del_mark" /\ c.up = m.up /\ c.index = m.index
<1> DEFINE e == EcmpCmd("del_ecmp", {}, FALSE)
           M == {Cmd("del_mark", m.up, m.index, Direct, NoAddr) : m \in WantedMarks}
<1>1. e \in Command /\ e.do = "del_ecmp" /\ WellFormed(e)
  BY EcmpFacts DEF WellFormed
<1>2. \A m \in WantedMarks : LET c == Cmd("del_mark", m.up, m.index, Direct, NoAddr) IN
        c \in Command /\ c.do = "del_mark" /\ c.up = m.up /\ c.index = m.index /\ WellFormed(c)
  BY WantedMarksFacts, MarkFacts DEF WellFormed
<1>3. /\ \A c \in M : c \in Command /\ c.do = "del_mark" /\ WellFormed(c)
      /\ \A m \in WantedMarks : \E c \in M : c.do = "del_mark" /\ c.up = m.up /\ c.index = m.index
  BY <1>2
<1>4. \A g \in gateways : g.index \in Index /\ g.via \in Hop
  BY DEF TypeOK, Gateway
<1>5. \A c \in Withdrawals : c \in Command /\ c.do \in {"del_rule", "flush"} /\ WellFormed(c)
  BY <1>4, TeardownFacts DEF Withdrawals, WellFormed
<1>6. ASSUME NEW g \in gateways, Usable(g.index), NEW d \in {"del_rule", "flush"}
      PROVE  \E c \in Withdrawals : c.do = d /\ c.index = g.index
  <2>1. PICK c \in Teardown(g.index, g.via) : c.do = d /\ c.index = g.index
    BY <1>4, TeardownFacts
  <2> QED
    BY <2>1, <1>6 DEF Withdrawals
<1>7. Cleanup = (IF managed THEN {e} ELSE {}) \cup Withdrawals \cup M
  BY DEF Cleanup
<1> HIDE DEF e, M
<1> QED
  BY <1>1, <1>3, <1>5, <1>6, <1>7

-----------------------------------------------------------------------------
(* Types.                                                                   *)

\* Types hold, and every command names what it needs.
TypeInv == TypeOK /\ \A c \in batch : WellFormed(c)

LEMMA TypeInit ==
  ASSUME Init
  PROVE  TypeInv
<1>1. Cardinality(Uplink) \in Nat /\ Cardinality(Uplink) <= MaxIndex /\ MaxIndex \in Nat
  BY RoutingAssumption, FS_CardinalityType
<1>2. used \in 0..MaxIndex /\ changes \in 0..MaxChanges /\ faults \in 0..MaxFaults
  BY <1>1, RoutingAssumption DEF Init
<1>3. index \in [Uplink -> 1..Cardinality(Uplink)]
  BY RoutingAssumption DEF Init
<1>4. 1..Cardinality(Uplink) \subseteq Index \cup {Gone}
  BY <1>1 DEF Index
<1>5. index \in [Uplink -> Index \cup {Gone}]
  BY <1>3, <1>4
<1>6. addr \in [Uplink -> Address \cup {NoAddr}] /\ routes \subseteq Nexthop
  BY DEF Init
<1>7. /\ tables \in [Index -> Content] /\ rules \subseteq [from: Address, index: Index]
      /\ marks \subseteq [up: Uplink, index: Index] /\ ecmp \subseteq Nexthop
  BY DEF Init, Content
<1>8. /\ ifaces \in [Uplink -> Index \cup {Gone}] /\ addrs \in [Index -> Address \cup {NoAddr}]
      /\ stale \in BOOLEAN /\ gateways \subseteq Gateway /\ unhealthy \subseteq Uplink
      /\ batch \subseteq Command
  BY DEF Init, InitMemory
<1>9. managed \in BOOLEAN /\ {failed, disturbed} \subseteq BOOLEAN /\ moved \subseteq Index /\ pc = "idle"
  BY RoutingAssumption DEF Init
<1>10. batch = {}
  BY DEF Init, InitMemory
<1> QED
  BY <1>2, <1>5, <1>6, <1>7, <1>8, <1>9, <1>10 DEF TypeInv, TypeOK

\* What is read of the interfaces.
LEMMA AddrsRead ==
  ASSUME TypeOK,
         addrs' = [i \in Index |-> IF \E u \in Uplink : index[u] = i
                                   THEN addr[CHOOSE u \in Uplink : index[u] = i] ELSE NoAddr]
  PROVE  /\ addrs' \in [Index -> Address \cup {NoAddr}]
         /\ \A i \in Index : \/ addrs'[i] = NoAddr /\ \A u \in Uplink : index[u] # i
                             \/ \E u \in Uplink : index[u] = i /\ addrs'[i] = addr[u]
<1>1. ASSUME NEW i \in Index
      PROVE  \/ addrs'[i] = NoAddr /\ \A u \in Uplink : index[u] # i
             \/ \E u \in Uplink : index[u] = i /\ addrs'[i] = addr[u]
  <2>1. CASE \E u \in Uplink : index[u] = i
    <3> DEFINE w == CHOOSE u \in Uplink : index[u] = i
    <3>1. w \in Uplink /\ index[w] = i
      BY <2>1
    <3>2. addrs'[i] = addr[w]
      BY <2>1
    <3> HIDE DEF w
    <3> QED
      BY <3>1, <3>2
  <2>2. CASE \A u \in Uplink : index[u] # i
    BY <2>2
  <2> QED
    BY <2>1, <2>2
<1>2. \A u \in Uplink : addr[u] \in Address \cup {NoAddr}
  BY DEF TypeOK
<1>3. \A i \in Index : addrs'[i] \in Address \cup {NoAddr}
  BY <1>1, <1>2
<1>4. DOMAIN addrs' = Index /\ addrs' = [i \in Index |-> addrs'[i]]
  OBVIOUS
<1> HIDE DEF Index
<1> QED
  BY <1>1, <1>3, <1>4, Zenon

\* What a command does to what is ours.
LEMMA EffectType ==
  ASSUME TypeOK, NEW c \in Command, WellFormed(c), Effect(c)
  PROVE  /\ tables' \in [Index -> Content] /\ rules' \subseteq [from: Address, index: Index]
         /\ marks' \subseteq [up: Uplink, index: Index] /\ ecmp' \subseteq Nexthop
<1>1. /\ tables \in [Index -> Content] /\ rules \subseteq [from: Address, index: Index]
      /\ marks \subseteq [up: Uplink, index: Index] /\ ecmp \subseteq Nexthop
  BY DEF TypeOK
<1>2. tables' \in [Index -> Content]
  <2>1. CASE c.do = "table"
    <3>1. [dev |-> c.up, via |-> c.via, src |-> c.src] \in Content
      BY <2>1 DEF WellFormed, Content
    <3> QED
      BY <2>1, <3>1, <1>1 DEF Effect
  <2>2. CASE c.do = "flush"
    <3>1. NoTable \in Content
      BY DEF Content
    <3> QED
      BY <2>2, <3>1, <1>1 DEF Effect
  <2> QED
    BY <2>1, <2>2, <1>1 DEF Effect
<1>3. rules' \subseteq [from: Address, index: Index]
  <2>1. CASE c.do = "rule"
    <3>1. [from |-> c.src, index |-> c.index] \in [from: Address, index: Index]
      BY <2>1 DEF WellFormed
    <3> QED
      BY <2>1, <3>1, <1>1 DEF Effect
  <2> QED
    BY <2>1, <1>1 DEF Effect
<1>4. marks' \subseteq [up: Uplink, index: Index]
  <2>1. CASE c.do = "mark"
    <3>1. [up |-> c.up, index |-> c.index] \in [up: Uplink, index: Index]
      BY <2>1 DEF WellFormed
    <3> QED
      BY <2>1, <3>1, <1>1 DEF Effect
  <2> QED
    BY <2>1, <1>1 DEF Effect
<1>5. ecmp' \subseteq Nexthop
  <2>1. c.hops \subseteq Nexthop
    BY DEF Command
  <2> QED
    BY <2>1, <1>1 DEF Effect
<1> QED
  BY <1>2, <1>3, <1>4, <1>5

\* The surroundings keep the types.
LEMMA TypeSurroundings ==
  ASSUME TypeInv, Surroundings
  PROVE  TypeInv'
<1> USE DEF TypeInv
<1>0. /\ Index \subseteq Nat /\ 0 \notin Index /\ \A u \in Uplink : Pool[u] \subseteq Address
      /\ \A u \in Uplink : \A v \in Via[u] : <<u, v>> \in Nexthop
      /\ changes < MaxChanges => changes + 1 \in 0..MaxChanges
      /\ faults < MaxFaults => faults + 1 \in 0..MaxFaults
      /\ NoTable \in Content
  BY RoutingAssumption, Octets DEF TypeOK, Index, Nexthop, Content
<1>1. CASE Crash
  <2>1. faults' \in 0..MaxFaults /\ managed' \in BOOLEAN /\ failed' = TRUE
    BY <1>1, <1>0, RoutingAssumption DEF Crash, Fault
  <2>2. pc' = "idle" /\ batch' = {}
    BY <1>1 DEF Crash
  <2>3. /\ ifaces' \in [Uplink -> Index \cup {Gone}] /\ addrs' \in [Index -> Address \cup {NoAddr}]
        /\ stale' = FALSE /\ gateways' = {} /\ unhealthy' = {}
    BY <1>1 DEF Crash
  <2>4. UNCHANGED <<index, addr, routes, used, moved, tables, rules, marks, ecmp, changes, disturbed>>
    BY <1>1 DEF Crash, links, ours
  <2> QED
    BY <2>1, <2>2, <2>3, <2>4 DEF TypeOK
<1>2. ASSUME NEW u \in Uplink, LinkGone(u)
      PROVE  TypeInv'
  <2>1. changes' \in 0..MaxChanges
    BY <1>2, <1>0 DEF LinkGone, Change
  <2>2. index' \in [Uplink -> Index \cup {Gone}] /\ addr' \in [Uplink -> Address \cup {NoAddr}]
    BY <1>2 DEF LinkGone, TypeOK
  <2>3. tables' \in [Index -> Content]
    BY <1>2, <1>0 DEF LinkGone, TypeOK
  <2>4. routes' \subseteq Nexthop /\ ecmp' \subseteq Nexthop /\ disturbed' = TRUE
    BY <1>2 DEF LinkGone, TypeOK
  <2>5. UNCHANGED <<rules, marks, used, moved, faults, pc, managed, ifaces, addrs, stale, gateways,
                    unhealthy, batch, failed>>
    BY <1>2 DEF LinkGone, memory
  <2> QED
    BY <2>1, <2>2, <2>3, <2>4, <2>5 DEF TypeOK
<1>3. ASSUME NEW u \in Uplink, LinkBack(u)
      PROVE  TypeInv'
  <2>1. changes' \in 0..MaxChanges
    BY <1>3, <1>0 DEF LinkBack, Change
  <2>2. used' \in 0..MaxIndex /\ used + 1 \in Index /\ disturbed' = TRUE
    BY <1>3, RoutingAssumption DEF LinkBack, TypeOK, Index
  <2>3. index' \in [Uplink -> Index \cup {Gone}]
    BY <1>3, <2>2 DEF LinkBack, TypeOK
  <2>4. addr' \in [Uplink -> Address \cup {NoAddr}] /\ routes' \subseteq Nexthop
    BY <1>3, <1>0 DEF LinkBack, TypeOK
  <2>5. UNCHANGED <<tables, rules, marks, ecmp, moved, faults, pc, managed, ifaces, addrs, stale,
                    gateways, unhealthy, batch, failed>>
    BY <1>3 DEF LinkBack, ours, memory
  <2> QED
    BY <2>1, <2>2, <2>3, <2>4, <2>5 DEF TypeOK
<1>4. ASSUME NEW u \in Uplink, AddressChanges(u)
      PROVE  TypeInv'
  <2>1. changes' \in 0..MaxChanges
    BY <1>4, <1>0 DEF AddressChanges, Change
  <2>2. addr' \in [Uplink -> Address \cup {NoAddr}] /\ disturbed' = TRUE /\ moved' \subseteq Index
    BY <1>4, <1>0 DEF AddressChanges, TypeOK
  <2>3. tables' \in [Index -> Content]
    BY <1>4, <1>0 DEF AddressChanges, TypeOK
  <2>4. UNCHANGED <<index, routes, used, rules, marks, ecmp, faults, pc, managed, ifaces, addrs, stale,
                    gateways, unhealthy, batch, failed>>
    BY <1>4 DEF AddressChanges, memory
  <2> QED
    BY <2>1, <2>2, <2>3, <2>4 DEF TypeOK
<1>5. ASSUME NEW u \in Uplink, RouteChanges(u)
      PROVE  TypeInv'
  <2>1. changes' \in 0..MaxChanges
    BY <1>5, <1>0 DEF RouteChanges, Change
  <2>2. routes' \subseteq Nexthop /\ disturbed' = TRUE
    BY <1>5, <1>0 DEF RouteChanges, TypeOK
  <2>3. UNCHANGED <<index, addr, used, moved, tables, rules, marks, ecmp, faults, pc, managed, ifaces,
                    addrs, stale, gateways, unhealthy, batch, failed>>
    BY <1>5 DEF RouteChanges, ours, memory
  <2> QED
    BY <2>1, <2>2, <2>3 DEF TypeOK
<1>6. ASSUME NEW u \in Uplink, HealthTurns(u)
      PROVE  TypeInv'
  <2>1. changes' \in 0..MaxChanges
    BY <1>6, <1>0 DEF HealthTurns, Change
  <2>2. unhealthy' \subseteq Uplink
    BY <1>6 DEF HealthTurns, TypeOK
  <2>3. UNCHANGED <<index, addr, routes, used, moved, tables, rules, marks, ecmp, faults, pc, managed,
                    ifaces, addrs, stale, gateways, batch, failed, disturbed>>
    BY <1>6 DEF HealthTurns, links, ours
  <2> QED
    BY <2>1, <2>2, <2>3 DEF TypeOK
<1> QED
  BY <1>1, <1>2, <1>3, <1>4, <1>5, <1>6 DEF Surroundings

\* The reconciler keeps them.
LEMMA TypeReconciler ==
  ASSUME TypeInv, Reconciler
  PROVE  TypeInv'
<1> USE DEF TypeInv
<1>0. faults < MaxFaults => faults + 1 \in 0..MaxFaults
  BY RoutingAssumption DEF TypeOK
<1>1. CASE ReadLinks
  <2>1. pc' = "read" /\ disturbed' = FALSE
    BY <1>1 DEF ReadLinks
  <2>2. /\ UNCHANGED <<index, addr, routes, used, moved, tables, rules, marks, ecmp, changes, managed,
                       gateways, unhealthy, batch>>
    BY <1>1 DEF ReadLinks, links, ours
  <2>3. /\ ifaces' \in [Uplink -> Index \cup {Gone}] /\ addrs' \in [Index -> Address \cup {NoAddr}]
        /\ stale' \in BOOLEAN /\ failed' \in BOOLEAN /\ faults' \in 0..MaxFaults
    <3>1. CASE /\ ifaces' = index
               /\ addrs' = [i \in Index |-> IF \E u \in Uplink : index[u] = i
                                            THEN addr[CHOOSE u \in Uplink : index[u] = i] ELSE NoAddr]
               /\ stale' = FALSE /\ failed' = FALSE /\ UNCHANGED faults
      BY <3>1, AddrsRead DEF TypeOK
    <3>2. CASE Fault("links") /\ stale' = TRUE /\ failed' = TRUE /\ UNCHANGED <<ifaces, addrs>>
      BY <3>2, <1>0 DEF TypeOK, Fault
    <3> QED
      BY <1>1, <3>1, <3>2 DEF ReadLinks
  <2> QED
    BY <2>1, <2>2, <2>3 DEF TypeOK
<1>2. CASE Plan
  <2>1. PICK unreadable \in {"", "routes", "own", "abandoned", "rules", "tables"} : PlanWith(unreadable)
    BY <1>2, PlanReads
  <2>2. pc' = "run" /\ UNCHANGED <<index, addr, routes, used, moved, tables, rules, marks, ecmp,
                                   changes, managed, ifaces, addrs, stale, disturbed>>
    BY <1>2 DEF Plan, links, ours
  <2>3. gateways' \subseteq Gateway
    BY <2>1, GatewaysType DEF PlanWith
  <2>4. unhealthy' \subseteq Uplink
    BY <2>1 DEF PlanWith, Downs, TypeOK
  <2>5. faults' \in 0..MaxFaults /\ failed' \in BOOLEAN
    BY <2>1, <1>0 DEF PlanWith, TypeOK, Fault
  <2>6. batch' \subseteq Command /\ \A c \in batch' : WellFormed(c)
    BY <2>1, PlannedFacts, PlannedWellFormed DEF PlanWith
  <2> QED
    BY <2>2, <2>3, <2>4, <2>5, <2>6 DEF TypeOK
<1>3. ASSUME NEW c \in batch, Run(c)
      PROVE  TypeInv'
  <2>1. UNCHANGED <<index, addr, routes, used, moved, changes, pc, managed, ifaces, addrs, stale,
                    gateways, unhealthy, disturbed>>
    BY <1>3 DEF Run, links, memory
  <2>2. batch' \subseteq batch
    BY <1>3 DEF Run
  <2>3. faults' \in 0..MaxFaults /\ failed' \in BOOLEAN
    BY <1>3, <1>0 DEF Run, TypeOK, Fault
  <2>4. /\ tables' \in [Index -> Content] /\ rules' \subseteq [from: Address, index: Index]
        /\ marks' \subseteq [up: Uplink, index: Index] /\ ecmp' \subseteq Nexthop
    <3>1. Effect(c) \/ UNCHANGED <<tables, rules, marks, ecmp>>
      BY <1>3 DEF Run, ours
    <3>2. c \in Command /\ WellFormed(c)
      BY <1>3 DEF TypeOK
    <3>3. CASE Effect(c)
      BY <3>2, <3>3, EffectType
    <3>4. CASE UNCHANGED <<tables, rules, marks, ecmp>>
      BY <3>4 DEF TypeOK
    <3> QED
      BY <3>1, <3>3, <3>4
  <2> QED
    BY <2>1, <2>2, <2>3, <2>4 DEF TypeOK
<1>4. CASE PassDone \/ CleanupDone
  <2>1. pc' \in {"idle", "done"}
    BY <1>4 DEF PassDone, CleanupDone
  <2>2. UNCHANGED <<index, addr, routes, used, moved, tables, rules, marks, ecmp, changes, faults,
                    managed, ifaces, addrs, stale, gateways, unhealthy, batch, failed, disturbed>>
    BY <1>4 DEF PassDone, CleanupDone, links, ours, memory
  <2> QED
    BY <2>1, <2>2 DEF TypeOK
<1>5. CASE Shutdown
  <2>1. pc' = "cleanup" /\ failed' = FALSE /\ disturbed' = FALSE /\ batch' = Cleanup
    BY <1>5 DEF Shutdown, Cleanup, Withdrawals
  <2>2. UNCHANGED <<index, addr, routes, used, moved, tables, rules, marks, ecmp, changes, faults,
                    managed, ifaces, addrs, stale, gateways, unhealthy>>
    BY <1>5 DEF Shutdown, links, ours, memory
  <2>3. batch' \subseteq Command /\ \A c \in batch' : WellFormed(c)
    BY <2>1, CleanupFacts
  <2> QED
    BY <2>1, <2>2, <2>3 DEF TypeOK
<1> QED
  BY <1>1, <1>2, <1>3, <1>4, <1>5 DEF Reconciler

LEMMA TypeNext ==
  ASSUME TypeInv, [Next]_vars
  PROVE  TypeInv'
<1>1. CASE UNCHANGED vars
  BY <1>1 DEF vars, links, ours, memory, TypeInv, TypeOK
<1> QED
  BY <1>1, TypeSurroundings, TypeReconciler DEF Next

LEMMA TypeAlways == Spec => []TypeInv
<1>1. Init => TypeInv
  BY TypeInit
<1>2. TypeInv /\ [Next]_vars => TypeInv'
  BY TypeNext
<1> QED
  BY <1>1, <1>2, PTL DEF Spec

\* Whatever the kernel does and whatever fails, the routing of IPv4 keeps its
\* types: no command names an interface, an address or a next hop that cannot be.
THEOREM TypeCorrect == Spec => []TypeOK
<1>1. TypeInv => TypeOK
  BY DEF TypeInv
<1> QED
  BY <1>1, TypeAlways, PTL

-----------------------------------------------------------------------------
(* What a step can do.                                                      *)

\* A step of the surroundings, but for a crash: the process learns nothing of it,
\* and but for a verdict it disturbs the pass.
Beside ==
  /\ UNCHANGED <<rules, marks, faults, pc, managed, ifaces, addrs, stale, gateways, batch, failed>>
  /\ \A i \in Index : tables'[i] = tables[i] \/ tables'[i] = NoTable
  /\ ecmp' = ecmp \/ ecmp' = {}
  /\ moved \subseteq moved'
  /\ \/ disturbed' = TRUE
     \/ UNCHANGED <<index, addr, routes, used, moved, tables, ecmp, disturbed>>
  /\ unhealthy' = unhealthy \/ pc = "idle"

LEMMA BesideStep ==
  ASSUME TypeOK, NEW u \in Uplink,
         LinkGone(u) \/ LinkBack(u) \/ AddressChanges(u) \/ RouteChanges(u) \/ HealthTurns(u)
  PROVE  Beside
<1>1. CASE LinkGone(u)
  BY <1>1, Zenon DEF LinkGone, Beside, memory
<1>2. CASE LinkBack(u)
  BY <1>2, Zenon DEF LinkBack, Beside, memory, ours
<1>3. CASE AddressChanges(u)
  BY <1>3, Zenon DEF AddressChanges, Beside, memory
<1>4. CASE RouteChanges(u)
  BY <1>4, Zenon DEF RouteChanges, Beside, memory, ours
<1>5. CASE HealthTurns(u)
  BY <1>5, Zenon DEF HealthTurns, Beside, links, ours
<1> QED
  BY <1>1, <1>2, <1>3, <1>4, <1>5

\* The steps, those of the surroundings taken together.
LEMMA StepCases ==
  ASSUME TypeOK, [Next]_vars
  PROVE  \/ Crash \/ ReadLinks \/ Plan \/ PassDone \/ Shutdown \/ CleanupDone
         \/ \E c \in batch : Run(c)
         \/ Beside
<1>1. CASE UNCHANGED vars
  BY <1>1, Zenon DEF vars, links, ours, memory, Beside
<1>2. ASSUME NEW u \in Uplink,
             LinkGone(u) \/ LinkBack(u) \/ AddressChanges(u) \/ RouteChanges(u) \/ HealthTurns(u)
      PROVE  Beside
  BY <1>2, BesideStep
<1> QED
  BY <1>1, <1>2, Zenon DEF Next, Surroundings, Reconciler

\* A crash forgets everything.
LEMMA CrashStep ==
  ASSUME Crash
  PROVE  /\ pc' = "idle" /\ gateways' = {} /\ unhealthy' = {} /\ batch' = {} /\ failed' = TRUE /\ stale' = FALSE
         /\ \A u \in Uplink : ifaces'[u] = Gone
         /\ \A i \in Index : addrs'[i] = NoAddr
         /\ UNCHANGED <<index, addr, routes, used, moved, tables, rules, marks, ecmp, disturbed>>
         /\ faults' = faults + 1
  BY DEF Crash, Fault, links, ours

\* A pass reads the interfaces: all of it, or nothing.
LEMMA ReadStep ==
  ASSUME TypeOK, ReadLinks
  PROVE  /\ pc = "idle" /\ pc' = "read" /\ disturbed' = FALSE
         /\ UNCHANGED <<index, addr, routes, used, moved, tables, rules, marks, ecmp, managed,
                        gateways, unhealthy, batch>>
         /\ \/ /\ ifaces' = index /\ stale' = FALSE /\ failed' = FALSE /\ faults' = faults
               /\ \A i \in Index : \/ addrs'[i] = NoAddr /\ \A u \in Uplink : index[u] # i
                                   \/ \E u \in Uplink : index[u] = i /\ addrs'[i] = addr[u]
            \/ /\ stale' = TRUE /\ failed' = TRUE /\ faults' = faults + 1
               /\ UNCHANGED <<ifaces, addrs>>
<1>1. CASE /\ ifaces' = index
           /\ addrs' = [i \in Index |-> IF \E u \in Uplink : index[u] = i
                                        THEN addr[CHOOSE u \in Uplink : index[u] = i] ELSE NoAddr]
           /\ stale' = FALSE /\ failed' = FALSE /\ UNCHANGED faults
  BY <1>1, AddrsRead, Zenon DEF ReadLinks, links, ours
<1>2. CASE Fault("links") /\ stale' = TRUE /\ failed' = TRUE /\ UNCHANGED <<ifaces, addrs>>
  BY <1>2, Zenon DEF ReadLinks, links, ours, Fault
<1> QED
  BY <1>1, <1>2, Zenon DEF ReadLinks

\* Every read was answered.
AllRead == ""

LEMMA AllReadIsNone == AllRead \notin {"routes", "own", "abandoned", "rules", "tables"}
  BY Zenon DEF AllRead

\* A plan changes the kernel in nothing.
LEMMA PlanStep ==
  ASSUME Plan
  PROVE  /\ pc = "read" /\ pc' = "run"
         /\ UNCHANGED <<index, addr, routes, used, moved, tables, rules, marks, ecmp, managed,
                        ifaces, addrs, stale, disturbed>>
         /\ \E unreadable \in {AllRead, "routes", "own", "abandoned", "rules", "tables"} :
              /\ PlanWith(unreadable)
              /\ IF unreadable = AllRead THEN UNCHANGED <<faults, failed>>
                 ELSE faults' = faults + 1 /\ failed' = TRUE
  BY PlanReads, Zenon DEF Plan, PlanWith, Fault, links, ours, AllRead

\* A command is run and does what it is for, or it is refused, or it fails.
LEMMA RunStep ==
  ASSUME NEW c, Run(c)
  PROVE  /\ pc \in {"run", "cleanup"} /\ c \in batch /\ \A d \in batch : Rank[c.do] <= Rank[d.do]
         /\ batch' = batch \ {c}
         /\ UNCHANGED <<index, addr, routes, used, moved, pc, managed, ifaces, addrs, stale,
                        gateways, unhealthy, disturbed>>
         /\ \/ ~Refused(c) /\ Effect(c) /\ UNCHANGED <<faults, failed>>
            \/ Refused(c) /\ UNCHANGED <<tables, rules, marks, ecmp, faults, failed>>
            \/ faults' = faults + 1 /\ failed' = TRUE /\ UNCHANGED <<tables, rules, marks, ecmp>>
  BY DEF Run, Due, Fault, links, ours, memory

\* What there is afterwards was there before, or is what the command is for.
LEMMA RunLeaves ==
  ASSUME TypeInv, NEW c \in batch, Run(c)
  PROVE  /\ \A r \in rules' : r \in rules \/ (c.do = "rule" /\ r = [from |-> c.src, index |-> c.index])
         /\ \A m \in marks' : m \in marks \/ (c.do = "mark" /\ m = [up |-> c.up, index |-> c.index])
         /\ \A i \in Index : \/ tables'[i] = tables[i]
                             \/ c.do = "flush" /\ c.index = i /\ tables'[i] = NoTable
                             \/ /\ c.do = "table" /\ c.index = i
                                /\ tables'[i] = [dev |-> c.up, via |-> c.via, src |-> c.src]
<1>1. tables \in [Index -> Content]
  BY DEF TypeInv, TypeOK
<1>2. Effect(c) \/ UNCHANGED <<tables, rules, marks, ecmp>>
  BY RunStep
<1>3. CASE Effect(c)
  BY <1>1, <1>3 DEF Effect
<1>4. CASE UNCHANGED <<tables, rules, marks, ecmp>>
  BY <1>4
<1> QED
  BY <1>2, <1>3, <1>4

\* The last turn, and the ends of a pass and of it.
LEMMA EndSteps ==
  /\ PassDone \/ CleanupDone =>
       /\ batch = {}
       /\ UNCHANGED <<index, addr, routes, used, moved, tables, rules, marks, ecmp, faults, managed,
                      ifaces, addrs, stale, gateways, unhealthy, batch, failed, disturbed>>
  /\ PassDone => pc = "run" /\ pc' = "idle"
  /\ CleanupDone => pc = "cleanup" /\ pc' = "done"
  /\ Shutdown =>
       /\ pc = "idle" /\ pc' = "cleanup" /\ batch' = Cleanup /\ failed' = FALSE /\ disturbed' = FALSE
       /\ UNCHANGED <<index, addr, routes, used, moved, tables, rules, marks, ecmp, faults, managed,
                      ifaces, addrs, stale, gateways, unhealthy>>
  BY DEF PassDone, CleanupDone, Shutdown, Cleanup, Withdrawals, links, ours, memory

-----------------------------------------------------------------------------
(* What is always so of the memory, the commands and what is installed.     *)

\* An interface has an address of its pool or none, and none when it is gone.
Addressed ==
  \A u \in Uplink : addr[u] \in Pool[u] \cup {NoAddr} /\ (index[u] = Gone => addr[u] = NoAddr)

\* No gateways are kept of a family that is not observed.
Unobserved == ~Observed => gateways = {}

\* Only tables with a usable number are installed, and only marks of steered uplinks.
UsableOnly ==
  /\ \A r \in rules : Usable(r.index)
  /\ \A m \in marks : Usable(m.index) /\ m.up \in Steered
  /\ \A c \in batch : c.do \in {"table", "rule", "mark"} => Usable(c.index)
  /\ \A c \in batch : c.do = "mark" => c.up \in Steered

\* Commands wait only while they are run, a pass's or the last turn's.
Waiting ==
  /\ pc \in {"idle", "read", "done"} => batch = {}
  /\ pc = "run" => \A c \in batch : c.do # "del_mark"
  /\ pc = "cleanup" => \A c \in batch : c.do \in {"del_ecmp", "del_rule", "flush", "del_mark"}

Kept == Addressed /\ Unobserved /\ UsableOnly /\ Waiting

KeptInv == TypeInv /\ Kept

LEMMA KeptInit ==
  ASSUME Init
  PROVE  Kept
<1>1. \A u \in Uplink : addr[u] \in Pool[u]
  BY DEF Init
<1>2. index \in [Uplink -> 1..Cardinality(Uplink)]
  BY RoutingAssumption DEF Init
<1>3. \A u \in Uplink : index[u] # Gone
  BY <1>2, FS_CardinalityType, RoutingAssumption DEF Gone
<1>4. rules = {} /\ marks = {} /\ batch = {} /\ gateways = {} /\ pc = "idle"
  BY DEF Init, InitMemory
<1> QED
  BY <1>1, <1>3, <1>4 DEF Kept, Addressed, Unobserved, UsableOnly, Waiting

LEMMA AddressedNext ==
  ASSUME TypeInv, Addressed, [Next]_vars
  PROVE  Addressed'
<1> USE DEF TypeInv, TypeOK
<1>1. ASSUME NEW u \in Uplink, LinkGone(u)
      PROVE  Addressed'
  BY <1>1 DEF LinkGone, Addressed
<1>2. ASSUME NEW u \in Uplink, LinkBack(u)
      PROVE  Addressed'
  <2>1. PICK a \in Pool[u] : addr' = [addr EXCEPT ![u] = a]
    BY <1>2 DEF LinkBack
  <2>2. used + 1 # Gone
    BY DEF Gone
  <2>3. index' = [index EXCEPT ![u] = used + 1]
    BY <1>2 DEF LinkBack
  <2> QED
    BY <2>1, <2>2, <2>3 DEF Addressed
<1>3. ASSUME NEW u \in Uplink, AddressChanges(u)
      PROVE  Addressed'
  BY <1>3 DEF AddressChanges, Addressed
<1>4. CASE UNCHANGED <<index, addr>>
  BY <1>4 DEF Addressed
<1>5. ASSUME NEW u \in Uplink, RouteChanges(u) \/ HealthTurns(u)
      PROVE  UNCHANGED <<index, addr>>
  BY <1>5 DEF RouteChanges, HealthTurns, links
<1>6. Reconciler \/ Crash \/ UNCHANGED vars => UNCHANGED <<index, addr>>
  BY CrashStep, ReadStep, PlanStep, RunStep, EndSteps DEF Reconciler, vars, links
<1> QED
  BY <1>1, <1>2, <1>3, <1>4, <1>5, <1>6, Zenon DEF Next, Surroundings

LEMMA UnobservedNext ==
  ASSUME TypeInv, Unobserved, [Next]_vars
  PROVE  Unobserved'
<1>1. CASE Plan
  <2>1. PICK unreadable : PlanWith(unreadable)
    BY <1>1, PlanStep
  <2>2. managed' = managed
    BY <1>1, PlanStep
  <2> QED
    BY <2>1, <2>2 DEF Unobserved, Observed, PlanWith, Gateways
<1>2. CASE Crash
  BY <1>2, CrashStep DEF Unobserved
<1>3. CASE UNCHANGED <<managed, gateways>>
  BY <1>3 DEF Unobserved, Observed
<1>4. ReadLinks \/ PassDone \/ Shutdown \/ CleanupDone \/ (\E c \in batch : Run(c)) \/ Beside
        => UNCHANGED <<managed, gateways>>
  BY ReadStep, EndSteps, RunStep DEF Beside, TypeInv
<1> QED
  BY <1>1, <1>2, <1>3, <1>4, StepCases DEF TypeInv

LEMMA UsableOnlyNext ==
  ASSUME TypeInv, UsableOnly, [Next]_vars
  PROVE  UsableOnly'
<1>1. CASE Plan
  <2>1. PICK unreadable : PlanWith(unreadable)
    BY <1>1, PlanStep
  <2> DEFINE G == Gateways(unreadable)
  <2>2. G \subseteq Gateway
    BY GatewaysType DEF TypeInv
  <2>3. ASSUME NEW c \in batch'
        PROVE  /\ c.do \in {"table", "rule", "mark"} => Usable(c.index)
               /\ c.do = "mark" => c.up \in Steered
    <3>1. PlannedAs(c, unreadable)
      BY <2>1, <2>3, PlannedFacts DEF PlanWith, TypeInv
    <3>2. CASE c.do \in {"table", "rule"} /\ c.index \in Unsettled(unreadable)
      <4>1. c.index \in WantedTables(G)
        BY <3>2 DEF Unsettled
      <4> QED
        BY <3>2, <4>1 DEF WantedTables
    <3>3. CASE c.do = "mark" /\ [up |-> c.up, index |-> c.index] \in WantedMarks
      BY <3>3, WantedMarksFacts DEF TypeInv
    <3> QED
      BY <3>1, <3>2, <3>3 DEF PlannedAs
  <2>4. UNCHANGED <<rules, marks>>
    BY <1>1, PlanStep
  <2> QED
    BY <2>3, <2>4 DEF UsableOnly
<1>2. ASSUME NEW c \in batch, Run(c)
      PROVE  UsableOnly'
  <2>1. batch' \subseteq batch
    BY <1>2, RunStep
  <2>2. /\ \A r \in rules' : r \in rules \/ (c.do = "rule" /\ r = [from |-> c.src, index |-> c.index])
        /\ \A m \in marks' : m \in marks \/ (c.do = "mark" /\ m = [up |-> c.up, index |-> c.index])
    BY <1>2, RunLeaves
  <2> QED
    BY <2>1, <2>2 DEF UsableOnly
<1>3. CASE Crash
  BY <1>3, CrashStep DEF UsableOnly
<1>4. CASE Shutdown
  <2>1. \A c \in batch' : c.do \in {"del_ecmp", "del_rule", "flush", "del_mark"}
    BY <1>4, EndSteps, CleanupFacts DEF TypeInv
  <2> QED
    BY <1>4, <2>1, EndSteps DEF UsableOnly
<1>5. CASE UNCHANGED <<rules, marks, batch>>
  BY <1>5 DEF UsableOnly
<1>6. ReadLinks \/ PassDone \/ CleanupDone \/ Beside => UNCHANGED <<rules, marks, batch>>
  BY ReadStep, EndSteps DEF Beside, TypeInv
<1> QED
  BY <1>1, <1>2, <1>3, <1>4, <1>5, <1>6, StepCases DEF TypeInv

LEMMA WaitingNext ==
  ASSUME TypeInv, Waiting, [Next]_vars
  PROVE  Waiting'
<1>1. CASE Plan
  <2>1. PICK unreadable : PlanWith(unreadable)
    BY <1>1, PlanStep
  <2>2. \A c \in batch' : c.do # "del_mark"
    BY <2>1, PlannedFacts DEF PlanWith, TypeInv, PlannedAs
  <2> QED
    BY <1>1, <2>2, PlanStep DEF Waiting
<1>2. ASSUME NEW c \in batch, Run(c)
      PROVE  Waiting'
  BY <1>2, RunStep DEF Waiting
<1>3. CASE Crash
  BY <1>3, CrashStep DEF Waiting
<1>4. CASE Shutdown
  BY <1>4, EndSteps, CleanupFacts DEF Waiting, TypeInv
<1>5. CASE ReadLinks
  BY <1>5, ReadStep DEF Waiting, TypeInv
<1>6. CASE PassDone \/ CleanupDone
  BY <1>6, EndSteps DEF Waiting
<1>7. CASE Beside
  BY <1>7 DEF Beside, Waiting
<1> QED
  BY <1>1, <1>2, <1>3, <1>4, <1>5, <1>6, <1>7, StepCases DEF TypeInv

LEMMA KeptAlways == Spec => []KeptInv
<1>1. Init => KeptInv
  BY TypeInit, KeptInit DEF KeptInv
<1>2. KeptInv /\ [Next]_vars => KeptInv'
  BY TypeNext, AddressedNext, UnobservedNext, UsableOnlyNext, WaitingNext DEF KeptInv, Kept
<1> QED
  BY <1>1, <1>2, PTL DEF Spec

-----------------------------------------------------------------------------
(* Whose an index is.                                                       *)

\* own[i] is the uplink that index i was given to, 0 before it is given out: what is
\* known of an index, installed under it or about to be is that uplink's.
Owned(own) ==
  /\ own \in [Index -> Uplink \cup {0}]
  /\ \A i \in Index : i > used => own[i] = 0
  /\ \A u \in Uplink : /\ index[u] # Gone => own[index[u]] = u
                       /\ ifaces[u] # Gone => own[ifaces[u]] = u
  /\ \A i \in Index : addrs[i] # NoAddr => own[i] # 0 /\ addrs[i] \in Pool[own[i]]
  /\ \A g \in gateways : own[g.index] = g.up
  /\ \A i \in Index : tables[i] # NoTable => own[i] = tables[i].dev /\ tables[i].src \in Pool[own[i]]
  /\ \A r \in rules : own[r.index] # 0
  /\ \A m \in marks : own[m.index] = m.up
  /\ \A c \in batch : /\ c.do \in {"table", "rule"} => own[c.index] # 0 /\ c.src \in Pool[own[c.index]]
                      /\ c.do \in {"table", "mark"} => own[c.index] = c.up

OneOwner == \E own \in [Index -> Uplink \cup {0}] : Owned(own)

LEMMA OwnedInit ==
  ASSUME Init
  PROVE  OneOwner
<1> DEFINE own == [i \in Index |-> IF \E u \in Uplink : index[u] = i
                                   THEN CHOOSE u \in Uplink : index[u] = i ELSE 0]
<1>1. index \in [Uplink -> 1..Cardinality(Uplink)] /\ used = Cardinality(Uplink) /\ used \in Nat
  BY RoutingAssumption, FS_CardinalityType DEF Init
<1>2. \A u, w \in Uplink : u # w => index[u] # index[w]
  BY RoutingAssumption DEF Init
<1>3. used <= MaxIndex /\ MaxIndex \in Nat
  BY RoutingAssumption DEF Init
<1>4. \A u \in Uplink : index[u] \in Index /\ index[u] <= used
  BY <1>1, <1>3 DEF Index
<1>5. \A i \in Index : \/ own[i] = 0 /\ \A u \in Uplink : index[u] # i
                       \/ own[i] \in Uplink /\ index[own[i]] = i
  <2> TAKE i \in Index
  <2>1. CASE \E u \in Uplink : index[u] = i
    <3> DEFINE w == CHOOSE u \in Uplink : index[u] = i
    <3>1. w \in Uplink /\ index[w] = i
      BY <2>1
    <3>2. own[i] = w
      BY <2>1
    <3> HIDE DEF w
    <3> QED
      BY <3>1, <3>2
  <2>2. CASE \A u \in Uplink : index[u] # i
    BY <2>2
  <2> QED
    BY <2>1, <2>2
<1>6. own \in [Index -> Uplink \cup {0}]
  <2>1. \A i \in Index : own[i] \in Uplink \cup {0}
    BY <1>5
  <2>2. own = [i \in Index |-> own[i]]
    OBVIOUS
  <2> QED
    BY <2>1, <2>2, Zenon
<1> HIDE DEF own
<1>7. \A i \in Index : i > used => own[i] = 0
  BY <1>4, <1>5, <1>1 DEF Index
<1>8. \A u \in Uplink : own[index[u]] = u
  BY <1>2, <1>4, <1>5
<1>9. /\ \A u \in Uplink : ifaces[u] = Gone
      /\ \A i \in Index : addrs[i] = NoAddr /\ tables[i] = NoTable
      /\ gateways = {} /\ rules = {} /\ marks = {} /\ batch = {}
  BY DEF Init, InitMemory
<1> QED
  BY <1>6, <1>7, <1>8, <1>9 DEF OneOwner, Owned

LEMMA GatewaysAreOwned ==
  ASSUME TypeOK, NEW own, Owned(own), NEW unreadable
  PROVE  \A g \in Gateways(unreadable) : own[g.index] = g.up
<1>1. \A n \in routes \cup ecmp : n[1] \in Uplink
  BY DEF TypeOK, Nexthop
<1>2. Foreign(unreadable) \subseteq routes \cup ecmp
  BY DEF Foreign
<1> QED
  BY <1>1, <1>2 DEF Gateways, Owned

\* What a table is wanted to be like is its owner's.
LEMMA WantedIsOwned ==
  ASSUME TypeOK, NEW own, Owned(own), NEW unreadable, NEW i \in WantedTables(Gateways(unreadable))
  PROVE  LET G == Gateways(unreadable) IN
         /\ \A g \in G : own[g.index] = g.up
         /\ own[i] # 0 /\ WantedTable(G, i).src = addrs[i] /\ addrs[i] \in Pool[own[i]]
         /\ WantedTable(G, i).dev = own[i]
<1> DEFINE G == Gateways(unreadable)
<1>1. G \subseteq Gateway
  BY GatewaysType
<1>2. \A g \in G : own[g.index] = g.up
  BY GatewaysAreOwned
<1>3. /\ i \in Index /\ addrs[i] \in Address
      /\ \E g \in G : /\ g.index = i
                      /\ WantedTable(G, i) = [dev |-> g.up, via |-> g.via, src |-> addrs[i]]
  BY <1>1, WantedTableFacts
<1>4. addrs[i] # NoAddr
  BY DEF WantedTables
<1> HIDE DEF G
<1> QED
  BY <1>2, <1>3, <1>4 DEF G, Owned

LEMMA OwnedSurroundings ==
  ASSUME KeptInv, NEW own, Owned(own), Surroundings
  PROVE  OneOwner'
<1> USE DEF KeptInv, TypeInv
<1>0. own \in [Index -> Uplink \cup {0}] /\ \A u \in Uplink : u # 0
  BY Octets DEF Owned
<1>1. CASE Crash
  <2>1. Owned(own)'
    BY <1>1, CrashStep DEF Owned
  <2> QED
    BY <1>0, <2>1 DEF OneOwner
<1>2. ASSUME NEW u \in Uplink, LinkGone(u)
      PROVE  OneOwner'
  <2>1. Beside /\ UNCHANGED used
    BY <1>2, BesideStep DEF LinkGone
  <2>2. \A w \in Uplink : index'[w] = Gone \/ index'[w] = index[w]
    BY <1>2 DEF LinkGone, TypeOK
  <2>3. Owned(own)'
    BY <2>1, <2>2 DEF Beside, Owned
  <2> QED
    BY <1>0, <2>3 DEF OneOwner
<1>3. ASSUME NEW u \in Uplink, LinkBack(u)
      PROVE  OneOwner'
  <2>1. /\ Beside /\ UNCHANGED tables /\ used' = used + 1
        /\ index' = [index EXCEPT ![u] = used + 1]
    BY <1>3, BesideStep DEF LinkBack, ours
  <2>2. used \in Nat /\ used + 1 \in Index /\ index \in [Uplink -> Index \cup {Gone}]
    BY <1>3, RoutingAssumption DEF LinkBack, TypeOK, Index
  <2>3. PICK n \in Index : n = used + 1
    BY <2>2
  <2> DEFINE new == [own EXCEPT ![n] = u]
  <2>4. own[n] = 0 /\ new \in [Index -> Uplink \cup {0}] /\ new[n] = u
    BY <1>0, <2>2, <2>3 DEF Owned
  <2>5. \A i \in Index : own[i] # 0 => new[i] = own[i]
    BY <1>0, <2>4
  <2>6. \A i \in Index : i > used' => new[i] = 0
    BY <1>0, <2>1, <2>2, <2>3 DEF Owned, Index
  <2> HIDE DEF new
  <2>7. UNCHANGED <<rules, marks, ifaces, addrs, gateways, batch, tables>>
    BY <2>1 DEF Beside
  <2>8. \A w \in Uplink : /\ index'[w] # Gone => new[index'[w]] = w
                          /\ ifaces'[w] # Gone => new[ifaces'[w]] = w
    <3> TAKE w \in Uplink
    <3>1. ifaces[w] # Gone => ifaces[w] \in Index /\ own[ifaces[w]] = w
      BY DEF Owned, TypeOK
    <3>2. w # u /\ index[w] # Gone => index[w] \in Index /\ own[index[w]] = w
      BY <2>2 DEF Owned
    <3> QED
      BY <1>0, <2>1, <2>2, <2>3, <2>4, <2>5, <2>7, <3>1, <3>2
  <2>9. \A i \in Index : addrs'[i] # NoAddr => new[i] # 0 /\ addrs'[i] \in Pool[new[i]]
    BY <2>5, <2>7 DEF Owned
  <2>10. \A g \in gateways' : new[g.index] = g.up
    BY <1>0, <2>5, <2>7 DEF Owned, TypeOK, Gateway
  <2>11. \A i \in Index : tables'[i] # NoTable =>
           new[i] = tables'[i].dev /\ tables'[i].src \in Pool[new[i]]
    <3>1. \A i \in Index : tables[i] # NoTable => tables[i].dev # 0
      BY <1>0 DEF TypeOK, Content
    <3> QED
      BY <2>5, <2>7, <3>1 DEF Owned
  <2>12. /\ \A r \in rules' : new[r.index] # 0
         /\ \A m \in marks' : new[m.index] = m.up
    BY <1>0, <2>5, <2>7 DEF Owned, TypeOK
  <2>13. \A c \in batch' : /\ c.do \in {"table", "rule"} => new[c.index] # 0 /\ c.src \in Pool[new[c.index]]
                           /\ c.do \in {"table", "mark"} => new[c.index] = c.up
    BY <1>0, <2>5, <2>7 DEF Owned, WellFormed
  <2>14. Owned(new)'
    BY <2>4, <2>6, <2>8, <2>9, <2>10, <2>11, <2>12, <2>13, Zenon DEF Owned
  <2> QED
    BY <2>4, <2>14, Zenon DEF OneOwner
<1>4. ASSUME NEW u \in Uplink, AddressChanges(u) \/ RouteChanges(u) \/ HealthTurns(u)
      PROVE  OneOwner'
  <2>1. Beside /\ UNCHANGED <<used, index>>
    BY <1>4, BesideStep DEF AddressChanges, RouteChanges, HealthTurns, links
  <2>2. Owned(own)'
    BY <2>1 DEF Beside, Owned
  <2> QED
    BY <1>0, <2>2 DEF OneOwner
<1> QED
  BY <1>1, <1>2, <1>3, <1>4 DEF Surroundings

LEMMA OwnedReconciler ==
  ASSUME KeptInv, NEW own, Owned(own), Reconciler
  PROVE  OneOwner'
<1> USE DEF KeptInv, TypeInv
<1>0. own \in [Index -> Uplink \cup {0}] /\ \A u \in Uplink : u # 0
  BY Octets DEF Owned
<1> SUFFICES Owned(own)'
  BY <1>0 DEF OneOwner
<1>1. CASE ReadLinks
  <2>1. \A u \in Uplink : index[u] # Gone => own[index[u]] = u /\ index[u] \in Index
    BY DEF Owned, TypeOK
  <2>2. \A u \in Uplink : addr[u] \in Pool[u] \cup {NoAddr}
    BY DEF Kept, Addressed
  <2>3. \A i \in Index : addrs'[i] # NoAddr => own[i] # 0 /\ addrs'[i] \in Pool[own[i]]
    <3> TAKE i \in Index
    <3>1. ASSUME NEW u \in Uplink, index[u] = i, addrs'[i] = addr[u], addrs'[i] # NoAddr
          PROVE  own[i] # 0 /\ addrs'[i] \in Pool[own[i]]
      <4>1. index[u] # Gone
        BY <3>1 DEF Index, Gone
      <4> QED
        BY <1>0, <2>1, <2>2, <3>1, <4>1
    <3>2. addrs' = addrs => (addrs'[i] # NoAddr => own[i] # 0 /\ addrs'[i] \in Pool[own[i]])
      BY DEF Owned
    <3> QED
      BY <1>1, ReadStep, <3>1, <3>2
  <2>4. \A u \in Uplink : ifaces'[u] # Gone => own[ifaces'[u]] = u
    BY <1>1, <2>1, ReadStep DEF Owned
  <2>5. UNCHANGED <<used, index, gateways, tables, rules, marks, batch>>
    BY <1>1, ReadStep
  <2> QED
    BY <2>3, <2>4, <2>5 DEF Owned
<1>2. CASE Plan
  <2>1. PICK unreadable : PlanWith(unreadable)
    BY <1>2, PlanStep
  <2> DEFINE G == Gateways(unreadable)
  <2>2. UNCHANGED <<used, index, ifaces, addrs, tables, rules, marks>>
    BY <1>2, PlanStep
  <2>3. \A g \in gateways' : own[g.index] = g.up
    BY <2>1, GatewaysAreOwned DEF PlanWith
  <2>4. ASSUME NEW c \in batch'
        PROVE  /\ c.do \in {"table", "rule"} => own[c.index] # 0 /\ c.src \in Pool[own[c.index]]
               /\ c.do \in {"table", "mark"} => own[c.index] = c.up
    <3>1. PlannedAs(c, unreadable)
      BY <2>1, <2>4, PlannedFacts DEF PlanWith
    <3>2. CASE c.do \in {"table", "rule"} /\ c.index \in Unsettled(unreadable)
      <4>1. c.index \in WantedTables(G)
        BY <3>2 DEF Unsettled
      <4> DEFINE want == WantedTable(G, c.index)
      <4>2. own[c.index] # 0 /\ want.src \in Pool[own[c.index]] /\ want.dev = own[c.index]
        BY <4>1, WantedIsOwned
      <4>3. c.src = want.src /\ (c.do = "table" => c.up = want.dev)
        BY <3>1, <3>2 DEF PlannedAs
      <4> HIDE DEF want
      <4> QED
        BY <3>2, <4>2, <4>3
    <3>3. CASE c.do = "mark" /\ [up |-> c.up, index |-> c.index] \in WantedMarks
      BY <3>3, WantedMarksFacts DEF Owned, Index, Gone
    <3> QED
      BY <3>1, <3>2, <3>3 DEF PlannedAs
  <2> QED
    BY <2>2, <2>3, <2>4 DEF Owned
<1>3. ASSUME NEW c \in batch, Run(c)
      PROVE  Owned(own)'
  <2>1. batch' \subseteq batch /\ UNCHANGED <<used, index, ifaces, addrs, gateways>>
    BY <1>3, RunStep
  <2>2. /\ \A r \in rules' : r \in rules \/ (c.do = "rule" /\ r = [from |-> c.src, index |-> c.index])
        /\ \A m \in marks' : m \in marks \/ (c.do = "mark" /\ m = [up |-> c.up, index |-> c.index])
        /\ \A i \in Index : \/ tables'[i] = tables[i]
                            \/ c.do = "flush" /\ c.index = i /\ tables'[i] = NoTable
                            \/ /\ c.do = "table" /\ c.index = i
                               /\ tables'[i] = [dev |-> c.up, via |-> c.via, src |-> c.src]
    BY <1>3, RunLeaves
  <2>3. \A i \in Index : tables'[i] # NoTable =>
          own[i] = tables'[i].dev /\ tables'[i].src \in Pool[own[i]]
    BY <2>2 DEF Owned
  <2>4. /\ \A r \in rules' : own[r.index] # 0
        /\ \A m \in marks' : own[m.index] = m.up
    BY <2>2 DEF Owned
  <2> QED
    BY <2>1, <2>3, <2>4 DEF Owned
<1>4. CASE PassDone \/ CleanupDone
  BY <1>4, EndSteps DEF Owned
<1>5. CASE Shutdown
  <2>1. \A c \in batch' : c.do \in {"del_ecmp", "del_rule", "flush", "del_mark"}
    BY <1>5, EndSteps, CleanupFacts
  <2> QED
    BY <1>5, <2>1, EndSteps DEF Owned
<1> QED
  BY <1>1, <1>2, <1>3, <1>4, <1>5 DEF Reconciler

LEMMA OwnedNext ==
  ASSUME KeptInv, OneOwner, [Next]_vars
  PROVE  OneOwner'
<1>1. PICK own \in [Index -> Uplink \cup {0}] : Owned(own)
  BY DEF OneOwner
<1>2. CASE UNCHANGED vars
  BY <1>2 DEF vars, links, ours, memory, OneOwner, Owned
<1> QED
  BY <1>1, <1>2, OwnedSurroundings, OwnedReconciler DEF Next

\* As long as its address has not been replaced an index has one: the one it has is the
\* one that was read and the one its rules are from, those to come as well.
Homes(home) ==
  /\ home \in [Index -> Address \cup {NoAddr}]
  /\ \A i \in Index : i > used => home[i] = NoAddr
  /\ \A u \in Uplink : index[u] # Gone /\ index[u] \notin moved => addr[u] = home[index[u]]
  /\ \A i \in Index \ moved : addrs[i] # NoAddr => addrs[i] = home[i]
  /\ \A r \in rules : r.index \notin moved => r.from = home[r.index]
  /\ \A c \in batch : c.do = "rule" /\ c.index \notin moved => c.src = home[c.index]

OneAddress == \E home \in [Index -> Address \cup {NoAddr}] : Homes(home)

OwnerInv == KeptInv /\ OneOwner

LEMMA HomesInit ==
  ASSUME Init
  PROVE  OneAddress
<1> DEFINE home == [i \in Index |-> IF \E u \in Uplink : index[u] = i
                                    THEN addr[CHOOSE u \in Uplink : index[u] = i] ELSE NoAddr]
<1>1. index \in [Uplink -> 1..Cardinality(Uplink)] /\ used = Cardinality(Uplink) /\ used \in Nat
  BY RoutingAssumption, FS_CardinalityType DEF Init
<1>2. \A u, w \in Uplink : u # w => index[u] # index[w]
  BY RoutingAssumption DEF Init
<1>3. used <= MaxIndex /\ MaxIndex \in Nat /\ \A u \in Uplink : addr[u] \in Address
  BY RoutingAssumption DEF Init
<1>4. \A u \in Uplink : index[u] \in Index /\ index[u] <= used
  BY <1>1, <1>3 DEF Index
<1>5. \A i \in Index : \/ home[i] = NoAddr /\ \A u \in Uplink : index[u] # i
                       \/ \E u \in Uplink : index[u] = i /\ home[i] = addr[u]
  <2> TAKE i \in Index
  <2>1. CASE \E u \in Uplink : index[u] = i
    <3> DEFINE w == CHOOSE u \in Uplink : index[u] = i
    <3>1. w \in Uplink /\ index[w] = i
      BY <2>1
    <3>2. home[i] = addr[w]
      BY <2>1
    <3> HIDE DEF w
    <3> QED
      BY <3>1, <3>2
  <2>2. CASE \A u \in Uplink : index[u] # i
    BY <2>2
  <2> QED
    BY <2>1, <2>2
<1>6. home \in [Index -> Address \cup {NoAddr}]
  <2>1. \A i \in Index : home[i] \in Address \cup {NoAddr}
    BY <1>3, <1>5
  <2>2. home = [i \in Index |-> home[i]]
    OBVIOUS
  <2> QED
    BY <2>1, <2>2, Zenon
<1> HIDE DEF home
<1>7. \A i \in Index : i > used => home[i] = NoAddr
  BY <1>4, <1>5, <1>1 DEF Index
<1>8. \A u \in Uplink : addr[u] = home[index[u]]
  BY <1>2, <1>4, <1>5
<1>9. (\A i \in Index : addrs[i] = NoAddr) /\ rules = {} /\ batch = {}
  BY DEF Init, InitMemory
<1> QED
  BY <1>6, <1>7, <1>8, <1>9 DEF OneAddress, Homes

\* No interface has an index that has not been given out.
LEMMA Fresh ==
  ASSUME OwnerInv
  PROVE  \A u \in Uplink : index[u] # Gone => index[u] \in Index /\ index[u] <= used
<1>1. PICK own \in [Index -> Uplink \cup {0}] : Owned(own)
  BY DEF OwnerInv, OneOwner
<1> QED
  BY <1>1, Octets DEF Owned, OwnerInv, KeptInv, TypeInv, TypeOK, Index

\* An index is one interface's at a time.
LEMMA OneInterface ==
  ASSUME OwnerInv
  PROVE  \A u, w \in Uplink : index[u] # Gone /\ index[u] = index[w] => u = w
<1>1. PICK own \in [Index -> Uplink \cup {0}] : Owned(own)
  BY DEF OwnerInv, OneOwner
<1> QED
  BY <1>1 DEF Owned

LEMMA HomesSurroundings ==
  ASSUME OwnerInv, OneAddress, Surroundings
  PROVE  OneAddress'
<1> USE DEF OwnerInv, KeptInv, TypeInv
<1>1. PICK home \in [Index -> Address \cup {NoAddr}] : Homes(home)
  BY DEF OneAddress
<1>2. CASE Crash
  <2>1. Homes(home)'
    BY <1>1, <1>2, CrashStep DEF Homes
  <2> QED
    BY <1>1, <2>1 DEF OneAddress
<1>3. ASSUME NEW u \in Uplink, LinkGone(u)
      PROVE  OneAddress'
  <2>1. Beside /\ UNCHANGED used
    BY <1>3, BesideStep DEF LinkGone
  <2>2. \A w \in Uplink : index'[w] = Gone \/ (index'[w] = index[w] /\ addr'[w] = addr[w])
    BY <1>3 DEF LinkGone, TypeOK
  <2>3. Homes(home)'
    BY <1>1, <2>1, <2>2 DEF Beside, Homes
  <2> QED
    BY <1>1, <2>3 DEF OneAddress
<1>4. ASSUME NEW u \in Uplink, LinkBack(u)
      PROVE  OneAddress'
  <2>1. PICK a \in Pool[u] : addr' = [addr EXCEPT ![u] = a]
    BY <1>4 DEF LinkBack
  <2>2. /\ Beside /\ used' = used + 1
        /\ index' = [index EXCEPT ![u] = used + 1]
    BY <1>4, BesideStep DEF LinkBack
  <2>3. used \in Nat /\ used + 1 \in Index /\ a \in Address
    BY <1>4, RoutingAssumption, Octets DEF LinkBack, TypeOK, Index
  <2>4. PICK n \in Index : n = used + 1
    BY <2>3
  <2> DEFINE new == [home EXCEPT ![n] = a]
  <2>5. home[n] = NoAddr /\ new \in [Index -> Address \cup {NoAddr}] /\ new[n] = a
    BY <1>1, <2>3, <2>4 DEF Homes
  <2>6. \A i \in Index : i # n => new[i] = home[i]
    BY <1>1
  <2> HIDE DEF new
  <2>7. UNCHANGED <<rules, addrs, batch, moved>>
    BY <1>4 DEF LinkBack, ours, memory
  <2>8. \A i \in Index : i > used' => new[i] = NoAddr
    BY <1>1, <2>2, <2>3, <2>4, <2>6 DEF Homes, Index
  <2>9. \A w \in Uplink : index'[w] # Gone /\ index'[w] \notin moved' => addr'[w] = new[index'[w]]
    <3> TAKE w \in Uplink
    <3>1. CASE w = u
      BY <3>1, <2>1, <2>2, <2>3, <2>4, <2>5 DEF TypeOK
    <3>2. CASE w # u
      <4>1. index'[w] = index[w] /\ addr'[w] = addr[w]
        BY <3>2, <2>1, <2>2 DEF TypeOK
      <4>2. index[w] # Gone => index[w] \in Index /\ index[w] <= used
        BY Fresh
      <4>3. index[w] # Gone => index[w] # n
        BY <2>3, <2>4, <4>2 DEF Index
      <4> QED
        BY <1>1, <2>6, <2>7, <4>1, <4>2, <4>3 DEF Homes
    <3> QED
      BY <3>1, <3>2
  <2>10. \A i \in Index \ moved' : addrs'[i] # NoAddr => addrs'[i] = new[i]
    BY <1>1, <2>5, <2>6, <2>7 DEF Homes
  <2>11. \A r \in rules' : r.index \notin moved' => r.from = new[r.index]
    <3>1. \A r \in rules : r.from # NoAddr /\ r.index \in Index
      BY Octets DEF TypeOK, NoAddr
    <3> QED
      BY <1>1, <2>5, <2>6, <2>7, <3>1 DEF Homes
  <2>12. \A c \in batch' : c.do = "rule" /\ c.index \notin moved' => c.src = new[c.index]
    <3>1. \A c \in batch : c.do = "rule" => c.src # NoAddr /\ c.index \in Index
      BY Octets DEF WellFormed, NoAddr
    <3> QED
      BY <1>1, <2>5, <2>6, <2>7, <3>1 DEF Homes
  <2>13. Homes(new)'
    BY <2>5, <2>8, <2>9, <2>10, <2>11, <2>12, Zenon DEF Homes
  <2> QED
    BY <2>5, <2>13, Zenon DEF OneAddress
<1>5. ASSUME NEW u \in Uplink, RouteChanges(u) \/ HealthTurns(u)
      PROVE  OneAddress'
  <2>1. Beside /\ UNCHANGED <<used, index, addr>>
    BY <1>5, BesideStep DEF RouteChanges, HealthTurns, links
  <2>2. Homes(home)'
    BY <1>1, <2>1 DEF Beside, Homes
  <2> QED
    BY <1>1, <2>2 DEF OneAddress
<1>6. ASSUME NEW u \in Uplink, AddressChanges(u)
      PROVE  OneAddress'
  <2>1. /\ UNCHANGED <<index, used, rules, addrs, batch>> /\ moved' = moved \cup {index[u]}
        /\ \A w \in Uplink : index[w] \notin moved' => addr'[w] = addr[w]
    BY <1>6 DEF AddressChanges, memory, TypeOK
  <2>2. Homes(home)'
    BY <1>1, <2>1 DEF Homes
  <2> QED
    BY <1>1, <2>2 DEF OneAddress
<1> QED
  BY <1>2, <1>3, <1>4, <1>5, <1>6 DEF Surroundings

LEMMA HomesReconciler ==
  ASSUME OwnerInv, OneAddress, Reconciler
  PROVE  OneAddress'
<1> USE DEF OwnerInv, KeptInv, TypeInv
<1>0. UNCHANGED <<moved, used, index, addr>>
  BY ReadStep, PlanStep, RunStep, EndSteps DEF Reconciler
<1>1. PICK home \in [Index -> Address \cup {NoAddr}] : Homes(home)
  BY DEF OneAddress
<1> SUFFICES Homes(home)'
  BY <1>1 DEF OneAddress
<1>2. CASE ReadLinks
  <2>1. \A i \in Index \ moved : addrs'[i] # NoAddr => addrs'[i] = home[i]
    <3> TAKE i \in Index \ moved
    <3>1. ASSUME NEW u \in Uplink, index[u] = i, addrs'[i] = addr[u]
          PROVE  addrs'[i] = home[i]
      BY <1>1, <3>1 DEF Homes, Index, Gone
    <3>2. UNCHANGED addrs => (addrs'[i] # NoAddr => addrs'[i] = home[i])
      BY <1>1 DEF Homes
    <3> QED
      BY <1>2, <3>1, <3>2, ReadStep
  <2>2. UNCHANGED <<rules, batch>>
    BY <1>2, ReadStep
  <2> QED
    BY <1>0, <1>1, <2>1, <2>2 DEF Homes
<1>3. CASE Plan
  <2>1. PICK unreadable : PlanWith(unreadable)
    BY <1>3, PlanStep
  <2>2. UNCHANGED <<addrs, rules>>
    BY <1>3, PlanStep
  <2>3. ASSUME NEW c \in batch', c.do = "rule", c.index \notin moved
        PROVE  c.src = home[c.index]
    <3> DEFINE G == Gateways(unreadable)
    <3>1. PlannedAs(c, unreadable)
      BY <2>1, <2>3, PlannedFacts DEF PlanWith
    <3>2. c.index \in Unsettled(unreadable) /\ c.src = WantedTable(G, c.index).src
      BY <3>1, <2>3 DEF PlannedAs
    <3>3. c.index \in WantedTables(G) /\ G \subseteq Gateway
      BY <3>2, GatewaysType DEF Unsettled
    <3>4. WantedTable(G, c.index).src = addrs[c.index] /\ c.index \in Index
      BY <3>3, WantedTableFacts
    <3>5. addrs[c.index] # NoAddr
      BY <3>3 DEF WantedTables
    <3> QED
      BY <1>1, <2>3, <3>2, <3>4, <3>5 DEF Homes
  <2> QED
    BY <1>0, <1>1, <2>2, <2>3 DEF Homes
<1>4. ASSUME NEW c \in batch, Run(c)
      PROVE  Homes(home)'
  <2>1. batch' \subseteq batch /\ UNCHANGED addrs
    BY <1>4, RunStep
  <2>2. \A r \in rules' : r \in rules \/ (c.do = "rule" /\ r = [from |-> c.src, index |-> c.index])
    BY <1>4, RunLeaves
  <2> QED
    BY <1>0, <1>1, <2>1, <2>2 DEF Homes
<1>5. CASE PassDone \/ CleanupDone
  BY <1>1, <1>5, EndSteps DEF Homes
<1>6. CASE Shutdown
  <2>1. \A c \in batch' : c.do \in {"del_ecmp", "del_rule", "flush", "del_mark"}
    BY <1>6, EndSteps, CleanupFacts
  <2> QED
    BY <1>1, <1>6, <2>1, EndSteps DEF Homes
<1> QED
  BY <1>2, <1>3, <1>4, <1>5, <1>6 DEF Reconciler

LEMMA HomesNext ==
  ASSUME OwnerInv, OneAddress, [Next]_vars
  PROVE  OneAddress'
<1>1. CASE UNCHANGED vars
  BY <1>1 DEF vars, links, ours, memory, OneAddress, Homes
<1> QED
  BY <1>1, HomesSurroundings, HomesReconciler DEF Next

\* At most one rule points at a table, unless the interface's address was replaced.
LEMMA OneRule ==
  ASSUME OwnerInv, OneAddress
  PROVE  \A r, q \in rules : r.index = q.index /\ r.index \notin moved => r = q
<1>1. PICK home \in [Index -> Address \cup {NoAddr}] : Homes(home)
  BY DEF OneAddress
<1>2. \A r \in rules : r = [from |-> r.from, index |-> r.index]
  BY DEF OwnerInv, KeptInv, TypeInv, TypeOK
<1> QED
  BY <1>1, <1>2 DEF Homes

-----------------------------------------------------------------------------
(* What was read is so, as long as nobody disturbs the pass.                *)

AsRead ==
  /\ pc \in {"read", "run"} /\ ~disturbed /\ ~stale =>
       /\ ifaces = index
       /\ \A u \in Uplink : index[u] # Gone => addrs[index[u]] = addr[u]
       /\ \A i \in Index : addrs[i] # NoAddr => \E u \in Uplink : index[u] = i
  /\ pc \in {"read", "run"} /\ stale => failed

LEMMA AsReadNext ==
  ASSUME OwnerInv, AsRead, [Next]_vars
  PROVE  AsRead'
<1> USE DEF OwnerInv, KeptInv, TypeInv
<1>1. CASE ReadLinks
  <2>1. CASE /\ ifaces' = index /\ stale' = FALSE
             /\ \A i \in Index : \/ addrs'[i] = NoAddr /\ \A u \in Uplink : index[u] # i
                                 \/ \E u \in Uplink : index[u] = i /\ addrs'[i] = addr[u]
    <3>1. UNCHANGED <<index, addr>>
      BY <1>1, ReadStep
    <3>2. \A u \in Uplink : index[u] # Gone => index[u] \in Index
      BY DEF TypeOK
    <3>3. \A u \in Uplink : index[u] # Gone => addrs'[index[u]] = addr[u]
      BY <2>1, <3>2, OneInterface
    <3>4. \A i \in Index : addrs'[i] # NoAddr => \E u \in Uplink : index[u] = i
      BY <2>1
    <3> QED
      BY <2>1, <3>1, <3>3, <3>4 DEF AsRead
  <2>2. CASE stale' = TRUE /\ failed' = TRUE
    BY <2>2 DEF AsRead
  <2> QED
    BY <1>1, <2>1, <2>2, ReadStep
<1>2. CASE Plan
  <2>1. UNCHANGED <<index, addr, ifaces, addrs, stale, disturbed>> /\ pc = "read" /\ pc' = "run"
    BY <1>2, PlanStep
  <2>2. failed => failed'
    BY <1>2, PlanStep
  <2> QED
    BY <2>1, <2>2, Zenon DEF AsRead
<1>3. ASSUME NEW c \in batch, Run(c)
      PROVE  AsRead'
  BY <1>3, RunStep DEF AsRead
<1>4. CASE Crash \/ PassDone \/ CleanupDone \/ Shutdown
  BY <1>4, CrashStep, EndSteps DEF AsRead
<1>5. CASE Beside
  <2>1. CASE disturbed' = TRUE
    BY <1>5, <2>1 DEF Beside, AsRead
  <2>2. CASE UNCHANGED <<index, addr, disturbed>>
    BY <1>5, <2>2 DEF Beside, AsRead
  <2> QED
    BY <1>5, <2>1, <2>2 DEF Beside
<1> QED
  BY <1>1, <1>2, <1>3, <1>4, <1>5, StepCases

\* All of this.
PassInv == OwnerInv /\ OneAddress /\ AsRead

LEMMA PassNext ==
  ASSUME PassInv, [Next]_vars
  PROVE  PassInv'
<1>1. KeptInv'
  BY TypeNext, AddressedNext, UnobservedNext, UsableOnlyNext, WaitingNext
     DEF PassInv, OwnerInv, KeptInv, Kept
<1> QED
  BY <1>1, OwnedNext, HomesNext, AsReadNext DEF PassInv, OwnerInv

LEMMA PassInit ==
  ASSUME Init
  PROVE  PassInv
<1>1. pc = "idle"
  BY DEF Init
<1> QED
  BY <1>1, TypeInit, KeptInit, OwnedInit, HomesInit DEF PassInv, OwnerInv, KeptInv, AsRead

LEMMA PassAlways == Spec => []PassInv
<1>1. Init => PassInv
  BY PassInit
<1>2. PassInv /\ [Next]_vars => PassInv'
  BY PassNext
<1> QED
  BY <1>1, <1>2, PTL DEF Spec

\* In a pass nothing disturbed, whose reads after the interfaces did not fail, an
\* interface in use has a table that is wanted.
LEMMA UsedIsWanted ==
  ASSUME PassInv, pc = "read", ~disturbed, ~stale, NEW i \in Index, InUse(i)
  PROVE  i \in WantedTables(Gateways(AllRead))
<1> USE DEF PassInv, OwnerInv, KeptInv, TypeInv
<1>1. PICK u \in Uplink : index[u] = i /\ addr[u] # NoAddr /\ \E n \in routes : n[1] = u
  BY DEF InUse
<1>2. PICK n \in routes : n[1] = u
  BY <1>1
<1>3. i # Gone /\ ifaces[u] = i /\ addrs[i] = addr[u]
  BY <1>1 DEF AsRead, Index, Gone
<1>4. Observed /\ Usable(i)
  BY DEF InUse
<1> DEFINE g == [up |-> n[1], via |-> n[2], index |-> ifaces[n[1]]]
<1>5. g \in Gateways(AllRead)
  BY <1>2, <1>3, <1>4, AllReadIsNone DEF Gateways, Foreign
<1>6. g.index = i
  BY <1>2, <1>3
<1> HIDE DEF g
<1> QED
  BY <1>1, <1>3, <1>4, <1>5, <1>6 DEF WantedTables

\* A fault is counted.
LEMMA FaultCounts ==
  ASSUME TypeOK
  PROVE  faults + 1 # faults /\ faults + 1 # 0
  BY RoutingAssumption DEF TypeOK

LEMMA UnusedStep ==
  ASSUME PassInv, [Next]_vars, pc = "read", pc' = "run", ~disturbed, faults' = faults,
         NEW c \in batch', c.do = "flush", InUse(c.index)
  PROVE  FALSE
<1> USE DEF PassInv, OwnerInv, KeptInv, TypeInv
<1>1. Plan
  <2>1. ~(ReadLinks \/ PassDone \/ Shutdown \/ CleanupDone \/ Crash)
    BY ReadStep, EndSteps, CrashStep
  <2>2. ~(\E d \in batch : Run(d)) /\ ~Beside
    BY RunStep DEF Beside
  <2> QED
    BY <2>1, <2>2, StepCases
<1>2. PICK unreadable \in {AllRead, "routes", "own", "abandoned", "rules", "tables"} :
        PlanWith(unreadable) /\ (unreadable # AllRead => faults' = faults + 1)
  BY <1>1, PlanStep
<1>3. unreadable = AllRead
  BY <1>2, FaultCounts
<1>4. PlannedAs(c, AllRead) /\ c \in Planned(AllRead)
  BY <1>2, <1>3, PlannedFacts DEF PlanWith
<1>5. c.index \in StaleTables(Gateways(AllRead), AllRead)
  BY <1>4 DEF PlannedAs
<1>6. c.index \in Index /\ c.index \notin WantedTables(Gateways(AllRead)) /\ ~stale
  BY <1>5, StaleFacts
<1> QED
  BY <1>6, UsedIsWanted

\* A pass plans to tear a table down only if its interface is not in use: not because
\* the interfaces were unreadable, nor because the process was restarted, nor both, as
\* long as what it reads after the interfaces can be read (staleTablesFor,
\* internal/reconcile/differ.go).
THEOREM TeardownsAreOfTheUnused == Spec => OnlyTheUnusedIsTornDown
<1> DEFINE A == pc = "read" /\ pc' = "run" /\ ~disturbed /\ faults' = faults =>
                  \A c \in batch' : c.do = "flush" => ~InUse(c.index)
<1>1. PassInv /\ [Next]_vars => [A]_vars
  BY UnusedStep
<1> QED
  BY <1>1, PassAlways, PTL DEF Spec, OnlyTheUnusedIsTornDown

-----------------------------------------------------------------------------
(* A pass in which nothing failed and which nobody disturbed.               *)

Clear == pc = "run" /\ ~failed /\ ~disturbed

\* The order of the commands.
LEMMA InOrder ==
  ASSUME NEW c, NEW d, Rank[c.do] <= Rank[d.do]
  PROVE  /\ ~(c.do = "flush" /\ d.do = "del_rule")
         /\ ~(c.do \in {"table", "rule"} /\ d.do \in {"flush", "del_rule"})
         /\ ~(c.do = "rule" /\ d.do = "table")
  BY DEF Rank

\* The gateways of such a pass are on the interfaces there are.
LEMMA GatewayNow ==
  ASSUME PassInv, pc = "read", ~disturbed, ~stale, NEW g \in Gateways(AllRead)
  PROVE  index[g.up] = g.index
<1> USE DEF PassInv, OwnerInv, KeptInv, TypeInv
<1>1. Observed
  BY DEF Kept, Unobserved, Gateways
<1>2. PICK n \in Foreign(AllRead) : g = [up |-> n[1], via |-> n[2], index |-> ifaces[n[1]]]
  BY <1>1, AllReadIsNone DEF Gateways
<1>3. ifaces = index
  BY DEF AsRead
<1> QED
  BY <1>2, <1>3

\* What it wants of a table.
LEMMA WantedNow ==
  ASSUME PassInv, pc = "read", ~disturbed, ~stale, NEW i \in WantedTables(Gateways(AllRead))
  PROVE  LET want == WantedTable(Gateways(AllRead), i) IN
         /\ i \in Index /\ want.dev \in Uplink /\ index[want.dev] = i
         /\ want.src = addrs[i] /\ addrs[i] \in Address /\ addr[want.dev] = addrs[i]
<1> USE DEF PassInv, OwnerInv, KeptInv, TypeInv
<1> DEFINE G == Gateways(AllRead)
<1>1. G \subseteq Gateway
  BY GatewaysType
<1>2. /\ i \in Index /\ addrs[i] \in Address
      /\ \E g \in G : /\ g.index = i
                      /\ WantedTable(G, i) = [dev |-> g.up, via |-> g.via, src |-> addrs[i]]
  BY <1>1, WantedTableFacts
<1>3. PICK g \in G : g.index = i /\ WantedTable(G, i) = [dev |-> g.up, via |-> g.via, src |-> addrs[i]]
  BY <1>2
<1>4. g.up \in Uplink /\ index[g.up] = i
  BY <1>1, <1>3, GatewayNow DEF Gateway
<1>5. addr[g.up] = addrs[i]
  <2>1. i # Gone
    BY <1>2 DEF Index, Gone
  <2> QED
    BY <1>4, <2>1, Zenon DEF AsRead
<1>6. WantedTable(G, i).dev = g.up /\ WantedTable(G, i).src = addrs[i]
  BY <1>3
<1> QED
  BY <1>2, <1>4, <1>5, <1>6

\* In such a pass a route is through an interface that is there and from the address it
\* has; a table that is emptied has lost its rule before, unless its address was replaced;
\* a rule is installed when its table is filled.
Paired ==
  Clear =>
    /\ \A c \in batch : c.do = "table" => index[c.up] = c.index /\ addr[c.up] = c.src
    /\ \A c \in batch : c.do = "flush" /\ c.index \notin moved =>
         \/ \E d \in batch : d.do = "del_rule" /\ d.index = c.index
         \/ \A r \in rules : r.index # c.index
    /\ \A c \in batch : c.do = "rule" =>
         \/ \E d \in batch : d.do = "table" /\ d.index = c.index
         \/ tables[c.index] # NoTable
    /\ \A c, d \in batch : c.do \in {"flush", "del_rule"} /\ d.do \in {"table", "rule"} => c.index # d.index

LEMMA PairedPlan ==
  ASSUME PassInv, Plan
  PROVE  Paired'
<1> SUFFICES ASSUME Clear'
             PROVE  Paired'
  BY DEF Paired
<1> USE DEF PassInv, OwnerInv, KeptInv, TypeInv
<1>1. PICK unreadable \in {AllRead, "routes", "own", "abandoned", "rules", "tables"} :
        /\ PlanWith(unreadable)
        /\ IF unreadable = AllRead THEN UNCHANGED <<faults, failed>> ELSE faults' = faults + 1 /\ failed' = TRUE
  BY PlanStep
<1>2. UNCHANGED <<index, addr, moved, tables, rules, stale, disturbed>> /\ pc = "read"
  BY PlanStep
<1>3. unreadable = AllRead /\ ~failed /\ ~disturbed /\ ~stale
  BY <1>1, <1>2 DEF Clear, AsRead
<1> DEFINE G == Gateways(AllRead)
<1>4. batch' = Planned(AllRead)
  BY <1>1, <1>3 DEF PlanWith
<1>5. \A c \in batch' : PlannedAs(c, AllRead)
  BY <1>4, PlannedFacts
<1>6. \A c \in batch' : c.do \in {"table", "rule"} => c.index \in Unsettled(AllRead) /\ c.index \in WantedTables(G)
  BY <1>5 DEF PlannedAs, Unsettled
<1>7. \A c \in batch' : c.do \in {"flush", "del_rule"} =>
        c.index \in StaleTables(G, AllRead) /\ c.index \notin WantedTables(G)
  BY <1>5, StaleFacts DEF PlannedAs
<1>8. ASSUME NEW c \in batch', c.do = "table"
      PROVE  index[c.up] = c.index /\ addr[c.up] = c.src
  <2> DEFINE want == WantedTable(G, c.index)
  <2>1. c.up = want.dev /\ c.src = want.src
    BY <1>5, <1>8 DEF PlannedAs
  <2>2. index[want.dev] = c.index /\ addr[want.dev] = want.src
    BY <1>2, <1>3, <1>6, <1>8, WantedNow
  <2> HIDE DEF want
  <2> QED
    BY <2>1, <2>2
<1>h. /\ \A i \in StaleTables(G, AllRead) : \A k \in {"del_rule", "flush"} :
           \E d \in Planned(AllRead) : d.do = k /\ d.index = i
      /\ \A i \in Unsettled(AllRead) : \A k \in {"table", "rule"} :
           \E d \in Planned(AllRead) : d.do = k /\ d.index = i
  BY PlannedHas
<1>9. \A c \in batch' : c.do = "flush" => \E d \in batch' : d.do = "del_rule" /\ d.index = c.index
  BY <1>4, <1>7, <1>h
<1>10. \A c \in batch' : c.do = "rule" => \E d \in batch' : d.do = "table" /\ d.index = c.index
  BY <1>4, <1>6, <1>h
<1> HIDE DEF G
<1>11. \A c, d \in batch' : c.do \in {"flush", "del_rule"} /\ d.do \in {"table", "rule"} => c.index # d.index
  BY <1>6, <1>7
<1> QED
  BY <1>2, <1>8, <1>9, <1>10, <1>11 DEF Paired

\* A command for a table is not refused in such a pass.
LEMMA NotRefused ==
  ASSUME PassInv, Paired, Clear, NEW c \in batch, c.do = "table"
  PROVE  ~Refused(c)
<1> USE DEF PassInv, OwnerInv, KeptInv, TypeInv
<1>1. c.index \in Index /\ c.up \in Uplink /\ c.src \in Address
  BY DEF WellFormed
<1>2. index[c.up] = c.index /\ addr[c.up] = c.src
  BY DEF Paired
<1> QED
  BY <1>1, <1>2 DEF Refused, Index, Gone

\* A rule that is deleted was the only one, and is gone.
LEMMA RuleGoes ==
  ASSUME PassInv, NEW c \in batch, c.do = "del_rule", c.index \notin moved, Run(c), faults' = faults
  PROVE  \A r \in rules' : r \in rules /\ r.index # c.index
<1> USE DEF PassInv, OwnerInv, KeptInv, TypeInv
<1>1. CASE Effect(c)
  <2>1. PICK q \in rules : q.index = c.index /\ rules' = rules \ {q}
    BY <1>1 DEF Effect
  <2> QED
    BY <2>1, OneRule
<1>2. CASE Refused(c) /\ UNCHANGED rules
  BY <1>2 DEF Refused
<1> QED
  BY <1>1, <1>2, RunStep, FaultCounts

LEMMA PairedRun ==
  ASSUME PassInv, Paired, NEW c \in batch, Run(c)
  PROVE  Paired'
<1> SUFFICES ASSUME Clear'
             PROVE  Paired'
  BY DEF Paired
<1>1. /\ batch' = batch \ {c} /\ \A d \in batch : Rank[c.do] <= Rank[d.do]
      /\ UNCHANGED <<index, addr, moved, pc, disturbed>>
      /\ Effect(c) \/ (Refused(c) /\ UNCHANGED <<tables, rules>>)
      /\ faults' = faults
  BY RunStep DEF Clear
<1>2. Clear
  BY <1>1, RunStep DEF Clear
<1>3. /\ \A r \in rules' : r \in rules \/ (c.do = "rule" /\ r = [from |-> c.src, index |-> c.index])
      /\ \A i \in Index : \/ tables'[i] = tables[i]
                          \/ c.do = "flush" /\ c.index = i /\ tables'[i] = NoTable
                          \/ /\ c.do = "table" /\ c.index = i
                             /\ tables'[i] = [dev |-> c.up, via |-> c.via, src |-> c.src]
  BY RunLeaves DEF PassInv, OwnerInv, KeptInv
<1>4. \A d \in batch' : d.do = "table" => index'[d.up] = d.index /\ addr'[d.up] = d.src
  BY <1>1, <1>2 DEF Paired
<1>5. ASSUME NEW d \in batch', d.do = "flush", d.index \notin moved'
      PROVE  \/ \E e \in batch' : e.do = "del_rule" /\ e.index = d.index
             \/ \A r \in rules' : r.index # d.index
  <2>0. d.index \notin moved /\ d \in batch /\ Rank[c.do] <= Rank[d.do]
    BY <1>1, <1>5
  <2>1. CASE \A r \in rules : r.index # d.index
    <3>1. c.do # "rule"
      BY <2>0, <1>5, InOrder
    <3> QED
      BY <1>3, <2>1, <3>1
  <2>2. ASSUME NEW e \in batch, e.do = "del_rule", e.index = d.index, e # c
        PROVE  \E f \in batch' : f.do = "del_rule" /\ f.index = d.index
    BY <1>1, <2>2
  <2>3. CASE c.do = "del_rule" /\ c.index = d.index
    BY <1>1, <2>0, <2>3, RuleGoes
  <2> QED
    BY <1>2, <1>5, <2>0, <2>1, <2>2, <2>3 DEF Paired
<1>6. ASSUME NEW d \in batch', d.do = "rule"
      PROVE  \/ \E e \in batch' : e.do = "table" /\ e.index = d.index
             \/ tables'[d.index] # NoTable
  <2>0. d \in batch /\ d.index \in Index
    BY <1>1, <1>6 DEF PassInv, OwnerInv, KeptInv, TypeInv, WellFormed
  <2>1. CASE tables[d.index] # NoTable
    <3>1. ~(c.do = "flush" /\ c.index = d.index)
      BY <1>2, <1>6, <2>0 DEF Paired
    <3>2. c.do = "table" => c.up # 0
      BY Octets DEF PassInv, OwnerInv, KeptInv, TypeInv, WellFormed
    <3> QED
      BY <1>3, <2>0, <2>1, <3>1, <3>2 DEF NoTable
  <2>2. ASSUME NEW e \in batch, e.do = "table", e.index = d.index, e # c
        PROVE  \E f \in batch' : f.do = "table" /\ f.index = d.index
    BY <1>1, <2>2
  <2>3. CASE c.do = "table" /\ c.index = d.index
    <3>1. ~Refused(c)
      BY <1>2, <2>3, NotRefused
    <3>2. tables' = [tables EXCEPT ![c.index] = [dev |-> c.up, via |-> c.via, src |-> c.src]]
      BY <1>1, <2>3, <3>1 DEF Effect
    <3>3. c.up # 0 /\ tables \in [Index -> Content]
      BY <2>3, Octets DEF PassInv, OwnerInv, KeptInv, TypeInv, WellFormed, TypeOK
    <3> QED
      BY <2>0, <2>3, <3>2, <3>3 DEF NoTable
  <2> QED
    BY <1>2, <1>6, <2>0, <2>1, <2>2, <2>3 DEF Paired
<1>7. \A d, e \in batch' : d.do \in {"flush", "del_rule"} /\ e.do \in {"table", "rule"} => d.index # e.index
  BY <1>1, <1>2 DEF Paired
<1> QED
  BY <1>4, <1>5, <1>6, <1>7 DEF Paired

LEMMA PairedNext ==
  ASSUME PassInv, Paired, [Next]_vars
  PROVE  Paired'
<1>1. CASE ReadLinks \/ PassDone \/ CleanupDone \/ Shutdown \/ Crash
  BY <1>1, ReadStep, EndSteps, CrashStep DEF Paired, Clear, PassInv, OwnerInv, KeptInv, TypeInv
<1>2. CASE Beside
  <2>1. CASE disturbed' = TRUE
    BY <2>1 DEF Paired, Clear
  <2>2. CASE UNCHANGED <<index, addr, routes, used, moved, tables, ecmp, disturbed>>
    BY <1>2, <2>2 DEF Beside, Paired, Clear
  <2> QED
    BY <1>2, <2>1, <2>2 DEF Beside
<1> QED
  BY <1>1, <1>2, PairedPlan, PairedRun, StepCases DEF PassInv, OwnerInv, KeptInv, TypeInv

PairedInv == PassInv /\ Paired

LEMMA PairedAlways == Spec => []PairedInv
<1>1. Init => PairedInv
  <2>1. Init => pc = "idle"
    BY DEF Init
  <2> QED
    BY <2>1, PassInit DEF PairedInv, Paired, Clear
<1>2. PairedInv /\ [Next]_vars => PairedInv'
  BY PassNext, PairedNext DEF PairedInv
<1> QED
  BY <1>1, <1>2, PTL DEF Spec

LEMMA DanglingStep ==
  ASSUME PairedInv, [Next]_vars, pc = "run", pc' = "run", ~failed', ~disturbed'
  PROVE  \A r \in Dangling' \ Dangling : r.index \in moved
<1> USE DEF PairedInv, PassInv, OwnerInv, KeptInv, TypeInv
<1>1. \A r \in rules : r.index \in Index
  BY DEF TypeOK
<1>2. CASE Beside
  BY <1>2 DEF Beside, Dangling
<1>3. ASSUME NEW c \in batch, Run(c)
      PROVE  \A r \in Dangling' \ Dangling : r.index \in moved
  <2>1. /\ \A d \in batch : Rank[c.do] <= Rank[d.do]
        /\ Clear
    BY <1>3, RunStep DEF Clear
  <2>2. /\ \A r \in rules' : r \in rules \/ (c.do = "rule" /\ r = [from |-> c.src, index |-> c.index])
        /\ \A i \in Index : \/ tables'[i] = tables[i]
                            \/ c.do = "flush" /\ c.index = i /\ tables'[i] = NoTable
                            \/ /\ c.do = "table" /\ c.index = i
                               /\ tables'[i] = [dev |-> c.up, via |-> c.via, src |-> c.src]
    BY <1>3, RunLeaves
  <2>3. ASSUME c.do = "rule"
        PROVE  c.index \in Index /\ tables[c.index] # NoTable
    <3>1. \A d \in batch : d.do # "table"
      BY <2>1, <2>3, InOrder
    <3> QED
      BY <2>1, <2>3, <3>1 DEF Paired, WellFormed
  <2>4. ASSUME c.do = "flush", c.index \notin moved
        PROVE  \A r \in rules : r.index # c.index
    <3>1. \A d \in batch : d.do # "del_rule"
      BY <2>1, <2>4, InOrder
    <3> QED
      BY <2>1, <2>4, <3>1 DEF Paired
  <2>5. ASSUME NEW r \in rules', tables'[r.index] = NoTable, r.index \notin moved
        PROVE  r \in rules /\ tables[r.index] = NoTable
    <3>1. CASE r \in rules
      BY <1>1, <2>2, <2>4, <2>5, <3>1, Octets DEF NoTable, WellFormed
    <3>2. CASE r \notin rules
      BY <2>2, <2>3, <2>5, <3>2
    <3> QED
      BY <3>1, <3>2
  <2> QED
    BY <2>5 DEF Dangling
<1>4. ~(ReadLinks \/ Plan \/ PassDone \/ CleanupDone \/ Shutdown \/ Crash)
  BY ReadStep, PlanStep, EndSteps, CrashStep
<1> QED
  BY <1>2, <1>3, <1>4, StepCases

\* A table is filled before a rule points at it, and a teardown runs that order
\* backwards (command.Order, and docs/architecture.md): unless something failed or was
\* changed by others, no command of a pass leaves a rule at an empty table, but for the
\* rules of an interface whose address has been replaced.
THEOREM NoneDangles == Spec => NoRuleIsLeftDangling
<1> DEFINE A == pc = "run" /\ pc' = "run" /\ ~failed' /\ ~disturbed' =>
                  \A r \in Dangling' \ Dangling : r.index \in moved
<1>1. PairedInv /\ [Next]_vars => [A]_vars
  BY DanglingStep
<1> QED
  BY <1>1, PairedAlways, PTL DEF Spec, NoRuleIsLeftDangling

-----------------------------------------------------------------------------
(* What is left at the end.                                                 *)

\* A command of a kind for an index has not been run yet.
Pending(do, i) == \E c \in batch : c.do = do /\ c.index = i

\* The reconciler knows a gateway on an interface.
Known(i) == \E g \in gateways : g.index = i

\* As long as nothing failed, every rule is of an interface with a gateway, or of one
\* whose address was replaced, every filled table has its rule and its gateway, or there
\* is a command about it yet to run; the last turn has a command for whatever there is.
RulesNamed ==
  /\ pc \in {"idle", "read"} => \A r \in rules : r.index \in moved \/ Known(r.index)
  /\ pc = "run" =>
       /\ \A r \in rules : r.index \in moved \/ Known(r.index) \/ Pending("del_rule", r.index)
       /\ \A c \in batch : c.do = "rule" => Known(c.index)
  /\ pc = "cleanup" => \A r \in rules : r.index \in moved \/ Pending("del_rule", r.index)
  /\ pc = "done" => \A r \in rules : r.index \in moved

TablesNamed ==
  /\ pc \in {"idle", "read"} =>
       \A i \in Index : tables[i] # NoTable => Known(i) /\ \E r \in rules : r.index = i
  /\ pc = "run" =>
       /\ \A i \in Index : tables[i] # NoTable =>
            /\ (\E r \in rules : r.index = i) \/ Pending("rule", i) \/ Pending("flush", i)
            /\ Known(i) \/ Pending("flush", i)
       /\ \A c \in batch : c.do = "table" => Known(c.index)
       /\ \A c \in batch : /\ c.do = "table" => Pending("rule", c.index)
                           /\ c.do = "del_rule" => Pending("flush", c.index)
  /\ pc = "cleanup" => \A i \in Index : tables[i] # NoTable => Pending("flush", i)
  /\ pc = "done" => \A i \in Index : tables[i] = NoTable

MarksNamed ==
  /\ pc = "cleanup" => \A m \in marks : m.index = ifaces[m.up] =>
       \E c \in batch : c.do = "del_mark" /\ c.up = m.up /\ c.index = m.index
  /\ pc = "done" => \A m \in marks : m.index # ifaces[m.up]

EcmpNamed ==
  /\ ~managed => ecmp = {} /\ \A c \in batch : c.do # "ecmp"
  /\ pc = "cleanup" => ecmp = {} \/ \E c \in batch : c.do = "del_ecmp"
  /\ pc = "done" => ecmp = {}

Named == RulesNamed /\ TablesNamed /\ MarksNamed /\ EcmpNamed

Remembered == faults = 0 => ~stale /\ Named

LEMMA NamedPlan ==
  ASSUME PassInv, Named, ~stale, Plan, faults' = faults
  PROVE  Named'
<1> USE DEF PassInv, OwnerInv, KeptInv, TypeInv
<1>1. PICK unreadable \in {AllRead, "routes", "own", "abandoned", "rules", "tables"} :
        PlanWith(unreadable) /\ (unreadable # AllRead => faults' = faults + 1)
  BY PlanStep
<1>2. unreadable = AllRead
  BY <1>1, FaultCounts
<1>3. UNCHANGED <<moved, tables, rules, marks, ecmp, managed, ifaces>> /\ pc = "read" /\ pc' = "run"
  BY PlanStep
<1> DEFINE G == Gateways(AllRead)
<1>4. gateways' = G /\ batch' = Planned(AllRead)
  BY <1>1, <1>2 DEF PlanWith
<1>5. \A c \in batch' : PlannedAs(c, AllRead)
  BY <1>4, PlannedFacts
<1>6. \A c \in batch' : c.do \in {"table", "rule"} => c.index \in Unsettled(AllRead) /\ c.index \in WantedTables(G)
  BY <1>5 DEF PlannedAs, Unsettled
<1>7. \A c \in batch' : c.do \in {"flush", "del_rule"} => c.index \in StaleTables(G, AllRead)
  BY <1>5 DEF PlannedAs
<1>h. /\ \A i \in StaleTables(G, AllRead) : \A k \in {"del_rule", "flush"} :
           \E d \in Planned(AllRead) : d.do = k /\ d.index = i
      /\ \A i \in Unsettled(AllRead) : \A k \in {"table", "rule"} :
           \E d \in Planned(AllRead) : d.do = k /\ d.index = i
  BY PlannedHas
<1>i. ASSUME NEW r \in rules, \A g \in G : g.index # r.index, NEW k \in {"del_rule", "flush"}
      PROVE  \E d \in Planned(AllRead) : d.do = k /\ d.index = r.index
  <2>1. Usable(r.index)
    BY DEF Kept, UsableOnly
  <2>2. r.index \notin WantedTables(G)
    BY <1>i DEF WantedTables
  <2>3. r.index \in StaleTables(G, AllRead)
    BY <2>1, <2>2, AllReadIsNone DEF StaleTables, InstalledTables
  <2> QED
    BY <1>h, <1>i, <2>3
<1>j. \A c \in batch' : c.do \in {"table", "rule"} => Known(c.index)'
  BY <1>4, <1>6 DEF WantedTables, Known
<1> HIDE DEF G
<1>k. \A r \in rules' : \/ Known(r.index)'
                        \/ Pending("del_rule", r.index)' /\ Pending("flush", r.index)'
  BY <1>3, <1>4, <1>i DEF Pending, Known
<1>8. RulesNamed'
  BY <1>3, <1>j, <1>k DEF RulesNamed
<1>9. TablesNamed'
  <2>1. \A i \in Index : tables'[i] # NoTable => \E r \in rules' : r.index = i
    BY <1>3 DEF Named, TablesNamed
  <2>2. \A c \in batch' : /\ c.do = "table" => Pending("rule", c.index)'
                          /\ c.do = "del_rule" => Pending("flush", c.index)'
    BY <1>4, <1>6, <1>7, <1>h DEF Pending
  <2> QED
    BY <1>3, <1>j, <1>k, <2>1, <2>2 DEF TablesNamed
<1>10. MarksNamed'
  BY <1>3 DEF MarksNamed
<1>11. EcmpNamed'
  BY <1>3, <1>5 DEF EcmpNamed, Named, PlannedAs
<1> QED
  BY <1>8, <1>9, <1>10, <1>11 DEF Named

LEMMA RulesNamedRun ==
  ASSUME PassInv, RulesNamed, NEW c \in batch, Run(c), faults' = faults
  PROVE  RulesNamed'
<1>1. batch' = batch \ {c} /\ UNCHANGED <<pc, gateways, moved>> /\ pc \in {"run", "cleanup"}
  BY RunStep
<1>0. \A i : Known(i)' = Known(i)
  BY <1>1 DEF Known
<1>2. \A r \in rules' : r \in rules \/ (c.do = "rule" /\ r = [from |-> c.src, index |-> c.index])
  BY RunLeaves DEF PassInv, OwnerInv, KeptInv
<1>3. \A r \in rules' : r \in rules /\ r.index \notin moved /\ Pending("del_rule", r.index)
                         => Pending("del_rule", r.index)'
  BY <1>1, RuleGoes DEF Pending
<1>4. CASE pc = "run"
  BY <1>0, <1>1, <1>2, <1>3, <1>4 DEF RulesNamed
<1>5. CASE pc = "cleanup"
  <2>1. c.do # "rule"
    BY <1>5 DEF PassInv, OwnerInv, KeptInv, Kept, Waiting
  <2> QED
    BY <1>1, <1>2, <1>3, <1>5, <2>1 DEF RulesNamed
<1> QED
  BY <1>1, <1>4, <1>5

LEMMA TablesNamedRun ==
  ASSUME PassInv, TablesNamed, NEW c \in batch, Run(c), faults' = faults
  PROVE  TablesNamed'
<1> USE DEF PassInv, OwnerInv, KeptInv, TypeInv
<1>1. /\ batch' = batch \ {c} /\ UNCHANGED <<pc, gateways>> /\ pc \in {"run", "cleanup"}
      /\ \A d \in batch : Rank[c.do] <= Rank[d.do]
      /\ Effect(c) \/ (Refused(c) /\ UNCHANGED <<tables, rules>>)
  BY RunStep, FaultCounts
<1>0. \A i : Known(i)' = Known(i)
  BY <1>1 DEF Known
<1>2. \A i \in Index : \/ tables'[i] = tables[i]
                       \/ c.do = "flush" /\ c.index = i /\ tables'[i] = NoTable
                       \/ c.do = "table" /\ c.index = i
  BY RunLeaves
<1>3. \A r \in rules : r \in rules' \/ (c.do = "del_rule" /\ c.index = r.index)
  BY <1>1 DEF Effect
<1>4. \A i \in Index : tables'[i] # NoTable /\ Pending("flush", i) => Pending("flush", i)'
  <2>1. c.do = "flush" /\ c.index \in Index => tables'[c.index] = NoTable
    BY <1>1 DEF Effect, Refused, TypeOK
  <2> QED
    BY <1>1, <2>1 DEF Pending
<1>5. CASE pc = "run"
  <2>1. \A i \in Index : Pending("rule", i) => Pending("rule", i)' \/ \E r \in rules' : r.index = i
    <3>1. c.do = "rule" => \E r \in rules' : r.index = c.index
      <4> DEFINE new == [from |-> c.src, index |-> c.index]
      <4>1. c.do = "rule" => new \in rules'
        BY <1>1 DEF Effect, Refused
      <4>2. new.index = c.index
        OBVIOUS
      <4> QED
        BY <4>1, <4>2
    <3> QED
      BY <1>1, <3>1 DEF Pending
  <2>2. ASSUME NEW i \in Index, tables'[i] # NoTable
        PROVE  /\ (\E r \in rules' : r.index = i) \/ Pending("rule", i)' \/ Pending("flush", i)'
               /\ Known(i)' \/ Pending("flush", i)'
    <3>1. CASE tables'[i] = tables[i]
      <4>1. /\ (\E r \in rules : r.index = i) \/ Pending("rule", i) \/ Pending("flush", i)
            /\ Known(i) \/ Pending("flush", i)
        BY <1>5, <2>2, <3>1 DEF TablesNamed
      <4>3. Known(i)' \/ Pending("flush", i)'
        BY <1>0, <1>4, <2>2, <4>1
      <4>2. CASE \E r \in rules : r.index = i
        <5>1. c.do = "del_rule" => Pending("flush", c.index)
          BY <1>5 DEF TablesNamed
        <5> QED
          BY <1>3, <1>4, <2>2, <4>2, <4>3, <5>1
      <4> QED
        BY <4>1, <4>2, <4>3, <2>1, <1>4, <2>2
    <3>2. CASE c.do = "table" /\ c.index = i
      <4>1. Pending("rule", i) /\ Known(i)
        BY <1>5, <3>2 DEF TablesNamed
      <4> QED
        BY <1>0, <1>1, <3>2, <4>1 DEF Pending
    <3> QED
      BY <1>2, <2>2, <3>1, <3>2
  <2>3. ASSUME NEW d \in batch'
        PROVE  /\ d.do = "table" => Pending("rule", d.index)' /\ Known(d.index)'
               /\ d.do = "del_rule" => Pending("flush", d.index)'
    <3>1. d \in batch /\ Rank[c.do] <= Rank[d.do]
      BY <1>1, <2>3
    <3>2. /\ ~(c.do = "flush" /\ d.do = "del_rule")
          /\ ~(c.do = "rule" /\ d.do = "table")
      BY <3>1, InOrder
    <3> QED
      BY <1>0, <1>1, <1>5, <3>1, <3>2 DEF TablesNamed, Pending
  <2> QED
    BY <1>1, <1>5, <2>2, <2>3 DEF TablesNamed
<1>6. CASE pc = "cleanup"
  <2>1. c.do # "table"
    BY <1>6 DEF Kept, Waiting
  <2> QED
    BY <1>1, <1>2, <1>4, <1>6, <2>1 DEF TablesNamed
<1> QED
  BY <1>1, <1>5, <1>6

LEMMA NamedRun ==
  ASSUME PassInv, Named, NEW c \in batch, Run(c), faults' = faults
  PROVE  Named'
<1> USE DEF PassInv, OwnerInv, KeptInv, TypeInv
<1>1. /\ batch' = batch \ {c} /\ UNCHANGED <<pc, managed, ifaces>> /\ pc \in {"run", "cleanup"}
      /\ Effect(c) \/ (Refused(c) /\ UNCHANGED <<marks, ecmp>>)
  BY RunStep, FaultCounts
<1>2. pc = "cleanup" => c.do \in {"del_ecmp", "del_rule", "flush", "del_mark"}
  BY DEF Kept, Waiting
<1>3. MarksNamed'
  <2>1. ASSUME pc = "cleanup", NEW m \in marks'
        PROVE  m \in marks /\ ~(c.do = "del_mark" /\ c.up = m.up /\ c.index = m.index)
    <3>1. m \in marks
      BY <2>1, <1>2, RunLeaves
    <3>2. m = [up |-> m.up, index |-> m.index]
      BY <3>1 DEF TypeOK
    <3> QED
      BY <1>1, <2>1, <3>1, <3>2 DEF Effect, Refused
  <2> QED
    BY <1>1, <2>1 DEF MarksNamed, Named
<1>4. EcmpNamed'
  <2>1. \A d \in batch : ~managed => d.do # "ecmp"
    BY DEF Named, EcmpNamed
  <2>2. ~managed \/ pc = "cleanup" => ecmp' = ecmp \/ ecmp' = {}
    BY <1>1, <1>2, <2>1 DEF Effect
  <2>3. c.do = "del_ecmp" => ecmp' = {}
    BY <1>1 DEF Effect, Refused
  <2> QED
    BY <1>1, <2>1, <2>2, <2>3 DEF EcmpNamed, Named
<1> QED
  BY <1>3, <1>4, RulesNamedRun, TablesNamedRun DEF Named

LEMMA NamedShutdown ==
  ASSUME PassInv, Named, Shutdown
  PROVE  Named'
<1> USE DEF PassInv, OwnerInv, KeptInv, TypeInv
<1>1. /\ pc = "idle" /\ pc' = "cleanup" /\ batch' = Cleanup
      /\ UNCHANGED <<moved, tables, rules, marks, ecmp, managed, ifaces>>
  BY EndSteps
<1>2. /\ \A c \in Cleanup : c.do \in {"del_ecmp", "del_rule", "flush", "del_mark"}
      /\ managed => \E c \in Cleanup : c.do = "del_ecmp"
      /\ \A g \in gateways : Usable(g.index) => \A d \in {"del_rule", "flush"} :
           \E c \in Cleanup : c.do = d /\ c.index = g.index
      /\ \A m \in WantedMarks :
           \E c \in Cleanup : c.do = "del_mark" /\ c.up = m.up /\ c.index = m.index
  BY CleanupFacts
<1>3. \A r \in rules : Known(r.index) =>
        \A d \in {"del_rule", "flush"} : \E c \in Cleanup : c.do = d /\ c.index = r.index
  BY <1>2 DEF Known, Kept, UsableOnly
<1>4. RulesNamed'
  BY <1>1, <1>3 DEF RulesNamed, Named, Pending
<1>5. TablesNamed'
  BY <1>1, <1>3 DEF TablesNamed, Named, Pending
<1>6. MarksNamed'
  <2>1. \A m \in marks : m.index = ifaces[m.up] => m \in WantedMarks
    <3> TAKE m \in marks
    <3> HAVE m.index = ifaces[m.up]
    <3>1. m = [up |-> m.up, index |-> m.index] /\ m.index \in Index /\ m.up \in Steered /\ Usable(m.index)
      BY DEF TypeOK, Kept, UsableOnly
    <3>2. m.index # Gone
      BY <3>1 DEF Index, Gone
    <3>3. m = [up |-> m.up, index |-> ifaces[m.up]] /\ ifaces[m.up] # Gone /\ Usable(ifaces[m.up])
      BY <3>1, <3>2
    <3> QED
      BY <3>1, <3>3 DEF WantedMarks
  <2> QED
    BY <1>1, <1>2, <2>1 DEF MarksNamed
<1>7. EcmpNamed'
  BY <1>1, <1>2 DEF EcmpNamed, Named
<1> QED
  BY <1>4, <1>5, <1>6, <1>7 DEF Named

LEMMA RememberedNext ==
  ASSUME PassInv, Remembered, [Next]_vars
  PROVE  Remembered'
<1> USE DEF PassInv, OwnerInv, KeptInv, TypeInv
<1> SUFFICES ASSUME faults' = 0
             PROVE  ~stale' /\ Named'
  BY DEF Remembered
<1>f. faults + 1 # faults /\ faults + 1 # 0
  BY FaultCounts
<1>1. CASE ReadLinks
  <2>1. UNCHANGED <<tables, rules, marks, ecmp, managed, gateways, batch, moved>> /\ pc = "idle" /\ pc' = "read"
    BY <1>1, ReadStep
  <2>2. faults = 0 /\ stale' = FALSE
    BY <1>1, <1>f, ReadStep
  <2> QED
    BY <2>1, <2>2 DEF Remembered, Named, RulesNamed, TablesNamed, MarksNamed, EcmpNamed, Known
<1>2. CASE Plan
  <2>1. UNCHANGED stale /\ (faults' = faults \/ faults' = faults + 1)
    BY <1>2, PlanStep
  <2> QED
    BY <1>2, <1>f, <2>1, NamedPlan DEF Remembered
<1>3. ASSUME NEW c \in batch, Run(c)
      PROVE  ~stale' /\ Named'
  <2>1. UNCHANGED stale /\ (faults' = faults \/ faults' = faults + 1)
    BY <1>3, RunStep
  <2> QED
    BY <1>3, <1>f, <2>1, NamedRun DEF Remembered
<1>4. CASE PassDone \/ CleanupDone
  <2>1. /\ UNCHANGED <<tables, rules, marks, ecmp, managed, gateways, batch, moved, faults, stale, ifaces>>
        /\ batch = {}
        /\ (pc = "run" /\ pc' = "idle") \/ (pc = "cleanup" /\ pc' = "done")
    BY <1>4, EndSteps
  <2> QED
    BY <2>1 DEF Remembered, Named, RulesNamed, TablesNamed, MarksNamed, EcmpNamed, Pending, Known
<1>5. CASE Shutdown
  BY <1>5, EndSteps, NamedShutdown DEF Remembered
<1>6. CASE Beside
  <2>1. /\ UNCHANGED <<rules, marks, faults, pc, managed, ifaces, stale, gateways, batch>>
        /\ moved \subseteq moved'
        /\ \A i \in Index : tables'[i] = tables[i] \/ tables'[i] = NoTable
        /\ ecmp' = ecmp \/ ecmp' = {}
    BY <1>6 DEF Beside
  <2>2. ~stale /\ Named
    BY <2>1 DEF Remembered
  <2>3. RulesNamed' /\ MarksNamed'
    BY <2>1, <2>2 DEF Named, RulesNamed, MarksNamed, Pending, Known
  <2>4. TablesNamed'
    BY <2>1, <2>2 DEF Named, TablesNamed, Pending, Known
  <2>5. EcmpNamed'
    BY <2>1, <2>2 DEF Named, EcmpNamed
  <2> QED
    BY <2>1, <2>2, <2>3, <2>4, <2>5 DEF Named
<1>7. CASE Crash
  BY <1>7, <1>f, CrashStep
<1> QED
  BY <1>1, <1>2, <1>3, <1>4, <1>5, <1>6, <1>7, StepCases

RememberedInv == PassInv /\ Remembered

\* Shutdown leaves a clean state (README.md, "all managed routes (proto 111), per-gateway
\* tables, ip rules"): of the interfaces that are as the last pass found them nothing
\* stays, wherever the process was and whatever gateways came and went, although the
\* last turn reads nothing (cleanupActions, internal/reconcile); but of one whose address
\* has been replaced a rule may.
THEOREM LeavesNothing == Spec => []CleanExit
<1>1. Init => RememberedInv
  <2>1. Init => /\ pc = "idle" /\ rules = {} /\ ecmp = {} /\ batch = {} /\ stale = FALSE
                /\ \A i \in Index : tables[i] = NoTable
    BY DEF Init, InitMemory
  <2> QED
    BY <2>1, PassInit DEF RememberedInv, Remembered, Named, RulesNamed, TablesNamed, MarksNamed, EcmpNamed
<1>2. RememberedInv /\ [Next]_vars => RememberedInv'
  BY PassNext, RememberedNext DEF RememberedInv
<1>3. RememberedInv => CleanExit
  <2> SUFFICES ASSUME RememberedInv, pc = "done", faults = 0
               PROVE  /\ ecmp = {}
                      /\ \A u \in Uplink :
                           index[u] # Gone /\ index[u] = ifaces[u] =>
                             /\ tables[index[u]] = NoTable
                             /\ \A m \in marks : m.index # index[u]
                             /\ index[u] \notin moved => \A r \in rules : r.index # index[u]
    BY DEF CleanExit
  <2>1. /\ ecmp = {} /\ \A r \in rules : r.index \in moved
        /\ \A i \in Index : tables[i] = NoTable
        /\ \A m \in marks : m.index # ifaces[m.up]
    BY DEF RememberedInv, Remembered, Named, RulesNamed, TablesNamed, MarksNamed, EcmpNamed
  <2>2. PICK own \in [Index -> Uplink \cup {0}] : Owned(own)
    BY DEF RememberedInv, PassInv, OwnerInv, OneOwner
  <2>3. \A u \in Uplink : index[u] # Gone => index[u] \in Index /\ own[index[u]] = u
    BY <2>2 DEF Owned, RememberedInv, PassInv, OwnerInv, KeptInv, TypeInv, TypeOK
  <2>4. \A m \in marks : own[m.index] = m.up
    BY <2>2 DEF Owned
  <2> QED
    BY <2>1, <2>3, <2>4
<1> QED
  BY <1>1, <1>2, <1>3, PTL DEF Spec

-----------------------------------------------------------------------------
(* That a pass settles.                                                     *)

\* The default offset makes the numbers of tables texts of one length.
LEMMA OffsetsApart ==
  ASSUME TableOffset >= 99
  PROVE  \A i, j \in Index : Usable(i) /\ Usable(j) /\ Begins(Table(i), Table(j)) => i = j
<1> SUFFICES ASSUME NEW i \in Index, NEW j \in Index, Usable(i), Usable(j), Begins(Table(i), Table(j))
             PROVE  i = j
  OBVIOUS
<1>1. i \in Nat /\ j \in Nat /\ i >= 1 /\ j >= 1 /\ TableOffset \in Nat
  BY RoutingAssumption DEF Index
<1> DEFINE p == Table(i)
           q == Table(j)
<1>2. /\ p \in 100..252 /\ q \in 100..252
      /\ p = TableOffset + i /\ q = TableOffset + j
  BY <1>1 DEF Usable, Table
<1>3. q \div 1 = p \/ q \div 10 = p \/ q \div 100 = p
  BY DEF Begins
<1> HIDE DEF p, q
<1>4. q \div 1 = q /\ q \div 10 < 100 /\ q \div 100 < 100
  BY <1>2
<1> QED
  BY <1>1, <1>2, <1>3, <1>4

\* The route of a table is from the address that its interface has.
SrcHeld == \A i \in Index : tables[i] # NoTable => tables[i].src = addr[tables[i].dev]

HeldInv == PassInv /\ SrcHeld

LEMMA HeldSurroundings ==
  ASSUME TextsApart, HeldInv, Surroundings
  PROVE  SrcHeld'
<1> USE DEF HeldInv, PassInv, OwnerInv, KeptInv, TypeInv
<1>1. PICK own \in [Index -> Uplink \cup {0}] : Owned(own)
  BY DEF OneOwner
<1>2. \A i \in Index : tables[i] # NoTable =>
        /\ tables[i].dev \in Uplink /\ tables[i].src \in Pool[tables[i].dev]
        /\ tables[i].src # NoAddr
  BY <1>1, Octets DEF Owned, TypeOK, Content, NoAddr
<1>3. \A u \in Uplink : addr[u] \in Pool[u] \cup {NoAddr} /\ (index[u] = Gone => addr[u] = NoAddr)
  BY DEF Kept, Addressed
<1>4. CASE Crash
  BY <1>4, CrashStep DEF SrcHeld
<1>5. ASSUME NEW u \in Uplink, LinkGone(u)
      PROVE  SrcHeld'
  <2>1. \A w \in Uplink : w # u => addr'[w] = addr[w]
    BY <1>5 DEF LinkGone, TypeOK
  <2>2. \A i \in Index : tables'[i] # NoTable => tables'[i] = tables[i] /\ tables[i].dev # u
    BY <1>5 DEF LinkGone
  <2> QED
    BY <1>2, <2>1, <2>2 DEF SrcHeld
<1>6. ASSUME NEW u \in Uplink, LinkBack(u)
      PROVE  SrcHeld'
  <2>1. /\ \A w \in Uplink : w # u => addr'[w] = addr[w]
        /\ addr[u] = NoAddr /\ UNCHANGED tables
    BY <1>3, <1>6 DEF LinkBack, TypeOK, ours
  <2> QED
    BY <1>2, <2>1 DEF SrcHeld
<1>7. ASSUME NEW u \in Uplink, AddressChanges(u)
      PROVE  SrcHeld'
  <2>1. \A w \in Uplink : w # u => addr'[w] = addr[w]
    BY <1>7 DEF AddressChanges, TypeOK
  <2>2. addr'[u] # addr[u]
    BY <1>7 DEF AddressChanges, TypeOK
  <2>3. \A i \in Index : tables'[i] # NoTable =>
          tables'[i] = tables[i] /\ \E w \in Uplink : addr'[w] = tables[i].src
    BY <1>7 DEF AddressChanges
  <2>4. ASSUME NEW i \in Index, tables'[i] # NoTable, tables[i].dev = u
        PROVE  FALSE
    <3>1. /\ tables[i].src \in Pool[u] /\ tables[i].src # NoAddr /\ tables[i].src = addr[u]
          /\ \E w \in Uplink : addr'[w] = tables[i].src
      BY <1>2, <2>3, <2>4 DEF SrcHeld
    <3>2. PICK w \in Uplink : addr'[w] = tables[i].src
      BY <3>1
    <3>3. w # u /\ addr[w] = tables[i].src
      BY <2>1, <2>2, <3>1, <3>2
    <3>4. tables[i].src \in Pool[w]
      BY <1>3, <3>1, <3>3
    <3> QED
      BY <3>1, <3>3, <3>4 DEF TextsApart
  <2> QED
    BY <1>2, <2>1, <2>3, <2>4 DEF SrcHeld
<1>8. ASSUME NEW u \in Uplink, RouteChanges(u) \/ HealthTurns(u)
      PROVE  SrcHeld'
  <2>1. UNCHANGED <<addr, tables>>
    BY <1>8 DEF RouteChanges, HealthTurns, links, ours
  <2> QED
    BY <2>1 DEF SrcHeld
<1> QED
  BY <1>4, <1>5, <1>6, <1>7, <1>8 DEF Surroundings

LEMMA HeldRun ==
  ASSUME TextsApart, HeldInv, NEW c \in batch, Run(c)
  PROVE  SrcHeld'
<1> USE DEF HeldInv, PassInv, OwnerInv, KeptInv, TypeInv
<1>1. PICK own \in [Index -> Uplink \cup {0}] : Owned(own)
  BY DEF OneOwner
<1>2. UNCHANGED addr
  BY RunStep
<1>3. \A i \in Index : \/ tables'[i] = tables[i]
                       \/ c.do = "flush" /\ c.index = i /\ tables'[i] = NoTable
                       \/ /\ c.do = "table" /\ c.index = i
                          /\ tables'[i] = [dev |-> c.up, via |-> c.via, src |-> c.src]
  BY RunLeaves
<1>4. ASSUME c.do = "table"
      PROVE  (c.src = addr[c.up]) \/ UNCHANGED tables
  <2>1. CASE Refused(c) \/ UNCHANGED tables
    BY <2>1, RunStep
  <2>2. CASE ~Refused(c)
    <3>1. PICK w \in Uplink : addr[w] = c.src
      BY <1>4, <2>2 DEF Refused
    <3>2. c.src \in Pool[c.up] /\ c.up \in Uplink /\ c.src # NoAddr
      BY <1>1, <1>4, Octets DEF Owned, WellFormed, NoAddr
    <3>3. addr[w] \in Pool[w] \cup {NoAddr}
      BY DEF Kept, Addressed
    <3> QED
      BY <3>1, <3>2, <3>3 DEF TextsApart
  <2> QED
    BY <2>1, <2>2
<1> QED
  BY <1>2, <1>3, <1>4 DEF SrcHeld

LEMMA HeldNext ==
  ASSUME TextsApart, HeldInv, [Next]_vars
  PROVE  HeldInv'
<1>1. SrcHeld /\ TypeOK
  BY DEF HeldInv, PassInv, OwnerInv, KeptInv, TypeInv
<1>2. ReadLinks \/ Plan \/ PassDone \/ Shutdown \/ CleanupDone \/ UNCHANGED vars => UNCHANGED <<addr, tables>>
  BY <1>1, ReadStep, PlanStep, EndSteps DEF vars, links, ours
<1>3. UNCHANGED <<addr, tables>> => SrcHeld'
  BY <1>1 DEF SrcHeld
<1>4. Surroundings \/ (\E c \in batch : Run(c)) => SrcHeld'
  BY HeldSurroundings, HeldRun
<1>5. SrcHeld'
  BY <1>2, <1>3, <1>4, Zenon DEF Next, Reconciler
<1>6. PassInv'
  BY PassNext DEF HeldInv
<1> QED
  BY <1>5, <1>6 DEF HeldInv

\* In a pass in which nothing failed and which nobody disturbed, whatever is wanted is
\* there or there is a command for it yet to run, which nothing will refuse, and no
\* command is against what is wanted.
TablesSettle ==
  /\ \A i \in WantedTables(gateways) :
       /\ tables[i] = WantedTable(gateways, i) \/ Pending("table", i)
       /\ [from |-> addrs[i], index |-> i] \in rules \/ Pending("rule", i)
  /\ \A c \in batch :
       /\ c.do = "table" =>
            /\ c.index \in WantedTables(gateways)
            /\ [dev |-> c.up, via |-> c.via, src |-> c.src] = WantedTable(gateways, c.index)
       /\ c.do = "rule" => c.index \in WantedTables(gateways) /\ c.src = addrs[c.index]
       /\ c.do \in {"flush", "del_rule"} => c.index \notin WantedTables(gateways)

MarksSettle ==
  \A m \in WantedMarks :
    m \in marks \/ \E c \in batch : c.do = "mark" /\ c.up = m.up /\ c.index = m.index

EcmpSettles ==
  LET active == Active(gateways, unhealthy) IN
  /\ \A g \in gateways : index[g.up] = g.index
  /\ managed => active = {} \/ ecmp = active \/ \E c \in batch : c.do = "ecmp"
  /\ ~managed => ecmp = {} \/ \E c \in batch : c.do = "del_ecmp"
  /\ \A c \in batch : /\ c.do = "ecmp" => managed /\ c.hops = active /\ (c.add => ecmp \in {{}, active})
                      /\ c.do = "del_ecmp" => ~managed

Settling == Clear => TablesSettle /\ MarksSettle /\ EcmpSettles

\* A table that is left as it is, and its rule, are as they are wanted.
LEMMA InOrderIsWanted ==
  ASSUME TextsApart, HeldInv, pc = "read", ~disturbed, ~stale,
         NEW i \in WantedTables(Gateways(AllRead)), i \notin Unsettled(AllRead)
  PROVE  /\ tables[i] = WantedTable(Gateways(AllRead), i)
         /\ [from |-> addrs[i], index |-> i] \in rules
<1> USE DEF HeldInv, PassInv, OwnerInv, KeptInv, TypeInv
<1> DEFINE G    == Gateways(AllRead)
           want == WantedTable(G, i)
<1>1. /\ i \in Index /\ want.dev \in Uplink /\ index[want.dev] = i
      /\ want.src = addrs[i] /\ addrs[i] \in Address /\ addr[want.dev] = addrs[i]
  BY WantedNow
<1>2. /\ Usable(i) /\ want.via \in Hop /\ want = [dev |-> want.dev, via |-> want.via, src |-> want.src]
  <2>1. G \subseteq Gateway
    BY GatewaysType
  <2>2. /\ Usable(i)
        /\ \E g \in G : want = [dev |-> g.up, via |-> g.via, src |-> addrs[i]]
    BY <2>1, WantedTableFacts
  <2>3. PICK g \in G : want = [dev |-> g.up, via |-> g.via, src |-> addrs[i]]
    BY <2>2
  <2>4. g.via \in Hop
    BY <2>1, <2>3 DEF Gateway
  <2> HIDE DEF want
  <2> QED
    BY <2>2, <2>3, <2>4
<1>3. PICK own \in [Index -> Uplink \cup {0}] : Owned(own)
  BY DEF OneOwner
<1>4. want.dev = own[i]
  BY <1>3, WantedIsOwned
<1> HIDE DEF want
<1>5. SelectsFrom(want.src, i) /\ Leads(tables[i], want)
  BY DEF Unsettled, TableNeedsRestore, want
<1>6. [from |-> addrs[i], index |-> i] \in rules
  <2>1. PICK r \in rules : Begins(want.src, r.from) /\ Begins(Table(i), Table(r.index))
    BY <1>5 DEF SelectsFrom
  <2>2. r = [from |-> r.from, index |-> r.index] /\ r.from \in Address /\ r.index \in Index /\ Usable(r.index)
    BY DEF TypeOK, Kept, UsableOnly
  <2>3. r.from = want.src /\ r.index = i
    BY <1>1, <1>2, <2>1, <2>2 DEF TextsApart
  <2> QED
    BY <1>1, <2>2, <2>3
<1>7. tables[i] \in Content
  BY <1>1 DEF TypeOK
<1>8. tables[i] # NoTable /\ tables[i].dev = want.dev /\ tables[i].via = want.via
  <2>1. CASE want.via = Direct
    BY <1>1, <1>5, <2>1, Octets DEF Leads, NoTable
  <2>2. CASE want.via # Direct
    <3>1. tables[i].via # Direct /\ Begins(want.via, tables[i].via)
      BY <1>5, <2>2 DEF Leads
    <3>2. tables[i] # NoTable
      BY <3>1 DEF NoTable
    <3>3. tables[i].via \in Hop /\ tables[i].dev = own[i]
      BY <1>1, <1>3, <1>7, <3>2 DEF Content, Owned
    <3> QED
      BY <1>2, <1>4, <2>2, <3>1, <3>2, <3>3 DEF TextsApart
  <2> QED
    BY <2>1, <2>2
<1>9. tables[i].src = want.src
  BY <1>1, <1>8 DEF SrcHeld
<1>10. tables[i] = [dev |-> tables[i].dev, via |-> tables[i].via, src |-> tables[i].src]
  BY <1>7, <1>8 DEF Content
<1>11. tables[i] = want
  BY <1>2, <1>8, <1>9, <1>10
<1> QED
  BY <1>6, <1>11 DEF want

LEMMA SettlingPlan ==
  ASSUME TextsApart, HeldInv, Plan
  PROVE  Settling'
<1> SUFFICES ASSUME Clear'
             PROVE  TablesSettle' /\ MarksSettle' /\ EcmpSettles'
  BY DEF Settling
<1> USE DEF HeldInv, PassInv, OwnerInv, KeptInv, TypeInv
<1>1. PICK unreadable \in {AllRead, "routes", "own", "abandoned", "rules", "tables"} :
        /\ PlanWith(unreadable)
        /\ IF unreadable = AllRead THEN UNCHANGED <<faults, failed>> ELSE faults' = faults + 1 /\ failed' = TRUE
  BY PlanStep
<1>2. /\ UNCHANGED <<index, addr, tables, rules, marks, ecmp, managed, ifaces, addrs, stale, disturbed>>
      /\ pc = "read"
  BY PlanStep
<1>3. unreadable = AllRead /\ ~failed /\ ~disturbed /\ ~stale
  BY <1>1, <1>2 DEF Clear, AsRead
<1> DEFINE G == Gateways(AllRead)
           active == Active(G, Downs(AllRead))
<1>4. gateways' = G /\ batch' = Planned(AllRead) /\ unhealthy' = Downs(AllRead)
  BY <1>1, <1>3 DEF PlanWith
<1>5. \A c \in batch' : PlannedAs(c, AllRead)
  BY <1>4, PlannedFacts
<1>6. /\ \A i \in StaleTables(G, AllRead) : \A k \in {"del_rule", "flush"} :
           \E d \in Planned(AllRead) : d.do = k /\ d.index = i
      /\ \A i \in Unsettled(AllRead) : \A k \in {"table", "rule"} :
           \E d \in Planned(AllRead) : d.do = k /\ d.index = i
      /\ MarksNeedRestore(AllRead) => \A m \in WantedMarks :
           \E c \in Planned(AllRead) : c.do = "mark" /\ c.up = m.up /\ c.index = m.index
      /\ managed /\ active # {} /\ active # ecmp => \E c \in Planned(AllRead) : c.do = "ecmp"
      /\ ~managed /\ ecmp # {} /\ AllRead # "abandoned" => \E c \in Planned(AllRead) : c.do = "del_ecmp"
  BY PlannedHas
<1>7. /\ WantedTables(gateways)' = WantedTables(G)
      /\ \A i : WantedTable(gateways, i)' = WantedTable(G, i)
      /\ WantedMarks' = WantedMarks
  BY <1>2, <1>4 DEF WantedTables, WantedTable, WantedMarks
<1>8. TablesSettle'
  <2>1. ASSUME NEW i \in WantedTables(G)
        PROVE  /\ tables[i] = WantedTable(G, i) \/ Pending("table", i)'
               /\ [from |-> addrs[i], index |-> i] \in rules \/ Pending("rule", i)'
    <3>1. CASE i \in Unsettled(AllRead)
      BY <1>4, <1>6, <3>1 DEF Pending
    <3>2. CASE i \notin Unsettled(AllRead)
      BY <1>2, <1>3, <3>2, InOrderIsWanted
    <3> QED
      BY <3>1, <3>2
  <2>2. ASSUME NEW c \in batch', c.do \in {"table", "rule"}
        PROVE  /\ c.index \in WantedTables(G) /\ c.src = addrs[c.index]
               /\ c.do = "table" => [dev |-> c.up, via |-> c.via, src |-> c.src] = WantedTable(G, c.index)
    <3>1. c.index \in Unsettled(AllRead) /\ c.index \in WantedTables(G)
      BY <1>5, <2>2 DEF PlannedAs, Unsettled
    <3>2. G \subseteq Gateway
      BY GatewaysType
    <3> DEFINE want == WantedTable(G, c.index)
    <3>3. \E g \in G : want = [dev |-> g.up, via |-> g.via, src |-> addrs[c.index]]
      BY <3>1, <3>2, WantedTableFacts
    <3>4. c.src = want.src /\ (c.do = "table" => c.up = want.dev /\ c.via = want.via)
      BY <1>5, <2>2 DEF PlannedAs
    <3> HIDE DEF want
    <3>5. want = [dev |-> want.dev, via |-> want.via, src |-> want.src] /\ want.src = addrs[c.index]
      BY <3>3
    <3>6. c.do = "table" => [dev |-> c.up, via |-> c.via, src |-> c.src] = want
      BY <3>4, <3>5
    <3> QED
      BY <3>1, <3>4, <3>5, <3>6 DEF want
  <2>3. \A c \in batch' : c.do \in {"flush", "del_rule"} => c.index \notin WantedTables(G)
    BY <1>5, StaleFacts DEF PlannedAs
  <2> HIDE DEF G
  <2>4. \A i \in WantedTables(gateways)' :
          /\ tables'[i] = WantedTable(gateways, i)' \/ Pending("table", i)'
          /\ [from |-> addrs'[i], index |-> i] \in rules' \/ Pending("rule", i)'
    BY <1>2, <1>7, <2>1
  <2>5. \A c \in batch' :
          /\ c.do = "table" =>
               /\ c.index \in WantedTables(gateways)'
               /\ [dev |-> c.up, via |-> c.via, src |-> c.src] = WantedTable(gateways, c.index)'
          /\ c.do = "rule" => c.index \in WantedTables(gateways)' /\ c.src = addrs'[c.index]
          /\ c.do \in {"flush", "del_rule"} => c.index \notin WantedTables(gateways)'
    BY <1>2, <1>7, <2>2, <2>3
  <2> QED
    BY <2>4, <2>5, Zenon DEF TablesSettle
<1>9. MarksSettle'
  <2>1. CASE MarksNeedRestore(AllRead)
    BY <1>4, <1>6, <1>7, <2>1 DEF MarksSettle
  <2>2. ASSUME ~MarksNeedRestore(AllRead), NEW m \in WantedMarks
        PROVE  m \in marks
    <3>1. m.up \in Uplink /\ m.index \in Index /\ Usable(m.index) /\ m = [up |-> m.up, index |-> m.index]
      BY WantedMarksFacts
    <3>2. PICK q \in marks : BeginsHex(m.up, q.up) /\ Begins(Table(m.index), Table(q.index))
      BY <2>2 DEF MarksNeedRestore, SelectsMark
    <3>3. q = [up |-> q.up, index |-> q.index] /\ q.up \in Uplink /\ q.index \in Index /\ Usable(q.index)
      BY DEF TypeOK, Kept, UsableOnly
    <3> QED
      BY <3>1, <3>2, <3>3 DEF TextsApart
  <2> QED
    BY <1>2, <1>7, <2>1, <2>2 DEF MarksSettle
<1>10. EcmpSettles'
  <2>1. \A g \in G : index[g.up] = g.index
    BY <1>2, <1>3, GatewayNow
  <2>2. Active(gateways, unhealthy)' = active
    BY <1>4 DEF Active
  <2>3. \A c \in batch' : /\ c.do = "ecmp" => managed /\ c.hops = active /\ (c.add => ecmp = {})
                          /\ c.do = "del_ecmp" => ~managed
    BY <1>5, AllReadIsNone DEF PlannedAs
  <2>4. /\ managed => active = {} \/ ecmp = active \/ \E c \in batch' : c.do = "ecmp"
        /\ ~managed => ecmp = {} \/ \E c \in batch' : c.do = "del_ecmp"
    BY <1>4, <1>6, AllReadIsNone
  <2> HIDE DEF G, active
  <2> QED
    BY <1>2, <1>4, <2>1, <2>2, <2>3, <2>4 DEF EcmpSettles
<1> QED
  BY <1>8, <1>9, <1>10

\* In such a pass only a deletion can be refused: of a rule that is not there.
LEMMA DoneOrNeedless ==
  ASSUME HeldInv, Paired, Settling, Clear, NEW c \in batch, Run(c), Clear'
  PROVE  Effect(c) \/ (c.do = "del_rule" /\ UNCHANGED <<tables, rules, marks, ecmp>>)
         \/ (c.do = "del_ecmp" /\ ecmp = {} /\ UNCHANGED <<tables, rules, marks, ecmp>>)
         \/ (c.do = "ecmp" /\ ecmp = c.hops /\ UNCHANGED <<tables, rules, marks, ecmp>>)
<1> USE DEF HeldInv, PassInv, OwnerInv, KeptInv, TypeInv
<1>1. Effect(c) \/ (Refused(c) /\ UNCHANGED <<tables, rules, marks, ecmp>>)
  BY RunStep DEF Clear
<1>2. c.do # "del_mark"
  BY DEF Clear, Kept, Waiting
<1>3. c.do = "table" => ~Refused(c)
  BY NotRefused
<1>4. ASSUME c.do = "ecmp"
      PROVE  ~Refused(c) \/ ecmp = c.hops
  <2>1. /\ c.hops = Active(gateways, unhealthy) /\ (c.add => ecmp \in {{}, c.hops})
        /\ \A g \in gateways : index[g.up] = g.index
    BY <1>4 DEF Settling, EcmpSettles
  <2>2. \A g \in gateways : g.index # Gone
    BY DEF TypeOK, Gateway, Index, Gone
  <2>3. \A n \in c.hops : index[n[1]] # Gone
    BY <2>1, <2>2 DEF Active
  <2> QED
    BY <1>4, <2>1, <2>3 DEF Refused
<1> QED
  BY <1>1, <1>2, <1>3, <1>4 DEF Refused

LEMMA SettlingRun ==
  ASSUME HeldInv, Paired, Settling, NEW c \in batch, Run(c)
  PROVE  Settling'
<1> SUFFICES ASSUME Clear'
             PROVE  TablesSettle' /\ MarksSettle' /\ EcmpSettles'
  BY DEF Settling
<1> USE DEF HeldInv, PassInv, OwnerInv, KeptInv, TypeInv
<1>1. /\ \A d \in batch : Rank[c.do] <= Rank[d.do]
      /\ batch' = batch \ {c}
      /\ UNCHANGED <<index, addr, managed, ifaces, addrs, gateways, unhealthy>>
  BY RunStep
<1>2. Clear
  BY RunStep DEF Clear
<1>3. TablesSettle /\ MarksSettle /\ EcmpSettles
  BY <1>2 DEF Settling
<1>4. Effect(c) \/ (c.do \in {"del_rule", "del_ecmp", "ecmp"} /\ UNCHANGED <<tables, rules, marks, ecmp>>)
  BY <1>2, DoneOrNeedless
<1>5. /\ WantedTables(gateways)' = WantedTables(gateways)
      /\ \A i : WantedTable(gateways, i)' = WantedTable(gateways, i)
      /\ WantedMarks' = WantedMarks
      /\ Active(gateways, unhealthy)' = Active(gateways, unhealthy)
  BY <1>1 DEF WantedTables, WantedTable, WantedMarks, Active
<1>6. c.index \in Index \cup {Gone} /\ (c.do \in {"table", "rule", "flush", "del_rule"} => c.index \in Index)
  BY DEF TypeOK, Command, WellFormed
<1>7. \A i \in WantedTables(gateways) : i \in Index
  BY DEF WantedTables
<1>8. TablesSettle'
  <2>1. ASSUME NEW i \in WantedTables(gateways)
        PROVE  tables'[i] = WantedTable(gateways, i) \/ Pending("table", i)'
    <3>1. CASE \E d \in batch : d # c /\ d.do = "table" /\ d.index = i
      BY <1>1, <3>1 DEF Pending
    <3>2. CASE c.do = "table" /\ c.index = i
      <4>1. tables'[i] = [dev |-> c.up, via |-> c.via, src |-> c.src]
        BY <1>4, <1>7, <3>2 DEF Effect, TypeOK
      <4> QED
        BY <1>3, <3>2, <4>1 DEF TablesSettle
    <3>3. CASE tables[i] = WantedTable(gateways, i) /\ ~(c.do = "table" /\ c.index = i)
      <4>1. ~(c.do = "flush" /\ c.index = i)
        BY <1>3 DEF TablesSettle
      <4>2. tables'[i] = tables[i]
        BY <1>7, <3>3, <4>1, RunLeaves
      <4> QED
        BY <3>3, <4>2
    <3> QED
      BY <1>3, <3>1, <3>2, <3>3 DEF TablesSettle, Pending
  <2>2. ASSUME NEW i \in WantedTables(gateways)
        PROVE  [from |-> addrs[i], index |-> i] \in rules' \/ Pending("rule", i)'
    <3> DEFINE r == [from |-> addrs[i], index |-> i]
    <3>1. CASE \E d \in batch : d # c /\ d.do = "rule" /\ d.index = i
      BY <1>1, <3>1 DEF Pending
    <3>2. CASE c.do = "rule" /\ c.index = i
      BY <1>3, <1>4, <3>2 DEF Effect, TablesSettle
    <3>3. CASE r \in rules
      <4>1. r.index = i
        OBVIOUS
      <4>2. c.do = "del_rule" => c.index # i
        BY <1>3 DEF TablesSettle
      <4> HIDE DEF r
      <4>3. r \in rules'
        BY <1>4, <3>3, <4>1, <4>2 DEF Effect
      <4> QED
        BY <4>3 DEF r
    <3> QED
      BY <1>3, <3>1, <3>2, <3>3 DEF TablesSettle, Pending
  <2>3. \A d \in batch' :
          /\ d.do = "table" =>
               /\ d.index \in WantedTables(gateways)
               /\ [dev |-> d.up, via |-> d.via, src |-> d.src] = WantedTable(gateways, d.index)
          /\ d.do = "rule" => d.index \in WantedTables(gateways) /\ d.src = addrs[d.index]
          /\ d.do \in {"flush", "del_rule"} => d.index \notin WantedTables(gateways)
    BY <1>1, <1>3 DEF TablesSettle
  <2>4. \A i \in WantedTables(gateways)' :
          /\ tables'[i] = WantedTable(gateways, i)' \/ Pending("table", i)'
          /\ [from |-> addrs'[i], index |-> i] \in rules' \/ Pending("rule", i)'
    BY <1>1, <1>5, <2>1, <2>2
  <2>5. \A d \in batch' :
          /\ d.do = "table" =>
               /\ d.index \in WantedTables(gateways)'
               /\ [dev |-> d.up, via |-> d.via, src |-> d.src] = WantedTable(gateways, d.index)'
          /\ d.do = "rule" => d.index \in WantedTables(gateways)' /\ d.src = addrs'[d.index]
          /\ d.do \in {"flush", "del_rule"} => d.index \notin WantedTables(gateways)'
    BY <1>1, <1>5, <2>3
  <2> QED
    BY <2>4, <2>5, Zenon DEF TablesSettle
<1>9. MarksSettle'
  <2>1. ASSUME NEW m \in WantedMarks
        PROVE  m \in marks' \/ \E d \in batch' : d.do = "mark" /\ d.up = m.up /\ d.index = m.index
    <3>1. c.do # "del_mark"
      BY <1>2 DEF Clear, Kept, Waiting
    <3>2. m = [up |-> m.up, index |-> m.index]
      BY WantedMarksFacts
    <3>3. CASE m \in marks
      BY <1>4, <3>1, <3>3 DEF Effect
    <3>4. CASE c.do = "mark" /\ c.up = m.up /\ c.index = m.index
      BY <1>4, <3>2, <3>4 DEF Effect
    <3> QED
      BY <1>1, <1>3, <3>3, <3>4 DEF MarksSettle
  <2> QED
    BY <1>5, <2>1 DEF MarksSettle
<1>10. EcmpSettles'
  <2> DEFINE active == Active(gateways, unhealthy)
  <2>1. /\ \A g \in gateways : index[g.up] = g.index
        /\ managed => active = {} \/ ecmp = active \/ \E d \in batch : d.do = "ecmp"
        /\ ~managed => ecmp = {} \/ \E d \in batch : d.do = "del_ecmp"
        /\ \A d \in batch : /\ d.do = "ecmp" => managed /\ d.hops = active /\ (d.add => ecmp \in {{}, active})
                            /\ d.do = "del_ecmp" => ~managed
    BY <1>3 DEF EcmpSettles
  <2>2. Active(gateways, unhealthy)' = active
    BY <1>5
  <2> HIDE DEF active
  <2>3. \/ c.do = "ecmp" /\ managed /\ ecmp' = active
        \/ c.do = "del_ecmp" /\ ~managed /\ ecmp' = {}
        \/ c.do \notin {"ecmp", "del_ecmp"} /\ ecmp' = ecmp
    BY <1>2, <2>1, DoneOrNeedless DEF Effect
  <2>4. /\ managed => active = {} \/ ecmp' = active \/ \E d \in batch' : d.do = "ecmp"
        /\ ~managed => ecmp' = {} \/ \E d \in batch' : d.do = "del_ecmp"
        /\ \A d \in batch' : /\ d.do = "ecmp" => managed /\ d.hops = active /\ (d.add => ecmp' \in {{}, active})
                             /\ d.do = "del_ecmp" => ~managed
    BY <1>1, <2>1, <2>3
  <2> QED
    BY <1>1, <2>1, <2>2, <2>4 DEF EcmpSettles
<1> QED
  BY <1>8, <1>9, <1>10

LEMMA SettlingNext ==
  ASSUME TextsApart, HeldInv, Paired, Settling, [Next]_vars
  PROVE  Settling'
<1>1. TypeOK
  BY DEF HeldInv, PassInv, OwnerInv, KeptInv, TypeInv
<1>2. ReadLinks \/ PassDone \/ Shutdown \/ CleanupDone \/ Crash => ~Clear'
  BY <1>1, ReadStep, EndSteps, CrashStep DEF Clear
<1>3. CASE Beside
  <2>1. SUFFICES ASSUME Clear'
                 PROVE  Settling'
    BY DEF Settling
  <2>2. UNCHANGED <<pc, failed, disturbed, index, addr, tables, rules, marks, ecmp, managed, ifaces, addrs,
                    gateways, unhealthy, batch>>
    BY <1>3, <2>1 DEF Beside, Clear
  <2> QED
    BY <2>2 DEF Settling, Clear, TablesSettle, MarksSettle, EcmpSettles, Pending,
                WantedTables, WantedTable, WantedMarks, Active
<1> QED
  BY <1>1, <1>2, <1>3, StepCases, SettlingPlan, SettlingRun DEF Settling

SettleInv == HeldInv /\ Paired /\ Settling

LEMMA SettleInit ==
  ASSUME Init
  PROVE  SettleInv
<1>1. pc = "idle" /\ \A i \in Index : tables[i] = NoTable
  BY DEF Init
<1> QED
  BY <1>1, PassInit DEF SettleInv, HeldInv, SrcHeld, Paired, Settling, Clear

LEMMA SettleNext ==
  ASSUME TextsApart, SettleInv, [Next]_vars
  PROVE  SettleInv'
<1>1. PassInv
  BY DEF SettleInv, HeldInv
<1> QED
  BY <1>1, HeldNext, PairedNext, SettlingNext DEF SettleInv

LEMMA SettledAtLast ==
  ASSUME SettleInv
  PROVE  PassSettles
<1>1. Quiet => Clear /\ batch = {}
  BY DEF Quiet, Clear
<1>2. \A r \in rules \cup marks : Table(r.index) \notin KernelTables
  <2>1. \A r \in rules \cup marks : Usable(r.index)
    BY DEF SettleInv, HeldInv, PassInv, OwnerInv, KeptInv, Kept, UsableOnly
  <2> QED
    BY <2>1 DEF Usable, KernelTables
<1> QED
  BY <1>1, <1>2, Zenon DEF SettleInv, Settling, PassSettles, TablesSettle, MarksSettle, EcmpSettles, Pending

\* README.md: "whatever drifted ... is repaired": where no text that is looked for begins
\* another and no two interfaces may be given one address, after a pass in which nothing
\* failed and which nobody disturbed the kernel is as the pass wanted it, whatever it was
\* like before, and no rule leads to a table of the kernel's own (TableForIface).
THEOREM PassesSettle ==
  ASSUME TextsApart
  PROVE  Spec => []PassSettles
<1>1. Init => SettleInv
  BY SettleInit
<1>2. SettleInv /\ [Next]_vars => SettleInv'
  BY SettleNext
<1>3. SettleInv => PassSettles
  BY SettledAtLast
<1> QED
  BY <1>1, <1>2, <1>3, PTL DEF Spec

\* Constants of which this is so: the default offset of the tables, addresses and next
\* hops that are written with three digits, marks with one, and pools of their own.
LEMMA LikeLengthsAreApart ==
  ASSUME TableOffset >= 99,
         \A u \in Uplink : Pool[u] \subseteq 100..255 /\ Via[u] \subseteq (100..255) \cup {Direct} /\ u <= 15,
         \A u, w \in Uplink : u # w => Pool[u] \cap Pool[w] = {}
  PROVE  TextsApart
<1>1. \A a, b \in 100..255 : Begins(a, b) => a = b
  BY DEF Begins
<1>2. \A u, w \in 1..15 : BeginsHex(u, w) => u = w
  BY DEF BeginsHex
<1>3. Address \subseteq 100..255 /\ Hop \ {Direct} \subseteq 100..255
  BY DEF Address, Hop
<1>4. \A u \in Uplink : u \in 1..15
  BY RoutingAssumption
<1>5. \A a, b \in Address : Begins(a, b) => a = b
  BY <1>1, <1>3
<1>6. \A v, w \in Hop \ {Direct} : Begins(v, w) => v = w
  BY <1>1, <1>3
<1>7. \A u, w \in Uplink : BeginsHex(u, w) => u = w
  BY <1>2, <1>4
<1> QED
  BY <1>5, <1>6, <1>7, OffsetsApart, Zenon DEF TextsApart

=============================================================================
