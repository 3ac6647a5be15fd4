--------------------------- MODULE SteeringProofs ---------------------------
(***************************************************************************)
(* What holds of IPv6 steering and translation for any uplinks, subnets,   *)
(* delegations, configurations, and any number of changes and faults.      *)
(***************************************************************************)
EXTENDS Steering, FiniteSetTheorems, WellFoundedInduction, TLAPS

-----------------------------------------------------------------------------
(* Numbers.                                                                 *)

\* A set of natural numbers that is not empty has a least element.
LEMMA Least ==
  ASSUME NEW S \in SUBSET Nat, S # {}
  PROVE  \E m \in S : \A n \in S : m <= n
<1> DEFINE R == OpToRel(<, Nat)
<1>1. \A x, y \in Nat : <<x, y>> \in R <=> x < y
  BY DEF OpToRel
<1>2. IsWellFoundedOn(R, Nat)
  BY NatLessThanWellFounded
<1> HIDE DEF R
<1>3. PICK m \in S : \A n \in S : <<n, m>> \notin R
  BY <1>2, WFMin
<1>4. \A n \in S : ~(n < m)
  BY <1>1, <1>3, Zenon
<1> QED
  BY <1>4

\* One that is bounded has a greatest.
LEMMA Greatest ==
  ASSUME NEW n \in Nat, NEW S \in SUBSET (0..n), S # {}
  PROVE  \E m \in S : \A x \in S : x <= m
<1> DEFINE T == {n - x : x \in S}
<1>1. \A x \in S : x \in Nat /\ x <= n /\ n - x \in Nat
  OBVIOUS
<1>2. T \in SUBSET Nat
  BY <1>1
<1>3. T # {} /\ \A x \in S : n - x \in T
  OBVIOUS
<1>4. PICK m \in S : \A y \in T : n - m <= y
  <2>1. PICK t \in T : \A y \in T : t <= y
    BY <1>2, <1>3, Least
  <2> QED
    BY <2>1
<1> HIDE DEF T
<1>5. \A x \in S : n - m <= n - x
  BY <1>3, <1>4
<1> QED
  BY <1>1, <1>5

\* The first /64 of a delegation is a number.
LEMMA BaseType ==
  ASSUME NEW l \in Delegation
  PROVE  Base(l) \in Nat
<1>1. l.prefix \in Nat /\ l.size \in Nat
  BY DEF Delegation
<1>2. CASE l.size # 0
  <2>1. l.prefix % l.size \in 0..(l.size - 1) /\ l.prefix % l.size <= l.prefix
    BY <1>1, <1>2
  <2> QED
    BY <1>1, <1>2, <2>1 DEF Base
<1> QED
  BY <1>1, <1>2 DEF Base

-----------------------------------------------------------------------------
(* What an uplink maps.                                                     *)

\* slotsFor, subnetAt and Assign: the subnets an uplink maps are its own, each once,
\* to a /64 of its delegation that no other of them has.
LEMMA AssignFacts ==
  ASSUME NEW u \in Uplink, NEW l \in Delegation
  PROVE  /\ Assign(u, l) \subseteq Mapping
         /\ \A a \in Assign(u, l) :
              a.up = u /\ a.external \in Base(l)..(Base(l) + l.size - 1)
         /\ \A a, b \in Assign(u, l) :
              a # b => a.external # b.external /\ a.subnet # b.subnet
<1> DEFINE Map(k) == [up |-> u, subnet |-> Priority[u][k], external |-> Base(l) + k - 1]
           K      == {j \in DOMAIN Priority[u] : j <= Slots(l)}
<1>1. Base(l) \in Nat /\ l.size \in Nat
  BY BaseType DEF Delegation
<1>2. Priority[u] \in Seq(Subnet)
  BY SteeringAssumption
<1>3. \A k \in K : k \in 1..l.size /\ k \in DOMAIN Priority[u] /\ Priority[u][k] \in Subnet
  BY <1>1, <1>2 DEF Slots
<1>4. Assign(u, l) = {Map(k) : k \in K}
  BY DEF Assign
<1> HIDE DEF K
<1>5. \A k \in K : Map(k) \in Mapping
  BY <1>1, <1>3 DEF Mapping
<1>6. \A k \in K : Map(k).external \in Base(l)..(Base(l) + l.size - 1)
  BY <1>1, <1>3
<1>7. \A j, k \in K : j # k => Map(j).external # Map(k).external /\ Map(j).subnet # Map(k).subnet
  BY <1>1, <1>3, PriorityAssumption
<1>8. \A k \in K : Map(k).up = u
  OBVIOUS
<1> HIDE DEF Map
<1> QED
  BY <1>4, <1>5, <1>6, <1>7, <1>8

\* What is assigned, to which uplinks, and that each has one delegation.
LEMMA AssignedFacts ==
  ASSUME TypeOK, NEW up \in SUBSET Uplink
  PROVE  /\ Assigned(up) \subseteq Mapping
         /\ \A a \in Assigned(up) : a \in Assign(a.up, lease[a.up])
<1>1. \A u \in Uplink : lease[u] \in Delegation
  BY DEF TypeOK
<1>2. \A a \in Assigned(up) : \E u \in up : a \in Assign(u, lease[u])
  BY DEF Assigned
<1> QED
  BY <1>1, <1>2, AssignFacts

\* Every rule that is wanted is a rule.
LEMMA RulesType ==
  ASSUME NEW A \in SUBSET Mapping
  PROVE  DesiredRules(A) \subseteq NptRule
<1>1. \A a \in A : Snat(a) \in NptRule
  BY DEF Snat, NptRule, Mapping
<1>2. \A a \in A : Inbound(a) \in NptRule
  <2> TAKE a \in A
  <2>1. CASE a.up \in conf.inbound
    BY <2>1 DEF Inbound, Snat, NptRule, Mapping
  <2>2. CASE a.up \notin conf.inbound
    BY <2>2 DEF Inbound, Snat, NptRule, Mapping
  <2> QED
    BY <2>1, <2>2
<1>3. \A u \in Uplink : Guard(u) \in NptRule
  BY DEF Guard, NptRule
<1>4. Guards(A) \subseteq Uplink
  BY DEF Guards
<1> QED
  BY <1>1, <1>2, <1>3, <1>4 DEF DesiredRules

\* The source rules among them are those of the assignments, one each.
LEMMA SnatFacts ==
  ASSUME NEW A \in SUBSET Mapping, NEW r \in DesiredRules(A), r.do = "snat"
  PROVE  \E a \in A : r = Snat(a)
<1>1. \A a \in A : Inbound(a).do \in {"dnat", "closed"}
  BY DEF Inbound, Snat
<1>2. \A u \in Uplink : Guard(u).do = "guard"
  BY DEF Guard
<1>3. Guards(A) \subseteq Uplink
  BY DEF Guards
<1>4. \/ \E a \in A : r = Snat(a)
      \/ \E a \in A : r = Inbound(a)
      \/ \E u \in Guards(A) : r = Guard(u)
  BY DEF DesiredRules
<1> QED
  BY <1>1, <1>2, <1>3, <1>4

-----------------------------------------------------------------------------
(* Type correctness.                                                        *)

\* The gateways of a pass are gateways.
LEMMA GatewaysType ==
  ASSUME TypeOK, NEW unreadable
  PROVE  Gateways(unreadable) \subseteq Gateway
<1>1. CASE unreadable = "routes"
  BY <1>1 DEF Gateways, TypeOK
<1>2. CASE unreadable # "routes"
  <2>1. \A r \in routes : r[1] \in Weighted /\ ifaces[r[1]] # Gone =>
          [up |-> r[1], hop |-> r[2], index |-> ifaces[r[1]]] \in Gateway
    BY SteeringAssumption DEF TypeOK, Route, Gateway
  <2> QED
    BY <1>2, <2>1 DEF Gateways
<1> QED
  BY <1>1, <1>2

\* The route that is wanted of a table is one by way of a gateway.
LEMMA WantedRouteType ==
  ASSUME TypeOK, NEW G \in SUBSET Gateway, NEW i \in WantedTables(G)
  PROVE  /\ i \in Index /\ WantedRoute(G, i) \in Route
         /\ \E g \in G : g.index = i /\ WantedRoute(G, i) = <<g.up, g.hop>>
<1> DEFINE on == {g \in G : g.index = i /\ g.hop # IPv4}
           H  == {g.hop : g \in on}
<1>1. i \in Index /\ on # {}
  BY DEF WantedTables
<1>2. PICK n \in Nat : Hop \subseteq 0..n
  BY SteeringAssumption
<1>3. H \in SUBSET (0..n) /\ H # {}
  BY <1>1, <1>2 DEF Gateway
<1>4. PICK m \in H : \A h \in H : h <= m
  BY <1>3, Greatest
<1>5. \E x \in on : \A y \in on : y.hop <= x.hop
  BY <1>4
<1> DEFINE g == CHOOSE x \in on : \A y \in on : y.hop <= x.hop
<1>6. g \in on
  BY <1>5
<1>7. WantedRoute(G, i) = <<g.up, g.hop>>
  BY DEF WantedRoute
<1>8. g \in Gateway /\ g \in G /\ g.index = i
  BY <1>6
<1> HIDE DEF g
<1> QED
  BY <1>1, <1>7, <1>8 DEF Gateway, Route

\* A rule that points at an interface has a mark, of which there is a least.
LEMMA MarkOfType ==
  ASSUME TypeOK, NEW i \in Pointed
  PROVE  /\ i \in Index /\ MarkOf(i) \in Uplink
         /\ \E r \in Rules : r.index = i /\ r.mark = MarkOf(i)
<1> DEFINE M == {r.mark : r \in {x \in Rules : x.index = i}}
<1>1. Rules \subseteq FwRule
  BY DEF Rules, TypeOK
<1>2. M \subseteq Uplink /\ M # {} /\ i \in Index
  BY <1>1 DEF Pointed, FwRule
<1>3. M \in SUBSET Nat
  BY <1>2, SteeringAssumption
<1>4. PICK m \in M : \A n \in M : m <= n
  BY <1>2, <1>3, Least
<1>5. MarkOf(i) \in M
  <2> HIDE DEF M
  <2>1. (CHOOSE x \in M : \A y \in M : x <= y) \in M
    BY <1>4
  <2> QED
    BY <2>1 DEF MarkOf, M
<1> QED
  BY <1>2, <1>5

\* The fields of a command, by what it does.
LEMMA CommandFields ==
  ASSUME NEW c \in Command
  PROVE  /\ c.do = "npt" => c.rules \in SUBSET NptRule
         /\ c.do = "marks" => c.marks \in SUBSET Mark
         /\ c.do = "learn" => c.watch \in SUBSET Host
         /\ c.do = "table" => c.index \in Index /\ c.route \in Route
         /\ c.do = "flush" => c.index \in Index
         /\ c.do = "add_rule" => c.rule \in FwRule
  BY DEF Command

\* The batch of a pass consists of commands.
LEMMA BatchType ==
  ASSUME TypeOK, NEW G \in SUBSET Gateway, NEW A \in SUBSET Mapping, NEW unreadable
  PROVE  /\ \A i \in StaleTables(G, unreadable) : Teardown(i) \subseteq Command
         /\ TableActions(G, unreadable) \subseteq Command
         /\ RuleActions(G, unreadable) \subseteq Command
         /\ MarkActions(A, unreadable) \subseteq Command
         /\ NptActions(A, unreadable) \subseteq Command
         /\ LearnActions(unreadable) \subseteq Command
<1>1. \A i \in StaleTables(G, unreadable) : Teardown(i) \subseteq Command
  <2>1. StaleTables(G, unreadable) \subseteq Pointed
    BY DEF StaleTables
  <2> QED
    BY <2>1, MarkOfType DEF Teardown, Command
<1>2. TableActions(G, unreadable) \subseteq Command
  BY WantedRouteType DEF TableActions, Command
<1>3. RuleActions(G, unreadable) \subseteq Command
  <2>1. conf.steers \subseteq Uplink
    BY SteeringAssumption DEF TypeOK, Config
  <2>2. WantedTables(G) \subseteq Index
    BY DEF WantedTables
  <2>3. WantedRules(G) \subseteq FwRule
    BY <2>1, <2>2 DEF WantedRules, FwRule
  <2> QED
    BY <2>3 DEF RuleActions, Command
<1>4. MarkActions(A, unreadable) \subseteq Command
  <2>1. WantedMarks(A) \subseteq Mark
    BY DEF WantedMarks, Mark, Mapping
  <2> QED
    BY <2>1 DEF MarkActions, Command
<1>5. NptActions(A, unreadable) \subseteq Command
  BY RulesType DEF NptActions, Command
<1>6. LearnActions(unreadable) \subseteq Command
  <2>1. LearnRules \subseteq Host
    BY DEF LearnRules
  <2> QED
    BY <2>1 DEF LearnActions, Command
<1> QED
  BY <1>1, <1>2, <1>3, <1>4, <1>5, <1>6

\* The initial state has the types.
LEMMA TypeInit ==
  Init => TypeOK
<1> SUFFICES ASSUME Init PROVE TypeOK
  OBVIOUS
<1>1. index \in [Uplink -> Index \cup {Gone}] /\ used \in 0..MaxIndex
  <2>1. IsFiniteSet(Uplink) /\ Cardinality(Uplink) \in Nat /\ Cardinality(Uplink) <= MaxIndex
        /\ MaxIndex \in Nat
    BY FS_CardinalityType, SteeringAssumption
  <2>2. ASSUME NEW u \in Uplink
        PROVE  Cardinality({w \in Uplink : w <= u}) \in Index
    <3> DEFINE W == {w \in Uplink : w <= u}
    <3>1. W \subseteq Uplink /\ u \in W
      BY SteeringAssumption
    <3> HIDE DEF W
    <3>2. IsFiniteSet(W) /\ Cardinality(W) <= Cardinality(Uplink) /\ Cardinality(W) \in Nat
      BY <2>1, <3>1, FS_Subset, FS_CardinalityType
    <3>3. Cardinality(W) # 0
      BY <3>1, <3>2, FS_EmptySet
    <3> QED
      BY <2>1, <3>2, <3>3 DEF W, Index
  <2> QED
    BY <2>1, <2>2 DEF Init
<1>2. lease \in [Uplink -> Delegation]
  <2>1. PICK f \in [Uplink -> UNION {Lease[u] : u \in Uplink}] :
          lease = f /\ \A u \in Uplink : f[u] \in Lease[u]
    BY DEF Init
  <2>2. \A u \in Uplink : Lease[u] \in SUBSET Delegation
    BY SteeringAssumption
  <2> QED
    BY <2>1, <2>2
<1>3. routes \subseteq Route /\ npt = {} /\ marks = {} /\ learn = {} /\ learned = {} /\ conf \in Configs
  BY DEF Init
<1>4. tables \in [Index -> Route \cup {<<>>}] /\ fwrules \in Seq(FwRule)
  BY DEF Init
<1>5. changes \in 0..MaxChanges /\ faults \in 0..MaxFaults
  BY SteeringAssumption DEF Init
<1>6. ifaces \in [Uplink -> Index \cup {Gone}]
  BY DEF Init
<1> QED
  BY <1>1, <1>2, <1>3, <1>4, <1>5, <1>6 DEF Init, TypeOK

\* What has been counted stays within its bound.
LEMMA Counted ==
  ASSUME TypeOK
  PROVE  /\ \A kind : Change(kind) => changes' \in 0..MaxChanges /\ disturbed' \in BOOLEAN
         /\ \A kind : Fault(kind) => faults' \in 0..MaxFaults
<1>1. MaxChanges \in Nat /\ MaxFaults \in Nat
  BY SteeringAssumption
<1>2. changes \in 0..MaxChanges /\ faults \in 0..MaxFaults
  BY DEF TypeOK
<1>3. ASSUME NEW kind, Change(kind)
      PROVE  changes' \in 0..MaxChanges /\ disturbed' \in BOOLEAN
  <2>1. changes' = changes + 1 /\ changes < MaxChanges /\ disturbed' = TRUE
    BY <1>3 DEF Change
  <2> QED
    BY <1>1, <1>2, <2>1
<1>4. ASSUME NEW kind, Fault(kind)
      PROVE  faults' \in 0..MaxFaults
  <2>1. faults' = faults + 1 /\ faults < MaxFaults
    BY <1>4 DEF Fault
  <2> QED
    BY <1>1, <1>2, <2>1
<1> QED
  BY <1>3, <1>4

\* The steps of the surroundings keep the types.
LEMMA TypeSurroundings ==
  ASSUME TypeOK, Surroundings
  PROVE  TypeOK'
<1>1. CASE Crash
  BY <1>1, Counted DEF TypeOK, Crash, links, ours, Gone
<1>2. CASE HostChanges
  BY <1>2, Counted DEF TypeOK, HostChanges, links, memory
<1>3. CASE OthersWipe
  BY <1>3, Counted DEF TypeOK, OthersWipe, links, memory
<1>4. ASSUME NEW u \in Uplink, LinkGone(u)
      PROVE  TypeOK'
  <2>1. tables' \in [Index -> Route \cup {<<>>}]
    BY <1>4 DEF TypeOK, LinkGone
  <2>2. routes' \subseteq Route /\ index' \in [Uplink -> Index \cup {Gone}]
    BY <1>4 DEF TypeOK, LinkGone
  <2> QED
    BY <1>4, <2>1, <2>2, Counted DEF TypeOK, LinkGone, memory
<1>5. ASSUME NEW u \in Uplink, LinkBack(u)
      PROVE  TypeOK'
  <2>1. used' \in Index /\ used' \in 0..MaxIndex
    BY <1>5, SteeringAssumption DEF TypeOK, LinkBack, Index
  <2>2. index' \in [Uplink -> Index \cup {Gone}]
    BY <1>5, <2>1 DEF TypeOK, LinkBack
  <2>3. routes' \subseteq Route
    BY <1>5 DEF TypeOK, LinkBack, Route
  <2> QED
    BY <1>5, <2>1, <2>2, <2>3, Counted DEF TypeOK, LinkBack, ours, memory
<1>6. ASSUME NEW u \in Uplink, RouteChanges(u)
      PROVE  TypeOK'
  <2>1. routes' \subseteq Route
    BY <1>6 DEF TypeOK, RouteChanges, Route
  <2> QED
    BY <1>6, <2>1, Counted DEF TypeOK, RouteChanges, ours, memory
<1>7. ASSUME NEW u \in Uplink, LeaseChanges(u)
      PROVE  TypeOK'
  <2>1. Lease[u] \subseteq Delegation
    BY SteeringAssumption
  <2>2. lease' \in [Uplink -> Delegation]
    BY <1>7, <2>1 DEF TypeOK, LeaseChanges
  <2> QED
    BY <1>7, <2>2, Counted DEF TypeOK, LeaseChanges, ours, memory
<1>8. ASSUME NEW u \in Uplink, HealthTurns(u)
      PROVE  TypeOK'
  BY <1>8, Counted DEF TypeOK, HealthTurns, links, ours
<1> QED
  BY <1>1, <1>2, <1>3, <1>4, <1>5, <1>6, <1>7, <1>8 DEF Surroundings

\* A list of rules without one of them is a list of rules.
LEMMA WithoutFirstType ==
  ASSUME TypeOK, NEW R \in SUBSET Rules, R # {}
  PROVE  WithoutFirst(R) \in Seq(FwRule)
<1> DEFINE K == {j \in DOMAIN fwrules : fwrules[j] \in R}
           First(j) == fwrules[j] \in R /\ \A i \in 1..(j - 1) : fwrules[i] \notin R
           k == CHOOSE j \in DOMAIN fwrules : First(j)
<1>1. fwrules \in Seq(FwRule) /\ DOMAIN fwrules \in SUBSET Nat
  BY DEF TypeOK
<1>2. K \in SUBSET Nat /\ K # {}
  BY <1>1 DEF Rules
<1>3. PICK m \in K : \A j \in K : m <= j
  BY <1>2, Least
<1>4. \A i \in 1..(m - 1) : i \in DOMAIN fwrules /\ i \notin K
  BY <1>1, <1>3
<1>5. First(m)
  BY <1>3, <1>4
<1>6. k \in DOMAIN fwrules
  BY <1>3, <1>5
<1>7. WithoutFirst(R) = SubSeq(fwrules, 1, k - 1) \o SubSeq(fwrules, k + 1, Len(fwrules))
  BY DEF WithoutFirst
<1> HIDE DEF k
<1> QED
  BY <1>1, <1>6, <1>7

\* The steps of the reconciler keep the types.
LEMMA TypeReconciler ==
  ASSUME TypeOK, Reconciler
  PROVE  TypeOK'
<1>1. CASE ReadLinks
  BY <1>1, Counted DEF TypeOK, ReadLinks, links, ours, Gone
<1>2. CASE Plan
  <2>1. PICK unreadable \in {"", "routes", "npt", "marks", "rules", "tables", "learn", "hosts"} :
          LET G    == Gateways(unreadable)
              down == unhealthy \cap StillProbed(G)
              A    == Assigned(Active(G, down))
          IN  /\ IF unreadable = "" THEN UNCHANGED <<faults, failed>>
                 ELSE Fault(unreadable) /\ failed' = TRUE
              /\ gateways' = G
              /\ unhealthy' = down
              /\ hosts' = IF conf.learns = {} \/ unreadable = "hosts" \/ learn = {} THEN hosts ELSE learned
              /\ batch' = (UNION {Teardown(i) : i \in StaleTables(G, unreadable)})
                            \cup TableActions(G, unreadable) \cup RuleActions(G, unreadable)
                            \cup MarkActions(A, unreadable)
                            \cup NptActions(A, unreadable) \cup LearnActions(unreadable)
    BY <1>2 DEF Plan
  <2> DEFINE G == Gateways(unreadable)
             A == Assigned(Active(G, unhealthy \cap StillProbed(G)))
  <2>2. G \in SUBSET Gateway
    BY GatewaysType
  <2>3. Active(G, unhealthy \cap StillProbed(G)) \in SUBSET Uplink
    BY DEF Active
  <2>4. A \in SUBSET Mapping
    BY <2>3, AssignedFacts
  <2>5. batch' \subseteq Command
    <3>1. batch' = (UNION {Teardown(i) : i \in StaleTables(G, unreadable)})
                      \cup TableActions(G, unreadable) \cup RuleActions(G, unreadable)
                      \cup MarkActions(A, unreadable)
                      \cup NptActions(A, unreadable) \cup LearnActions(unreadable)
      BY <2>1
    <3> HIDE DEF G, A
    <3>2. /\ \A i \in StaleTables(G, unreadable) : Teardown(i) \subseteq Command
          /\ TableActions(G, unreadable) \subseteq Command
          /\ RuleActions(G, unreadable) \subseteq Command
          /\ MarkActions(A, unreadable) \subseteq Command
          /\ NptActions(A, unreadable) \subseteq Command
          /\ LearnActions(unreadable) \subseteq Command
      BY <2>2, <2>4, BatchType, Zenon
    <3>3. UNION {Teardown(i) : i \in StaleTables(G, unreadable)} \subseteq Command
      BY <3>2
    <3> HIDE DEF G, A
    <3> QED
      BY <3>1, <3>2, <3>3
  <2>6. gateways' \subseteq Gateway /\ unhealthy' \subseteq Uplink /\ hosts' \subseteq Host
    BY <2>1, <2>2 DEF TypeOK
  <2>7. faults' \in 0..MaxFaults /\ failed' \in BOOLEAN
    BY <2>1, Counted DEF TypeOK
  <2> QED
    BY <1>2, <2>5, <2>6, <2>7 DEF TypeOK, Plan, links, ours
<1>3. ASSUME NEW c \in batch, Run(c)
      PROVE  TypeOK'
  <2>1. c \in Command
    BY DEF TypeOK
  <2>2. faults' \in 0..MaxFaults /\ failed' \in BOOLEAN /\ batch' \subseteq Command
    BY <1>3, Counted DEF TypeOK, Run
  <2>3. CASE UNCHANGED ours
    BY <1>3, <2>2, <2>3 DEF TypeOK, Run, links, ours, memory
  <2>4. CASE ~Refused(c) /\ Effect(c)
    <3>1. npt' \subseteq NptRule /\ marks' \subseteq Mark /\ learn' \subseteq Host /\ learned' \subseteq Host
      BY <2>1, <2>4, CommandFields DEF TypeOK, Effect
    <3>2. tables' \in [Index -> Route \cup {<<>>}]
      BY <2>1, <2>4, CommandFields DEF TypeOK, Effect
    <3>3. fwrules' \in Seq(FwRule)
      <4>1. CASE c.do = "add_rule"
        BY <2>1, <2>4, <4>1, CommandFields DEF TypeOK, Effect
      <4>2. CASE c.do \in {"del_rule", "del_prio"}
        <5>1. Meant(c) \in SUBSET Rules /\ Meant(c) # {}
          BY <2>4, <4>2 DEF Refused, Meant
        <5>2. fwrules' = WithoutFirst(Meant(c))
          BY <2>4, <4>2 DEF Effect
        <5> QED
          BY <5>1, <5>2, WithoutFirstType
      <4>3. CASE c.do \notin {"add_rule", "del_rule", "del_prio"}
        BY <2>4, <4>3 DEF TypeOK, Effect
      <4> QED
        BY <4>1, <4>2, <4>3
    <3> QED
      BY <1>3, <2>2, <3>1, <3>2, <3>3 DEF TypeOK, Run, links, memory
  <2> QED
    BY <1>3, <2>3, <2>4 DEF Run
<1>4. CASE PassDone \/ CleanupDone
  BY <1>4 DEF TypeOK, PassDone, CleanupDone, links, ours, counts, memory
<1>5. CASE Shutdown
  <2>1. CleanupActions \subseteq Command
    <3>1. conf.steers \subseteq Uplink
      BY SteeringAssumption DEF TypeOK, Config
    <3>2. \A u \in conf.steers : ifaces[u] # Gone => [mark |-> u, index |-> ifaces[u]] \in FwRule
      BY <3>1 DEF TypeOK, FwRule
    <3> QED
      BY <3>2 DEF CleanupActions, Command
  <2> QED
    BY <1>5, <2>1 DEF TypeOK, Shutdown, links, ours, counts, memory
<1> QED
  BY <1>1, <1>2, <1>3, <1>4, <1>5 DEF Reconciler

\* So does every step.
LEMMA TypeNext ==
  TypeOK /\ [Next]_vars => TypeOK'
<1> SUFFICES ASSUME TypeOK, [Next]_vars PROVE TypeOK'
  OBVIOUS
<1>1. CASE UNCHANGED vars
  BY <1>1 DEF TypeOK, vars, links, ours, counts, memory
<1> QED
  BY <1>1, TypeSurroundings, TypeReconciler DEF Next

\* Every variable keeps its type: among other things, whatever is read and whichever
\* command fails, a pass only ever runs commands with the arguments of their kind, and
\* a routing table holds a route by way of a gateway that has a mark, or none.
THEOREM TypeCorrect ==
  Spec => []TypeOK
<1> QED
  BY TypeInit, TypeNext, PTL DEF Spec

-----------------------------------------------------------------------------
(* What a pass may write into the translation table.                        *)

\* Of the commands of a pass, those for the translation table.
LEMMA NptCommands ==
  ASSUME NEW G, NEW A, NEW unreadable
  PROVE  /\ \A i : \A c \in Teardown(i) : c.do # "npt"
         /\ \A c \in TableActions(G, unreadable) : c.do # "npt"
         /\ \A c \in RuleActions(G, unreadable) : c.do # "npt"
         /\ \A c \in MarkActions(A, unreadable) : c.do # "npt"
         /\ \A c \in LearnActions(unreadable) : c.do # "npt"
         /\ \A c \in NptActions(A, unreadable) : c.rules = DesiredRules(A)
<1>1. \A i : \A c \in Teardown(i) : c.do # "npt"
  BY DEF Teardown
<1>2. \A c \in TableActions(G, unreadable) : c.do # "npt"
  BY DEF TableActions
<1>3. \A c \in RuleActions(G, unreadable) : c.do # "npt"
  BY DEF RuleActions
<1>4. \A c \in MarkActions(A, unreadable) : c.do # "npt"
  BY DEF MarkActions
<1>5. \A c \in LearnActions(unreadable) : c.do # "npt"
  BY DEF LearnActions
<1>6. \A c \in NptActions(A, unreadable) : c.rules = DesiredRules(A)
  BY DEF NptActions
<1> QED
  BY <1>1, <1>2, <1>3, <1>4, <1>5, <1>6

\* The command a pass has for the translation table writes what is desired of some
\* assignments, each of them the uplink's by the delegation it has then.
LEMMA PlanFacts ==
  ASSUME TypeOK, Plan
  PROVE  \E A \in SUBSET Mapping :
           /\ \A a \in A : a \in Assign(a.up, lease[a.up])
           /\ \A c \in batch' : c.do = "npt" => c.rules = DesiredRules(A)
<1>1. PICK unreadable \in {"", "routes", "npt", "marks", "rules", "tables", "learn", "hosts"} :
        LET G    == Gateways(unreadable)
            down == unhealthy \cap StillProbed(G)
            A    == Assigned(Active(G, down))
        IN  batch' = (UNION {Teardown(i) : i \in StaleTables(G, unreadable)})
                       \cup TableActions(G, unreadable) \cup RuleActions(G, unreadable)
                       \cup MarkActions(A, unreadable)
                       \cup NptActions(A, unreadable) \cup LearnActions(unreadable)
  BY DEF Plan
<1> DEFINE G == Gateways(unreadable)
           A == Assigned(Active(G, unhealthy \cap StillProbed(G)))
<1>2. Active(G, unhealthy \cap StillProbed(G)) \in SUBSET Uplink
  BY DEF Active
<1>3. A \in SUBSET Mapping /\ \A a \in A : a \in Assign(a.up, lease[a.up])
  BY <1>2, AssignedFacts
<1>4. batch' = (UNION {Teardown(i) : i \in StaleTables(G, unreadable)})
                 \cup TableActions(G, unreadable) \cup RuleActions(G, unreadable)
                 \cup MarkActions(A, unreadable)
                 \cup NptActions(A, unreadable) \cup LearnActions(unreadable)
  BY <1>1
<1> HIDE DEF G, A
<1>5. \A c \in batch' : c.do = "npt" => c \in NptActions(A, unreadable)
  BY <1>4, NptCommands
<1>6. \A c \in NptActions(A, unreadable) : c.rules = DesiredRules(A)
  BY NptCommands
<1> QED
  BY <1>3, <1>5, <1>6

\* A step other than Plan and Shutdown adds nothing to the batch, and changes the
\* translation table only by a command of it, or to empty it.
LEMMA NptSteps ==
  ASSUME TypeOK, [Next]_vars
  PROVE  /\ Plan \/ Shutdown \/ batch' \subseteq batch
         /\ npt' = npt \/ npt' = {} \/ \E c \in batch : c.do = "npt" /\ npt' = c.rules
         /\ (\A u \in Uplink : lease[u] \in Lease[u]) => \A u \in Uplink : lease'[u] \in Lease[u]
<1>1. CASE UNCHANGED vars
  BY <1>1 DEF vars, links, ours, memory
<1>2. CASE Surroundings
  <2>1. batch' \subseteq batch /\ (npt' = npt \/ npt' = {}) /\ ~Plan
    BY <1>2 DEF Surroundings, Crash, HostChanges, OthersWipe, LinkGone, LinkBack, RouteChanges,
                LeaseChanges, HealthTurns, Change, Fault, ours, Plan
  <2>2. UNCHANGED lease \/ \E u \in Uplink : LeaseChanges(u)
    BY <1>2 DEF Surroundings, Crash, HostChanges, OthersWipe, LinkGone, LinkBack, RouteChanges,
                HealthTurns, links
  <2>3. ASSUME NEW u \in Uplink, LeaseChanges(u), \A w \in Uplink : lease[w] \in Lease[w]
        PROVE  \A w \in Uplink : lease'[w] \in Lease[w]
    BY <2>3 DEF LeaseChanges, TypeOK
  <2> QED
    BY <2>1, <2>2, <2>3
<1>3. CASE ReadLinks \/ PassDone \/ CleanupDone
  BY <1>3 DEF ReadLinks, PassDone, CleanupDone, links, ours, Plan
<1>4. CASE Plan \/ Shutdown
  BY <1>4 DEF Plan, Shutdown, links, ours, memory
<1>5. ASSUME NEW c \in batch, Run(c)
      PROVE  /\ batch' \subseteq batch
             /\ npt' = npt \/ (c.do = "npt" /\ npt' = c.rules)
             /\ UNCHANGED lease /\ ~Plan
  BY <1>5 DEF Run, Effect, ours, links, Plan
<1> QED
  BY <1>1, <1>2, <1>3, <1>4, <1>5 DEF Next, Reconciler

-----------------------------------------------------------------------------
(* External prefixes are the uplink's own.                                  *)

\* The source rules among some rules map each uplink's subnets one to one, into one
\* delegation of its own.
OwnRules(T) ==
  LET snats == {r \in T : r.do = "snat"} IN
  /\ \A r \in snats : \E l \in Lease[r.up] : r.external \in Base(l)..(Base(l) + l.size - 1)
  /\ \A r, q \in snats : r.up = q.up /\ r # q => r.external # q.external /\ r.subnet # q.subnet

\* So do those that are installed and those about to be, since what is read of leases
\* is what the uplinks may hold.
OwnInv ==
  /\ \A u \in Uplink : lease[u] \in Lease[u]
  /\ OwnRules(npt)
  /\ \A c \in batch : c.do = "npt" => OwnRules(c.rules)

\* What is desired of delegations that the uplinks hold is their own.
LEMMA DesiredIsOwn ==
  ASSUME TypeOK, \A u \in Uplink : lease[u] \in Lease[u],
         NEW A \in SUBSET Mapping, \A a \in A : a \in Assign(a.up, lease[a.up])
  PROVE  OwnRules(DesiredRules(A))
<1>1. \A a \in A : a.up \in Uplink /\ lease[a.up] \in Delegation
  BY DEF Mapping, TypeOK
<1>2. ASSUME NEW r \in DesiredRules(A), r.do = "snat"
      PROVE  \E l \in Lease[r.up] : r.external \in Base(l)..(Base(l) + l.size - 1)
  <2>1. PICK a \in A : r = Snat(a)
    BY <1>2, SnatFacts
  <2>2. r.up = a.up /\ r.external = a.external
    BY <2>1 DEF Snat
  <2>3. a.external \in Base(lease[a.up])..(Base(lease[a.up]) + lease[a.up].size - 1)
    BY <1>1, AssignFacts
  <2> QED
    BY <1>1, <2>2, <2>3
<1>3. ASSUME NEW r \in DesiredRules(A), NEW q \in DesiredRules(A),
             r.do = "snat", q.do = "snat", r.up = q.up, r # q
      PROVE  r.external # q.external /\ r.subnet # q.subnet
  <2>1. PICK a \in A : r = Snat(a)
    BY <1>3, SnatFacts
  <2>2. PICK b \in A : q = Snat(b)
    BY <1>3, SnatFacts
  <2>3. a.up = b.up /\ a # b
    BY <1>3, <2>1, <2>2 DEF Snat
  <2>4. a \in Assign(a.up, lease[a.up]) /\ b \in Assign(a.up, lease[a.up])
    BY <2>3
  <2>5. a.external # b.external /\ a.subnet # b.subnet
    BY <1>1, <2>3, <2>4, AssignFacts
  <2> QED
    BY <2>1, <2>2, <2>5 DEF Snat
<1> QED
  BY <1>2, <1>3 DEF OwnRules

LEMMA OwnInit ==
  Init => OwnInv
<1> SUFFICES ASSUME Init PROVE OwnInv
  OBVIOUS
<1>1. \A u \in Uplink : lease[u] \in Lease[u]
  BY DEF Init
<1> QED
  BY <1>1 DEF Init, OwnInv, OwnRules

LEMMA OwnNext ==
  TypeOK /\ OwnInv /\ [Next]_vars => OwnInv'
<1> SUFFICES ASSUME TypeOK, OwnInv, [Next]_vars PROVE OwnInv'
  OBVIOUS
<1>1. \A u \in Uplink : lease'[u] \in Lease[u]
  BY NptSteps DEF OwnInv
<1>2. OwnRules({})
  BY DEF OwnRules
<1>3. OwnRules(npt')
  BY <1>2, NptSteps DEF OwnInv
<1>4. ASSUME NEW c \in batch', c.do = "npt"
      PROVE  OwnRules(c.rules)
  <2>1. CASE batch' \subseteq batch
    BY <1>4, <2>1 DEF OwnInv
  <2>2. CASE Plan
    <3>1. PICK A \in SUBSET Mapping :
            /\ \A a \in A : a \in Assign(a.up, lease[a.up])
            /\ \A d \in batch' : d.do = "npt" => d.rules = DesiredRules(A)
      BY <2>2, PlanFacts
    <3> QED
      BY <1>4, <3>1, DesiredIsOwn DEF OwnInv
  <2>3. CASE Shutdown
    <3>1. c.rules = {}
      BY <1>4, <2>3 DEF Shutdown, CleanupActions
    <3> QED
      BY <1>2, <3>1
  <2> QED
    BY <2>1, <2>2, <2>3, NptSteps
<1>5. OwnRules(npt)' = OwnRules(npt')
  BY DEF OwnRules
<1> QED
  BY <1>1, <1>3, <1>4, <1>5 DEF OwnInv

\* Whatever delegations come and go, be they too short for the subnets or have bits set
\* beyond their length, an installed mapping is into one the uplink may hold, never
\* beyond its end, and no two of an uplink's subnets share a /64.
THEOREM ExternalsStayOwn ==
  Spec => []ExternalsAreOwn
<1>1. OwnInv => ExternalsAreOwn
  BY DEF OwnInv, OwnRules, ExternalsAreOwn
<1> QED
  BY <1>1, TypeCorrect, OwnInit, OwnNext, PTL DEF Spec

-----------------------------------------------------------------------------
(* Leak protection has no gap.                                              *)

\* With leak protection every ruleset a pass is about to write covers every uplink.
GuardInv ==
  pc = "run" /\ conf.leak => \A c \in batch : c.do = "npt" => Covered(c.rules)

\* What is desired covers them: an uplink translates or is guarded.
LEMMA DesiredCovers ==
  ASSUME NEW A \in SUBSET Mapping, conf.leak
  PROVE  Covered(DesiredRules(A))
<1>1. ASSUME NEW u \in Uplink, u \in Translating(A)
      PROVE  \E r \in DesiredRules(A) : r.do = "snat" /\ r.up = u
  <2>1. PICK a \in A : a.up = u
    BY <1>1 DEF Translating
  <2>2. Snat(a) \in DesiredRules(A)
    BY DEF DesiredRules
  <2>3. Snat(a).do = "snat" /\ Snat(a).up = u
    BY <2>1 DEF Snat
  <2> QED
    BY <2>2, <2>3
<1>2. ASSUME NEW u \in Uplink, u \notin Translating(A)
      PROVE  Guard(u) \in DesiredRules(A)
  BY <1>2 DEF DesiredRules, Guards
<1> QED
  BY <1>1, <1>2 DEF Covered

LEMMA GuardNext ==
  TypeOK /\ GuardInv /\ [Next]_vars => GuardInv'
<1> SUFFICES ASSUME TypeOK, GuardInv, [Next]_vars, pc' = "run", conf'.leak,
                    NEW c \in batch', c.do = "npt"
             PROVE  Covered(c.rules)
  BY DEF GuardInv, Covered, Guard
<1>1. CASE Plan
  <2>1. PICK A \in SUBSET Mapping : c.rules = DesiredRules(A)
    BY <1>1, PlanFacts
  <2>2. conf.leak
    BY <1>1 DEF Plan
  <2> QED
    BY <2>1, <2>2, DesiredCovers
<1>2. CASE ~Plan
  <2>1. pc = "run" /\ conf' = conf
    BY <1>2 DEF Next, Surroundings, Reconciler, Crash, HostChanges, OthersWipe, LinkGone, LinkBack,
                RouteChanges, LeaseChanges, HealthTurns, ReadLinks, Run, PassDone, CleanupDone,
                Shutdown, vars, memory
  <2>2. ~Shutdown
    BY <2>1 DEF Shutdown
  <2>3. batch' \subseteq batch
    BY <1>2, <2>2, NptSteps
  <2> QED
    BY <2>1, <2>3 DEF GuardInv
<1> QED
  BY <1>1, <1>2

\* Once every uplink translates or is guarded, no command of a pass leaves one that
\* does neither, whatever leases and verdicts do and whatever fails.
THEOREM NoUplinkIsUncovered ==
  Spec => NeverUncovered
<1>1. Init => GuardInv
  BY DEF Init, GuardInv
<1>2. ASSUME TypeOK, GuardInv, NEW c \in batch, Run(c), pc = "run", conf.leak, Covered(npt)
      PROVE  Covered(npt')
  <2>1. npt' = npt \/ (c.do = "npt" /\ npt' = c.rules)
    BY <1>2 DEF Run, Effect, ours
  <2>2. CASE npt' = npt
    BY <1>2, <2>2
  <2>3. CASE c.do = "npt" /\ npt' = c.rules
    <3>1. Covered(c.rules)
      BY <1>2, <2>3 DEF GuardInv
    <3> QED
      BY <2>3, <3>1
  <2> QED
    BY <2>1, <2>2, <2>3
<1>3. TypeOK /\ GuardInv =>
        ((\E c \in batch : Run(c)) /\ pc = "run" /\ conf.leak /\ Covered(npt) => Covered(npt'))
  BY <1>2
<1> QED
  BY <1>1, <1>3, TypeCorrect, GuardNext, PTL DEF Spec, NeverUncovered

-----------------------------------------------------------------------------
(* What a step can do.                                                      *)

\* Every read was answered.
AllRead == ""

LEMMA AllReadIsNone == AllRead \notin {"routes", "npt", "marks", "rules", "tables", "learn", "hosts"}
  BY Zenon DEF AllRead

\* What a pass holds of verdicts, what it assigns, and the commands it plans.
Downs(unreadable) == unhealthy \cap StillProbed(Gateways(unreadable))

Planned(unreadable) ==
  LET G == Gateways(unreadable)
      A == Assigned(Active(G, Downs(unreadable)))
  IN  (UNION {Teardown(i) : i \in StaleTables(G, unreadable)})
        \cup TableActions(G, unreadable) \cup RuleActions(G, unreadable)
        \cup MarkActions(A, unreadable) \cup NptActions(A, unreadable) \cup LearnActions(unreadable)

\* A step of the surroundings, but for a crash: it disturbs the pass, which learns
\* nothing of it.
Beside ==
  /\ UNCHANGED <<fwrules, faults, pc, conf, ifaces, stale, gateways, batch, failed>>
  /\ \A i \in Index : tables'[i] = tables[i] \/ tables'[i] = <<>>
  /\ npt' = npt \/ npt' = {}
  /\ marks' = marks \/ marks' = {}
  /\ learn' = learn \/ learn' = {}
  /\ disturbed' = TRUE

LEMMA BesideStep ==
  ASSUME Surroundings
  PROVE  Crash \/ Beside
<1>1. ASSUME NEW u \in Uplink, LinkGone(u)
      PROVE  Beside
  BY <1>1, Zenon DEF LinkGone, Change, Beside, memory
<1>2. ASSUME NEW u \in Uplink, LinkBack(u) \/ RouteChanges(u) \/ LeaseChanges(u)
      PROVE  Beside
  BY <1>2, Zenon DEF LinkBack, RouteChanges, LeaseChanges, Change, Beside, memory, ours
<1>3. ASSUME NEW u \in Uplink, HealthTurns(u)
      PROVE  Beside
  BY <1>3, Zenon DEF HealthTurns, Change, Beside, ours
<1>4. ASSUME HostChanges \/ OthersWipe
      PROVE  Beside
  BY <1>4, Zenon DEF HostChanges, OthersWipe, Change, Beside, memory
<1> QED
  BY <1>1, <1>2, <1>3, <1>4 DEF Surroundings

\* The steps, those of the surroundings taken together.
LEMMA StepCases ==
  ASSUME [Next]_vars
  PROVE  \/ Crash \/ ReadLinks \/ Plan \/ PassDone \/ Shutdown \/ CleanupDone
         \/ \E c \in batch : Run(c)
         \/ Beside \/ UNCHANGED vars
  BY BesideStep, Zenon DEF Next, Reconciler

LEMMA NoStep ==
  ASSUME UNCHANGED vars
  PROVE  UNCHANGED <<index, used, routes, lease, npt, marks, tables, fwrules, learn, learned, changes, faults,
                     pc, conf, ifaces, stale, gateways, unhealthy, hosts, batch, failed, disturbed>>
  BY DEF vars, links, ours, counts, memory

\* A crash forgets everything.
LEMMA CrashStep ==
  ASSUME Crash
  PROVE  /\ pc' = "idle" /\ gateways' = {} /\ unhealthy' = {} /\ batch' = {} /\ failed' = TRUE /\ stale' = FALSE
         /\ \A u \in Uplink : ifaces'[u] = Gone
         /\ conf' \in Configs
         /\ UNCHANGED <<index, used, routes, lease, npt, marks, tables, fwrules, learn, learned>>
         /\ faults' = faults + 1
  BY DEF Crash, Fault, links, ours

\* A pass reads the interfaces of gateways: all of them, or nothing.
LEMMA ReadStep ==
  ASSUME ReadLinks
  PROVE  /\ pc = "idle" /\ pc' = "read" /\ disturbed' = FALSE
         /\ UNCHANGED <<index, used, routes, lease, npt, marks, tables, fwrules, learn, learned,
                        conf, gateways, unhealthy, batch>>
         /\ \/ /\ stale' = FALSE /\ failed' = FALSE /\ faults' = faults
               /\ \A u \in Uplink : ifaces'[u] = IF u \in Gated THEN index[u] ELSE Gone
            \/ stale' = TRUE /\ failed' = TRUE /\ faults' = faults + 1 /\ ifaces' = ifaces
  BY DEF ReadLinks, Fault, links, ours

\* A plan changes the kernel in nothing.
LEMMA PlanStep ==
  ASSUME Plan
  PROVE  /\ pc = "read" /\ pc' = "run"
         /\ UNCHANGED <<index, used, routes, lease, npt, marks, tables, fwrules, learn, learned,
                        conf, ifaces, stale, disturbed>>
         /\ \E unreadable \in {AllRead, "routes", "npt", "marks", "rules", "tables", "learn", "hosts"} :
              /\ IF unreadable = AllRead THEN UNCHANGED <<faults, failed>>
                 ELSE faults' = faults + 1 /\ failed' = TRUE
              /\ gateways' = Gateways(unreadable)
              /\ unhealthy' = Downs(unreadable)
              /\ batch' = Planned(unreadable)
  BY Zenon DEF Plan, Planned, Downs, Fault, links, ours, AllRead

\* A command is run and does what it is for, or it is refused, or it fails.
LEMMA RunStep ==
  ASSUME NEW c, Run(c)
  PROVE  /\ pc \in {"run", "cleanup"} /\ c \in batch /\ \A d \in batch : Rank[c.do] <= Rank[d.do]
         /\ batch' = batch \ {c}
         /\ UNCHANGED <<index, used, routes, lease, pc, conf, ifaces, stale, gateways, unhealthy, hosts,
                        disturbed>>
         /\ \/ ~Refused(c) /\ Effect(c) /\ UNCHANGED <<faults, failed>>
            \/ Refused(c) /\ UNCHANGED <<npt, marks, tables, fwrules, learn, learned, faults, failed>>
            \/ /\ faults' = faults + 1 /\ failed' = TRUE
               /\ UNCHANGED <<npt, marks, tables, fwrules, learn, learned>>
  BY DEF Run, Due, Fault, links, ours, memory

\* The last turn, and the ends of a pass and of it.
LEMMA EndSteps ==
  /\ PassDone \/ CleanupDone =>
       /\ batch = {}
       /\ UNCHANGED <<index, used, routes, lease, npt, marks, tables, fwrules, learn, learned, faults,
                      conf, ifaces, stale, gateways, unhealthy, batch, failed, disturbed>>
  /\ PassDone => pc = "run" /\ pc' = "idle"
  /\ CleanupDone => pc = "cleanup" /\ pc' = "done"
  /\ Shutdown =>
       /\ pc = "idle" /\ pc' = "cleanup" /\ batch' = CleanupActions /\ failed' = FALSE /\ disturbed' = FALSE
       /\ UNCHANGED <<index, used, routes, lease, npt, marks, tables, fwrules, learn, learned, faults,
                      conf, ifaces, stale, gateways, unhealthy>>
  BY DEF PassDone, CleanupDone, Shutdown, links, ours, counts, memory

-----------------------------------------------------------------------------
(* What a pass plans.                                                       *)

\* A rule that is wanted marks for a steered uplink, and its table is.
LEMMA WantedRuleFacts ==
  ASSUME TypeOK, NEW G, NEW r \in WantedRules(G)
  PROVE  /\ r \in FwRule /\ r.mark \in conf.steers /\ r.mark \in Gated /\ r.index = ifaces[r.mark]
         /\ r.index \in WantedTables(G) /\ r = [mark |-> r.mark, index |-> r.index]
<1>1. PICK u \in conf.steers : r = [mark |-> u, index |-> ifaces[u]] /\ ifaces[u] \in WantedTables(G)
  BY DEF WantedRules
<1>2. conf.steers \subseteq Gated /\ Gated \subseteq Uplink
  BY SteeringAssumption DEF TypeOK, Config
<1>3. WantedTables(G) \subseteq Index
  BY DEF WantedTables
<1> QED
  BY <1>1, <1>2, <1>3 DEF FwRule

\* A command of a pass, by what it does.
PlannedAs(c, unreadable) ==
  LET G == Gateways(unreadable)
      A == Assigned(Active(G, Downs(unreadable)))
  IN  /\ c.do \in {"del_prio", "flush", "table", "add_rule", "del_marks", "marks", "npt", "learn"}
      /\ c.do = "del_prio" => c.index \in StaleTables(G, unreadable) /\ c.mark = MarkOf(c.index)
      /\ c.do = "flush" => c.index \in StaleTables(G, unreadable)
      /\ c.do = "table" => c.index \in WantedTables(G) /\ c.route = WantedRoute(G, c.index)
      /\ c.do = "add_rule" => c.rule \in WantedRules(G)
      /\ c.do = "del_marks" => OutOfSync(WantedMarks(A), marks, unreadable = "marks")
      /\ c.do = "marks" => c.marks = WantedMarks(A)
      /\ c.do = "npt" => c.rules = DesiredRules(A)
      /\ c.do = "learn" => c.watch = LearnRules /\ OutOfSync(LearnRules, learn, unreadable = "learn")

LEMMA PlannedFacts ==
  ASSUME NEW unreadable, NEW c \in Planned(unreadable)
  PROVE  PlannedAs(c, unreadable)
<1> DEFINE G == Gateways(unreadable)
           A == Assigned(Active(G, Downs(unreadable)))
<1>1. ASSUME NEW i \in StaleTables(G, unreadable), c \in Teardown(i)
      PROVE  /\ c.do \in {"del_prio", "flush"} /\ c.index = i
             /\ c.do = "del_prio" => c.mark = MarkOf(i)
  <2>1. c = [do |-> "del_prio", mark |-> MarkOf(i), index |-> i] \/ c = [do |-> "flush", index |-> i]
    BY <1>1 DEF Teardown
  <2> QED
    BY <2>1
<1>2. c \in TableActions(G, unreadable) =>
        c.do = "table" /\ c.index \in WantedTables(G) /\ c.route = WantedRoute(G, c.index)
  BY DEF TableActions
<1>3. c \in RuleActions(G, unreadable) => c.do = "add_rule" /\ c.rule \in WantedRules(G)
  BY DEF RuleActions
<1>4. c \in MarkActions(A, unreadable) =>
        /\ c.do \in {"del_marks", "marks"} /\ OutOfSync(WantedMarks(A), marks, unreadable = "marks")
        /\ c.do = "marks" => c.marks = WantedMarks(A)
  BY DEF MarkActions
<1>5. c \in NptActions(A, unreadable) => c.do = "npt" /\ c.rules = DesiredRules(A)
  BY DEF NptActions
<1>6. c \in LearnActions(unreadable) =>
        c.do = "learn" /\ c.watch = LearnRules /\ OutOfSync(LearnRules, learn, unreadable = "learn")
  BY DEF LearnActions
<1>7. \/ \E i \in StaleTables(G, unreadable) : c \in Teardown(i)
      \/ c \in TableActions(G, unreadable) \/ c \in RuleActions(G, unreadable)
      \/ c \in MarkActions(A, unreadable) \/ c \in NptActions(A, unreadable) \/ c \in LearnActions(unreadable)
  BY DEF Planned
<1> HIDE DEF G, A
<1>8. CASE \E i \in StaleTables(G, unreadable) : c \in Teardown(i)
  BY <1>1, <1>8 DEF PlannedAs, G, A
<1>9. CASE c \in TableActions(G, unreadable) \/ c \in RuleActions(G, unreadable)
  BY <1>2, <1>3, <1>9 DEF PlannedAs, G, A
<1>10. CASE c \in MarkActions(A, unreadable) \/ c \in NptActions(A, unreadable) \/ c \in LearnActions(unreadable)
  BY <1>4, <1>5, <1>6, <1>10 DEF PlannedAs, G, A
<1> QED
  BY <1>7, <1>8, <1>9, <1>10

\* A pass has a command for whatever is not as it should be.
LEMMA PlannedHas ==
  ASSUME NEW unreadable, NEW G, G = Gateways(unreadable),
         NEW A, A = Assigned(Active(G, Downs(unreadable)))
  PROVE  /\ \A i \in StaleTables(G, unreadable) :
              [do |-> "del_prio", mark |-> MarkOf(i), index |-> i] \in Planned(unreadable)
         /\ \A i \in WantedTables(G) : TableNeedsRestore(G, i, unreadable) =>
              \E c \in Planned(unreadable) : c.do = "table" /\ c.index = i
         /\ RulesNeedRestore(G, unreadable) => \A r \in WantedRules(G) :
              \E c \in Planned(unreadable) : c.do = "add_rule" /\ c.rule = r
         /\ OutOfSync(WantedMarks(A), marks, unreadable = "marks") =>
              /\ \E c \in Planned(unreadable) : c.do = "del_marks"
              /\ WantedMarks(A) # {} => \E c \in Planned(unreadable) : c.do = "marks"
         /\ OutOfSync(DesiredRules(A), npt, unreadable = "npt") => \E c \in Planned(unreadable) : c.do = "npt"
         /\ OutOfSync(LearnRules, learn, unreadable = "learn") => \E c \in Planned(unreadable) : c.do = "learn"
<1>1. Planned(unreadable) =
        (UNION {Teardown(i) : i \in StaleTables(G, unreadable)})
          \cup TableActions(G, unreadable) \cup RuleActions(G, unreadable)
          \cup MarkActions(A, unreadable) \cup NptActions(A, unreadable) \cup LearnActions(unreadable)
  BY Zenon DEF Planned
<1>2. \A i \in StaleTables(G, unreadable) :
        [do |-> "del_prio", mark |-> MarkOf(i), index |-> i] \in Planned(unreadable)
  <2>1. \A i : [do |-> "del_prio", mark |-> MarkOf(i), index |-> i] \in Teardown(i)
    BY DEF Teardown
  <2> QED
    BY <1>1, <2>1
<1>3. \A i \in WantedTables(G) : TableNeedsRestore(G, i, unreadable) =>
        \E c \in Planned(unreadable) : c.do = "table" /\ c.index = i
  <2>1. ASSUME NEW i \in WantedTables(G), TableNeedsRestore(G, i, unreadable)
        PROVE  \E c \in TableActions(G, unreadable) : c.do = "table" /\ c.index = i
    <3>1. [do |-> "table", index |-> i, route |-> WantedRoute(G, i)] \in TableActions(G, unreadable)
      BY <2>1, Zenon DEF TableActions
    <3> QED
      BY <3>1
  <2> QED
    BY <1>1, <2>1
<1>4. RulesNeedRestore(G, unreadable) => \A r \in WantedRules(G) :
        \E c \in Planned(unreadable) : c.do = "add_rule" /\ c.rule = r
  <2>1. ASSUME RulesNeedRestore(G, unreadable), NEW r \in WantedRules(G)
        PROVE  \E c \in RuleActions(G, unreadable) : c.do = "add_rule" /\ c.rule = r
    <3>1. [do |-> "add_rule", rule |-> r] \in RuleActions(G, unreadable)
      BY <2>1, Zenon DEF RuleActions
    <3> QED
      BY <3>1
  <2> QED
    BY <1>1, <2>1
<1>5. OutOfSync(WantedMarks(A), marks, unreadable = "marks") =>
        /\ \E c \in Planned(unreadable) : c.do = "del_marks"
        /\ WantedMarks(A) # {} => \E c \in Planned(unreadable) : c.do = "marks"
  <2>1. ASSUME OutOfSync(WantedMarks(A), marks, unreadable = "marks")
        PROVE  /\ [do |-> "del_marks"] \in MarkActions(A, unreadable)
               /\ WantedMarks(A) # {} => [do |-> "marks", marks |-> WantedMarks(A)] \in MarkActions(A, unreadable)
    BY <2>1, Zenon DEF MarkActions
  <2>2. [do |-> "del_marks"].do = "del_marks" /\ [do |-> "marks", marks |-> WantedMarks(A)].do = "marks"
    OBVIOUS
  <2> QED
    BY <1>1, <2>1, <2>2
<1>6. OutOfSync(DesiredRules(A), npt, unreadable = "npt") => \E c \in Planned(unreadable) : c.do = "npt"
  <2>1. ASSUME OutOfSync(DesiredRules(A), npt, unreadable = "npt")
        PROVE  [do |-> "npt", rules |-> DesiredRules(A)] \in NptActions(A, unreadable)
    BY <2>1, Zenon DEF NptActions
  <2>2. [do |-> "npt", rules |-> DesiredRules(A)].do = "npt"
    OBVIOUS
  <2> QED
    BY <1>1, <2>1, <2>2
<1>7. OutOfSync(LearnRules, learn, unreadable = "learn") => \E c \in Planned(unreadable) : c.do = "learn"
  <2>1. ASSUME OutOfSync(LearnRules, learn, unreadable = "learn")
        PROVE  [do |-> "learn", watch |-> LearnRules] \in LearnActions(unreadable)
    BY <2>1, Zenon DEF LearnActions
  <2>2. [do |-> "learn", watch |-> LearnRules].do = "learn"
    OBVIOUS
  <2> QED
    BY <1>1, <2>1, <2>2
<1> QED
  BY <1>2, <1>3, <1>4, <1>5, <1>6, <1>7

\* The arguments of a command, by what it does.
LEMMA Arguments ==
  ASSUME TypeOK, NEW c \in batch
  PROVE  /\ c.do = "del_prio" => /\ c.mark \in Uplink /\ c.index \in Index
                                 /\ c = [do |-> "del_prio", mark |-> c.mark, index |-> c.index]
         /\ c.do = "learn" => c = [do |-> "learn", watch |-> c.watch]
         /\ c.do = "del_marks" => c = [do |-> "del_marks"]
         /\ c.do = "npt" => c = [do |-> "npt", rules |-> c.rules]
         /\ c.do \in {"add_rule", "del_rule"} =>
              /\ c.rule \in FwRule /\ c.rule = [mark |-> c.rule.mark, index |-> c.rule.index]
              /\ c = [do |-> c.do, rule |-> c.rule]
         /\ c.do = "flush" => c.index \in Index
         /\ c.do = "table" => c.index \in Index /\ c.route \in Route
  BY DEF TypeOK, Command, FwRule

-----------------------------------------------------------------------------
(* The list of mark rules.                                                  *)

LEMMA RulesListed ==
  ASSUME TypeOK
  PROVE  /\ Rules \subseteq FwRule
         /\ \A r \in Rules : r = [mark |-> r.mark, index |-> r.index]
<1>1. fwrules \in Seq(FwRule)
  BY DEF TypeOK
<1>2. Rules \subseteq FwRule
  BY <1>1 DEF Rules
<1> QED
  BY <1>2 DEF FwRule

\* A list without its first element that is one of some: what is before it stays where
\* it is, what is after it moves up.
LEMMA WithoutFirstFacts ==
  ASSUME TypeOK, NEW R \in SUBSET Rules, R # {}
  PROVE  \E k \in DOMAIN fwrules :
           /\ fwrules[k] \in R /\ \A i \in 1..(k - 1) : fwrules[i] \notin R
           /\ DOMAIN WithoutFirst(R) = 1..(Len(fwrules) - 1)
           /\ \A i \in 1..(Len(fwrules) - 1) :
                WithoutFirst(R)[i] = IF i < k THEN fwrules[i] ELSE fwrules[i + 1]
<1> DEFINE K == {j \in DOMAIN fwrules : fwrules[j] \in R}
           First(j) == fwrules[j] \in R /\ \A i \in 1..(j - 1) : fwrules[i] \notin R
<1>1. fwrules \in Seq(FwRule) /\ DOMAIN fwrules \in SUBSET Nat /\ DOMAIN fwrules = 1..Len(fwrules)
  BY DEF TypeOK
<1>2. K \in SUBSET Nat /\ K # {}
  BY <1>1 DEF Rules
<1>3. PICK m \in K : \A j \in K : m <= j
  BY <1>2, Least
<1>4. \A i \in 1..(m - 1) : i \in DOMAIN fwrules /\ i \notin K
  BY <1>1, <1>3
<1>5. First(m)
  BY <1>3, <1>4
<1>6. PICK k \in DOMAIN fwrules : k = CHOOSE j \in DOMAIN fwrules : First(j)
  BY <1>3, <1>5
<1>7. First(k)
  BY <1>3, <1>5, <1>6
<1>8. WithoutFirst(R) = SubSeq(fwrules, 1, k - 1) \o SubSeq(fwrules, k + 1, Len(fwrules))
  BY <1>6 DEF WithoutFirst
<1>9. k \in 1..Len(fwrules) /\ Len(fwrules) \in Nat
  BY <1>1
<1> HIDE DEF First
<1>10. /\ SubSeq(fwrules, 1, k - 1) \in Seq(FwRule) /\ Len(SubSeq(fwrules, 1, k - 1)) = k - 1
       /\ \A i \in 1..(k - 1) : SubSeq(fwrules, 1, k - 1)[i] = fwrules[i]
  BY <1>1, <1>9
<1>11. /\ SubSeq(fwrules, k + 1, Len(fwrules)) \in Seq(FwRule)
       /\ Len(SubSeq(fwrules, k + 1, Len(fwrules))) = Len(fwrules) - k
       /\ \A i \in 1..(Len(fwrules) - k) : SubSeq(fwrules, k + 1, Len(fwrules))[i] = fwrules[k + i]
  BY <1>1, <1>9
<1> DEFINE s == SubSeq(fwrules, 1, k - 1)
           t == SubSeq(fwrules, k + 1, Len(fwrules))
<1>12. /\ DOMAIN (s \o t) = 1..(Len(fwrules) - 1)
       /\ \A i \in 1..(Len(fwrules) - 1) :
            (s \o t)[i] = IF i < k THEN fwrules[i] ELSE fwrules[i + 1]
  <2>1. s \in Seq(FwRule) /\ t \in Seq(FwRule) /\ Len(s) = k - 1 /\ Len(t) = Len(fwrules) - k
    BY <1>10, <1>11
  <2>2. \A i \in 1..(k - 1) : s[i] = fwrules[i]
    BY <1>10
  <2>3. \A i \in 1..(Len(fwrules) - k) : t[i] = fwrules[k + i]
    BY <1>11
  <2> HIDE DEF s, t
  <2>4. DOMAIN (s \o t) = 1..(Len(fwrules) - 1)
    BY <1>9, <2>1
  <2>5. ASSUME NEW i \in 1..(Len(fwrules) - 1)
        PROVE  (s \o t)[i] = IF i < k THEN fwrules[i] ELSE fwrules[i + 1]
    <3>1. CASE i < k
      BY <1>9, <2>1, <2>2, <3>1
    <3>2. CASE ~(i < k)
      <4>1. (s \o t)[i] = t[i - (k - 1)] /\ i - (k - 1) \in 1..(Len(fwrules) - k)
        BY <1>9, <2>1, <3>2
      <4>2. t[i - (k - 1)] = fwrules[k + (i - (k - 1))] /\ k + (i - (k - 1)) = i + 1
        BY <1>9, <2>3, <4>1
      <4> QED
        BY <3>2, <4>1, <4>2
    <3> QED
      BY <3>1, <3>2
  <2> QED
    BY <2>4, <2>5
<1> HIDE DEF s, t
<1>13. WithoutFirst(R) = s \o t
  BY <1>8 DEF s, t
<1> QED
  BY <1>7, <1>12, <1>13 DEF First

\* The rules of a mark are in the order of the interfaces they point at.
Ordered ==
  \A j, k \in DOMAIN fwrules :
    j < k /\ fwrules[j].mark = fwrules[k].mark => fwrules[j].index < fwrules[k].index

\* Then a deletion takes, of the rules it means that have one mark, the one with the
\* lowest index, and leaves no other copy of it.
LEMMA OrderedDeletion ==
  ASSUME TypeOK, Ordered, NEW R \in SUBSET Rules, R # {}, fwrules' = WithoutFirst(R)
  PROVE  /\ Ordered'
         /\ \E q \in R : /\ Rules' = Rules \ {q}
                         /\ \A r \in R : r.mark = q.mark => q.index <= r.index
<1>1. fwrules \in Seq(FwRule) /\ DOMAIN fwrules = 1..Len(fwrules) /\ Len(fwrules) \in Nat
      /\ \A j \in DOMAIN fwrules : fwrules[j].index \in Nat
  <2>1. fwrules \in Seq(FwRule)
    BY DEF TypeOK
  <2>2. DOMAIN fwrules = 1..Len(fwrules) /\ Len(fwrules) \in Nat /\ \A j \in DOMAIN fwrules : fwrules[j] \in FwRule
    BY <2>1
  <2>3. \A r \in FwRule : r.index \in Nat
    BY DEF FwRule, Index
  <2> QED
    BY <2>1, <2>2, <2>3
<1>2. PICK k \in DOMAIN fwrules :
        /\ fwrules[k] \in R /\ \A i \in 1..(k - 1) : fwrules[i] \notin R
        /\ DOMAIN fwrules' = 1..(Len(fwrules) - 1)
        /\ \A i \in 1..(Len(fwrules) - 1) : fwrules'[i] = IF i < k THEN fwrules[i] ELSE fwrules[i + 1]
  BY WithoutFirstFacts
<1>3. k \in 1..Len(fwrules)
  BY <1>1
<1>4. Ordered'
  <2> SUFFICES ASSUME NEW i \in DOMAIN fwrules', NEW j \in DOMAIN fwrules', i < j,
                      fwrules'[i].mark = fwrules'[j].mark
               PROVE  fwrules'[i].index < fwrules'[j].index
    BY DEF Ordered
  <2>1. PICK a \in DOMAIN fwrules : fwrules'[i] = fwrules[a] /\ a = IF i < k THEN i ELSE i + 1
    BY <1>1, <1>2, <1>3
  <2>2. PICK b \in DOMAIN fwrules : fwrules'[j] = fwrules[b] /\ b = IF j < k THEN j ELSE j + 1
    BY <1>1, <1>2, <1>3
  <2>3. a < b
    BY <1>1, <1>2, <1>3, <2>1, <2>2
  <2> QED
    BY <2>1, <2>2, <2>3 DEF Ordered
<1>5. \A j \in DOMAIN fwrules : j # k => fwrules[j] # fwrules[k]
  <2> TAKE j \in DOMAIN fwrules
  <2> HAVE j # k
  <2>1. j < k \/ k < j
    BY <1>1
  <2>2. fwrules[j] = fwrules[k] => fwrules[j].mark = fwrules[k].mark /\ ~(fwrules[j].index < fwrules[k].index)
                                   /\ ~(fwrules[k].index < fwrules[j].index)
    BY <1>1
  <2> QED
    BY <2>1, <2>2 DEF Ordered
<1>6. Rules' = Rules \ {fwrules[k]}
  <2>1. ASSUME NEW r \in Rules'
        PROVE  r \in Rules /\ r # fwrules[k]
    <3>1. PICK i \in DOMAIN fwrules' : r = fwrules'[i]
      BY <2>1 DEF Rules
    <3>2. PICK a \in DOMAIN fwrules : fwrules'[i] = fwrules[a] /\ a = IF i < k THEN i ELSE i + 1
      BY <1>1, <1>2, <1>3
    <3>3. a # k
      BY <1>1, <1>2, <1>3, <3>2
    <3> QED
      BY <1>5, <3>1, <3>2, <3>3 DEF Rules
  <2>2. ASSUME NEW r \in Rules, r # fwrules[k]
        PROVE  r \in Rules'
    <3>1. PICK a \in DOMAIN fwrules : r = fwrules[a]
      BY DEF Rules
    <3>2. PICK i \in 1..(Len(fwrules) - 1) : a = IF i < k THEN i ELSE i + 1
      <4>1. CASE a < k
        BY <1>1, <1>3, <4>1
      <4>2. CASE a > k
        <5>1. a - 1 \in 1..(Len(fwrules) - 1) /\ ~(a - 1 < k) /\ a = (a - 1) + 1
          BY <1>1, <1>3, <4>2
        <5> QED
          BY <5>1
      <4>3. a # k
        BY <2>2, <3>1
      <4> QED
        BY <1>1, <4>1, <4>2, <4>3
    <3>3. fwrules'[i] = r /\ i \in DOMAIN fwrules'
      BY <1>2, <3>1, <3>2
    <3> QED
      BY <3>3 DEF Rules
  <2> QED
    BY <2>1, <2>2
<1>7. ASSUME NEW r \in R, r.mark = fwrules[k].mark
      PROVE  fwrules[k].index <= r.index
  <2>1. PICK j \in DOMAIN fwrules : r = fwrules[j]
    BY DEF Rules
  <2>2. ~(j < k)
    BY <1>1, <1>2, <1>7, <2>1
  <2>3. CASE j = k
    BY <1>1, <2>1, <2>3
  <2>4. CASE k < j
    BY <1>1, <1>7, <2>1, <2>4 DEF Ordered
  <2> QED
    BY <1>1, <2>2, <2>3, <2>4
<1> QED
  BY <1>2, <1>4, <1>6, <1>7

\* A rule that is added points at a later interface than those of its mark before it.
LEMMA OrderedAddition ==
  ASSUME TypeOK, Ordered, NEW q \in FwRule, fwrules' = Append(fwrules, q), q \notin Rules,
         \A r \in Rules : r.mark = q.mark => r.index <= q.index
  PROVE  Ordered' /\ Rules' = Rules \cup {q}
<1>1. /\ fwrules \in Seq(FwRule) /\ DOMAIN fwrules = 1..Len(fwrules) /\ Len(fwrules) \in Nat
      /\ DOMAIN fwrules' = 1..(Len(fwrules) + 1)
      /\ \A j \in DOMAIN fwrules : fwrules'[j] = fwrules[j]
      /\ fwrules'[Len(fwrules) + 1] = q
  BY DEF TypeOK
<1>2. \A r \in Rules : r.mark = q.mark => r.index < q.index
  <2> TAKE r \in Rules
  <2> HAVE r.mark = q.mark
  <2>1. r \in FwRule
    BY DEF TypeOK, Rules
  <2>2. r.index # q.index /\ r.index \in Nat /\ q.index \in Nat
    BY <2>1 DEF FwRule, Index
  <2> QED
    BY <2>2
<1>3. Rules' = Rules \cup {q}
  BY <1>1 DEF Rules
<1>4. Ordered'
  <2> SUFFICES ASSUME NEW i \in DOMAIN fwrules', NEW j \in DOMAIN fwrules', i < j,
                      fwrules'[i].mark = fwrules'[j].mark
               PROVE  fwrules'[i].index < fwrules'[j].index
    BY DEF Ordered
  <2>1. i \in DOMAIN fwrules /\ fwrules[i] \in Rules
    BY <1>1 DEF Rules
  <2>2. CASE j \in DOMAIN fwrules
    BY <1>1, <2>1, <2>2 DEF Ordered
  <2>3. CASE j = Len(fwrules) + 1
    BY <1>1, <1>2, <2>1, <2>3
  <2> QED
    BY <1>1, <2>2, <2>3
<1> QED
  BY <1>3, <1>4

-----------------------------------------------------------------------------
(* What is always so of interfaces, rules and commands.                     *)

\* Commands wait only while they are run, a pass's or the last turn's.
Waiting ==
  /\ pc \in {"idle", "read", "done"} => batch = {}
  /\ pc = "run" => \A c \in batch : c.do # "del_rule"
  /\ pc = "cleanup" => \A c \in batch : c.do \in {"del_rule", "del_marks", "npt", "learn"}

LEMMA WaitingNext ==
  ASSUME TypeOK, Waiting, [Next]_vars
  PROVE  Waiting'
<1>1. CASE Plan
  <2>1. PICK unreadable : batch' = Planned(unreadable)
    BY <1>1, PlanStep
  <2>2. \A c \in batch' : PlannedAs(c, unreadable)
    BY <2>1, PlannedFacts
  <2>3. \A c \in batch' : c.do # "del_rule"
    BY <2>2 DEF PlannedAs
  <2> QED
    BY <1>1, <2>3, PlanStep DEF Waiting
<1>2. CASE Shutdown
  <2>1. \A c \in CleanupActions : c.do \in {"del_rule", "del_marks", "npt", "learn"}
    BY DEF CleanupActions
  <2> QED
    BY <1>2, <2>1, EndSteps DEF Waiting
<1>3. CASE ReadLinks \/ PassDone \/ CleanupDone \/ Crash
  BY <1>3, ReadStep, EndSteps, CrashStep DEF Waiting
<1>4. CASE \E c \in batch : Run(c)
  BY <1>4, RunStep DEF Waiting
<1>5. CASE Beside \/ UNCHANGED vars
  BY <1>5, NoStep DEF Beside, Waiting
<1> QED
  BY <1>1, <1>2, <1>3, <1>4, <1>5, StepCases

\* Every index the kernel has given out was given to one uplink's interface, those it
\* has now are the last it got; what names an interface and an uplink names this one.
Owned(own) ==
  /\ \A i \in Index : own[i] # 0 => i <= used
  /\ \A u \in Uplink : index[u] # Gone => own[index[u]] = u /\ \A i \in Index : own[i] = u => i <= index[u]
  /\ \A u \in Uplink : ifaces[u] # Gone => own[ifaces[u]] = u
  /\ \A g \in gateways : own[g.index] = g.up
  /\ \A i \in Index : tables[i] # <<>> => own[i] = tables[i][1]
  /\ \A r \in Rules : own[r.index] = r.mark
  /\ \A c \in batch : /\ c.do = "table" => own[c.index] = c.route[1]
                      /\ c.do = "add_rule" => own[c.rule.index] = c.rule.mark
                      /\ c.do = "del_prio" => own[c.index] = c.mark

OneOwner == \E own \in [Index -> Uplink \cup {0}] : Owned(own)

LEMMA OwnedInit ==
  ASSUME Init
  PROVE  OneOwner
<1> DEFINE below(u) == {w \in Uplink : w <= u}
           own == [i \in Index |-> IF \E u \in Uplink : index[u] = i
                                   THEN CHOOSE u \in Uplink : index[u] = i ELSE 0]
<1>1. TypeOK /\ IsFiniteSet(Uplink) /\ Uplink \subseteq Nat /\ Cardinality(Uplink) \in Nat
  BY TypeInit, SteeringAssumption, FS_CardinalityType
<1>2. \A u \in Uplink : index[u] = Cardinality(below(u)) /\ IsFiniteSet(below(u))
  <2>1. \A u \in Uplink : below(u) \subseteq Uplink
    OBVIOUS
  <2>2. \A u \in Uplink : IsFiniteSet(below(u))
    BY <1>1, <2>1, FS_Subset
  <2> QED
    BY <2>2 DEF Init
<1>3. \A u, w \in Uplink : u < w => index[u] < index[w]
  <2> SUFFICES ASSUME NEW u \in Uplink, NEW w \in Uplink, u < w
               PROVE  index[u] < index[w]
    OBVIOUS
  <2>0. \A x \in Uplink : x \in Nat
    BY <1>1
  <2>1. /\ \A x \in Uplink : x <= u => x <= w
        /\ w <= w /\ ~(w <= u)
    BY <2>0
  <2>b. below(u) \subseteq below(w) /\ w \in below(w) /\ w \notin below(u)
    BY <2>1
  <2> HIDE DEF below
  <2>2. Cardinality(below(w) \ {w}) = Cardinality(below(w)) - 1 /\ Cardinality(below(w)) \in Nat
        /\ IsFiniteSet(below(w) \ {w})
    BY <1>2, <2>b, FS_RemoveElement, FS_CardinalityType
  <2>3. below(u) \subseteq below(w) \ {w}
    BY <2>b
  <2>4. Cardinality(below(u)) <= Cardinality(below(w) \ {w}) /\ Cardinality(below(u)) \in Nat
    BY <1>2, <2>2, <2>3, FS_Subset, FS_CardinalityType
  <2> QED
    BY <1>2, <2>2, <2>4
<1>4. \A u, w \in Uplink : index[u] = index[w] => u = w
  <2> SUFFICES ASSUME NEW u \in Uplink, NEW w \in Uplink, index[u] = index[w], u # w
               PROVE  FALSE
    OBVIOUS
  <2>1. index[u] \in Nat /\ index[w] \in Nat /\ u \in Nat /\ w \in Nat
    BY <1>1, <1>2, FS_CardinalityType
  <2> QED
    BY <1>3, <2>1
<1>5. \A u \in Uplink : index[u] <= Cardinality(Uplink)
  <2>1. \A u \in Uplink : below(u) \subseteq Uplink
    OBVIOUS
  <2> HIDE DEF below
  <2> QED
    BY <1>1, <1>2, <2>1, FS_Subset
<1>6. own \in [Index -> Uplink \cup {0}]
  OBVIOUS
<1>7. \A i \in Index : own[i] # 0 => own[i] \in Uplink /\ index[own[i]] = i
  OBVIOUS
<1>8. \A u \in Uplink : index[u] # Gone => index[u] \in Index /\ own[index[u]] = u
  <2>1. \A u \in Uplink : index[u] # Gone => index[u] \in Index
    BY <1>1 DEF TypeOK
  <2> QED
    BY <1>4, <2>1
<1> HIDE DEF own
<1>9. 0 \notin Uplink
  BY SteeringAssumption
<1>10. \A i \in Index : i \in Int /\ \A u \in Uplink : own[i] = u => i <= index[u]
  BY <1>7, <1>9 DEF Index
<1>11. \A i \in Index : own[i] # 0 => i <= used
  BY <1>5, <1>7 DEF Init
<1>12. /\ gateways = {} /\ batch = {} /\ Rules = {} /\ (\A i \in Index : tables[i] = <<>>)
       /\ \A u \in Uplink : ifaces[u] = Gone
  BY DEF Init, Rules
<1>13. Owned(own)
  BY <1>8, <1>10, <1>11, <1>12 DEF Owned
<1> QED
  BY <1>6, <1>13 DEF OneOwner

LEMMA OwnedSurroundings ==
  ASSUME TypeOK, OneOwner, Surroundings
  PROVE  OneOwner'
<1>1. PICK own \in [Index -> Uplink \cup {0}] : Owned(own)
  BY DEF OneOwner
<1>2. CASE Crash
  <2>1. Owned(own)'
    <3>1. Rules' = Rules
      BY <1>2, CrashStep DEF Rules
    <3> QED
      BY <1>1, <1>2, <3>1, CrashStep DEF Owned
  <2> QED
    BY <2>1 DEF OneOwner
<1>3. ASSUME NEW u \in Uplink, LinkGone(u)
      PROVE  OneOwner'
  <2>1. /\ UNCHANGED <<used, fwrules, ifaces, gateways, batch>>
        /\ \A w \in Uplink : index'[w] = index[w] \/ index'[w] = Gone
        /\ \A i \in Index : tables'[i] = tables[i] \/ tables'[i] = <<>>
    BY <1>3 DEF LinkGone, memory, TypeOK
  <2>2. Rules' = Rules
    BY <2>1 DEF Rules
  <2>3. Owned(own)'
    BY <1>1, <2>1, <2>2 DEF Owned
  <2> QED
    BY <2>3 DEF OneOwner
<1>4. ASSUME NEW u \in Uplink, LinkBack(u)
      PROVE  OneOwner'
  <2>1. PICK n \in Index : n = used + 1
    BY <1>4, SteeringAssumption DEF LinkBack, TypeOK, Index
  <2>2. /\ UNCHANGED <<fwrules, tables, ifaces, gateways, batch>>
        /\ used' = n /\ index'[u] = n /\ \A w \in Uplink : w # u => index'[w] = index[w]
    BY <1>4, <2>1 DEF LinkBack, memory, ours, TypeOK
  <2>3. own[n] = 0 /\ used \in Nat /\ \A i \in Index : own[i] # 0 => i <= used
    BY <1>1, <2>1 DEF Owned, TypeOK
  <2>4. 0 \notin Uplink /\ n # Gone
    BY SteeringAssumption DEF Index, Gone
  <2>5. PICK new \in [Index -> Uplink \cup {0}] : new[n] = u /\ \A i \in Index : i # n => new[i] = own[i]
    <3>1. [own EXCEPT ![n] = u] \in [Index -> Uplink \cup {0}]
      OBVIOUS
    <3> QED
      BY <3>1
  <2>6. \A i \in Index : own[i] # 0 => new[i] = own[i]
    BY <2>3, <2>5
  <2>7. \A i \in Index : new[i] # 0 => i <= n
    BY <2>1, <2>3, <2>5 DEF Index
  <2>8. \A w \in Uplink : index'[w] # Gone => new[index'[w]] = w /\ \A i \in Index : new[i] = w => i <= index'[w]
    <3> SUFFICES ASSUME NEW w \in Uplink, index'[w] # Gone
                 PROVE  new[index'[w]] = w /\ \A i \in Index : new[i] = w => i <= index'[w]
      OBVIOUS
    <3>1. CASE w = u
      BY <2>2, <2>4, <2>5, <2>7, <3>1
    <3>2. CASE w # u
      <4>1. index'[w] = index[w] /\ index[w] \in Index
        BY <2>2, <3>2 DEF TypeOK
      <4>2. own[index[w]] = w /\ \A i \in Index : own[i] = w => i <= index[w]
        BY <1>1, <4>1 DEF Owned
      <4> QED
        BY <2>4, <2>5, <2>6, <3>2, <4>1, <4>2
    <3> QED
      BY <3>1, <3>2
  <2>9. \A i \in Index : tables[i] # <<>> => tables[i][1] \in Uplink
    BY SteeringAssumption DEF TypeOK, Route
  <2>10. \A r \in Rules : r.index \in Index /\ r.mark \in Uplink
    BY RulesListed DEF FwRule
  <2>11. \A c \in batch : /\ c.do = "table" => c.index \in Index /\ c.route[1] \in Uplink
                          /\ c.do = "add_rule" => c.rule.index \in Index /\ c.rule.mark \in Uplink
                          /\ c.do = "del_prio" => c.index \in Index /\ c.mark \in Uplink
    BY Arguments, SteeringAssumption DEF Route, FwRule
  <2>12. \A g \in gateways : g.index \in Index /\ g.up \in Uplink
    BY SteeringAssumption DEF TypeOK, Gateway
  <2>13. \A w \in Uplink : ifaces[w] # Gone => ifaces[w] \in Index
    BY DEF TypeOK
  <2>14. Rules' = Rules
    BY <2>2 DEF Rules
  <2>15. Owned(new)'
    BY <1>1, <2>2, <2>4, <2>6, <2>7, <2>8, <2>9, <2>10, <2>11, <2>12, <2>13, <2>14 DEF Owned
  <2> QED
    BY <2>15 DEF OneOwner
<1>5. ASSUME NEW u \in Uplink, RouteChanges(u) \/ LeaseChanges(u) \/ HealthTurns(u)
      PROVE  OneOwner'
  <2>1. UNCHANGED <<index, used, tables, fwrules, ifaces, gateways, batch>>
    BY <1>5, Zenon DEF RouteChanges, LeaseChanges, HealthTurns, links, ours, memory
  <2>2. Rules' = Rules
    BY <2>1 DEF Rules
  <2>3. Owned(own)'
    BY <1>1, <2>1, <2>2 DEF Owned
  <2> QED
    BY <2>3 DEF OneOwner
<1>6. ASSUME HostChanges \/ OthersWipe
      PROVE  OneOwner'
  <2>1. UNCHANGED <<index, used, tables, fwrules, ifaces, gateways, batch>>
    BY <1>6, Zenon DEF HostChanges, OthersWipe, links, memory
  <2>2. Rules' = Rules
    BY <2>1 DEF Rules
  <2>3. Owned(own)'
    BY <1>1, <2>1, <2>2 DEF Owned
  <2> QED
    BY <2>3 DEF OneOwner
<1> QED
  BY <1>2, <1>3, <1>4, <1>5, <1>6 DEF Surroundings

\* An interface that rules may point at has a table with a usable number. A rule never
\* points beyond the interface its uplink was last read to have, and those about to be
\* added point at this one.
Latest ==
  /\ \A r \in Rules : Usable(r.index) /\ (ifaces[r.mark] # Gone => r.index <= ifaces[r.mark])
  /\ \A c \in batch : c.do = "add_rule" => Usable(c.rule.index) /\ ifaces[c.rule.mark] = c.rule.index

\* What a command does to the rules.
LEMMA RunRules ==
  ASSUME TypeOK, Ordered, Latest, NEW c \in batch, Run(c)
  PROVE  /\ Ordered'
         /\ \/ Rules' = Rules
            \/ c.do = "add_rule" /\ c.rule \notin Rules /\ Rules' = Rules \cup {c.rule}
            \/ /\ c.do \in {"del_rule", "del_prio"}
               /\ \E q \in Meant(c) : /\ Rules' = Rules \ {q}
                                      /\ \A r \in Meant(c) : r.mark = q.mark => q.index <= r.index
<1>1. CASE UNCHANGED fwrules
  BY <1>1 DEF Ordered, Rules
<1>2. CASE ~Refused(c) /\ Effect(c)
  <2>1. CASE c.do = "add_rule"
    <3>1. c.rule \in FwRule
      BY <2>1, Arguments
    <3>2. fwrules' = Append(fwrules, c.rule)
      BY <1>2, <2>1 DEF Effect
    <3>3. c.rule \notin Rules
      BY <1>2, <2>1 DEF Refused
    <3>4. \A r \in Rules : r.mark = c.rule.mark => r.index <= c.rule.index
      <4>1. c.rule.index \in Index /\ ifaces[c.rule.mark] = c.rule.index
        BY <2>1, <3>1 DEF Latest, FwRule
      <4>2. c.rule.index # Gone
        BY <4>1 DEF Index, Gone
      <4> QED
        BY <4>1, <4>2 DEF Latest
    <3> QED
      BY <2>1, <3>1, <3>2, <3>3, <3>4, OrderedAddition
  <2>2. CASE c.do \in {"del_rule", "del_prio"}
    <3>1. Meant(c) \in SUBSET Rules /\ Meant(c) # {}
      BY <1>2, <2>2 DEF Refused, Meant
    <3>2. fwrules' = WithoutFirst(Meant(c))
      BY <1>2, <2>2 DEF Effect
    <3> QED
      BY <2>2, <3>1, <3>2, OrderedDeletion
  <2>3. CASE c.do \notin {"add_rule", "del_rule", "del_prio"}
    <3>1. fwrules' = fwrules
      BY <1>2, <2>3 DEF Effect
    <3> QED
      BY <1>1, <3>1
  <2> QED
    BY <2>1, <2>2, <2>3
<1> QED
  BY <1>1, <1>2, RunStep

\* Whatever is done to the rules, none comes to be but the one that is added.
LEMMA RunAdds ==
  ASSUME TypeOK, Ordered, Latest, NEW c \in batch, Run(c), NEW r \in Rules'
  PROVE  r \in Rules \/ (c.do = "add_rule" /\ r = c.rule)
  BY RunRules

\* What a command does to the tables.
LEMMA RunTables ==
  ASSUME TypeOK, NEW c \in batch, Run(c), NEW i \in Index
  PROVE  \/ tables'[i] = tables[i]
         \/ c.do = "flush" /\ c.index = i /\ tables'[i] = <<>>
         \/ c.do = "table" /\ c.index = i /\ tables'[i] = c.route
<1>1. CASE UNCHANGED tables
  BY <1>1
<1>2. CASE Effect(c)
  BY <1>2 DEF Effect, TypeOK
<1> QED
  BY <1>1, <1>2, RunStep

LEMMA OwnedReconciler ==
  ASSUME TypeOK, Waiting, OneOwner, Ordered, Latest, Reconciler
  PROVE  OneOwner'
<1>1. PICK own \in [Index -> Uplink \cup {0}] : Owned(own)
  BY DEF OneOwner
<1>2. CASE ReadLinks
  <2>1. Rules' = Rules /\ batch = {} /\ batch' = {}
    BY <1>2, ReadStep DEF Rules, Waiting
  <2>2. \A u \in Uplink : ifaces'[u] # Gone => own[ifaces'[u]] = u
    BY <1>1, <1>2, ReadStep DEF Owned
  <2>3. Owned(own)'
    BY <1>1, <1>2, <2>1, <2>2, ReadStep DEF Owned
  <2> QED
    BY <2>3 DEF OneOwner
<1>3. CASE Plan
  <2>1. PICK unreadable : gateways' = Gateways(unreadable) /\ batch' = Planned(unreadable)
    BY <1>3, PlanStep
  <2>2. UNCHANGED <<index, used, tables, fwrules, ifaces>>
    BY <1>3, PlanStep
  <2> DEFINE G == Gateways(unreadable)
  <2>3. G \in SUBSET Gateway
    BY GatewaysType
  <2>4. \A g \in G : own[g.index] = g.up
    <3>1. CASE unreadable = "routes"
      BY <1>1, <3>1 DEF Owned, Gateways
    <3>2. CASE unreadable # "routes"
      <4>1. \A r \in routes : r[1] \in Uplink
        BY SteeringAssumption DEF TypeOK, Route
      <4>2. \A u \in Uplink : ifaces[u] # Gone => own[ifaces[u]] = u
        BY <1>1 DEF Owned
      <4> QED
        BY <3>2, <4>1, <4>2 DEF Gateways
    <3> QED
      BY <3>1, <3>2
  <2>5. \A c \in batch' : PlannedAs(c, unreadable)
    BY <2>1, PlannedFacts
  <2>6. ASSUME NEW c \in batch', c.do = "table"
        PROVE  own[c.index] = c.route[1]
    <3>1. c.index \in WantedTables(G) /\ c.route = WantedRoute(G, c.index)
      BY <2>5, <2>6 DEF PlannedAs
    <3>2. PICK g \in G : g.index = c.index /\ WantedRoute(G, c.index) = <<g.up, g.hop>>
      BY <2>3, <3>1, WantedRouteType
    <3> QED
      BY <2>4, <3>1, <3>2
  <2>7. ASSUME NEW c \in batch', c.do = "add_rule"
        PROVE  own[c.rule.index] = c.rule.mark
    <3>1. c.rule \in WantedRules(G)
      BY <2>5, <2>7 DEF PlannedAs
    <3>2. c.rule.mark \in Uplink /\ c.rule.index = ifaces[c.rule.mark] /\ c.rule.index \in Index
      BY <3>1, WantedRuleFacts DEF FwRule
    <3> QED
      BY <1>1, <3>2 DEF Owned, Index, Gone
  <2>8. ASSUME NEW c \in batch', c.do = "del_prio"
        PROVE  own[c.index] = c.mark
    <3>1. c.index \in Pointed /\ c.mark = MarkOf(c.index)
      BY <2>5, <2>8 DEF PlannedAs, StaleTables
    <3>2. PICK r \in Rules : r.index = c.index /\ r.mark = c.mark
      BY <3>1, MarkOfType
    <3> QED
      BY <1>1, <3>2 DEF Owned
  <2>9. Rules' = Rules
    BY <2>2 DEF Rules
  <2> HIDE DEF G
  <2>10. \A g \in gateways' : own[g.index] = g.up
    BY <2>1, <2>4 DEF G
  <2>11. Owned(own)'
    BY <1>1, <2>2, <2>6, <2>7, <2>8, <2>9, <2>10 DEF Owned
  <2> QED
    BY <2>11 DEF OneOwner
<1>4. ASSUME NEW c \in batch, Run(c)
      PROVE  OneOwner'
  <2>1. UNCHANGED <<index, used, ifaces, gateways>> /\ batch' \subseteq batch
    BY <1>4, RunStep
  <2>2. \A r \in Rules' : own[r.index] = r.mark
    BY <1>1, <1>4, RunAdds DEF Owned
  <2>3. \A i \in Index : tables'[i] # <<>> => own[i] = tables'[i][1]
    BY <1>1, <1>4, RunTables DEF Owned
  <2>4. Owned(own)'
    BY <1>1, <2>1, <2>2, <2>3 DEF Owned
  <2> QED
    BY <2>4 DEF OneOwner
<1>5. CASE PassDone \/ CleanupDone
  <2>1. UNCHANGED <<index, used, tables, fwrules, ifaces, gateways, batch>>
    BY <1>5, EndSteps
  <2>2. Rules' = Rules
    BY <2>1 DEF Rules
  <2>3. Owned(own)'
    BY <1>1, <2>1, <2>2 DEF Owned
  <2> QED
    BY <2>3 DEF OneOwner
<1>6. CASE Shutdown
  <2>1. UNCHANGED <<index, used, tables, fwrules, ifaces, gateways>>
    BY <1>6, EndSteps
  <2>2. \A c \in batch' : c.do \notin {"table", "add_rule", "del_prio"}
    BY <1>6, EndSteps DEF CleanupActions
  <2>3. Rules' = Rules
    BY <2>1 DEF Rules
  <2>4. Owned(own)'
    BY <1>1, <2>1, <2>2, <2>3 DEF Owned
  <2> QED
    BY <2>4 DEF OneOwner
<1> QED
  BY <1>2, <1>3, <1>4, <1>5, <1>6 DEF Reconciler

LEMMA OrderedNext ==
  ASSUME TypeOK, Ordered, Latest, [Next]_vars
  PROVE  Ordered'
<1>1. CASE \E c \in batch : Run(c)
  BY <1>1, RunRules
<1>2. CASE ~\E c \in batch : Run(c)
  <2>1. fwrules' = fwrules
    BY <1>2, StepCases, NoStep, CrashStep, ReadStep, PlanStep, EndSteps DEF Beside
  <2> QED
    BY <2>1 DEF Ordered
<1> QED
  BY <1>1, <1>2

LEMMA LatestNext ==
  ASSUME TypeOK, Waiting, OneOwner, Ordered, Latest, [Next]_vars
  PROVE  Latest'
<1>0. Rules \subseteq FwRule /\ \A r \in Rules : r.index \in Index /\ r.mark \in Uplink
  BY RulesListed DEF FwRule
<1>1. CASE ReadLinks
  <2>1. Rules' = Rules /\ batch' = {} /\ conf' = conf
    BY <1>1, ReadStep DEF Rules, Waiting
  <2>2. PICK own \in [Index -> Uplink \cup {0}] : Owned(own)
    BY DEF OneOwner
  <2>3. \A r \in Rules : index[r.mark] # Gone => r.index <= index[r.mark]
    BY <1>0, <2>2 DEF Owned
  <2>4. \A r \in Rules : ifaces'[r.mark] = ifaces[r.mark] \/ ifaces'[r.mark] = index[r.mark] \/ ifaces'[r.mark] = Gone
    BY <1>0, <1>1, ReadStep
  <2> QED
    BY <2>1, <2>3, <2>4 DEF Latest
<1>2. CASE Plan
  <2>1. PICK unreadable : batch' = Planned(unreadable)
    BY <1>2, PlanStep
  <2>2. Rules' = Rules /\ ifaces' = ifaces
    BY <1>2, PlanStep DEF Rules
  <2>3. ASSUME NEW c \in batch', c.do = "add_rule"
        PROVE  Usable(c.rule.index) /\ ifaces[c.rule.mark] = c.rule.index
    <3>1. c.rule \in WantedRules(Gateways(unreadable))
      BY <2>1, <2>3, PlannedFacts DEF PlannedAs
    <3>2. c.rule.index = ifaces[c.rule.mark] /\ c.rule.index \in WantedTables(Gateways(unreadable))
      BY <3>1, WantedRuleFacts
    <3> QED
      BY <3>2 DEF WantedTables
  <2> QED
    BY <2>2, <2>3 DEF Latest
<1>3. CASE \E c \in batch : Run(c)
  <2>1. PICK c \in batch : Run(c)
    BY <1>3
  <2>2. ifaces' = ifaces /\ batch' \subseteq batch
    BY <2>1, RunStep
  <2>3. ASSUME NEW r \in Rules'
        PROVE  Usable(r.index) /\ (ifaces[r.mark] # Gone => r.index <= ifaces[r.mark])
    <3>1. CASE r \in Rules
      BY <3>1 DEF Latest
    <3>2. CASE c.do = "add_rule" /\ r = c.rule
      <4>1. r \in FwRule
        BY <3>2, Arguments
      <4>2. r.index \in Int
        BY <4>1 DEF FwRule, Index
      <4> QED
        BY <3>2, <4>2 DEF Latest
    <3> QED
      BY <2>1, <3>1, <3>2, RunAdds
  <2> QED
    BY <2>2, <2>3 DEF Latest
<1>4. CASE Crash
  <2>1. Rules' = Rules /\ batch' = {} /\ \A u \in Uplink : ifaces'[u] = Gone
    BY <1>4, CrashStep DEF Rules
  <2> QED
    BY <1>0, <2>1 DEF Latest
<1>5. CASE Beside \/ PassDone \/ CleanupDone \/ UNCHANGED vars
  <2>1. UNCHANGED <<fwrules, ifaces, batch>>
    BY <1>5, EndSteps, NoStep DEF Beside
  <2> QED
    BY <2>1 DEF Latest, Rules
<1>6. CASE Shutdown
  <2>1. Rules' = Rules /\ ifaces' = ifaces /\ \A c \in batch' : c.do # "add_rule"
    BY <1>6, EndSteps DEF Rules, CleanupActions
  <2> QED
    BY <2>1 DEF Latest
<1> QED
  BY <1>1, <1>2, <1>3, <1>4, <1>5, <1>6, StepCases

\* What a pass reads of the interfaces stands until it is disturbed, and it is known if
\* it could not read them.
AsRead ==
  pc \in {"read", "run"} =>
    /\ stale => failed
    /\ ~stale /\ ~disturbed => \A u \in Gated : ifaces[u] = index[u]

LEMMA AsReadNext ==
  ASSUME TypeOK, AsRead, [Next]_vars
  PROVE  AsRead'
<1>1. Gated \subseteq Uplink
  BY SteeringAssumption
<1>2. CASE ReadLinks
  BY <1>1, <1>2, ReadStep DEF AsRead
<1>3. CASE Plan
  BY <1>3, PlanStep DEF AsRead
<1>4. CASE \E c \in batch : Run(c)
  BY <1>4, RunStep DEF AsRead
<1>5. CASE PassDone \/ CleanupDone \/ Shutdown \/ Crash
  BY <1>5, EndSteps, CrashStep DEF AsRead
<1>6. CASE Beside \/ UNCHANGED vars
  BY <1>6, NoStep DEF AsRead, Beside
<1> QED
  BY <1>2, <1>3, <1>4, <1>5, <1>6, StepCases

PassInv == TypeOK /\ Waiting /\ OneOwner /\ Ordered /\ Latest /\ AsRead

LEMMA PassNext ==
  ASSUME PassInv, [Next]_vars
  PROVE  PassInv'
<1>1. OneOwner'
  <2>1. CASE UNCHANGED vars
    <3>1. UNCHANGED <<index, used, tables, fwrules, ifaces, gateways, batch>>
      BY <2>1, NoStep
    <3> QED
      BY <3>1 DEF PassInv, OneOwner, Owned, Rules
  <2> QED
    BY <2>1, OwnedSurroundings, OwnedReconciler DEF PassInv, Next
<1> QED
  BY <1>1, TypeNext, WaitingNext, OrderedNext, LatestNext, AsReadNext DEF PassInv

LEMMA PassInit ==
  ASSUME Init
  PROVE  PassInv
<1>1. pc = "idle" /\ batch = {} /\ fwrules = <<>> /\ Rules = {}
  BY DEF Init, Rules
<1>2. Ordered
  BY <1>1 DEF Ordered
<1>3. Waiting /\ Latest /\ AsRead
  BY <1>1 DEF Waiting, Latest, AsRead
<1> QED
  BY <1>2, <1>3, TypeInit, OwnedInit DEF PassInv

-----------------------------------------------------------------------------
(* A pass in which nothing failed and which nobody disturbed.               *)

Clear == pc = "run" /\ ~failed /\ ~disturbed

Pending(do, i) == \E c \in batch : c.do = do /\ c.index = i

\* The gateways of such a pass are on the interfaces there are.
GatewaysSettle == \A g \in gateways : index[g.up] = g.index

\* A wanted table is filled, and as it should be if its text is no other's, or there is a
\* command to fill it yet to run, and no command is against what is wanted of the tables.
TablesSettle ==
  /\ \A i \in WantedTables(gateways) :
       \/ tables[i] # <<>> /\ (TextsApart => tables[i] = WantedRoute(gateways, i))
       \/ Pending("table", i)
  /\ \A c \in batch :
       /\ c.do = "table" => c.index \in WantedTables(gateways) /\ c.route = WantedRoute(gateways, c.index)
       /\ c.do = "flush" => c.index \notin WantedTables(gateways)

\* The interfaces at which rules of a mark should not point, and those whose rules of
\* that mark are yet to be deleted.
Unwanted(u) == {r.index : r \in {q \in Rules : q.mark = u}} \ WantedTables(gateways)
Doomed(u)   == {c.index : c \in {d \in batch : d.do = "del_prio" /\ d.mark = u}}

\* A wanted rule is there, if its text is no other's, or yet to be added; of each mark
\* as many rules are yet to be deleted as are not wanted.
RulesSettle ==
  /\ \A r \in WantedRules(gateways) :
       (TextsApart => r \in Rules) \/ \E c \in batch : c.do = "add_rule" /\ c.rule = r
  /\ \A c \in batch : c.do = "add_rule" => c.rule.index \in WantedTables(gateways)
  /\ \A u \in Uplink : Cardinality(Unwanted(u)) = Cardinality(Doomed(u))

\* The marks are as wanted, or yet to be written, after the table is deleted.
MarksSettle ==
  LET want == WantedMarks(Assignments) IN
  /\ \/ marks = want
     \/ \E c \in batch : c.do = "marks"
     \/ want = {} /\ \E c \in batch : c.do = "del_marks"
  /\ (\E c \in batch : c.do = "del_marks") => want = {} \/ \E c \in batch : c.do = "marks"
  /\ \A c \in batch : c.do = "marks" => c.marks = want

NptSettles ==
  /\ npt = DesiredRules(Assignments) \/ \E c \in batch : c.do = "npt"
  /\ \A c \in batch : c.do = "npt" => c.rules = DesiredRules(Assignments)

\* The learning table is only written if it is not what is wanted.
LearnSettles ==
  /\ learn = LearnRules \/ \E c \in batch : c.do = "learn"
  /\ \A c \in batch : c.do = "learn" => c.watch = LearnRules /\ learn # LearnRules

Settling ==
  Clear => GatewaysSettle /\ TablesSettle /\ RulesSettle /\ MarksSettle /\ NptSettles /\ LearnSettles

\* What is wanted depends on what the pass has read, which no command changes.
LEMMA SameWants ==
  ASSUME UNCHANGED <<gateways, unhealthy, lease, conf, ifaces>>
  PROVE  /\ WantedTables(gateways)' = WantedTables(gateways)
         /\ \A i : WantedRoute(gateways, i)' = WantedRoute(gateways, i)
         /\ WantedRules(gateways)' = WantedRules(gateways)
         /\ WantedMarks(Assignments)' = WantedMarks(Assignments)
         /\ DesiredRules(Assignments)' = DesiredRules(Assignments)
         /\ LearnRules' = LearnRules
<1>1. WantedTables(gateways)' = WantedTables(gateways) /\ \A i : WantedRoute(gateways, i)' = WantedRoute(gateways, i)
  BY DEF WantedTables, WantedRoute
<1>2. WantedRules(gateways)' = WantedRules(gateways)
  BY DEF WantedRules, WantedTables
<1>3. Assignments' = Assignments
  BY DEF Assignments, Assigned, Active, Assign
<1>4. WantedMarks(Assignments)' = WantedMarks(Assignments)
  BY <1>3 DEF WantedMarks
<1>5. DesiredRules(Assignments)' = DesiredRules(Assignments)
  BY <1>3 DEF DesiredRules, Inbound, Guards
<1>6. LearnRules' = LearnRules
  BY DEF LearnRules
<1> QED
  BY <1>1, <1>2, <1>4, <1>5, <1>6

\* In such a pass the rules that are not wanted are those at interfaces other than the
\* one their uplink has, or all of the uplink's.
LEMMA WantedIsLatest ==
  ASSUME PassInv, GatewaysSettle, NEW r \in Rules, NEW i \in Index, i \in WantedTables(gateways),
         NEW q \in Rules, q.index = i, r.mark = q.mark
  PROVE  r.index <= i
<1>1. PICK g \in gateways : g.index = i
  BY DEF WantedTables
<1>2. g.up \in Uplink /\ index[g.up] = i /\ i # Gone
  <2>1. g \in Gateway /\ Gated \subseteq Uplink
    BY SteeringAssumption DEF PassInv, TypeOK
  <2>2. i # Gone
    BY DEF Index, Gone
  <2> QED
    BY <1>1, <2>1, <2>2 DEF GatewaysSettle, Gateway
<1>3. PICK own \in [Index -> Uplink \cup {0}] : Owned(own)
  BY DEF PassInv, OneOwner
<1>4. own[i] = g.up /\ own[r.index] = r.mark /\ own[i] = q.mark
  BY <1>2, <1>3 DEF Owned
<1>5. r.index \in Index
  BY RulesListed DEF PassInv, FwRule
<1> QED
  BY <1>2, <1>3, <1>4, <1>5 DEF Owned

\* What can be listed is rewritten if it is not what is wanted.
LEMMA OutOfSyncIs ==
  ASSUME NEW want, NEW table
  PROVE  OutOfSync(want, table, FALSE) <=> want # table
  BY DEF OutOfSync, Listed

LEMMA SettlingPlan ==
  ASSUME PassInv, Plan
  PROVE  Settling'
<1> SUFFICES ASSUME Clear'
             PROVE  /\ GatewaysSettle' /\ TablesSettle' /\ RulesSettle' /\ MarksSettle' /\ NptSettles'
                    /\ LearnSettles'
  BY DEF Settling
<1> USE DEF PassInv
<1>1. PICK unreadable \in {AllRead, "routes", "npt", "marks", "rules", "tables", "learn", "hosts"} :
        /\ IF unreadable = AllRead THEN UNCHANGED <<faults, failed>>
           ELSE faults' = faults + 1 /\ failed' = TRUE
        /\ gateways' = Gateways(unreadable)
        /\ unhealthy' = Downs(unreadable)
        /\ batch' = Planned(unreadable)
  BY PlanStep
<1>2. /\ UNCHANGED <<index, lease, npt, marks, tables, fwrules, learn, conf, ifaces, disturbed>>
      /\ pc = "read"
  BY PlanStep
<1>3. unreadable = AllRead /\ ~failed /\ ~disturbed /\ ~stale
  BY <1>1, <1>2 DEF Clear, AsRead
<1> DEFINE G == Gateways(AllRead)
           A == Assigned(Active(G, Downs(AllRead)))
<1>4. gateways' = G /\ batch' = Planned(AllRead) /\ unhealthy' = Downs(AllRead)
  BY <1>1, <1>3
<1>5. \A c \in batch' : PlannedAs(c, AllRead)
  BY <1>4, PlannedFacts
<1>6. /\ WantedTables(gateways)' = WantedTables(G)
      /\ \A i : WantedRoute(gateways, i)' = WantedRoute(G, i)
      /\ WantedRules(gateways)' = WantedRules(G)
      /\ WantedMarks(Assignments)' = WantedMarks(A)
      /\ DesiredRules(Assignments)' = DesiredRules(A)
      /\ LearnRules' = LearnRules /\ Rules' = Rules
  <2>1. Assignments' = A
    BY <1>2, <1>4 DEF Assignments, Assigned, Active, Assign
  <2>2. WantedTables(gateways)' = WantedTables(G) /\ \A i : WantedRoute(gateways, i)' = WantedRoute(G, i)
    BY <1>2, <1>4 DEF WantedTables, WantedRoute
  <2>3. WantedRules(gateways)' = WantedRules(G)
    BY <1>2, <1>4 DEF WantedRules, WantedTables
  <2>4. WantedMarks(Assignments)' = WantedMarks(A)
    BY <1>2, <2>1 DEF WantedMarks
  <2>5. DesiredRules(Assignments)' = DesiredRules(A)
    BY <1>2, <2>1 DEF DesiredRules, Inbound, Guards
  <2> QED
    BY <1>2, <2>2, <2>3, <2>4, <2>5 DEF LearnRules, Rules
<1>7. /\ \A i \in StaleTables(G, AllRead) :
           [do |-> "del_prio", mark |-> MarkOf(i), index |-> i] \in batch'
      /\ \A i \in WantedTables(G) : TableNeedsRestore(G, i, AllRead) =>
           \E c \in batch' : c.do = "table" /\ c.index = i
      /\ RulesNeedRestore(G, AllRead) => \A r \in WantedRules(G) :
           \E c \in batch' : c.do = "add_rule" /\ c.rule = r
      /\ OutOfSync(WantedMarks(A), marks, AllRead = "marks") =>
           /\ \E c \in batch' : c.do = "del_marks"
           /\ WantedMarks(A) # {} => \E c \in batch' : c.do = "marks"
      /\ OutOfSync(DesiredRules(A), npt, AllRead = "npt") => \E c \in batch' : c.do = "npt"
      /\ OutOfSync(LearnRules, learn, AllRead = "learn") => \E c \in batch' : c.do = "learn"
  BY <1>4, PlannedHas
<1>8. /\ (AllRead = "marks") = FALSE /\ (AllRead = "npt") = FALSE /\ (AllRead = "learn") = FALSE
      /\ AllRead # "rules" /\ AllRead # "routes"
  BY AllReadIsNone
<1>9. G \in SUBSET Gateway
  BY GatewaysType
<1>10. GatewaysSettle'
  <2>1. \A r \in routes : r[1] \in Gated
    BY DEF TypeOK, Route
  <2>2. \A u \in Gated : ifaces[u] = index[u]
    BY <1>2, <1>3 DEF AsRead
  <2>3. \A g \in G : index[g.up] = g.index
    BY <1>8, <2>1, <2>2 DEF Gateways
  <2> HIDE DEF G
  <2> QED
    BY <1>2, <1>4, <2>3 DEF GatewaysSettle
<1>11. TablesSettle'
  <2>1. ASSUME NEW i \in WantedTables(G)
        PROVE  \/ tables[i] # <<>> /\ (TextsApart => tables[i] = WantedRoute(G, i))
               \/ Pending("table", i)'
    <3>1. ~TableNeedsRestore(G, i, AllRead) \/ Pending("table", i)'
      BY <1>7 DEF Pending
    <3>2. \/ tables[i] # <<>> /\ <<WantedRoute(G, i)[2], tables[i][2]>> \in Within
          \/ Pending("table", i)'
      BY <3>1 DEF TableNeedsRestore
    <3>3. PICK g \in G : i \in Index /\ g.index = i /\ WantedRoute(G, i) = <<g.up, g.hop>>
      BY <1>9, WantedRouteType
    <3>4. PICK own \in [Index -> Uplink \cup {0}] : Owned(own)'
      BY PassNext DEF Next, Reconciler, OneOwner
    <3>5. tables[i] # <<>> => tables[i][1] = g.up
      BY <1>2, <1>4, <3>3, <3>4 DEF Owned
    <3>6. g.hop \in Hop
      BY <1>9 DEF Gateway
    <3>7. ASSUME tables[i] # <<>>, TextsApart, <<g.hop, tables[i][2]>> \in Within
          PROVE  tables[i] = <<g.up, g.hop>>
      <4>1. tables[i] \in Gated \X Hop
        BY <3>3, <3>7 DEF TypeOK, Route
      <4>2. tables[i] = <<tables[i][1], tables[i][2]>> /\ tables[i][2] \in Hop
        BY <4>1
      <4>3. tables[i][2] = g.hop
        BY <3>6, <3>7, <4>2 DEF TextsApart
      <4> QED
        BY <3>5, <3>7, <4>2, <4>3
    <3> QED
      BY <3>2, <3>3, <3>7
  <2>2. \A c \in batch' :
          /\ c.do = "table" => c.index \in WantedTables(G) /\ c.route = WantedRoute(G, c.index)
          /\ c.do = "flush" => c.index \notin WantedTables(G)
    BY <1>5 DEF PlannedAs, StaleTables
  <2> HIDE DEF G
  <2> QED
    BY <1>2, <1>6, <2>1, <2>2 DEF TablesSettle
<1>12. RulesSettle'
  <2>1. ASSUME NEW r \in WantedRules(G)
        PROVE  (TextsApart => r \in Rules) \/ \E c \in batch' : c.do = "add_rule" /\ c.rule = r
    <3>1. Selects(r) \/ \E c \in batch' : c.do = "add_rule" /\ c.rule = r
      BY <1>7 DEF RulesNeedRestore
    <3>2. ASSUME Selects(r), TextsApart
          PROVE  r \in Rules
      <4>1. PICK q \in Rules : BeginsHex(r.mark, q.mark) /\ Begins(Table(r.index), Table(q.index))
        BY <3>2 DEF Selects
      <4>2. r \in FwRule /\ q \in FwRule /\ r.index \in WantedTables(G)
        BY <4>1, RulesListed, WantedRuleFacts
      <4>3. Usable(r.index) /\ Usable(q.index)
        BY <4>1, <4>2 DEF WantedTables, Latest
      <4>4. r.mark = q.mark /\ r.index = q.index
        BY <3>2, <4>1, <4>2, <4>3, Zenon DEF TextsApart, FwRule
      <4> QED
        BY <4>1, <4>2, <4>4 DEF FwRule
    <3> QED
      BY <3>1, <3>2
  <2>2. \A c \in batch' : c.do = "add_rule" => c.rule.index \in WantedTables(G)
    BY <1>5, WantedRuleFacts DEF PlannedAs
  <2>3. ASSUME NEW u \in Uplink
        PROVE  Unwanted(u)' = Doomed(u)'
    <3>1. ASSUME NEW i \in Unwanted(u)'
          PROVE  i \in Doomed(u)'
      <4>1. i \notin WantedTables(G) /\ \E r \in Rules : r.mark = u /\ r.index = i
        BY <1>6, <3>1 DEF Unwanted
      <4>2. i \in StaleTables(G, AllRead) /\ i \in Pointed
        BY <1>3, <1>8, <4>1 DEF StaleTables, Pointed
      <4>3. MarkOf(i) = u
        <5>1. PICK own \in [Index -> Uplink \cup {0}] : Owned(own)
          BY DEF OneOwner
        <5> QED
          BY <4>1, <4>2, <5>1, MarkOfType DEF Owned
      <4>4. PICK c \in batch' : c = [do |-> "del_prio", mark |-> u, index |-> i]
        BY <1>7, <4>2, <4>3
      <4>5. c.do = "del_prio" /\ c.mark = u /\ c.index = i
        BY <4>4
      <4> QED
        BY <4>5 DEF Doomed
    <3>2. ASSUME NEW i \in Doomed(u)'
          PROVE  i \in Unwanted(u)'
      <4>1. PICK c \in batch' : c.do = "del_prio" /\ c.mark = u /\ c.index = i
        BY <3>2 DEF Doomed
      <4>2. i \in StaleTables(G, AllRead) /\ u = MarkOf(i)
        BY <1>5, <4>1 DEF PlannedAs
      <4>3. i \in Pointed /\ i \notin WantedTables(G)
        BY <4>2 DEF StaleTables
      <4>4. PICK r \in Rules : r.index = i /\ r.mark = u
        BY <4>2, <4>3, MarkOfType
      <4> HIDE DEF G
      <4> QED
        BY <1>6, <4>3, <4>4 DEF Unwanted
    <3> QED
      BY <3>1, <3>2
  <2> HIDE DEF G
  <2> QED
    BY <1>6, <2>1, <2>2, <2>3 DEF RulesSettle
<1>13. MarksSettle'
  <2>1. \/ marks = WantedMarks(A)
        \/ \E c \in batch' : c.do = "marks"
        \/ WantedMarks(A) = {} /\ \E c \in batch' : c.do = "del_marks"
    BY <1>7, <1>8, OutOfSyncIs
  <2>2. (\E c \in batch' : c.do = "del_marks") => WantedMarks(A) = {} \/ \E c \in batch' : c.do = "marks"
    BY <1>5, <1>7 DEF PlannedAs
  <2>3. \A c \in batch' : c.do = "marks" => c.marks = WantedMarks(A)
    BY <1>5 DEF PlannedAs
  <2> HIDE DEF A
  <2> QED
    BY <1>2, <1>6, <2>1, <2>2, <2>3 DEF MarksSettle
<1>14. NptSettles'
  <2>1. npt = DesiredRules(A) \/ \E c \in batch' : c.do = "npt"
    BY <1>7, <1>8, OutOfSyncIs
  <2>2. \A c \in batch' : c.do = "npt" => c.rules = DesiredRules(A)
    BY <1>5 DEF PlannedAs
  <2> HIDE DEF A
  <2> QED
    BY <1>2, <1>6, <2>1, <2>2 DEF NptSettles
<1>15. LearnSettles'
  <2>1. learn = LearnRules \/ \E c \in batch' : c.do = "learn"
    BY <1>7, <1>8, OutOfSyncIs
  <2>2. \A c \in batch' : c.do = "learn" => c.watch = LearnRules /\ learn # LearnRules
    <3> SUFFICES ASSUME NEW c \in batch', c.do = "learn"
                 PROVE  c.watch = LearnRules /\ learn # LearnRules
      OBVIOUS
    <3>1. c.watch = LearnRules /\ OutOfSync(LearnRules, learn, AllRead = "learn")
      BY <1>5 DEF PlannedAs
    <3> QED
      BY <1>8, <3>1, OutOfSyncIs
  <2> QED
    BY <1>2, <1>6, <2>1, <2>2 DEF LearnSettles
<1> QED
  BY <1>10, <1>11, <1>12, <1>13, <1>14, <1>15

\* The order of the commands of a pass.
LEMMA InOrder ==
  ASSUME NEW c, NEW d, Rank[c.do] <= Rank[d.do]
  PROVE  /\ ~(c.do = "flush" /\ d.do = "del_prio")
         /\ ~(c.do \in {"table", "add_rule"} /\ d.do \in {"flush", "del_prio"})
         /\ ~(c.do = "add_rule" /\ d.do = "table")
         /\ ~(c.do = "marks" /\ d.do = "del_marks")
  BY DEF Rank

\* A command for a table is not refused in such a pass.
LEMMA NotRefused ==
  ASSUME PassInv, GatewaysSettle, TablesSettle, NEW c \in batch, c.do = "table"
  PROVE  ~Refused(c) /\ c.route # <<>>
<1> USE DEF PassInv
<1>1. c.index \in WantedTables(gateways) /\ c.route = WantedRoute(gateways, c.index)
  BY DEF TablesSettle
<1>2. gateways \in SUBSET Gateway
  BY DEF TypeOK
<1>3. PICK g \in gateways : g.index = c.index /\ c.route = <<g.up, g.hop>>
  BY <1>1, <1>2, WantedRouteType
<1>4. c.index # Gone
  BY <1>1 DEF WantedTables, Index, Gone
<1> QED
  BY <1>3, <1>4 DEF GatewaysSettle, Refused

\* The counts of unwanted and of doomed rules fall together.
LEMMA CountsFall ==
  ASSUME PassInv, GatewaysSettle, RulesSettle, NEW c \in batch, Run(c), c.do = "del_prio", Clear'
  PROVE  /\ \E q \in Rules : Rules' = Rules \ {q} /\ q.index \notin WantedTables(gateways)
         /\ \A u \in Uplink : Cardinality(Unwanted(u)') = Cardinality(Doomed(u)')
<1> USE DEF PassInv
<1>1. /\ c.mark \in Uplink /\ c.index \in Index
      /\ \A d \in batch : d.do = "del_prio" => d = [do |-> "del_prio", mark |-> d.mark, index |-> d.index]
      /\ \A d \in batch : d.do = "del_prio" => d.index \in Index
  BY Arguments
<1>2. batch' = batch \ {c} /\ UNCHANGED <<gateways, conf, ifaces>>
  BY RunStep
<1>3. WantedTables(gateways)' = WantedTables(gateways)
  BY <1>2 DEF WantedTables
<1>4. \A r \in Rules : r = [mark |-> r.mark, index |-> r.index] /\ r.index \in Index /\ r.mark \in Uplink
  BY RulesListed DEF FwRule
<1>5. IsFiniteSet(Index)
  BY FS_Interval, SteeringAssumption DEF Index
<1>6. \A u \in Uplink : IsFiniteSet(Unwanted(u)) /\ IsFiniteSet(Doomed(u))
  <2>1. \A u \in Uplink : Unwanted(u) \subseteq Index /\ Doomed(u) \subseteq Index
    BY <1>1, <1>4 DEF Unwanted, Doomed
  <2> QED
    BY <1>5, <2>1, FS_Subset
<1>7. c.index \in Doomed(c.mark) /\ Doomed(c.mark)' = Doomed(c.mark) \ {c.index}
  BY <1>1, <1>2 DEF Doomed
<1>8. \A u \in Uplink : u # c.mark => Doomed(u)' = Doomed(u)
  BY <1>2 DEF Doomed
<1>9. Unwanted(c.mark) # {}
  <2>1. Cardinality(Doomed(c.mark)) # 0
    BY <1>1, <1>6, <1>7, FS_EmptySet
  <2>2. Cardinality(Unwanted(c.mark)) # 0
    BY <1>1, <2>1 DEF RulesSettle
  <2> QED
    BY <2>2, FS_EmptySet
<1>10. PICK r \in Rules : r.mark = c.mark /\ r.index \notin WantedTables(gateways)
  BY <1>9 DEF Unwanted
<1>11. PICK q \in Rules : q.mark = c.mark /\ Rules' = Rules \ {q} /\ q.index <= r.index
  <2>1. r \in Meant(c) /\ \A p \in Meant(c) : p \in Rules /\ p.mark = c.mark
    BY <1>10 DEF Meant
  <2>2. ~Refused(c)
    BY <2>1 DEF Refused
  <2>3. Effect(c)
    BY <2>2, RunStep DEF Clear
  <2>4. \E q \in Meant(c) : Rules' = Rules \ {q} /\ \A p \in Meant(c) : p.mark = q.mark => q.index <= p.index
    <3>1. Meant(c) \in SUBSET Rules /\ Meant(c) # {}
      BY <2>1
    <3>2. fwrules' = WithoutFirst(Meant(c))
      BY <2>3 DEF Effect
    <3> QED
      BY <3>1, <3>2, OrderedDeletion
  <2> QED
    BY <1>10, <2>1, <2>4
<1>12. q.index \notin WantedTables(gateways)
  <2> SUFFICES ASSUME q.index \in WantedTables(gateways)
               PROVE  FALSE
    OBVIOUS
  <2>1. r.index <= q.index
    BY <1>4, <1>10, <1>11, WantedIsLatest
  <2>2. r.index = q.index
    BY <1>4, <1>11, <2>1 DEF Index
  <2> QED
    BY <1>10, <2>2
<1>13. q.index \in Unwanted(c.mark)
  BY <1>11, <1>12 DEF Unwanted
<1>14. Unwanted(c.mark)' = Unwanted(c.mark) \ {q.index}
  <2>1. ASSUME NEW p \in Rules, p.mark = c.mark, p # q
        PROVE  p.index # q.index
    BY <1>4, <1>11, <2>1
  <2> QED
    BY <1>3, <1>11, <2>1 DEF Unwanted
<1>15. \A u \in Uplink : u # c.mark => Unwanted(u)' = Unwanted(u)
  BY <1>3, <1>11 DEF Unwanted
<1>16. \A u \in Uplink : Cardinality(Unwanted(u)') = Cardinality(Doomed(u)')
  <2> SUFFICES ASSUME NEW u \in Uplink
               PROVE  Cardinality(Unwanted(u)') = Cardinality(Doomed(u)')
    OBVIOUS
  <2>1. CASE u = c.mark
    <3>1. Cardinality(Unwanted(c.mark)') = Cardinality(Unwanted(c.mark)) - 1
      BY <1>1, <1>6, <1>13, <1>14, FS_RemoveElement
    <3>2. Cardinality(Doomed(c.mark)') = Cardinality(Doomed(c.mark)) - 1
      BY <1>1, <1>6, <1>7, FS_RemoveElement
    <3> QED
      BY <1>1, <2>1, <3>1, <3>2 DEF RulesSettle
  <2>2. CASE u # c.mark
    BY <1>8, <1>15, <2>2 DEF RulesSettle
  <2> QED
    BY <2>1, <2>2
<1> QED
  BY <1>11, <1>12, <1>16

LEMMA SettlingRules ==
  ASSUME PassInv, GatewaysSettle, RulesSettle, NEW c \in batch, Run(c), Clear'
  PROVE  RulesSettle'
<1> USE DEF PassInv
<1>1. /\ batch' = batch \ {c} /\ c.do # "del_rule"
      /\ UNCHANGED <<gateways, unhealthy, lease, conf, ifaces>>
  BY RunStep DEF Clear, Waiting
<1>2. /\ WantedTables(gateways)' = WantedTables(gateways)
      /\ WantedRules(gateways)' = WantedRules(gateways)
  BY <1>1, SameWants
<1>3. CASE c.do = "del_prio"
  <2>1. PICK q \in Rules : Rules' = Rules \ {q} /\ q.index \notin WantedTables(gateways)
    BY <1>3, CountsFall
  <2>2. \A r \in WantedRules(gateways) : r.index \in WantedTables(gateways)
    BY WantedRuleFacts
  <2>3. \A u \in Uplink : Cardinality(Unwanted(u)') = Cardinality(Doomed(u)')
    BY <1>3, CountsFall
  <2>4. \A r \in WantedRules(gateways) :
          (TextsApart => r \in Rules') \/ \E d \in batch' : d.do = "add_rule" /\ d.rule = r
    BY <1>1, <1>3, <2>1, <2>2 DEF RulesSettle
  <2> QED
    BY <1>1, <1>2, <2>3, <2>4 DEF RulesSettle
<1>4. CASE c.do # "del_prio"
  <2>1. Rules' = Rules \/ (c.do = "add_rule" /\ Rules' = Rules \cup {c.rule})
    BY <1>1, <1>4, RunRules
  <2>2. \A u \in Uplink : Doomed(u)' = Doomed(u)
    BY <1>1, <1>4 DEF Doomed
  <2>3. \A u \in Uplink : Unwanted(u)' = Unwanted(u)
    <3>1. CASE Rules' = Rules
      BY <1>2, <3>1 DEF Unwanted
    <3>2. CASE c.do = "add_rule" /\ Rules' = Rules \cup {c.rule}
      <4>1. c.rule.index \in WantedTables(gateways)
        BY <3>2 DEF RulesSettle
      <4> QED
        BY <1>2, <3>2, <4>1 DEF Unwanted
    <3> QED
      BY <2>1, <3>1, <3>2
  <2>4. c.do = "add_rule" => c.rule \in Rules'
    <3>1. ASSUME c.do = "add_rule", Refused(c)
          PROVE  c.rule \in Rules
      BY <3>1 DEF Refused
    <3>2. ASSUME c.do = "add_rule", Effect(c)
          PROVE  c.rule \in Rules'
      <4>1. fwrules' = Append(fwrules, c.rule) /\ fwrules \in Seq(FwRule) /\ c.rule \in FwRule
        BY <3>2, Arguments DEF Effect, TypeOK
      <4>2. Len(fwrules) + 1 \in DOMAIN fwrules' /\ fwrules'[Len(fwrules) + 1] = c.rule
        BY <4>1
      <4> QED
        BY <4>2 DEF Rules
    <3> QED
      BY <2>1, <3>1, <3>2, RunStep DEF Clear
  <2>5. \A r \in WantedRules(gateways) :
          (TextsApart => r \in Rules') \/ \E d \in batch' : d.do = "add_rule" /\ d.rule = r
    BY <1>1, <2>1, <2>4 DEF RulesSettle
  <2> QED
    BY <1>1, <1>2, <2>2, <2>3, <2>5 DEF RulesSettle
<1> QED
  BY <1>3, <1>4

LEMMA SettlingTables ==
  ASSUME PassInv, GatewaysSettle, TablesSettle, NEW c \in batch, Run(c), Clear'
  PROVE  TablesSettle'
<1> USE DEF PassInv
<1>1. batch' = batch \ {c} /\ UNCHANGED <<gateways, unhealthy, lease, conf, ifaces>>
  BY RunStep
<1>2. /\ WantedTables(gateways)' = WantedTables(gateways)
      /\ \A i : WantedRoute(gateways, i)' = WantedRoute(gateways, i)
  BY <1>1, SameWants
<1>3. ASSUME NEW i \in WantedTables(gateways)
      PROVE  \/ tables'[i] # <<>> /\ (TextsApart => tables'[i] = WantedRoute(gateways, i))
             \/ Pending("table", i)'
  <2>1. i \in Index
    BY DEF WantedTables
  <2>2. CASE \E d \in batch : d # c /\ d.do = "table" /\ d.index = i
    BY <1>1, <2>2 DEF Pending
  <2>3. CASE c.do = "table" /\ c.index = i
    <3>1. Effect(c)
      BY <2>3, NotRefused, RunStep DEF Clear
    <3>2. tables'[i] = c.route
      BY <2>1, <2>3, <3>1 DEF Effect, TypeOK
    <3> QED
      BY <2>3, <3>2, NotRefused DEF TablesSettle
  <2>4. CASE /\ tables[i] # <<>> /\ (TextsApart => tables[i] = WantedRoute(gateways, i))
             /\ ~(c.do = "table" /\ c.index = i)
    <3>1. ~(c.do = "flush" /\ c.index = i)
      BY DEF TablesSettle
    <3>2. tables'[i] = tables[i]
      BY <2>1, <2>4, <3>1, RunTables
    <3> QED
      BY <2>4, <3>2
  <2> QED
    BY <2>2, <2>3, <2>4 DEF TablesSettle, Pending
<1> QED
  BY <1>1, <1>2, <1>3 DEF TablesSettle

LEMMA SettlingMarks ==
  ASSUME PassInv, MarksSettle, NEW c \in batch, Run(c), Clear'
  PROVE  MarksSettle'
<1> USE DEF PassInv
<1> DEFINE want == WantedMarks(Assignments)
<1>1. /\ batch' = batch \ {c} /\ \A d \in batch : Rank[c.do] <= Rank[d.do]
      /\ UNCHANGED <<gateways, unhealthy, lease, conf, ifaces>>
  BY RunStep
<1>2. WantedMarks(Assignments)' = want
  BY <1>1, SameWants
<1>3. /\ marks = want \/ (\E d \in batch : d.do = "marks") \/ (want = {} /\ \E d \in batch : d.do = "del_marks")
      /\ (\E d \in batch : d.do = "del_marks") => want = {} \/ \E d \in batch : d.do = "marks"
      /\ \A d \in batch : d.do = "marks" => d.marks = want
  BY DEF MarksSettle
<1> HIDE DEF want
<1>4. c.do \in {"marks", "del_marks"} => Effect(c)
  BY RunStep DEF Clear, Refused
<1>5. CASE c.do = "marks"
  <2>1. marks' = want
    BY <1>3, <1>4, <1>5 DEF Effect
  <2>2. \A d \in batch : d.do # "del_marks"
    BY <1>1, <1>5, InOrder
  <2> QED
    BY <1>1, <1>2, <1>3, <2>1, <2>2 DEF MarksSettle
<1>6. CASE c.do = "del_marks"
  <2>1. marks' = {}
    BY <1>4, <1>6 DEF Effect
  <2>2. want = {} \/ \E d \in batch' : d.do = "marks"
    BY <1>1, <1>3, <1>6
  <2> QED
    BY <1>1, <1>2, <1>3, <2>1, <2>2 DEF MarksSettle
<1>7. CASE c.do \notin {"marks", "del_marks"}
  <2>1. marks' = marks
    BY <1>7, RunStep DEF Effect
  <2> QED
    BY <1>1, <1>2, <1>3, <1>7, <2>1 DEF MarksSettle
<1> QED
  BY <1>5, <1>6, <1>7

LEMMA SettlingRun ==
  ASSUME PassInv, Settling, NEW c \in batch, Run(c)
  PROVE  Settling'
<1> SUFFICES ASSUME Clear'
             PROVE  /\ GatewaysSettle' /\ TablesSettle' /\ RulesSettle' /\ MarksSettle' /\ NptSettles'
                    /\ LearnSettles'
  BY DEF Settling
<1> USE DEF PassInv
<1>1. batch' = batch \ {c} /\ UNCHANGED <<index, gateways, unhealthy, lease, conf, ifaces>>
  BY RunStep
<1>2. GatewaysSettle /\ TablesSettle /\ RulesSettle /\ MarksSettle /\ NptSettles /\ LearnSettles
  BY RunStep DEF Settling, Clear
<1>3. DesiredRules(Assignments)' = DesiredRules(Assignments) /\ LearnRules' = LearnRules
  BY <1>1, SameWants
<1>4. c.do \in {"npt", "learn"} => Effect(c)
  BY RunStep DEF Clear, Refused
<1>5. GatewaysSettle'
  BY <1>1, <1>2 DEF GatewaysSettle
<1>6. NptSettles'
  <2>1. CASE c.do = "npt"
    <3>1. npt' = DesiredRules(Assignments)
      BY <1>2, <1>4, <2>1 DEF Effect, NptSettles
    <3> QED
      BY <1>1, <1>2, <1>3, <3>1 DEF NptSettles
  <2>2. CASE c.do # "npt"
    <3>1. npt' = npt
      BY <2>2, RunStep DEF Effect
    <3> QED
      BY <1>1, <1>2, <1>3, <2>2, <3>1 DEF NptSettles
  <2> QED
    BY <2>1, <2>2
<1>7. LearnSettles'
  <2>1. CASE c.do = "learn"
    <3>1. learn' = LearnRules
      BY <1>2, <1>4, <2>1 DEF Effect, LearnSettles
    <3>2. \A d \in batch' : d.do # "learn"
      <4>1. \A d \in batch : d.do = "learn" => d = [do |-> "learn", watch |-> LearnRules]
        BY <1>2, Arguments DEF LearnSettles
      <4> QED
        BY <1>1, <2>1, <4>1
    <3> QED
      BY <1>3, <3>1, <3>2 DEF LearnSettles
  <2>2. CASE c.do # "learn"
    <3>1. learn' = learn
      BY <2>2, RunStep DEF Effect
    <3> QED
      BY <1>1, <1>2, <1>3, <2>2, <3>1 DEF LearnSettles
  <2> QED
    BY <2>1, <2>2
<1> QED
  BY <1>2, <1>5, <1>6, <1>7, SettlingRules, SettlingTables, SettlingMarks

LEMMA SettlingNext ==
  ASSUME PassInv, Settling, [Next]_vars
  PROVE  Settling'
<1>1. ReadLinks \/ PassDone \/ Shutdown \/ CleanupDone \/ Crash \/ Beside => ~Clear'
  BY ReadStep, EndSteps, CrashStep DEF Clear, Beside
<1>2. CASE UNCHANGED vars
  <2>1. UNCHANGED <<index, npt, marks, tables, fwrules, learn, pc, failed, disturbed, batch, gateways, unhealthy,
                    lease, conf, ifaces>>
    BY <1>2, NoStep
  <2>2. Rules' = Rules /\ Clear' = Clear /\ \A i : Pending("table", i)' = Pending("table", i)
    BY <2>1 DEF Rules, Clear, Pending
  <2>3. \A u : Unwanted(u)' = Unwanted(u) /\ Doomed(u)' = Doomed(u)
    BY <2>1, <2>2, SameWants DEF Unwanted, Doomed
  <2> QED
    BY <2>1, <2>2, <2>3, SameWants DEF Settling, GatewaysSettle, TablesSettle, RulesSettle, MarksSettle, NptSettles,
                                       LearnSettles
<1> QED
  BY <1>1, <1>2, StepCases, SettlingPlan, SettlingRun DEF Settling

SettleInv == PassInv /\ Settling

LEMMA SettleAlways == Spec => []SettleInv
<1>1. Init => SettleInv
  <2>1. Init => pc = "idle"
    BY DEF Init
  <2> QED
    BY <2>1, PassInit DEF SettleInv, Settling, Clear
<1>2. SettleInv /\ [Next]_vars => SettleInv'
  BY PassNext, SettlingNext DEF SettleInv
<1> QED
  BY <1>1, <1>2, PTL DEF Spec

\* At its end such a pass points no rule at an interface it has no use for: there is
\* nothing left to delete, so there is nothing left that should be.
LEMMA NothingUnwanted ==
  ASSUME PassInv, RulesSettle, \A c \in batch : c.do # "del_prio"
  PROVE  Pointed \subseteq WantedTables(gateways)
<1> USE DEF PassInv
<1>1. ASSUME NEW r \in Rules
      PROVE  r.index \in WantedTables(gateways)
  <2>1. r.mark \in Uplink /\ Rules \subseteq FwRule
    BY RulesListed DEF FwRule
  <2>2. Doomed(r.mark) = {}
    BY DEF Doomed
  <2>3. Cardinality(Unwanted(r.mark)) = 0
    <3>1. Cardinality({}) = 0
      BY FS_EmptySet
    <3> QED
      BY <2>1, <2>2, <3>1, Zenon DEF RulesSettle
  <2>4. IsFiniteSet(Unwanted(r.mark))
    <3>1. Unwanted(r.mark) \subseteq Index
      BY <2>1 DEF Unwanted, FwRule
    <3>2. IsFiniteSet(Index)
      BY FS_Interval, SteeringAssumption DEF Index
    <3> QED
      BY <3>1, <3>2, FS_Subset
  <2>5. Unwanted(r.mark) = {}
    BY <2>3, <2>4, FS_EmptySet
  <2> QED
    BY <2>5 DEF Unwanted
<1> QED
  BY <1>1 DEF Pointed

LEMMA SettledIs ==
  ASSUME TextsApart, SettleInv
  PROVE  PassSettles
<1> SUFFICES ASSUME Quiet
             PROVE  /\ npt = DesiredRules(Assignments)
                    /\ marks = WantedMarks(Assignments)
                    /\ learn = LearnRules
                    /\ \A i \in WantedTables(gateways) : tables[i] = WantedRoute(gateways, i)
                    /\ WantedRules(gateways) \subseteq Rules
                    /\ Pointed \subseteq WantedTables(gateways)
  BY DEF PassSettles
<1>1. batch = {} /\ TablesSettle /\ RulesSettle /\ MarksSettle /\ NptSettles /\ LearnSettles
  BY DEF Quiet, SettleInv, Settling, Clear
<1>2. Pointed \subseteq WantedTables(gateways)
  BY <1>1, NothingUnwanted DEF SettleInv
<1>3. marks = WantedMarks(Assignments)
  BY <1>1 DEF MarksSettle
<1>4. npt = DesiredRules(Assignments) /\ learn = LearnRules
  BY <1>1 DEF NptSettles, LearnSettles
<1>5. \A i \in WantedTables(gateways) : tables[i] = WantedRoute(gateways, i)
  BY <1>1 DEF TablesSettle, Pending
<1>6. WantedRules(gateways) \subseteq Rules
  BY <1>1 DEF RulesSettle
<1> QED
  BY <1>2, <1>3, <1>4, <1>5, <1>6

\* A pass in which nothing failed and which nobody disturbed leaves every table of ours
\* as it should be, whatever there was before: the commands it plans make up the
\* difference, and the order in which they run lets none undo another.  The texts by
\* which route.go:320-343 knows a rule and a route again have to be apart; the default
\* offset sees to those of the tables.
THEOREM PassesSettle ==
  ASSUME TextsApart
  PROVE  Spec => []PassSettles
<1>1. SettleInv => PassSettles
  BY SettledIs
<1> QED
  BY <1>1, SettleAlways, PTL

-----------------------------------------------------------------------------
(* Where a mark leads.                                                      *)

\* After such a pass the table that the first rule of a mark finds filled is one of the
\* uplink of that mark, for an interface belongs to one uplink.
LEMMA LedToItsOwn ==
  ASSUME PassInv, NEW m \in Uplink, NEW u \in Leads(m)
  PROVE  u = m
<1> USE DEF PassInv
<1>1. PICK k \in DOMAIN fwrules :
        fwrules[k].mark = m /\ tables[fwrules[k].index] # <<>> /\ u = tables[fwrules[k].index][1]
  BY DEF Leads
<1>2. fwrules[k] \in Rules
  BY <1>1 DEF Rules
<1>3. fwrules[k].index \in Index
  BY <1>2, RulesListed DEF FwRule
<1>4. PICK own \in [Index -> Uplink \cup {0}] : Owned(own)
  BY DEF OneOwner
<1> QED
  BY <1>1, <1>2, <1>3, <1>4 DEF Owned

LEMMA SteeredIs ==
  ASSUME SettleInv
  PROVE  SteeredIsTranslated
<1> SUFFICES ASSUME Quiet, NEW m \in marks, NEW u \in Leads(m.mark)
             PROVE  \E r \in npt : r.do = "snat" /\ r.up = u /\ r.subnet = m.subnet
  BY DEF SteeredIsTranslated
<1>1. npt = DesiredRules(Assignments) /\ marks = WantedMarks(Assignments)
  <2>1. batch = {} /\ MarksSettle /\ NptSettles
    BY DEF Quiet, SettleInv, Settling, Clear
  <2> QED
    BY <2>1 DEF MarksSettle, NptSettles
<1>2. PICK a \in Assignments : m = [mark |-> a.up, subnet |-> a.subnet]
  BY <1>1 DEF WantedMarks
<1>3. m.mark \in Uplink
  BY DEF SettleInv, PassInv, TypeOK, Mark
<1>4. u = m.mark
  BY <1>3, LedToItsOwn DEF SettleInv
<1>5. Snat(a) \in npt
  BY <1>1 DEF DesiredRules
<1>6. Snat(a).do = "snat" /\ Snat(a).up = a.up /\ Snat(a).subnet = a.subnet
  BY DEF Snat
<1> QED
  BY <1>2, <1>4, <1>5, <1>6

\* After such a pass a packet that is marked leaves by an uplink that translates its
\* subnet, whatever text is found in another's.
THEOREM SteeredAreTranslated == Spec => []SteeredIsTranslated
  BY SettleAlways, SteeredIs, PTL

-----------------------------------------------------------------------------
(* What a pass may not do on its way.                                       *)

\* In the middle of such a pass nothing happens but its commands.
LEMMA OnlyCommands ==
  ASSUME [Next]_vars, pc = "run", pc' = "run", ~failed', ~disturbed'
  PROVE  UNCHANGED vars \/ (Clear /\ \E c \in batch : Run(c) /\ (Refused(c) \/ Effect(c)))
<1>1. ~(Crash \/ ReadLinks \/ Plan \/ PassDone \/ Shutdown \/ CleanupDone \/ Beside)
  BY CrashStep, ReadStep, PlanStep, EndSteps DEF Beside
<1>2. ASSUME NEW c \in batch, Run(c)
      PROVE  Clear /\ (Refused(c) \/ Effect(c))
  BY <1>2, RunStep DEF Clear
<1> QED
  BY <1>1, <1>2, StepCases

LEMMA NoneDanglesNext ==
  ASSUME SettleInv, [Next]_vars, pc = "run", pc' = "run", ~failed', ~disturbed'
  PROVE  Dangling' \subseteq Dangling
<1> USE DEF SettleInv, PassInv
<1>1. ASSUME Clear, NEW c \in batch, Run(c), NEW r \in Dangling'
      PROVE  r \in Dangling
  <2>1. GatewaysSettle /\ TablesSettle /\ RulesSettle
    BY <1>1 DEF Settling
  <2>2. r \in Rules' /\ tables'[r.index] = <<>>
    BY <1>1 DEF Dangling
  <2>3. \A d \in batch : Rank[c.do] <= Rank[d.do]
    BY <1>1, RunStep
  <2>4. c.do = "table" => c.route # <<>>
    BY <2>1, NotRefused
  <2>5. CASE r \in Rules
    <3>1. r.index \in Index
      BY <2>5, RulesListed DEF FwRule
    <3>2. CASE tables'[r.index] = tables[r.index]
      BY <2>2, <2>5, <3>2 DEF Dangling
    <3>3. CASE c.do = "flush" /\ c.index = r.index
      <4>1. \A d \in batch : d.do # "del_prio"
        BY <2>3, <3>3, InOrder
      <4>2. r.index \in WantedTables(gateways)
        BY <2>1, <2>5, <4>1, NothingUnwanted DEF Pointed
      <4> QED
        BY <2>1, <3>3, <4>2 DEF TablesSettle
    <3> QED
      BY <1>1, <2>2, <2>4, <3>1, <3>2, <3>3, RunTables
  <2>6. CASE c.do = "add_rule" /\ r = c.rule
    <3>1. r.index \in WantedTables(gateways)
      BY <2>1, <2>6 DEF RulesSettle
    <3>2. \A d \in batch : d.do # "table"
      BY <2>3, <2>6, InOrder
    <3>3. r.index \in Index /\ tables[r.index] # <<>>
      BY <2>1, <3>1, <3>2 DEF TablesSettle, Pending, WantedTables
    <3>4. tables'[r.index] = tables[r.index]
      BY <1>1, <2>6, <3>3, RunTables
    <3> QED
      BY <2>2, <3>3, <3>4
  <2> QED
    BY <1>1, <2>2, <2>5, <2>6, RunAdds
<1>2. CASE UNCHANGED vars
  BY <1>2, NoStep DEF Dangling, Rules
<1> QED
  BY <1>1, <1>2, OnlyCommands

\* No command of such a pass leaves a rule at an empty table: tables are filled before
\* rules point at them, and emptied after no rule does.
THEOREM NoneDangles == Spec => NoRuleIsLeftDangling
<1>1. SettleInv /\ [Next]_vars =>
        [pc = "run" /\ pc' = "run" /\ ~failed' /\ ~disturbed' => Dangling' \subseteq Dangling]_vars
  BY NoneDanglesNext
<1> QED
  BY <1>1, SettleAlways, PTL DEF Spec, NoRuleIsLeftDangling

LEMMA HostsStayNext ==
  ASSUME SettleInv, [Next]_vars, pc = "run", pc' = "run", ~failed', ~disturbed', learn' = learn
  PROVE  learned \subseteq learned'
<1>1. ASSUME Clear, NEW c \in batch, Run(c), Refused(c) \/ Effect(c)
      PROVE  learned' = learned
  <2>1. CASE c.do = "learn"
    <3>1. Effect(c)
      BY <1>1, <2>1 DEF Refused
    <3>2. learn' = c.watch
      BY <2>1, <3>1 DEF Effect
    <3>3. c.watch = LearnRules /\ learn # LearnRules
      BY <1>1, <2>1 DEF SettleInv, Settling, LearnSettles
    <3> QED
      BY <3>2, <3>3
  <2>2. CASE c.do # "learn"
    BY <1>1, <2>2, RunStep DEF Effect
  <2> QED
    BY <2>1, <2>2
<1>2. CASE UNCHANGED vars
  BY <1>2, NoStep
<1> QED
  BY <1>1, <1>2, OnlyCommands

\* Such a pass throws away what was learned of hosts only if it has something else to
\* watch: it writes the learning table only then.
THEOREM HostsStay == Spec => HostsAreKept
<1>1. SettleInv /\ [Next]_vars =>
        [pc = "run" /\ pc' = "run" /\ ~failed' /\ ~disturbed' /\ learn' = learn => learned \subseteq learned']_vars
  BY HostsStayNext
<1> QED
  BY <1>1, SettleAlways, PTL DEF Spec, HostsAreKept

-----------------------------------------------------------------------------
(* What is left behind.                                                     *)

\* As long as nothing failed, and the process was never started again, every rule that
\* is there marks for an uplink that is still steered.
SteeredOnly ==
  faults = 0 =>
    /\ \A r \in Rules : r.mark \in conf.steers
    /\ \A c \in batch : c.do = "add_rule" => c.rule.mark \in conf.steers

\* The last turn has taken back what is ours, or is yet to: the rules at the interfaces
\* it knows, and the three nft tables.
TakenBack ==
  /\ npt = {} \/ \E c \in batch : c.do = "npt"
  /\ marks = {} \/ \E c \in batch : c.do = "del_marks"
  /\ learn = {} \/ \E c \in batch : c.do = "learn"
  /\ \A r \in Rules : r.index = ifaces[r.mark] => \E c \in batch : c.do = "del_rule" /\ c.rule = r
  /\ \A c \in batch : (c.do = "npt" => c.rules = {}) /\ (c.do = "learn" => c.watch = {})

Leaving == faults = 0 /\ pc \in {"cleanup", "done"} => TakenBack

\* The count of faults only grows.
LEMMA FaultsGrow ==
  ASSUME TypeOK
  PROVE  /\ faults + 1 # 0 /\ faults + 1 # faults
         /\ Crash => faults' # 0
         /\ ReadLinks => faults' = faults \/ faults' # 0
         /\ \A c \in batch : Run(c) =>
              \/ ~Refused(c) /\ Effect(c) /\ faults' = faults
              \/ Refused(c) /\ UNCHANGED <<npt, marks, tables, fwrules, learn, learned, faults>>
              \/ faults' # 0 /\ faults' # faults
<1>1. faults \in Nat
  BY SteeringAssumption DEF TypeOK
<1>2. faults + 1 # 0 /\ faults + 1 # faults
  BY <1>1
<1>3. Crash => faults' # 0
  BY <1>2, CrashStep
<1>4. ReadLinks => faults' = faults \/ faults' # 0
  BY <1>2, ReadStep
<1>5. ASSUME NEW c \in batch, Run(c)
      PROVE  \/ ~Refused(c) /\ Effect(c) /\ faults' = faults
             \/ Refused(c) /\ UNCHANGED <<npt, marks, tables, fwrules, learn, learned, faults>>
             \/ faults' # 0 /\ faults' # faults
  <2>1. faults' = faults + 1 => faults' # 0 /\ faults' # faults
    BY <1>2
  <2> QED
    BY <1>5, <2>1, RunStep, Zenon
<1> QED
  BY <1>2, <1>3, <1>4, <1>5

LEMMA SteeredOnlyNext ==
  ASSUME PassInv, SteeredOnly, [Next]_vars
  PROVE  SteeredOnly'
<1> USE DEF PassInv
<1> SUFFICES ASSUME faults' = 0
             PROVE  /\ \A r \in Rules' : r.mark \in conf'.steers
                    /\ \A c \in batch' : c.do = "add_rule" => c.rule.mark \in conf'.steers
  BY DEF SteeredOnly
<1>1. CASE Plan
  <2>1. PICK unreadable : batch' = Planned(unreadable) /\ (faults' = faults \/ faults' = faults + 1)
    BY <1>1, PlanStep
  <2>2. \A c \in batch' : c.do = "add_rule" => c.rule.mark \in conf.steers
    BY <2>1, PlannedFacts, WantedRuleFacts DEF PlannedAs
  <2>3. faults = 0 /\ Rules' = Rules /\ conf' = conf
    BY <1>1, <2>1, FaultsGrow, PlanStep DEF Rules
  <2> QED
    BY <2>2, <2>3 DEF SteeredOnly
<1>2. CASE \E c \in batch : Run(c)
  <2>1. PICK c \in batch : Run(c)
    BY <1>2
  <2>2. faults = 0 /\ batch' \subseteq batch /\ conf' = conf
    <3>1. faults = 0
      BY <2>1, FaultsGrow
    <3> QED
      BY <2>1, <3>1, RunStep
  <2>3. \A r \in Rules' : r \in Rules \/ (c.do = "add_rule" /\ r = c.rule)
    BY <2>1, RunAdds
  <2> QED
    BY <2>2, <2>3 DEF SteeredOnly
<1>3. CASE Crash
  BY <1>3, FaultsGrow
<1>4. CASE ReadLinks
  <2>1. faults = 0 /\ batch' = {} /\ Rules' = Rules /\ conf' = conf
    BY <1>4, FaultsGrow, ReadStep DEF Waiting, Rules
  <2> QED
    BY <2>1 DEF SteeredOnly
<1>5. CASE Shutdown
  <2>1. \A c \in CleanupActions : c.do # "add_rule"
    BY DEF CleanupActions
  <2>2. faults = 0 /\ batch' = CleanupActions /\ Rules' = Rules /\ conf' = conf
    BY <1>5, EndSteps DEF Rules
  <2> QED
    BY <2>1, <2>2 DEF SteeredOnly
<1>6. CASE PassDone \/ CleanupDone \/ Beside \/ UNCHANGED vars
  <2>1. UNCHANGED <<fwrules, faults, batch, conf>>
    BY <1>6, EndSteps, NoStep DEF Beside
  <2> QED
    BY <2>1 DEF SteeredOnly, Rules
<1> QED
  BY <1>1, <1>2, <1>3, <1>4, <1>5, <1>6, StepCases

\* A deletion of one rule in particular deletes it.
LEMMA ThatRuleGoes ==
  ASSUME PassInv, NEW c \in batch, Run(c), c.do = "del_rule", faults' = faults
  PROVE  c.rule \notin Rules'
<1> USE DEF PassInv
<1>1. Meant(c) = {r \in Rules : r = c.rule}
  BY DEF Meant
<1>2. CASE Refused(c)
  <2>1. c.rule \notin Rules
    BY <1>1, <1>2 DEF Refused
  <2> QED
    BY <2>1, RunAdds
<1>3. CASE ~Refused(c)
  <2>1. Meant(c) \in SUBSET Rules /\ Meant(c) # {}
    BY <1>1, <1>3 DEF Refused
  <2>2. fwrules' = WithoutFirst(Meant(c))
    BY <1>3, FaultsGrow DEF Effect
  <2> QED
    BY <1>1, <2>1, <2>2, OrderedDeletion
<1> QED
  BY <1>2, <1>3

LEMMA TakingBack ==
  ASSUME PassInv, TakenBack, pc = "cleanup", NEW c \in batch, Run(c), faults' = faults
  PROVE  TakenBack'
<1> USE DEF PassInv
<1>1. batch' = batch \ {c} /\ ifaces' = ifaces /\ c.do \in {"del_rule", "del_marks", "npt", "learn"}
  BY RunStep DEF Waiting
<1>2. (Refused(c) /\ UNCHANGED <<npt, marks, learn>>) \/ Effect(c)
  BY FaultsGrow
<1>3. npt' = {} \/ \E d \in batch' : d.do = "npt"
  <2>1. c.do = "npt" => npt' = {}
    BY <1>2 DEF Effect, Refused, TakenBack
  <2>2. c.do # "npt" => npt' = npt
    BY <1>2 DEF Effect
  <2> QED
    BY <1>1, <2>1, <2>2 DEF TakenBack
<1>4. marks' = {} \/ \E d \in batch' : d.do = "del_marks"
  <2>1. c.do = "del_marks" => marks' = {}
    BY <1>2 DEF Effect, Refused
  <2>2. c.do # "del_marks" => marks' = marks
    BY <1>1, <1>2 DEF Effect
  <2> QED
    BY <1>1, <2>1, <2>2 DEF TakenBack
<1>5. learn' = {} \/ \E d \in batch' : d.do = "learn"
  <2>1. c.do = "learn" => learn' = {}
    BY <1>2 DEF Effect, Refused, TakenBack
  <2>2. c.do # "learn" => learn' = learn
    BY <1>2 DEF Effect
  <2> QED
    BY <1>1, <2>1, <2>2 DEF TakenBack
<1>6. ASSUME NEW r \in Rules', r.index = ifaces[r.mark]
      PROVE  \E d \in batch' : d.do = "del_rule" /\ d.rule = r
  <2>1. r \in Rules
    BY <1>1, RunAdds
  <2>2. PICK d \in batch : d.do = "del_rule" /\ d.rule = r
    BY <1>6, <2>1 DEF TakenBack
  <2>3. d # c
    BY <1>6, <2>2, ThatRuleGoes
  <2> QED
    BY <1>1, <2>2, <2>3
<1>7. \A d \in batch' : (d.do = "npt" => d.rules = {}) /\ (d.do = "learn" => d.watch = {})
  BY <1>1 DEF TakenBack
<1> QED
  BY <1>1, <1>3, <1>4, <1>5, <1>6, <1>7 DEF TakenBack

LEMMA LastTurn ==
  ASSUME PassInv, SteeredOnly, faults = 0, Shutdown
  PROVE  TakenBack'
<1> USE DEF PassInv
<1>1. Rules' = Rules /\ batch' = CleanupActions /\ ifaces' = ifaces
  BY EndSteps DEF Rules
<1>2. /\ [do |-> "del_marks"] \in batch' /\ [do |-> "npt", rules |-> {}] \in batch'
      /\ [do |-> "learn", watch |-> {}] \in batch'
  BY <1>1 DEF CleanupActions
<1>3. (\E c \in batch' : c.do = "npt") /\ (\E c \in batch' : c.do = "del_marks") /\ (\E c \in batch' : c.do = "learn")
  BY <1>2
<1>4. ASSUME NEW r \in Rules, r.index = ifaces[r.mark]
      PROVE  \E c \in batch' : c.do = "del_rule" /\ c.rule = r
  <2>1. r = [mark |-> r.mark, index |-> r.index] /\ r.index \in Index
    BY RulesListed DEF FwRule
  <2>2. r.mark \in conf.steers /\ Usable(r.index) /\ ifaces[r.mark] # Gone
    BY <1>4, <2>1 DEF SteeredOnly, Latest, Index, Gone
  <2>3. [do |-> "del_rule", rule |-> [mark |-> r.mark, index |-> ifaces[r.mark]]] \in CleanupActions
    BY <1>4, <2>2 DEF CleanupActions
  <2> QED
    BY <1>1, <1>4, <2>1, <2>3
<1>5. \A c \in batch' : (c.do = "npt" => c.rules = {}) /\ (c.do = "learn" => c.watch = {})
  BY <1>1 DEF CleanupActions
<1> QED
  BY <1>1, <1>3, <1>4, <1>5 DEF TakenBack

LEMMA LeavingNext ==
  ASSUME PassInv, SteeredOnly, Leaving, [Next]_vars
  PROVE  Leaving'
<1> USE DEF PassInv
<1> SUFFICES ASSUME faults' = 0, pc' \in {"cleanup", "done"}
             PROVE  TakenBack'
  BY DEF Leaving
<1>1. ~(Crash \/ ReadLinks \/ Plan \/ PassDone)
  BY CrashStep, ReadStep, PlanStep, EndSteps
<1>2. CASE \E c \in batch : Run(c)
  <2>1. PICK c \in batch : Run(c)
    BY <1>2
  <2>2. faults = 0 /\ faults' = faults /\ pc' = pc /\ pc = "cleanup"
    <3>1. faults = 0 /\ faults' = faults
      BY <2>1, FaultsGrow
    <3> QED
      BY <2>1, <3>1, RunStep
  <2> QED
    BY <2>1, <2>2, TakingBack DEF Leaving
<1>3. CASE Shutdown
  BY <1>3, LastTurn, EndSteps
<1>4. CASE CleanupDone \/ UNCHANGED vars
  <2>1. /\ UNCHANGED <<npt, marks, learn, fwrules, ifaces, batch, faults>>
        /\ pc \in {"cleanup", "done"}
    BY <1>4, EndSteps, NoStep
  <2> QED
    BY <2>1 DEF Leaving, TakenBack, Rules
<1>5. CASE Beside
  <2>1. TakenBack /\ Rules' = Rules
    BY <1>5 DEF Beside, Leaving, Rules
  <2> QED
    BY <1>5, <2>1 DEF Beside, TakenBack
<1> QED
  BY <1>1, <1>2, <1>3, <1>4, <1>5, StepCases

LEMMA NothingIsLeft ==
  ASSUME PassInv, Leaving
  PROVE  CleanExit
<1> USE DEF PassInv
<1> SUFFICES ASSUME pc = "done", faults = 0
             PROVE  /\ npt = {} /\ marks = {} /\ learn = {}
                    /\ \A u \in Gated : index[u] = ifaces[u] => index[u] \notin Pointed
  BY DEF CleanExit
<1>1. batch = {} /\ TakenBack
  BY DEF Waiting, Leaving
<1>2. ASSUME NEW u \in Gated, index[u] = ifaces[u], NEW r \in Rules, r.index = index[u]
      PROVE  FALSE
  <2>1. r.index \in Index /\ r.index # Gone /\ u \in Uplink
    BY RulesListed, SteeringAssumption DEF FwRule, Index, Gone
  <2>2. PICK own \in [Index -> Uplink \cup {0}] : Owned(own)
    BY DEF OneOwner
  <2>3. r.mark = u
    BY <1>2, <2>1, <2>2 DEF Owned
  <2> QED
    BY <1>1, <1>2, <2>3 DEF TakenBack
<1> QED
  BY <1>1, <1>2 DEF TakenBack, Pointed

\* A process that nothing failed in, and that is told to stop, leaves no table of ours
\* and no rule at an interface its last pass knew, whatever others did meanwhile.
THEOREM LeavesNothing == Spec => []CleanExit
<1>1. Init => PassInv /\ SteeredOnly /\ Leaving
  <2>1. Init => pc = "idle" /\ batch = {} /\ Rules = {}
    BY DEF Init, Rules
  <2> QED
    BY <2>1, PassInit DEF SteeredOnly, Leaving
<1>2. PassInv /\ SteeredOnly /\ Leaving /\ [Next]_vars => (PassInv /\ SteeredOnly /\ Leaving)'
  BY PassNext, SteeredOnlyNext, LeavingNext
<1>3. PassInv /\ Leaving => CleanExit
  BY NothingIsLeft
<1> QED
  BY <1>1, <1>2, <1>3, PTL DEF Spec

=============================================================================
