------------------------------ MODULE Steering ------------------------------
(***************************************************************************)
(* The reconcile pass over IPv6: which subnets each uplink translates, and *)
(* the port rules that steer only what is translated.                      *)
(*                                                                         *)
(* Source: internal/nptv6 (assign.go, rules.go), internal/nft,             *)
(* internal/ndp/learn.go, internal/reconcile (desired.go, differ.go,       *)
(* absorb.go, firewall.go, nptv6.go), internal/firewall, internal/route.   *)
(*                                                                         *)
(* A forwarded packet that a port rule pins to an uplink passes four       *)
(* places a pass keeps in repair, each by commands of its own: the table   *)
(* of marks, the rules "fwmark lookup", the routing table of the uplink    *)
(* and the translation table, which also drops what must not leave         *)
(* untranslated.  A fifth, the learning table, notes who sends.            *)
(*                                                                         *)
(* A prefix is a number, its /64; a delegation of 2^k of them has that     *)
(* size, and size 0 if it is longer than a /64.  What a read finds to be   *)
(* leased is an input, see Leases; so are verdicts, see Health.  Ports and *)
(* protocols of a rule, the name of a table, and the ECMP route, which is  *)
(* Routing's, are left out.                                                *)
(***************************************************************************)
EXTENDS Integers, Sequences, FiniteSets

CONSTANTS
  Uplink,      \* the uplinks that translate, numbered: the number is the mark
  Gated,       \* those that are gateways: they have a mark, and health gates them
  Weighted,    \* gateways with a weight above zero
  Subnet,      \* the internal /64s
  Priority,    \* Priority[u]: subnet_priority
  Lease,       \* Lease[u]: the delegations u may hold
  Hop,         \* next hops, in the order of their keys; IPv4 is a default route of IPv4
  Within,      \* <<h, k>>: the text "via h" is found in the text "via k"
  TableOffset, \* table of an interface = TableOffset + its index
  Configs,     \* what may be configured, at each start
  MaxHosts,    \* proxy_ndp_max_hosts
  MaxIndex,    \* bound: interface indexes the kernel gives out
  ChangeKinds, \* what may change: "link", "route", "lease", "health", "host", "wipe"
  MaxChanges,  \* bound: changes of the surroundings
  FaultKinds,  \* what may fail: "links", "routes", "npt", "marks", "rules", "tables",
               \* "learn", "hosts" (reads), "command", "crash"
  MaxFaults,   \* bound: how often something fails
  Stops        \* whether the process may be told to stop

Index  == 1..MaxIndex
Gone   == 0
IPv4   == 0
Unheld == [prefix |-> 0, size |-> 0]

\* What an operator decides: the uplinks port rules pin IPv6 to, those that proxy
\* NDP, those open to inbound connections, and leak_protection.
Config == [steers: SUBSET Gated, learns: SUBSET Uplink, inbound: SUBSET Uplink, leak: BOOLEAN]

Delegation == [prefix: Nat, size: Nat]

ASSUME SteeringAssumption ==
  /\ Uplink \subseteq Nat \ {0} /\ IsFiniteSet(Uplink) /\ Gated \subseteq Uplink
  /\ Weighted \subseteq Gated
  /\ IsFiniteSet(Subnet)
  /\ Priority \in [Uplink -> Seq(Subnet)]
  /\ Lease \in [Uplink -> SUBSET Delegation] /\ \A u \in Uplink : Unheld \in Lease[u]
  /\ Hop \subseteq Nat /\ \E n \in Hop \cup {0} : Hop \subseteq 0..n
  /\ Within \subseteq Hop \X Hop /\ \A h \in Hop : <<h, h>> \in Within
  /\ Configs \subseteq Config
  /\ {TableOffset, MaxHosts, MaxIndex, MaxChanges, MaxFaults} \subseteq Nat
  /\ Cardinality(Uplink) <= MaxIndex
  /\ ChangeKinds \subseteq {"link", "route", "lease", "health", "host", "wipe"}
  /\ FaultKinds \subseteq {"links", "routes", "npt", "marks", "rules", "tables", "learn",
                      "hosts", "command", "crash"}
  /\ Stops \in BOOLEAN

\* nptv6.Resolve refuses a subnet_priority that names a subnet twice.
ASSUME PriorityAssumption ==
  \A u \in Uplink : \A j, k \in DOMAIN Priority[u] : Priority[u][j] = Priority[u][k] => j = k

VARIABLES
  index,      \* kernel: index[u], the index of u's interface, or Gone
  used,       \* kernel: indexes given out so far
  routes,     \* kernel: default routes by way of gateways, as <<uplink, hop>>
  lease,      \* kernel: the delegation a read finds to be u's, or Unheld
  npt,        \* kernel: the rules of the translation table, {} without it
  marks,      \* kernel: the marks of the mangle table, {} without it
  tables,     \* kernel: tables[i], the default route of the table of i, or <<>>
  fwrules,    \* kernel: the rules "fwmark lookup", in the order they were added
  learn,      \* kernel: the rules of the learning table, {} without it
  learned,    \* kernel: the set of the learning table, as <<subnet, uplink>>
  changes,    \* changes of the surroundings so far
  faults,     \* faults so far
  pc,         \* where the reconciler's loop is
  conf,       \* the configuration
  ifaces,     \* State.Links.Ifaces
  stale,      \* State.Links.Stale
  gateways,   \* State.Routes.Gateways
  unhealthy,  \* State.Health.Unhealthy of IPv6
  hosts,      \* State.Learn.Hosts
  batch,      \* commands not run yet
  failed,     \* history: a read or command of this pass failed
  disturbed   \* history: the kernel was changed by others since this pass began

links  == <<index, used, routes, lease>>
ours   == <<npt, marks, tables, fwrules, learn, learned>>
counts == <<changes, faults>>
memory == <<conf, ifaces, stale, gateways, unhealthy, hosts>>
vars   == <<links, ours, counts, pc, memory, batch, failed, disturbed>>

Route   == Gated \X Hop
Gateway == [up: Gated, hop: Hop, index: Index]
Mapping == [up: Uplink, subnet: Subnet, external: Nat]
Mark    == [mark: Uplink, subnet: Subnet]
FwRule  == [mark: Uplink, index: Index]
Host    == Subnet \X Uplink

\* What a line of the translation table does: to what, at which uplink.
NptRule == [do: {"snat", "dnat", "closed"}, up: Uplink, subnet: Subnet, external: Nat]
             \cup [do: {"guard"}, up: Uplink]

Command ==
  [do: {"del_prio"}, mark: Uplink, index: Index] \cup [do: {"add_rule", "del_rule"}, rule: FwRule]
    \cup [do: {"flush"}, index: Index] \cup [do: {"table"}, index: Index, route: Route]
    \cup [do: {"del_marks"}] \cup [do: {"marks"}, marks: SUBSET Mark]
    \cup [do: {"npt"}, rules: SUBSET NptRule] \cup [do: {"learn"}, watch: SUBSET Host]

TypeOK ==
  /\ index \in [Uplink -> Index \cup {Gone}] /\ used \in 0..MaxIndex
  /\ routes \subseteq Route
  /\ lease \in [Uplink -> Delegation]
  /\ npt \subseteq NptRule /\ marks \subseteq Mark
  /\ tables \in [Index -> Route \cup {<<>>}]
  /\ fwrules \in Seq(FwRule)
  /\ learn \subseteq Host /\ learned \subseteq Host
  /\ changes \in 0..MaxChanges /\ faults \in 0..MaxFaults
  /\ pc \in {"idle", "read", "run", "cleanup", "done"}
  /\ conf \in Configs
  /\ ifaces \in [Uplink -> Index \cup {Gone}] /\ stale \in BOOLEAN
  /\ gateways \subseteq Gateway /\ unhealthy \subseteq Uplink /\ hosts \subseteq Host
  /\ batch \subseteq Command
  /\ failed \in BOOLEAN /\ disturbed \in BOOLEAN

\* Nothing of ours is in the kernel, and nothing is known of it.
Init ==
  /\ used = Cardinality(Uplink)
  /\ index = [u \in Uplink |-> Cardinality({w \in Uplink : w <= u})]
  /\ routes \in SUBSET Route
  /\ lease \in {f \in [Uplink -> UNION {Lease[u] : u \in Uplink}] : \A u \in Uplink : f[u] \in Lease[u]}
  /\ npt = {} /\ marks = {} /\ tables = [i \in Index |-> <<>>] /\ fwrules = <<>>
  /\ learn = {} /\ learned = {}
  /\ changes = 0 /\ faults = 0
  /\ pc = "idle" /\ conf \in Configs
  /\ ifaces = [u \in Uplink |-> Gone] /\ stale = FALSE
  /\ gateways = {} /\ unhealthy = {} /\ hosts = {} /\ batch = {}
  /\ failed = FALSE /\ disturbed = FALSE

-----------------------------------------------------------------------------
(* The surroundings.                                                        *)

Change(kind) ==
  /\ kind \in ChangeKinds
  /\ changes < MaxChanges
  /\ changes' = changes + 1
  /\ disturbed' = TRUE

Fault(kind) ==
  /\ kind \in FaultKinds
  /\ faults < MaxFaults
  /\ faults' = faults + 1

\* An interface goes, and with it every route through it.  Rules stay.
LinkGone(u) ==
  /\ Change("link")
  /\ index[u] # Gone
  /\ index' = [index EXCEPT ![u] = Gone]
  /\ routes' = {r \in routes : r[1] # u}
  /\ tables' = [i \in Index |-> IF tables[i] # <<>> /\ tables[i][1] = u THEN <<>> ELSE tables[i]]
  /\ UNCHANGED <<used, lease, npt, marks, fwrules, learn, learned, faults, pc, memory, batch, failed>>

\* It comes back under another index, with default routes.
LinkBack(u) ==
  /\ Change("link")
  /\ index[u] = Gone /\ used < MaxIndex
  /\ used' = used + 1
  /\ index' = [index EXCEPT ![u] = used + 1]
  /\ routes' = IF u \in Gated THEN routes \cup ({u} \X Hop) ELSE routes
  /\ UNCHANGED <<lease, ours, faults, pc, memory, batch, failed>>

RouteChanges(u) ==
  /\ Change("route")
  /\ u \in Gated /\ index[u] # Gone
  /\ \E h \in Hop : routes' = IF <<u, h>> \in routes THEN routes \ {<<u, h>>}
                                                     ELSE routes \cup {<<u, h>>}
  /\ UNCHANGED <<index, used, lease, ours, faults, pc, memory, batch, failed>>

\* A delegation comes, goes, or is replaced by one of another size.
LeaseChanges(u) ==
  /\ Change("lease")
  /\ \E l \in Lease[u] \ {lease[u]} : lease' = [lease EXCEPT ![u] = l]
  /\ UNCHANGED <<index, used, routes, ours, faults, pc, memory, batch, failed>>

\* A verdict on an uplink that is probed over IPv6 is folded.
HealthTurns(u) ==
  /\ Change("health")
  /\ pc = "idle"
  /\ \E g \in gateways : g.up = u /\ g.hop # IPv4
  /\ unhealthy' = IF u \in unhealthy THEN unhealthy \ {u} ELSE unhealthy \cup {u}
  /\ UNCHANGED <<links, ours, faults, pc, conf, ifaces, stale, gateways, hosts, batch, failed>>

\* A host of a subnet sends by an uplink, and is learned if there is a rule and
\* room; one that has been silent for long ages out.
HostChanges ==
  /\ Change("host")
  /\ \/ \E h \in learn \ learned : Cardinality(learned) < MaxHosts /\ learned' = learned \cup {h}
     \/ \E h \in learned : learned' = learned \ {h}
  /\ UNCHANGED <<links, npt, marks, tables, fwrules, learn, faults, pc, memory, batch, failed>>

\* Another program loads a ruleset of its own, which begins with "flush ruleset".
OthersWipe ==
  /\ Change("wipe")
  /\ npt' = {} /\ marks' = {} /\ learn' = {} /\ learned' = {}
  /\ UNCHANGED <<links, tables, fwrules, faults, pc, memory, batch, failed>>

\* The process dies and is started again, perhaps configured otherwise; what it
\* installed stays.
Crash ==
  /\ pc # "done"
  /\ Fault("crash")
  /\ pc' = "idle"
  /\ conf' \in Configs
  /\ ifaces' = [u \in Uplink |-> Gone] /\ stale' = FALSE
  /\ gateways' = {} /\ unhealthy' = {} /\ hosts' = {} /\ batch' = {}
  /\ failed' = TRUE
  /\ UNCHANGED <<links, ours, changes, disturbed>>

-----------------------------------------------------------------------------
(* What is read, and what is wanted.                                        *)

\* absorbGatewayFamily: the default routes on known interfaces of weighted gateways.
\* Both families' routes are read; what could not be read stays as it was.
Gateways(unreadable) ==
  IF unreadable = "routes" THEN gateways
  ELSE {[up |-> r[1], hop |-> r[2], index |-> ifaces[r[1]]] :
          r \in {x \in routes : x[1] \in Weighted /\ ifaces[x[1]] # Gone}}

\* What the uplink's monitor probes: of its IPv6 gateways the first.
Target(G, u) ==
  LET T == {g \in G : g.up = u /\ g.hop # IPv4} IN {g \in T : \A h \in T : g.hop <= h.hop}

\* syncMonitors forgets what it held of a target that is no longer probed.
StillProbed(G) == {u \in Uplink : Target(G, u) # {} /\ Target(G, u) = Target(gateways, u)}

\* uplinkActive: an uplink that is no gateway always is, a gateway while it is not
\* held unhealthy and has a default route, of either family.
Active(G, down) ==
  {u \in Uplink : u \in Gated => u \notin down /\ \E g \in G : g.up = u}

Table(i)  == TableOffset + i
Usable(i) == Table(i) \in 1..252

Slots(l) == l.size

\* The first /64 of a delegation: the bits beyond its length are cleared.
Base(l) == IF l.size = 0 THEN l.prefix ELSE l.prefix - (l.prefix % l.size)

\* A bug: the host bits of a delegation are kept.
AssignUnmasked(u, l) ==
  {[up |-> u, subnet |-> Priority[u][k], external |-> l.prefix + k - 1] :
     k \in {j \in DOMAIN Priority[u] : j <= Slots(l)}}

\* The subnets of an uplink get the delegation's /64s in their order, while there are any.
Assign(u, l) ==
  {[up |-> u, subnet |-> Priority[u][k], external |-> Base(l) + k - 1] :
     k \in {j \in DOMAIN Priority[u] : j <= Slots(l)}}

\* assignmentsFor: every active uplink with a lease.
Assigned(up) == UNION {Assign(u, lease[u]) : u \in {w \in up : lease[w] # Unheld}}

Translating(A) == {a.up : a \in A}

\* Uplinks without any mapping are guarded.
Guards(A) == IF conf.leak THEN Uplink \ Translating(A) ELSE {}

Snat(a)     == [do |-> "snat", up |-> a.up, subnet |-> a.subnet, external |-> a.external]
Inbound(a)  == [Snat(a) EXCEPT !.do = IF a.up \in conf.inbound THEN "dnat" ELSE "closed"]
Guard(u)    == [do |-> "guard", up |-> u]

\* A bug: as long as something is translated, nothing is guarded.
GuardedIfIdle(A) ==
  {Snat(a) : a \in A} \cup {Inbound(a) : a \in A}
    \cup {Guard(u) : u \in IF A = {} THEN Guards(A) ELSE {}}

\* DesiredRules, and the ruleset with them: a source rule for each mapping, and what
\* is done with connections from outside.
DesiredRules(A) ==
  {Snat(a) : a \in A} \cup {Inbound(a) : a \in A} \cup {Guard(u) : u \in Guards(A)}

\* desiredIPv6Marks: tables of steered uplinks with an IPv6 gateway.
WantedTables(G) ==
  {i \in Index : Usable(i) /\ \E g \in G : g.index = i /\ g.hop # IPv4 /\ g.up \in conf.steers}

\* Of several gateways on an interface, the one whose key is last.
WantedRoute(G, i) ==
  LET on == {g \in G : g.index = i /\ g.hop # IPv4}
      g  == CHOOSE x \in on : \A y \in on : y.hop <= x.hop
  IN  <<g.up, g.hop>>

\* A mark rule for a steered uplink whose table is built.
WantedRules(G) ==
  {[mark |-> u, index |-> ifaces[u]] : u \in {w \in conf.steers : ifaces[w] \in WantedTables(G)}}

\* A bug: an uplink steers all its subnets.
SteerAll(A) == {[mark |-> u, subnet |-> s] : u \in conf.steers, s \in Subnet}

\* A bug: the mark of a rule is the index of the interface.
MarksByIndex(A) ==
  {[mark |-> ifaces[a.up], subnet |-> a.subnet] : a \in {x \in A : x.up \in conf.steers}}

\* DesiredMarkRules6: a rule steers the subnets its uplink translates.
WantedMarks(A) ==
  {[mark |-> a.up, subnet |-> a.subnet] : a \in {x \in A : x.up \in conf.steers}}

\* DesiredLearnRules.
LearnRules ==
  {h \in Host : h[2] \in conf.learns /\ \E k \in DOMAIN Priority[h[2]] : Priority[h[2]][k] = h[1]}

-----------------------------------------------------------------------------
(* The difference, as commands.                                             *)

\* A table that cannot be listed passes for absent.
Listed(table, unreadable) == IF unreadable THEN {} ELSE table

\* A bug: a table with as many rules passes for the same.
OutOfSyncBySize(want, table, unreadable) ==
  Cardinality(want) # Cardinality(Listed(table, unreadable))

\* A table is rewritten if it is not what is wanted; one that is not there, or
\* cannot be listed, only if something is wanted.
OutOfSync(want, table, unreadable) ==
  LET got == Listed(table, unreadable) IN IF got = {} THEN want # {} ELSE got # want

Rules == {fwrules[k] : k \in DOMAIN fwrules}

\* InstalledFwmarks: the interfaces that mark rules point at, each by the first of
\* them; rules are listed by priority, which is their mark's.
Pointed   == {r.index : r \in Rules}
MarkOf(i) == LET M == {r.mark : r \in {x \in Rules : x.index = i}}
             IN  CHOOSE m \in M : \A n \in M : m <= n

StaleTables(G, unreadable) ==
  IF stale \/ unreadable = "rules" THEN {} ELSE Pointed \ WantedTables(G)

\* A bug: the table is flushed and its rule left.
FlushOnly(i) == {[do |-> "flush", index |-> i]}

\* The rule goes by its priority: the first of that priority.
Teardown(i) == {[do |-> "del_prio", mark |-> MarkOf(i), index |-> i], [do |-> "flush", index |-> i]}

\* A table is read if its uplink has the interface now.  It is looked for the text
\* "default via" with the next hop, whatever comes after it.
TableNeedsRestore(G, i, unreadable) ==
  \/ unreadable = "tables"
  \/ \A u \in conf.steers : ifaces[u] # i
  \/ tables[i] = <<>>
  \/ <<WantedRoute(G, i)[2], tables[i][2]>> \notin Within

\* The text of a begins that of b, in the base tables and in the base marks are shown in.
Begins(a, b)    == \E d \in {1, 10, 100} : b \div d = a
BeginsHex(a, b) == \E d \in {1, 16, 256} : b \div d = a

\* selects: of the rules that are listed, one has both texts in it.
Selects(r) == \E q \in Rules : BeginsHex(r.mark, q.mark) /\ Begins(Table(r.index), Table(q.index))

RulesNeedRestore(G, unreadable) ==
  /\ WantedRules(G) # {}
  /\ unreadable = "rules" \/ \E r \in WantedRules(G) : ~Selects(r)

TableActions(G, unreadable) ==
  {[do |-> "table", index |-> i, route |-> WantedRoute(G, i)] :
     i \in {j \in WantedTables(G) : TableNeedsRestore(G, j, unreadable)}}

RuleActions(G, unreadable) ==
  IF RulesNeedRestore(G, unreadable)
  THEN {[do |-> "add_rule", rule |-> r] : r \in WantedRules(G)} ELSE {}

\* The mark table is deleted, and written anew if there is something to mark.
MarkActions(A, unreadable) ==
  IF ~OutOfSync(WantedMarks(A), marks, unreadable = "marks") THEN {}
  ELSE {[do |-> "del_marks"]}
         \cup (IF WantedMarks(A) = {} THEN {} ELSE {[do |-> "marks", marks |-> WantedMarks(A)]})

\* One transaction, which deletes the table if there is nothing to translate or guard.
NptActions(A, unreadable) ==
  IF ~OutOfSync(DesiredRules(A), npt, unreadable = "npt") THEN {}
  ELSE {[do |-> "npt", rules |-> DesiredRules(A)]}

\* A bug: the learning table is written by every pass.
LearnAlways(unreadable) == IF LearnRules = {} THEN {} ELSE {[do |-> "learn", watch |-> LearnRules]}

LearnActions(unreadable) ==
  IF ~OutOfSync(LearnRules, learn, unreadable = "learn") THEN {}
  ELSE {[do |-> "learn", watch |-> LearnRules]}

\* A bug: marks are stamped, and rules added, before their table is there.
RuleFirst == [del_prio |-> 1, flush |-> 2, del_rule |-> 3, del_marks |-> 4, marks |-> 5,
              add_rule |-> 6, table |-> 7, npt |-> 8, learn |-> 9]

\* RunAll sorts the commands by Order; those of the last turn are a phase apart.
Rank == [del_prio |-> 1, flush |-> 2, del_rule |-> 3, del_marks |-> 4, marks |-> 5,
         table |-> 6, add_rule |-> 7, npt |-> 8, learn |-> IF pc = "cleanup" THEN 9 ELSE 8]

Due(c) == c \in batch /\ \A d \in batch : Rank[c.do] <= Rank[d.do]

\* The rules that a deletion means: those of a priority, or one rule in particular.
Meant(c) == {r \in Rules : IF c.do = "del_prio" THEN r.mark = c.mark ELSE r = c.rule}

\* The list without the first of some rules.
WithoutFirst(R) ==
  LET k == CHOOSE j \in DOMAIN fwrules :
             fwrules[j] \in R /\ \A i \in 1..(j - 1) : fwrules[i] \notin R
  IN  SubSeq(fwrules, 1, k - 1) \o SubSeq(fwrules, k + 1, Len(fwrules))

\* The kernel refuses a route through an interface that is not there, a rule it has,
\* and to delete what is not there.
Refused(c) ==
  \/ c.do = "table" /\ index[c.route[1]] = Gone
  \/ c.do = "add_rule" /\ c.rule \in Rules
  \/ c.do \in {"del_rule", "del_prio"} /\ Meant(c) = {}

\* What a command does, if it is not refused.
Effect(c) ==
  /\ npt' = IF c.do = "npt" THEN c.rules ELSE npt
  /\ marks' = IF c.do = "marks" THEN c.marks ELSE IF c.do = "del_marks" THEN {} ELSE marks
  /\ tables' = CASE c.do = "table" -> [tables EXCEPT ![c.index] = c.route]
                 [] c.do = "flush" -> [tables EXCEPT ![c.index] = <<>>]
                 [] OTHER -> tables
  /\ fwrules' = CASE c.do = "add_rule" -> Append(fwrules, c.rule)
                  [] c.do \in {"del_rule", "del_prio"} -> WithoutFirst(Meant(c))
                  [] OTHER -> fwrules
  /\ learn' = IF c.do = "learn" THEN c.watch ELSE learn
  /\ learned' = IF c.do = "learn" THEN {} ELSE learned

-----------------------------------------------------------------------------
(* The reconciler.                                                          *)

\* A pass begins: the interfaces are read.
ReadLinks ==
  /\ pc = "idle"
  /\ pc' = "read"
  /\ disturbed' = FALSE
  /\ \/ /\ ifaces' = [u \in Uplink |-> IF u \in Gated THEN index[u] ELSE Gone]
        /\ stale' = FALSE /\ failed' = FALSE
        /\ UNCHANGED faults
     \/ /\ Fault("links")
        /\ stale' = TRUE /\ failed' = TRUE
        /\ UNCHANGED ifaces
  /\ UNCHANGED <<links, ours, changes, conf, gateways, unhealthy, hosts, batch>>

\* The rest is read, of which one answer may be missing, and compared with what is
\* wanted: the commands that make up the difference are the batch.
Plan ==
  /\ pc = "read"
  /\ pc' = "run"
  /\ \E unreadable \in {"", "routes", "npt", "marks", "rules", "tables", "learn", "hosts"} :
       LET G    == Gateways(unreadable)
           down == unhealthy \cap StillProbed(G)
           A    == Assigned(Active(G, down))
       IN  /\ IF unreadable = "" THEN UNCHANGED <<faults, failed>>
              ELSE Fault(unreadable) /\ failed' = TRUE
           /\ gateways' = G
           /\ unhealthy' = down
           /\ hosts' = IF conf.learns = {} \/ unreadable = "hosts" \/ learn = {} THEN hosts ELSE learned
           /\ batch' = (UNION {Teardown(i) : i \in StaleTables(G, unreadable)})
                         \cup TableActions(G, unreadable) \cup RuleActions(G, unreadable)
                         \cup MarkActions(A, unreadable)
                         \cup NptActions(A, unreadable) \cup LearnActions(unreadable)
  /\ UNCHANGED <<links, ours, changes, conf, ifaces, stale, disturbed>>

\* A command is run once: one that fails is left to the next pass.
Run(c) ==
  /\ pc \in {"run", "cleanup"}
  /\ Due(c)
  /\ batch' = batch \ {c}
  /\ \/ ~Refused(c) /\ Effect(c) /\ UNCHANGED <<faults, failed>>
     \/ Refused(c) /\ UNCHANGED <<ours, faults, failed>>
     \/ Fault("command") /\ failed' = TRUE /\ UNCHANGED ours
  /\ UNCHANGED <<links, changes, pc, memory, disturbed>>

PassDone ==
  /\ pc = "run" /\ batch = {}
  /\ pc' = "idle"
  /\ UNCHANGED <<links, ours, counts, memory, batch, failed, disturbed>>

\* A bug: only the nft tables are taken back.
CleanupOfTables == {[do |-> "del_marks"], [do |-> "npt", rules |-> {}], [do |-> "learn", watch |-> {}]}

\* What the last turn takes back: the mark rules of the steered interfaces it knows,
\* and the three nft tables.
CleanupActions ==
  {[do |-> "del_rule", rule |-> [mark |-> u, index |-> ifaces[u]]] :
     u \in {w \in conf.steers : ifaces[w] # Gone /\ Usable(ifaces[w])}}
    \cup {[do |-> "del_marks"], [do |-> "npt", rules |-> {}], [do |-> "learn", watch |-> {}]}

Shutdown ==
  /\ Stops
  /\ pc = "idle"
  /\ pc' = "cleanup"
  /\ batch' = CleanupActions
  /\ failed' = FALSE /\ disturbed' = FALSE
  /\ UNCHANGED <<links, ours, counts, memory>>

CleanupDone ==
  /\ pc = "cleanup" /\ batch = {}
  /\ pc' = "done"
  /\ UNCHANGED <<links, ours, counts, memory, batch, failed, disturbed>>

Surroundings ==
  \/ Crash \/ HostChanges \/ OthersWipe
  \/ \E u \in Uplink :
       LinkGone(u) \/ LinkBack(u) \/ RouteChanges(u) \/ LeaseChanges(u) \/ HealthTurns(u)

Reconciler ==
  ReadLinks \/ Plan \/ (\E c \in batch : Run(c)) \/ PassDone \/ Shutdown \/ CleanupDone

Next == Surroundings \/ Reconciler

Spec == Init /\ [][Next]_vars

\* A pass is started at least by every tick, and goes on to its end.
Fairness == WF_vars(Reconciler)

FairSpec == Spec /\ Fairness

-----------------------------------------------------------------------------
(* Properties.                                                              *)

\* A pass in which nothing failed, and the kernel was left alone by others, has
\* come to its end.
Quiet == pc = "run" /\ batch = {} /\ ~failed /\ ~disturbed

Assignments == Assigned(Active(gateways, unhealthy))

\* No text that is looked for is found in another.
TextsApart ==
  /\ \A h, k \in Hop : <<h, k>> \in Within => h = k
  /\ \A i, j \in Index : Usable(i) /\ Usable(j) /\ Begins(Table(i), Table(j)) => i = j
  /\ \A u, w \in Uplink : BeginsHex(u, w) => u = w

\* After a quiet pass every table of ours is what the pass wanted, whatever it was
\* before: drift, half-done earlier passes and the leftovers of a crash under another
\* configuration included (README.md:363-366).
PassSettles ==
  Quiet =>
    /\ npt = DesiredRules(Assignments)
    /\ marks = WantedMarks(Assignments)
    /\ learn = LearnRules
    /\ \A i \in WantedTables(gateways) : tables[i] = WantedRoute(gateways, i)
    /\ WantedRules(gateways) \subseteq Rules
    /\ Pointed \subseteq WantedTables(gateways)

\* Where a mark leads: the first rule of it whose table is not empty.
Leads(m) ==
  LET K == {k \in DOMAIN fwrules : fwrules[k].mark = m /\ tables[fwrules[k].index] # <<>>}
  IN  {tables[fwrules[k].index][1] : k \in {x \in K : \A y \in K : x <= y}}

\* README.md:684-685: "a rule steers only the subnets its gateway is actually
\* translating".  After a quiet pass a packet that is marked is translated by the
\* uplink that its mark, the rules of it and their tables lead to.
SteeredIsTranslated ==
  Quiet => \A m \in marks : \A u \in Leads(m.mark) :
             \E r \in npt : r.do = "snat" /\ r.up = u /\ r.subnet = m.subnet

Covered(T) == \A u \in Uplink : Guard(u) \in T \/ \E r \in T : r.do = "snat" /\ r.up = u

\* Leak protection has no gap: once every uplink translates or is guarded, no command
\* of a pass, be it refused or fail, leaves one that does neither
\* (README.md:637-657, internal/nptv6/rules.go:36-48).
NeverUncovered ==
  [][(\E c \in batch : Run(c)) /\ pc = "run" /\ conf.leak /\ Covered(npt) => Covered(npt')]_vars

\* Whatever is installed, an uplink maps its subnets one to one, into a delegation it
\* may hold and never beyond it (internal/nptv6/assign.go:26-66).
ExternalsAreOwn ==
  LET snats == {r \in npt : r.do = "snat"} IN
  /\ \A r \in snats : \E l \in Lease[r.up] : r.external \in Base(l)..(Base(l) + l.size - 1)
  /\ \A r, q \in snats : r.up = q.up /\ r # q => r.external # q.external /\ r.subnet # q.subnet

Dangling == {r \in Rules : tables[r.index] = <<>>}

\* docs/architecture.md: "a routing table is filled before a rule points at it, and a
\* teardown runs that order backwards".
NoRuleIsLeftDangling ==
  [][pc = "run" /\ pc' = "run" /\ ~failed' /\ ~disturbed' => Dangling' \subseteq Dangling]_vars

\* What has been learned of hosts is not thrown away by a pass in which nothing
\* failed, as long as the same subnets and uplinks are watched (ndp/learn.go:122-131).
HostsAreKept ==
  [][pc = "run" /\ pc' = "run" /\ ~failed' /\ ~disturbed' /\ learn' = learn
       => learned \subseteq learned']_vars

\* README.md:388-390: shutdown leaves "the system in a clean state": no nft table of
\* ours, and no rule at the table of an interface that is as the last pass found it.
CleanExit ==
  pc = "done" /\ faults = 0 =>
    /\ npt = {} /\ marks = {} /\ learn = {}
    /\ \A u \in Gated : index[u] = ifaces[u] => index[u] \notin Pointed

\* What the kernel should come to be like.
Converged ==
  LET G == {[up |-> r[1], hop |-> r[2], index |-> index[r[1]]] :
              r \in {x \in routes : x[1] \in Weighted}}
      A == Assigned(Active(G, unhealthy))
  IN  /\ npt = DesiredRules(A) /\ marks = WantedMarks(A) /\ learn = LearnRules
      /\ \A i \in WantedTables(G) : tables[i] = WantedRoute(G, i)
      /\ \A u \in conf.steers :
           index[u] \in WantedTables(G) => [mark |-> u, index |-> index[u]] \in Rules
      /\ Pointed \subseteq WantedTables(G)

\* Once the surroundings are left alone and nothing fails any more, what is
\* translated, guarded and steered comes to be as leases, verdicts and routes ask,
\* and stays so, although tables were wiped, commands and reads failed, and passes
\* were overtaken by changes or cut short by a crash.
Converges == <>[](Converged \/ pc \in {"cleanup", "done"})
=============================================================================
