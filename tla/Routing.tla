------------------------------ MODULE Routing ------------------------------
(***************************************************************************)
(* The reconcile pass over IPv4 routing: what the reconciler reads of the  *)
(* kernel, what it wants, the commands that make up the difference, and    *)
(* what the kernel is like afterwards.                                     *)
(*                                                                         *)
(* Source: internal/reconcile (absorb.go, desired.go, differ.go,           *)
(* routing.go, firewall.go), internal/route, internal/command.             *)
(*                                                                         *)
(* Four things are kept in repair: the ECMP default route over the active  *)
(* gateways; for each interface with a gateway and an address a table with *)
(* a default route through it, and a rule that sends what comes from that  *)
(* address there; for each uplink with port rules a rule that sends marked *)
(* traffic to its table.  There is no ledger: a pass reads the interfaces, *)
(* then routes, rules and tables, and decides from what it has read.  The  *)
(* kernel may change between the two reads and between the commands, any   *)
(* read and any command may fail, and the process may crash.               *)
(*                                                                         *)
(* Numbers stand for texts where the code compares texts: an address is    *)
(* its last octet, and one text begins another as its decimal form does.   *)
(* The events that start a pass, and the verdicts that make an uplink      *)
(* unhealthy, are in Health.  Weights, which the configuration fixes, and  *)
(* the subnet route of a table are left out.                               *)
(***************************************************************************)
EXTENDS Integers, FiniteSets

CONSTANTS
  Uplink,      \* the configured gateways, numbered: the number is the mark
  Steered,     \* those that port rules send traffic to
  Manageable,  \* what ipv4_ecmp may be set to, at each start
  Orders,      \* orders in which the interfaces may have appeared, as their first indexes
  Pool,        \* Pool[u]: the addresses u's interface may be given
  Via,         \* Via[u]: the next hops of u's routes; Direct is a route without one
  TableOffset, \* table of an interface = TableOffset + its index
  MaxIndex,    \* bound: interface indexes the kernel gives out
  ChangeKinds, \* what may change: "link", "address", "route", "health"
  MaxChanges,  \* bound: changes of the surroundings
  FaultKinds,  \* what may fail: "links", "routes", "own", "abandoned", "rules", "tables"
               \* (reads), "command", "crash"
  MaxFaults,   \* bound: how often something fails
  Stops        \* whether the process may be told to stop

Index  == 1..MaxIndex
NoAddr == 0
Direct == 0
Gone   == 0

ASSUME RoutingAssumption ==
  /\ Uplink \subseteq Nat \ {0} /\ IsFiniteSet(Uplink)
  /\ Steered \subseteq Uplink
  /\ Manageable \subseteq BOOLEAN /\ Stops \in BOOLEAN
  /\ Orders \subseteq [Uplink -> 1..Cardinality(Uplink)]
  /\ \A f \in Orders : \A u, w \in Uplink : u # w => f[u] # f[w]
  /\ Pool \in [Uplink -> SUBSET (1..255)]
  /\ Via \in [Uplink -> SUBSET (0..255)]
  /\ Cardinality(Uplink) <= MaxIndex
  /\ TableOffset \in Nat /\ MaxIndex \in Nat /\ MaxChanges \in Nat /\ MaxFaults \in Nat
  /\ ChangeKinds \subseteq {"link", "address", "route", "health"}
  /\ FaultKinds \subseteq {"links", "routes", "own", "abandoned", "rules", "tables",
                      "command", "crash"}

VARIABLES
  index,      \* kernel: index[u], the index of u's interface, or Gone
  addr,       \* kernel: addr[u], its primary address, or NoAddr
  routes,     \* kernel: default routes of others, as <<uplink, next hop>>
  tables,     \* kernel: the default route of each interface's table
  rules,      \* kernel: the rules "from address lookup table"
  marks,      \* kernel: the rules "fwmark mark lookup table"
  ecmp,       \* kernel: the next hops of our ECMP route, {} without it
  used,       \* kernel: indexes given out so far
  changes,    \* changes of the surroundings so far
  faults,     \* faults so far
  pc,         \* where the reconciler's loop is
  managed,    \* configuration: ipv4_ecmp
  ifaces,     \* State.Links.Ifaces
  addrs,      \* State.Links.Addrs, by index
  stale,      \* State.Links.Stale
  gateways,   \* State.Routes.Gateways
  unhealthy,  \* State.Health.Unhealthy
  batch,      \* commands not run yet
  failed,     \* history: a read or command of this pass failed
  disturbed,  \* history: the kernel was changed by others since this pass began
  moved       \* history: indexes of interfaces whose address has been replaced

links    == <<index, addr, routes, used, moved>>
ours     == <<tables, rules, marks, ecmp>>
memory   == <<managed, ifaces, addrs, stale, gateways, unhealthy>>
vars     == <<links, ours, changes, faults, pc, memory, batch, failed, disturbed>>

NoTable == [dev |-> 0, via |-> Direct, src |-> NoAddr]
Hop     == UNION {Via[u] : u \in Uplink}
Gateway == [up: Uplink, via: Hop, index: Index]
Nexthop == Uplink \X Hop

Address == UNION {Pool[u] : u \in Uplink}
Content == [dev: Uplink, via: Hop, src: Address] \cup {NoTable}

\* A command: what it does, to which uplink's, to which table, with what.
Command == [do: {"del_ecmp", "del_rule", "flush", "table", "rule", "mark", "ecmp", "del_mark"},
            up: Uplink \cup {0}, index: Index \cup {Gone}, via: Hop \cup {Direct},
            src: Address \cup {NoAddr}, hops: SUBSET Nexthop, add: BOOLEAN]

TypeOK ==
  /\ index \in [Uplink -> Index \cup {Gone}] /\ addr \in [Uplink -> Address \cup {NoAddr}]
  /\ routes \subseteq Nexthop
  /\ tables \in [Index -> Content]
  /\ rules \subseteq [from: Address, index: Index]
  /\ marks \subseteq [up: Uplink, index: Index]
  /\ ecmp \subseteq Nexthop
  /\ used \in 0..MaxIndex /\ changes \in 0..MaxChanges /\ faults \in 0..MaxFaults
  /\ pc \in {"idle", "read", "run", "cleanup", "done"}
  /\ ifaces \in [Uplink -> Index \cup {Gone}]
  /\ addrs \in [Index -> Address \cup {NoAddr}]
  /\ managed \in BOOLEAN /\ stale \in BOOLEAN
  /\ gateways \subseteq Gateway
  /\ unhealthy \subseteq Uplink
  /\ batch \subseteq Command
  /\ {failed, disturbed} \subseteq BOOLEAN /\ moved \subseteq Index

\* Nothing is known of the kernel.
InitMemory ==
  /\ ifaces = [u \in Uplink |-> Gone]
  /\ addrs = [i \in Index |-> NoAddr]
  /\ stale = FALSE
  /\ gateways = {}
  /\ unhealthy = {}
  /\ batch = {}

\* Nothing of ours is in the kernel.
Init ==
  /\ used = Cardinality(Uplink)
  /\ index \in Orders
  /\ addr \in {f \in [Uplink -> Address] : \A u \in Uplink : f[u] \in Pool[u]}
  /\ routes \in SUBSET {n \in Nexthop : n[2] \in Via[n[1]]}
  /\ tables = [i \in Index |-> NoTable]
  /\ rules = {} /\ marks = {} /\ ecmp = {}
  /\ managed \in Manageable
  /\ changes = 0 /\ faults = 0
  /\ pc = "idle"
  /\ InitMemory
  /\ failed = FALSE /\ disturbed = FALSE /\ moved = {}

-----------------------------------------------------------------------------
(* The surroundings.                                                        *)

Change(kind) ==
  /\ kind \in ChangeKinds
  /\ changes < MaxChanges
  /\ changes' = changes + 1

Fault(kind) ==
  /\ kind \in FaultKinds
  /\ faults < MaxFaults
  /\ faults' = faults + 1

\* An interface goes, and with it every route through it: a multipath route
\* goes as a whole.  Rules stay.
LinkGone(u) ==
  /\ Change("link")
  /\ index[u] # Gone
  /\ index' = [index EXCEPT ![u] = Gone]
  /\ addr' = [addr EXCEPT ![u] = NoAddr]
  /\ routes' = {n \in routes : n[1] # u}
  /\ tables' = [i \in Index |-> IF tables[i].dev = u THEN NoTable ELSE tables[i]]
  /\ ecmp' = IF \E n \in ecmp : n[1] = u THEN {} ELSE ecmp
  /\ disturbed' = TRUE
  /\ UNCHANGED <<rules, marks, used, moved, faults, pc, memory, batch, failed>>

\* It comes back under another index, addressed and with a default route.
LinkBack(u) ==
  /\ Change("link")
  /\ index[u] = Gone
  /\ used < MaxIndex
  /\ used' = used + 1
  /\ index' = [index EXCEPT ![u] = used + 1]
  /\ \E a \in Pool[u], v \in Via[u] :
       /\ addr' = [addr EXCEPT ![u] = a]
       /\ routes' = routes \cup {<<u, v>>}
  /\ disturbed' = TRUE
  /\ UNCHANGED <<ours, moved, faults, pc, memory, batch, failed>>

\* Routes whose source is an address go with the last interface that has it.
AddressChanges(u) ==
  /\ Change("address")
  /\ index[u] # Gone
  /\ \E a \in Pool[u] \cup {NoAddr} : a # addr[u] /\ addr' = [addr EXCEPT ![u] = a]
  /\ tables' = [i \in Index |-> IF tables[i].src \in {addr'[w] : w \in Uplink}
                                THEN tables[i] ELSE NoTable]
  /\ disturbed' = TRUE /\ moved' = moved \cup {index[u]}
  /\ UNCHANGED <<index, routes, used, rules, marks, ecmp, faults, pc, memory, batch, failed>>

\* The default routes of an uplink come and go.
RouteChanges(u) ==
  /\ Change("route")
  /\ index[u] # Gone
  /\ \E V \in SUBSET Via[u] :
       LET others == {n \in routes : n[1] # u} IN
       /\ routes' = others \cup {<<u, v>> : v \in V}
       /\ routes' # routes
  /\ disturbed' = TRUE
  /\ UNCHANGED <<index, addr, used, moved, ours, faults, pc, memory, batch, failed>>

\* A verdict on an uplink with a gateway reaches the reconciler.
HealthTurns(u) ==
  /\ Change("health")
  /\ pc = "idle"
  /\ \E g \in gateways : g.up = u
  /\ unhealthy' = IF u \in unhealthy THEN unhealthy \ {u} ELSE unhealthy \cup {u}
  /\ UNCHANGED <<links, ours, faults, pc, managed, ifaces, addrs, stale, gateways, batch, failed, disturbed>>

\* The process dies and is started again, perhaps configured otherwise; what it
\* installed stays.
Crash ==
  /\ pc # "done"
  /\ Fault("crash")
  /\ pc' = "idle"
  /\ managed' \in Manageable
  /\ ifaces' = [u \in Uplink |-> Gone] /\ addrs' = [i \in Index |-> NoAddr]
  /\ stale' = FALSE /\ gateways' = {} /\ unhealthy' = {} /\ batch' = {}
  /\ failed' = TRUE
  /\ UNCHANGED <<links, ours, changes, disturbed>>

-----------------------------------------------------------------------------
(* What is read, and what is wanted.                                        *)

\* The text of a begins the text of b.
Begins(a, b) == \E d \in {1, 10, 100} : b \div d = a

\* The same in the base fwmark rules are shown in.
BeginsHex(a, b) == \E d \in {1, 16, 256} : b \div d = a

Table(i)  == TableOffset + i
Usable(i) == Table(i) > 0 /\ Table(i) < 253

\* The tables that are the kernel's own: unspec, default, main and local.
KernelTables == {0, 253, 254, 255}

\* The default routes read less our own.  Ours is among them: if it cannot be
\* told apart its next hops pass for gateways.
Foreign(unreadable) == IF unreadable = "own" THEN routes \cup ecmp ELSE routes

\* A family is observed if its ECMP route is managed or port rules need it.
Observed == managed \/ Steered # {}

\* A bug: the route of an unknown interface makes a gateway.
GatewaysAnywhere(unreadable) ==
  {[up |-> n[1], via |-> n[2], index |-> ifaces[n[1]]] : n \in Foreign(unreadable)}

\* absorbGatewayFamily: gateways on the known interfaces; a failed read keeps
\* the ones there were.
Gateways(unreadable) ==
  IF ~Observed \/ unreadable = "routes" THEN gateways
  ELSE {[up |-> n[1], via |-> n[2], index |-> ifaces[n[1]]] :
           n \in {x \in Foreign(unreadable) : ifaces[x[1]] # Gone}}

\* Texts that begin another come before it, unless "@" follows: it is above the
\* digits.  Padded to three digits, texts compare as numbers.
Padded(v, digit) == IF v < 10 THEN 100 * v + 11 * digit ELSE IF v < 100 THEN 10 * v + digit ELSE v

TextFirst(v, w) == Padded(v, 0) < Padded(w, 0) \/ (Padded(v, 0) = Padded(w, 0) /\ v <= w)
KeyFirst(v, w)  == Padded(v, 9) < Padded(w, 9) \/ (Padded(v, 9) = Padded(w, 9) /\ v >= w)

\* preferTarget: a gateway with an address first, then the lower text.
Preferred(g, h) == IF h.via = Direct THEN TRUE ELSE g.via # Direct /\ TextFirst(g.via, h.via)

\* What the uplink's monitor probes.
Target(G, u) ==
  LET T == {g \in G : g.up = u} IN {g \in T : \A h \in T : Preferred(g, h)}

\* syncMonitors forgets what it held of a target that is no longer probed.
StillProbed(G) ==
  {u \in Uplink : Target(G, u) # {} /\ Target(G, u) = Target(gateways, u)}

\* desiredECMP: a next hop for each gateway that is not held unhealthy.
Active(G, down) == {<<g.up, g.via>> : g \in {x \in G : x.up \notin down}}

\* desiredTables: an interface with a gateway and an address, of its gateways
\* the one whose key is last: "v4:dev@1" is after every "v4:192.0.2.1@1".
WantedTables(G) ==
  {i \in Index : Usable(i) /\ addrs[i] # NoAddr /\ \E g \in G : g.index = i}

WantedTable(G, i) ==
  LET on == {g \in G : g.index = i}
      g  == CHOOSE x \in on : x.via = Direct \/ \A y \in on : y.via # Direct /\ KeyFirst(y.via, x.via)
  IN  [dev |-> g.up, via |-> g.via, src |-> addrs[i]]

\* desiredFwmarks: for each steered uplink that has an interface.
WantedMarks ==
  {[up |-> u, index |-> ifaces[u]] : u \in {x \in Steered : ifaces[x] # Gone /\ Usable(ifaces[x])}}

\* Rules.selects: a line whose text has the selector and the table in it.
SelectsFrom(a, i) == \E r \in rules : Begins(a, r.from) /\ Begins(Table(i), Table(r.index))
SelectsMark(u, i) == \E m \in marks : BeginsHex(u, m.up) /\ Begins(Table(i), Table(m.index))

\* The text of a table has the wanted default route in it.
Leads(content, want) ==
  IF want.via = Direct THEN content.via = Direct /\ content.dev = want.dev
  ELSE content.via # Direct /\ Begins(want.via, content.via)

\* A bug: a table is in order if its rule is.
RuleNeedsRestore(i, want, unreadable) == unreadable = "rules" \/ ~SelectsFrom(want.src, i)

TableNeedsRestore(i, want, unreadable) ==
  \/ unreadable \in {"rules", "tables"}
  \/ ~SelectsFrom(want.src, i)
  \/ ~Leads(tables[i], want)

MarksNeedRestore(unreadable) ==
  \/ unreadable = "rules"
  \/ \E m \in WantedMarks : ~SelectsMark(m.up, m.index)

\* InstalledTableIfIndexes: the tables our rules point at.
InstalledTables(unreadable) ==
  IF unreadable = "rules" THEN {} ELSE {r.index : r \in {x \in rules : Usable(x.index)}}

-----------------------------------------------------------------------------
(* The commands.                                                            *)

Cmd(do, u, i, v, a) ==
  [do |-> do, up |-> u, index |-> i, via |-> v, src |-> a, hops |-> {}, add |-> FALSE]

EcmpCmd(do, hops, add) ==
  [do |-> do, up |-> 0, index |-> Gone, via |-> Direct, src |-> NoAddr, hops |-> hops, add |-> add]

\* A bug: the rule is left.
FlushOnly(i, v) == {Cmd("flush", 0, i, v, NoAddr)}

\* A rule is deleted by its priority, which is its table's: one at a time.
Teardown(i, v) == {Cmd("del_rule", 0, i, v, NoAddr), Cmd("flush", 0, i, v, NoAddr)}

\* A bug: a table is taken for stale although the interfaces are unreadable.
StaleBlind(G, unreadable) == InstalledTables(unreadable) \ WantedTables(G)

\* Tables nobody wants, unless the interfaces could not be read.
StaleTables(G, unreadable) ==
  IF stale THEN {} ELSE InstalledTables(unreadable) \ WantedTables(G)

TableActions(i, want) ==
  {Cmd("table", want.dev, i, want.via, want.src), Cmd("rule", 0, i, Direct, want.src)}

MarkActions == {Cmd("mark", m.up, m.index, Direct, NoAddr) : m \in WantedMarks}

\* The ECMP route is added if none was read, else replaced, and kept if there
\* is no active gateway; one that is no longer managed is removed.
EcmpActions(active, unreadable) ==
  LET present == ecmp # {} /\ unreadable # (IF managed THEN "own" ELSE "abandoned") IN
  IF managed
  THEN IF active = {} \/ (present /\ active = ecmp) THEN {}
       ELSE {EcmpCmd("ecmp", active, ~present)}
  ELSE IF present THEN {EcmpCmd("del_ecmp", {}, FALSE)} ELSE {}

\* A bug: rules are installed before the tables they point at.
RuleFirst == [del_ecmp |-> 1, del_rule |-> 2, flush |-> 3, table |-> 5, rule |-> 4,
              mark |-> 6, ecmp |-> 7, del_mark |-> 8]

\* Commands run in this order, whichever resource planned them: RunAll sorts
\* them by Order.
Rank == [del_ecmp |-> 1, del_rule |-> 2, flush |-> 3, table |-> 4, rule |-> 5,
         mark |-> 6, ecmp |-> 7, del_mark |-> 8]

Due(c) == c \in batch /\ \A d \in batch : Rank[c.do] <= Rank[d.do]

\* What a command does, if it is not refused.
Effect(c) ==
  /\ \/ c.do = "table" /\ tables' = [tables EXCEPT ![c.index] =
                                       [dev |-> c.up, via |-> c.via, src |-> c.src]]
     \/ c.do = "flush" /\ tables' = [tables EXCEPT ![c.index] = NoTable]
     \/ c.do \notin {"table", "flush"} /\ UNCHANGED tables
  /\ \/ c.do = "rule" /\ rules' = rules \cup {[from |-> c.src, index |-> c.index]}
     \/ c.do = "del_rule" /\ \E r \in rules : r.index = c.index /\ rules' = rules \ {r}
     \/ c.do \notin {"rule", "del_rule"} /\ UNCHANGED rules
  /\ \/ c.do = "mark" /\ marks' = marks \cup {[up |-> c.up, index |-> c.index]}
     \/ c.do = "del_mark" /\ marks' = marks \ {[up |-> c.up, index |-> c.index]}
     \/ c.do \notin {"mark", "del_mark"} /\ UNCHANGED marks
  /\ \/ c.do = "ecmp" /\ ecmp' = c.hops
     \/ c.do = "del_ecmp" /\ ecmp' = {}
     \/ c.do \notin {"ecmp", "del_ecmp"} /\ UNCHANGED ecmp

\* The kernel refuses a route through an interface that is gone or from an
\* address it does not have, to add a route that is there, to delete what is not.
Refused(c) ==
  \/ c.do = "table" /\ (index[c.up] = Gone \/ \A u \in Uplink : addr[u] # c.src)
  \/ c.do = "ecmp" /\ (\E n \in c.hops : index[n[1]] = Gone)
  \/ c.do = "ecmp" /\ c.add /\ ecmp # {}
  \/ c.do = "del_rule" /\ (\A r \in rules : r.index # c.index)
  \/ c.do = "del_mark" /\ [up |-> c.up, index |-> c.index] \notin marks
  \/ c.do = "del_ecmp" /\ ecmp = {}

-----------------------------------------------------------------------------
(* The reconciler.                                                          *)

\* A pass begins: the interfaces are read.
ReadLinks ==
  /\ pc = "idle"
  /\ pc' = "read"
  /\ disturbed' = FALSE
  /\ \/ /\ ifaces' = index
        /\ addrs' = [i \in Index |-> IF \E u \in Uplink : index[u] = i
                                     THEN addr[CHOOSE u \in Uplink : index[u] = i] ELSE NoAddr]
        /\ stale' = FALSE
        /\ failed' = FALSE
        /\ UNCHANGED faults
     \/ /\ Fault("links")
        /\ stale' = TRUE
        /\ failed' = TRUE
        /\ UNCHANGED <<ifaces, addrs>>
  /\ UNCHANGED <<links, ours, changes, managed, gateways, unhealthy, batch>>

\* The rest is read, of which one answer may be missing, and compared with what
\* is wanted: the commands that make up the difference are the batch.
Plan ==
  /\ pc = "read"
  /\ pc' = "run"
  /\ \E unreadable \in {"", "routes", "own", "abandoned", "rules", "tables"} :
       LET G     == Gateways(unreadable)
           down  == unhealthy \cap StillProbed(G)
           stales == StaleTables(G, unreadable)
           wants == {i \in WantedTables(G) : TableNeedsRestore(i, WantedTable(G, i), unreadable)}
       IN  /\ IF unreadable = "" THEN UNCHANGED <<faults, failed>>
              ELSE Fault(unreadable) /\ failed' = TRUE
           /\ gateways' = G
           /\ unhealthy' = down
           /\ batch' = (UNION {Teardown(i, Direct) : i \in stales})
                         \cup (UNION {TableActions(i, WantedTable(G, i)) : i \in wants})
                         \cup (IF MarksNeedRestore(unreadable) THEN MarkActions ELSE {})
                         \cup EcmpActions(Active(G, down), unreadable)
  /\ UNCHANGED <<links, ours, changes, managed, ifaces, addrs, stale, disturbed>>

\* A command is run once: one that fails is left to the next pass.
Run(c) ==
  /\ pc \in {"run", "cleanup"}
  /\ Due(c)
  /\ batch' = batch \ {c}
  /\ \/ /\ ~Refused(c)
        /\ Effect(c)
        /\ UNCHANGED <<faults, failed>>
     \/ /\ Refused(c)
        /\ UNCHANGED <<ours, faults, failed>>
     \/ /\ Fault("command")
        /\ failed' = TRUE
        /\ UNCHANGED ours
  /\ UNCHANGED <<links, changes, pc, memory, disturbed>>

PassDone ==
  /\ pc = "run"
  /\ batch = {}
  /\ pc' = "idle"
  /\ UNCHANGED <<links, ours, changes, faults, memory, batch, failed, disturbed>>

\* The last turn takes back what the memory names: the ECMP route, the tables
\* of the gateways, the mark rules of the steered interfaces.
Shutdown ==
  /\ Stops
  /\ pc = "idle"
  /\ pc' = "cleanup"
  /\ batch' = (IF managed THEN {EcmpCmd("del_ecmp", {}, FALSE)} ELSE {})
                \cup (UNION {Teardown(g.index, g.via) : g \in {x \in gateways : Usable(x.index)}})
                \cup {Cmd("del_mark", m.up, m.index, Direct, NoAddr) : m \in WantedMarks}
  /\ failed' = FALSE
  /\ disturbed' = FALSE
  /\ UNCHANGED <<links, ours, changes, faults, memory>>

CleanupDone ==
  /\ pc = "cleanup"
  /\ batch = {}
  /\ pc' = "done"
  /\ UNCHANGED <<links, ours, changes, faults, memory, batch, failed, disturbed>>

Surroundings ==
  \/ Crash
  \/ \E u \in Uplink :
       LinkGone(u) \/ LinkBack(u) \/ AddressChanges(u) \/ RouteChanges(u) \/ HealthTurns(u)

Reconciler ==
  ReadLinks \/ Plan \/ (\E c \in batch : Run(c)) \/ PassDone \/ Shutdown \/ CleanupDone

Next == Surroundings \/ Reconciler

Spec == Init /\ [][Next]_vars

\* A pass is started at least by every tick, and goes on to its end.
Fairness == WF_vars(Reconciler)

FairSpec == Spec /\ Fairness

-----------------------------------------------------------------------------
(* Properties.                                                              *)

\* A pass in which nothing failed, and the kernel was left alone by others, has
\* come to its end.
Quiet == pc = "run" /\ batch = {} /\ ~failed /\ ~disturbed

\* No text that is looked for begins another, and no two interfaces share an address.
TextsApart ==
  /\ \A u, w \in Uplink : u # w => Pool[u] \cap Pool[w] = {}
  /\ \A a, b \in Address : Begins(a, b) => a = b
  /\ \A v, w \in Hop \ {Direct} : Begins(v, w) => v = w
  /\ \A i, j \in Index : Usable(i) /\ Usable(j) /\ Begins(Table(i), Table(j)) => i = j
  /\ \A u, w \in Uplink : BeginsHex(u, w) => u = w

\* After a quiet pass the kernel is as the pass wanted it, whatever it was like
\* before: drift, half-done earlier passes and leftovers of a crash included
\* (README.md: "whatever drifted ... is repaired"); and no rule of ours leads to a
\* table of the kernel's, however high an index is.
PassSettles ==
  Quiet =>
    /\ \A i \in WantedTables(gateways) :
         /\ tables[i] = WantedTable(gateways, i)
         /\ [from |-> addrs[i], index |-> i] \in rules
    /\ WantedMarks \subseteq marks
    /\ LET active == Active(gateways, unhealthy) IN
         IF managed THEN active # {} => ecmp = active ELSE ecmp = {}
    /\ \A r \in rules \cup marks : Table(r.index) \notin KernelTables

\* An interface in use: it has an address and a default route, and the
\* configuration asks for it to be looked at.
InUse(i) ==
  /\ Observed
  /\ Usable(i)
  /\ \E u \in Uplink : index[u] = i /\ addr[u] # NoAddr /\ \E n \in routes : n[1] = u

\* A pass plans to tear a table down only if its interface is not in use: not because
\* the interfaces were unreadable, nor because the process was restarted, nor both, as
\* long as what it reads after the interfaces can be read.
OnlyTheUnusedIsTornDown ==
  [][pc = "read" /\ pc' = "run" /\ ~disturbed /\ faults' = faults =>
       \A c \in batch' : c.do = "flush" => ~InUse(c.index)]_vars

Dangling == {r \in rules : tables[r.index] = NoTable}

\* docs/architecture.md: "a routing table is filled before a rule points at it,
\* and a teardown runs that order backwards": unless something failed or was
\* changed by others, no command of a pass leaves a rule at an empty table; but for
\* the rules of an interface whose address has been replaced, of which a teardown
\* deletes only one.
NoRuleIsLeftDangling ==
  [][pc = "run" /\ pc' = "run" /\ ~failed' /\ ~disturbed' =>
       \A r \in Dangling' \ Dangling : r.index \in moved]_vars

\* README.md: shutdown "removes all managed routes (proto 111), per-gateway
\* tables, ip rules ... leaving the system in a clean state": of the interfaces
\* that are as the last pass found them nothing stays, wherever the process was
\* and whatever gateways came and went, although the last turn reads nothing; but
\* the rules of one whose address has been replaced may, for one is deleted.
CleanExit ==
  pc = "done" /\ faults = 0 =>
    /\ ecmp = {}
    /\ \A u \in Uplink :
         index[u] # Gone /\ index[u] = ifaces[u] =>
           /\ tables[index[u]] = NoTable
           /\ \A m \in marks : m.index # index[u]
           /\ index[u] \notin moved => \A r \in rules : r.index # index[u]

\* What the kernel should come to be like: every interface in use has its table
\* and its rule, every steered uplink its mark rule, the ECMP route the gateways
\* that are not held unhealthy, and no rule points at the table of an interface
\* that is not in use.
Converged ==
  LET up == {<<n[1], n[2]>> : n \in {x \in routes : x[1] \notin unhealthy}} IN
  /\ \A u \in Uplink :
       InUse(index[u]) =>
         /\ [from |-> addr[u], index |-> index[u]] \in rules
         /\ <<u, tables[index[u]].via>> \in routes
         /\ tables[index[u]].dev = u /\ tables[index[u]].src = addr[u]
  /\ \A u \in Steered : index[u] # Gone /\ Usable(index[u]) => [up |-> u, index |-> index[u]] \in marks
  /\ IF managed THEN up # {} => ecmp = up ELSE ecmp = {}
  /\ \A r \in rules : InUse(r.index)

\* Once the surroundings are left alone and nothing fails any more, the kernel
\* comes to be as it should and stays so, although commands and reads failed,
\* and passes were overtaken by changes or cut short by a crash.
Converges == <>[](Converged \/ pc \in {"cleanup", "done"})

=============================================================================
