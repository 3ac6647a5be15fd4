------------------------------- MODULE Marks --------------------------------
(***************************************************************************)
(* The marks of port rules, for either backend: one iptables chain with a  *)
(* jump at each hook, or nftables tables, kept by one pass command by      *)
(* command; and the IPv6 marks, the translation and the learning table     *)
(* beside them, which the marks' tables are told from by name alone.       *)
(*                                                                         *)
(* Source: internal/firewall, internal/nft, internal/reconcile (differ.go, *)
(* firewall.go, nptv6.go), internal/command.                               *)
(*                                                                         *)
(* What makes a translation or learning rule is Steering's: here such a    *)
(* table has its rules or has not.  A program that starts has passed       *)
(* Settings.                                                               *)
(***************************************************************************)
EXTENDS Settings, SequencesExt

CONSTANTS
  Configs,      \* what may be configured, at each start
  Mappings,     \* what may be mapped: sequences of <<uplink, subnet>>
  ChangeKinds,  \* what may change: "mapped", "nft", "chain", "jump"
  MaxChanges,   \* bound: changes of the surroundings
  FaultKinds,   \* what may fail: "read", "command", "crash"
  MaxFaults,    \* bound: how often something fails
  MaxJumps,     \* bound: equal jumps at a hook
  Stops         \* whether the process may be told to stop

ASSUME MarksAssumption ==
  /\ {MaxChanges, MaxFaults, MaxJumps} \subseteq Nat /\ MaxJumps >= 2
  /\ ChangeKinds \subseteq {"mapped", "nft", "chain", "jump"}
  /\ FaultKinds \subseteq {"read", "command", "crash"}
  /\ Stops \in BOOLEAN
  /\ \A c \in Configs :
       /\ c = SetDefaults(c) /\ Accepted(c)
       /\ c.rules \in Seq(ToSet(c.rules)) /\ c.gateways \in Seq(ToSet(c.gateways))
       /\ NPTv6Table(c)[2] \in Nat
  /\ \A m \in Mappings : m \in Seq(ToSet(m))

VARIABLES
  conf,       \* the configuration
  mapped,     \* what uplinks translate
  table,      \* kernel: table[f, n], the nftables table n of family f
  chain,      \* kernel: the iptables chain of ours
  jumps,      \* kernel: how many jumps to it a hook has
  changes,    \* changes of the surroundings so far
  faults,     \* faults so far
  pc,         \* where the reconciler's loop is
  batch,      \* commands not run yet, in their order
  failed,     \* history: a read or command of this pass failed
  disturbed,  \* history: the kernel was changed by others since this pass began
  settled     \* history: a pass found nothing failed or changed, and nothing was since

kernel == <<table, chain, jumps>>
counts == <<changes, faults>>
vars   == <<conf, mapped, kernel, counts, pc, batch, failed, disturbed, settled>>

iptHooks       == <<"OUTPUT", "PREROUTING">>
legacyIptHooks == <<"FORWARD">>
Hooks          == ToSet(iptHooks) \cup ToSet(legacyIptHooks)

Name  == UNION {{c.table, NPTv6Table(c), NPTv6NdpTable(c)} : c \in Configs}
Place == {"ip", "inet", "ip6"} \X Name

\* The source of a rule that marks whoever sends.
AnySource == ""

PortsIn(c)   == {c.rules[k].ports : k \in DOMAIN c.rules}
SubnetsIn(m) == {m[k][2] : k \in DOMAIN m}

RuleOf(ports) == [proto: {"tcp", "udp"}, ports: ports, mark: Nat,
                  saddr: {AnySource} \cup UNION {SubnetsIn(m) : m \in Mappings}]

MarkRule == RuleOf(UNION {PortsIn(c) : c \in Configs})

\* nftables keeps the ports of a rule as a set; iptables keeps them as given.
Held(rules) == [k \in DOMAIN rules |-> [rules[k] EXCEPT !.ports = ToSet(@)]]

HeldRule == RuleOf({ToSet(p) : p \in UNION {PortsIn(c) : c \in Configs}})

\* A table has chains of marks, and may have the rules of translation or learning.
Table  == [there: BOOLEAN, output: Seq(HeldRule), prerouting: Seq(HeldRule),
           holds: SUBSET {"npt", "learn"}]
Bare(holds) == [there |-> TRUE, output |-> <<>>, prerouting |-> <<>>, holds |-> holds]
Absent == [there |-> FALSE, output |-> <<>>, prerouting |-> <<>>, holds |-> {}]

NoChain == [there |-> FALSE, rules |-> <<>>]

\* What a pass may run: on a table, on a jump, on the chain.
Command ==
  [do: {"delete", "npt", "learn", "forget"}, at: Place]
    \cup [do: {"write"}, at: Place, rules: Seq(MarkRule)]
    \cup [do: {"unhook", "hook"}, hook: Hooks]
    \cup [do: {"flush", "drop", "new"}] \cup [do: {"append"}, rule: MarkRule]

TypeOK ==
  /\ conf \in Configs /\ mapped \in Mappings
  /\ table \in [Place -> Table]
  /\ \A t \in Place : ~table[t].there => table[t] = Absent
  /\ chain \in [there: BOOLEAN, rules: Seq(MarkRule)]
  /\ jumps \in [Hooks -> 0..MaxJumps]
  /\ \A h \in Hooks : jumps[h] > 0 => chain.there
  /\ changes \in 0..MaxChanges /\ faults \in 0..MaxFaults
  /\ pc \in {"idle", "run", "cleanup", "done"} /\ batch \in Seq(Command)
  /\ {failed, disturbed, settled} \subseteq BOOLEAN

-----------------------------------------------------------------------------
(* What is wanted.                                                          *)

\* A bug: "both" is taken for a protocol.
ProtocolsAsGiven(r) == <<r.proto>>

ProtocolsFor(r) == IF r.proto \in {"tcp", "udp"} THEN <<r.proto>> ELSE <<"tcp", "udp">>

GatewayNames(c) == {c.gateways[k].name : k \in DOMAIN c.gateways}

\* The rules of a family in their order, for each source and protocol; a rule whose
\* gateway has no mark is skipped.
MarkRules(c, family, sources) ==
  LET Of(r) == IF Mark(c, r.gateway) = 0 THEN <<>>
               ELSE FlattenSeq([j \in DOMAIN sources[r.gateway] |->
                      [k \in DOMAIN ProtocolsFor(r) |->
                        [proto |-> ProtocolsFor(r)[k], ports |-> r.ports,
                         mark |-> Mark(c, r.gateway), saddr |-> sources[r.gateway][j]]]])
  IN  FlattenSeq([k \in DOMAIN c.rules |->
                    IF k \in PortRulesFor(c, family) THEN Of(c.rules[k]) ELSE <<>>])

DesiredMarkRules ==
  [c \in Configs |-> MarkRules(c, "ipv4", [g \in GatewayNames(c) |-> <<AnySource>>])]

\* An uplink's rules, for each subnet that it translates.
MappedBy(c, m) ==
  [g \in GatewayNames(c) |->
     FlattenSeq([k \in DOMAIN m |-> IF m[k][1] = g THEN <<m[k][2]>> ELSE <<>>])]

DesiredMarkRules6 ==
  [c \in Configs |-> [m \in Mappings |-> MarkRules(c, "ipv6", MappedBy(c, m))]]

\* What an earlier version has left behind: an inet table, or a jump from FORWARD.
Init ==
  /\ conf \in Configs /\ mapped \in Mappings
  /\ \E old \in BOOLEAN :
       /\ table = [t \in Place |-> IF old /\ t = <<"inet", conf.table>>
                                   THEN Bare({}) ELSE Absent]
       /\ chain = IF old THEN [there |-> TRUE, rules |-> DesiredMarkRules[conf]] ELSE NoChain
       /\ jumps = [h \in Hooks |-> IF old /\ h # "OUTPUT" THEN 1 ELSE 0]
  /\ changes = 0 /\ faults = 0
  /\ pc = "idle" /\ batch = <<>>
  /\ failed = FALSE /\ disturbed = FALSE /\ settled = FALSE

-----------------------------------------------------------------------------
(* The surroundings.                                                        *)

Change(kind) ==
  /\ kind \in ChangeKinds
  /\ changes < MaxChanges
  /\ changes' = changes + 1
  /\ disturbed' = TRUE /\ settled' = FALSE

\* Leases and verdicts turn, between passes.
MappedChanges ==
  /\ Change("mapped")
  /\ pc = "idle"
  /\ mapped' \in Mappings \ {mapped}
  /\ UNCHANGED <<conf, kernel, faults, pc, batch, failed>>

\* "flush ruleset"
NftWiped ==
  /\ Change("nft")
  /\ table' = [t \in Place |-> Absent]
  /\ UNCHANGED <<conf, mapped, chain, jumps, faults, pc, batch, failed>>

ChainFlushed ==
  /\ Change("chain")
  /\ chain' = [there |-> chain.there, rules |-> <<>>]
  /\ UNCHANGED <<conf, mapped, table, jumps, faults, pc, batch, failed>>

JumpRemoved(h) ==
  /\ Change("jump")
  /\ jumps[h] > 0
  /\ jumps' = [jumps EXCEPT ![h] = @ - 1]
  /\ UNCHANGED <<conf, mapped, table, chain, faults, pc, batch, failed>>

Fault(kind) ==
  /\ kind \in FaultKinds
  /\ faults < MaxFaults
  /\ faults' = faults + 1

\* The process dies and is started with what is configured by then.
Crash ==
  /\ pc # "done"
  /\ Fault("crash")
  /\ pc' = "idle" /\ batch' = <<>>
  /\ conf' \in Configs
  /\ failed' = TRUE /\ settled' = FALSE
  /\ UNCHANGED <<mapped, kernel, changes, disturbed>>

-----------------------------------------------------------------------------
(* internal/firewall: nftables.                                             *)

\* Families whose table of this name is ours; inet is an earlier version's.
Tables(family) == IF family = "ip" THEN <<"ip", "inet">> ELSE <<"ip6">>

\* What is read: a table that cannot be listed passes for absent.
Read(t, unreadable) == IF unreadable = t[1] THEN Absent ELSE table[t]

\* The ports of a rule are listed in their order, each once.
Ascending(ports) == \A j, k \in DOMAIN ports : j < k => ports[j] < ports[k]

\* sameMarkRules, of rules as they are listed and rules as they are configured: the
\* ports are compared as text.
ListedAs(held, want) ==
  held = Held(want) /\ \A k \in DOMAIN want : Ascending(want[k].ports)

InChains(family, T, want) ==
  ListedAs(T.prerouting, want) /\ (family = "ip" => ListedAs(T.output, want))

\* nftNeedsRestore: an earlier version's table is there, or a chain of ours is not
\* as wanted, in the order wanted.
NftNeedsRestore(family, want, unreadable) ==
  LET T == Read(<<family, conf.table>>, unreadable) IN
  \/ family = "ip" /\ Read(<<"inet", conf.table>>, unreadable).there
  \/ IF ~T.there THEN want # <<>> ELSE want = <<>> \/ ~InChains(family, T, want)

Delete(t) == [do |-> "delete", at |-> t]

\* A bug: an earlier version's table is looked for, and left.
CleanupOwnNft(family) == <<Delete(<<family, conf.table>>)>>

CleanupNft(family) == [k \in DOMAIN Tables(family) |-> Delete(<<Tables(family)[k], conf.table>>)]

\* The tables are deleted, and one is written if there is something to mark.
NftActions(family, want) ==
  CleanupNft(family)
    \o (IF want = <<>> THEN <<>>
        ELSE <<[do |-> "write", at |-> <<family, conf.table>>, rules |-> want]>>)

-----------------------------------------------------------------------------
(* internal/firewall: iptables.                                             *)

\* A bug: jumps are not looked at.
IptablesByChain(want, unreadable) ==
  LET there == chain.there /\ unreadable # "chain" IN
  IF ~there THEN want # <<>> ELSE want = <<>> \/ chain.rules # want

IptablesNeedsRestore(want, unreadable) ==
  LET there == chain.there /\ unreadable # "chain" IN
  IF ~there THEN want # <<>>
  ELSE \/ want = <<>> \/ chain.rules # want
       \/ \E h \in ToSet(iptHooks) : jumps[h] = 0 \/ unreadable = h

\* The chain is unhooked, emptied and deleted.
CleanupIptables ==
  [k \in 1..3 |-> [do |-> "unhook", hook |-> (iptHooks \o legacyIptHooks)[k]]]
    \o <<[do |-> "flush"], [do |-> "drop"]>>

\* And made anew, rule by rule, then hooked in.
IptablesActions(want) ==
  CleanupIptables
    \o (IF want = <<>> THEN <<>>
        ELSE <<[do |-> "new"]>>
               \o [k \in DOMAIN want |-> [do |-> "append", rule |-> want[k]]]
               \o [k \in DOMAIN iptHooks |-> [do |-> "hook", hook |-> iptHooks[k]]])

-----------------------------------------------------------------------------
(* internal/reconcile: the difference.                                      *)

\* mangleResource: the backend in use installs its marks ...
BackendActions(unreadable) ==
  LET want == DesiredMarkRules[conf] IN
  IF conf.firewall = "nftables"
  THEN IF NftNeedsRestore("ip", want, unreadable) THEN NftActions("ip", want) ELSE <<>>
  ELSE IF IptablesNeedsRestore(want, unreadable) THEN IptablesActions(want) ELSE <<>>

\* A bug: what the other backend has left is nobody's.
NotMine(unreadable) == <<>>

\* unusedMangleResource: ... and what the other one may have left goes.
UnusedActions(unreadable) ==
  IF conf.firewall = "nftables"
  THEN IF IptablesNeedsRestore(<<>>, unreadable) THEN CleanupIptables ELSE <<>>
  ELSE IF NftNeedsRestore("ip", <<>>, unreadable) THEN CleanupNft("ip") ELSE <<>>

\* mangle6Resource: IPv6 marks are nftables', whatever the backend.
Mangle6Actions(unreadable) ==
  LET want == DesiredMarkRules6[conf][mapped] IN
  IF NftNeedsRestore("ip6", want, unreadable) THEN NftActions("ip6", want) ELSE <<>>

\* nftResources: the translation and the learning table of NPTv6; one that learns
\* nothing deletes the table of that name.
NptActions(unreadable) ==
  LET npt   == <<"ip6", NPTv6Table(conf)>>
      learn == <<"ip6", NPTv6NdpTable(conf)>>
      Lacks(t, kind) == kind \notin Read(t, unreadable).holds
  IN  IF ~NPTv6Enabled(conf) THEN <<>>
      ELSE (IF Lacks(npt, "npt") THEN <<[do |-> "npt", at |-> npt]>> ELSE <<>>)
             \o (IF NdpUplinks(conf) # {}
                 THEN IF Lacks(learn, "learn") THEN <<[do |-> "learn", at |-> learn]>> ELSE <<>>
                 ELSE IF Read(learn, unreadable).there
                      THEN <<[do |-> "forget", at |-> learn]>> ELSE <<>>)

\* The turn of a command in a pass: teardowns, marks, other tables.
Order(c) ==
  CASE c.do \in {"delete", "unhook", "flush", "drop"} -> 1
    [] c.do \in {"write", "new", "append", "hook"} -> 2
    [] OTHER -> 3

Turn(acts, n) ==
  FlattenSeq([k \in DOMAIN acts |-> IF Order(acts[k]) = n THEN <<acts[k]>> ELSE <<>>])

\* RunAll sorts stably.
Ordered(acts) == Turn(acts, 1) \o Turn(acts, 2) \o Turn(acts, 3)

\* The kernel refuses to make what is there, to use what is not, and to delete a
\* chain that has rules or is jumped to.
Refused(c) ==
  CASE c.do \in {"delete", "forget"} -> ~table[c.at].there
    [] c.do = "unhook" -> jumps[c.hook] = 0
    [] c.do \in {"flush", "append", "hook"} -> ~chain.there
    [] c.do = "drop" -> ~chain.there \/ chain.rules # <<>> \/ \E h \in Hooks : jumps[h] > 0
    [] c.do = "new" -> chain.there
    [] OTHER -> FALSE

\* What is left in the way of the next command: a chain that could not be deleted.
Hinders(c) == c.do = "drop" /\ chain.there

\* What a command does to a table: marks are added to what is there, the other two
\* replace it.
Written(c) ==
  LET T == table[c.at] IN
  CASE c.do = "write" ->
         [there |-> TRUE, holds |-> T.holds, prerouting |-> T.prerouting \o Held(c.rules),
          output |-> IF c.at[1] = "ip" THEN T.output \o Held(c.rules) ELSE T.output]
    [] c.do \in {"npt", "learn"} -> Bare({c.do})
    [] OTHER -> Absent

Effect(c) ==
  /\ table' = IF c.do \in {"write", "npt", "learn", "delete", "forget"}
              THEN [table EXCEPT ![c.at] = Written(c)] ELSE table
  /\ chain' = CASE c.do \in {"flush", "new"} -> [there |-> TRUE, rules |-> <<>>]
                [] c.do = "append" -> [there |-> TRUE, rules |-> Append(chain.rules, c.rule)]
                [] c.do = "drop" -> NoChain
                [] OTHER -> chain
  /\ jumps' = CASE c.do = "unhook" -> [jumps EXCEPT ![c.hook] = @ - 1]
                [] c.do = "hook"   -> [jumps EXCEPT ![c.hook] = @ + 1]
                [] OTHER -> jumps

-----------------------------------------------------------------------------
(* The reconciler.                                                          *)

\* A pass reads, of which one answer may be missing, and plans the difference.
Plan ==
  /\ pc = "idle"
  /\ pc' = "run"
  /\ \E unreadable \in {"nothing", "ip", "inet", "ip6", "chain"} \cup ToSet(iptHooks) :
       /\ IF unreadable = "nothing" THEN failed' = FALSE /\ UNCHANGED faults
          ELSE Fault("read") /\ failed' = TRUE
       /\ \E acts \in {BackendActions(unreadable) \o UnusedActions(unreadable)
                         \o Mangle6Actions(unreadable) \o NptActions(unreadable)} :
            batch' = Ordered(acts)
  /\ disturbed' = FALSE
  /\ UNCHANGED <<conf, mapped, kernel, changes, settled>>

\* A command is run once: one that fails is left to the next pass.
Run ==
  /\ batch # <<>>
  /\ batch' = Tail(batch)
  /\ LET c == Head(batch) IN
     \/ /\ ~Refused(c) /\ Effect(c)
        /\ c.do = "hook" => jumps[c.hook] < MaxJumps
        /\ UNCHANGED <<faults, failed>>
     \/ /\ Refused(c) /\ failed' = (failed \/ Hinders(c))
        /\ UNCHANGED <<kernel, faults>>
     \/ /\ Fault("command") /\ failed' = TRUE
        /\ UNCHANGED kernel
  /\ settled' = FALSE
  /\ UNCHANGED <<conf, mapped, changes, pc, disturbed>>

PassDone ==
  /\ pc = "run" /\ batch = <<>>
  /\ pc' = "idle"
  /\ settled' = (~failed /\ ~disturbed)
  /\ UNCHANGED <<conf, mapped, kernel, counts, batch, failed, disturbed>>

\* A bug: the backend in use is taken back.
CleanupOfBackend ==
  IF conf.firewall = "nftables" THEN CleanupNft("ip") \o CleanupNft("ip6") ELSE CleanupIptables

\* Both backends' marks and the translation go, whatever is configured.
CleanupActions ==
  CleanupIptables \o CleanupNft("ip") \o CleanupNft("ip6")
    \o <<Delete(<<"ip6", NPTv6Table(conf)>>)>>
    \o (IF NdpUplinks(conf) # {} THEN <<Delete(<<"ip6", NPTv6NdpTable(conf)>>)>> ELSE <<>>)

Shutdown ==
  /\ Stops
  /\ pc = "idle"
  /\ pc' = "cleanup" /\ batch' = CleanupActions
  /\ failed' = FALSE /\ disturbed' = FALSE
  /\ UNCHANGED <<conf, mapped, kernel, counts, settled>>

CleanupDone ==
  /\ pc = "cleanup" /\ batch = <<>>
  /\ pc' = "done"
  /\ UNCHANGED <<conf, mapped, kernel, counts, batch, failed, disturbed, settled>>

Surroundings ==
  Crash \/ MappedChanges \/ NftWiped \/ ChainFlushed \/ \E h \in Hooks : JumpRemoved(h)

Reconciler == Plan \/ Run \/ PassDone \/ Shutdown \/ CleanupDone

Next == Surroundings \/ Reconciler

Spec == Init /\ [][Next]_vars

\* A pass is started at least by every tick, and goes on to its end.
Fairness == WF_vars(Reconciler)

FairSpec == Spec /\ Fairness

-----------------------------------------------------------------------------
(* Properties.                                                              *)

\* The rules a packet of IPv4 meets at a hook, however often and by whom: of the ports
\* of a rule the order says nothing.
Met(h) ==
  LET mine == table[<<"ip", conf.table>>] IN
  (IF jumps[h] > 0 THEN {Held(chain.rules)} ELSE {})
    \cup {IF h = "OUTPUT" THEN mine.output ELSE IF h = "PREROUTING" THEN mine.prerouting ELSE <<>>}

\* After a pass in which nothing failed a packet meets the rules of its family once,
\* whatever the pass before left behind: half a chain, doubled rules, the other
\* backend's marks, an earlier version's table and jump; and translation and learning
\* are there (internal/firewall/firewall.go:272-303, 425-482, differ.go:345-379).
PassSettles ==
  pc = "run" /\ batch = <<>> /\ ~failed /\ ~disturbed =>
    /\ \A h \in ToSet(iptHooks) : Met(h) \ {<<>>} = {Held(DesiredMarkRules[conf])} \ {<<>>}
    /\ table[<<"ip6", conf.table>>].prerouting = Held(DesiredMarkRules6[conf][mapped])
    /\ ~table[<<"inet", conf.table>>].there
    /\ NPTv6Enabled(conf) => "npt" \in table[<<"ip6", NPTv6Table(conf)>>].holds
    /\ NdpUplinks(conf) # {} => "learn" \in table[<<"ip6", NPTv6NdpTable(conf)>>].holds

\* settings.go:74-76: "the two rulesets are kept apart by name, so sharing one means
\* each overwrites the other every pass", which is refused.  A pass that follows one in
\* which nothing failed, with nothing changed in between, finds nothing to do.
SettledIsLeftAlone == [][Plan /\ settled /\ ~failed' => batch' = <<>>]_vars

\* The ports of every rule that nftables is given are configured as it lists them: in
\* any other order, or twice, they are not recognised, and the table is written anew by
\* every pass (firewall.go:75-83, 101-111).
PortsAscend(c) ==
  \A f \in (IF c.firewall = "nftables" THEN Families ELSE {"ipv6"}) :
    \A k \in PortRulesFor(c, f) : Ascending(c.rules[k].ports)

\* Marks share no table's name with NPTv6, which Accepted sees to for nftables alone.
NamesApart(c) == NPTv6Enabled(c) => c.table \notin {NPTv6Table(c), NPTv6NdpTable(c)}

\* Shutdown leaves nothing of ours, of either backend (internal/reconcile/firewall.go:
\* 9-12), unless something failed.
CleanExit ==
  pc = "done" /\ faults = 0 =>
    /\ ~chain.there /\ \A h \in Hooks : jumps[h] = 0
    /\ \A t \in Place : ~table[t].there

\* Once nothing fails and nobody else interferes, the marks of the backend in use,
\* and no others, are there to stay: jumps that a failed pass doubled do no harm.
Converges ==
  <>[](\/ pc \in {"cleanup", "done"}
       \/ \A h \in ToSet(iptHooks) : Met(h) \ {<<>>} = {Held(DesiredMarkRules[conf])} \ {<<>>})
=============================================================================
