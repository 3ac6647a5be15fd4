# A formal model of route-balancer

route-balancer keeps the routing, firewall and NDP state of a Linux router in
line with its uplinks: it watches default routes, probes gateways, and installs
an ECMP default route, one routing table and rule per uplink, port rules,
NPTv6 translation rules and proxy NDP entries. It works in *passes*: look at
the kernel, compute what is wanted, run the commands that make up the
difference. This directory holds TLA+ specifications of that program, the TLC
configurations that check them, and proofs for TLAPS.

Paths below are relative to the repository (`src/` in `PROJECT.json`).

## The system

| Part | Source | State it keeps | Operations |
|---|---|---|---|
| reconciler ("Event loop") | `internal/reconcile` | `State`: links, gateways, leases, health, learned hosts, claims | fold a batch of events, plan a pass, shut down |
| actor runtime | `internal/actor` | mailbox, children, context | `Step`/`RunAll` turns, `Send`, `Post`, `Every`, `Adopt`, `reap` |
| health monitors | `internal/reconcile/health.go`, `internal/probe` | verdict, streak, last verdict delivered | tick, probe, fold, report |
| address prober ("Claim actor") | `internal/claim`, `internal/ndp/claim.go` | claims being probed | admit, solicit, poll, rule |
| IPv4 routing | `internal/route`, `reconcile/{absorb,desired,differ,routing}.go` | none: read anew each pass | ECMP route, tables, rules, fwmark rules, teardown |
| IPv6 steering | the same | none | tables of steered uplinks, fwmark rules, marks of mapped subnets |
| firewall marks | `internal/firewall`, `reconcile/firewall.go` | none | iptables chain and jumps, or nftables tables; the other backend's are removed |
| prefix leases | `internal/prefix`, `reconcile/prefixwatch.go` | leases, withdrawn uplinks | attribute observations, fold changes, read |
| NPTv6 | `internal/nptv6` | none | slice a delegation, assign subnets, one nft transaction |
| NDP proxy | `internal/ndp`, `reconcile/ndp*.go` | conflicts, burned identifiers, claims in flight, proofs | learn hosts, claim, retract |
| netlink watcher | `internal/netlink` | socket | turn notifications into events, resync on overrun |
| command engine | `internal/command`, `internal/nft`, `internal/sysctl` | memo of queries | order and run actions |
| configuration | `internal/config`, `internal/settings`, `nix/module` | none | decode, validate (twice), derive options |
| process | `main.go` | signal context | start the two loops, wait for them |

The loops meet only in bounded mailboxes. Monitors and prober *send* without
waiting, and what finds the mailbox full is dropped; the watcher, the prefix
sources, the ticker and start-up *post*, and wait for room. The reconciler
offers claims to the prober, also without waiting. All loops share one context
that a signal cancels. Everything else they have in common is the kernel, which
other programs change at any time.

What makes this hard, and is therefore what the models are about: messages that
are dropped, late, or overtaken by a read; children replaced while their
messages are under way; a kernel that changes between the first read, the second
read and each command; reads and commands that fail one by one; restarts that
find the leftovers of an earlier process, perhaps with another configuration;
and a shutdown at any point. `PROJECT.json` lists each hazard with its line and
the properties that watch it.

## Modules

| Module | Models | Used by |
|---|---|---|
| `Beliefs` | abstract: what health monitoring promises | `Health` (`Promise`), `BeliefsProofs` |
| `Health` | reconciler, mailbox and monitors: gateway health | `MCHealth` (TLC); `HealthProofs`, `BeliefsProofs` (TLAPS) |
| `Claims` | reconciler and prober: proxy NDP claims | `MCClaims`, `ClaimsProofs` |
| `Routing` | the pass over IPv4 routing, with the kernel | `MCRouting`, `RoutingProofs` |
| `Leases` | how prefixes reach the reconciler, and what it holds | `MCLeases`, `LeasesProofs` |
| `Steering` | the pass over IPv6: translation, marks, tables, learning | `MCSteering`, `SteeringProofs` |
| `Settings` | defaults, derived options, and both validators | `Marks`, `Deploy` |
| `Marks` | the mark tables of both firewall backends | `MCMarks`, `MarksProofs` |
| `Deploy` | a configuration on its way from Nix to the daemon | `MCDeploy`, `DeployProofs` |

Each state machine is about one protocol of the reconciler. The loop they share
(drain the mailbox, read, plan, run the batch, or the last turn) appears in each
with only the events that matter there: the others can wake it at any time. What
one module computes and another needs is an input of the latter that changes
freely: verdicts (Health) in Routing and Steering, leases (Leases) in Steering,
mapped subnets (Steering) in Marks, learned hosts in Claims. So a property of
the user holds whatever the producer does.

### Health and Beliefs

`monitors`, `unhealthy` and `monSeq` are the fields of `State.Health`;
`inbox` is the mailbox; `mon[i]` is monitor number `i` with the fields of
`healthMonitor` and the place where its goroutine is. One action stands for each
step between two points at which another goroutine can be seen: `Receive` for
an event taken from the mailbox, `Plan` for the reads together with
`syncMonitors`, `StopMonitor` and `StartMonitor` for the actions of the batch,
`MonitorTicks`, `MonitorProbes` and `MonitorReports` for a turn of a monitor.
`MayResult` leaves a probe that is cut short by cancellation free to fail. A
monitor that was told to stop may still tick, probe and report, as Go chooses
freely between a ready tick and a closed context.

`Beliefs` says the same without mailbox, loop, probe or kernel: of every
watched uplink a verdict is *said* and one is *held*; a watch only ever turns
its verdict, each turn is believed once and in order, and ending a watch forgets
both. `Promise` is the refinement mapping: watched are the keys with a monitor,
said is what their monitors have managed to send, held is `unhealthy`, owed
is the number of their current monitor's verdicts in the mailbox.

### Claims

`probing`, `overdue`, `conflicts`, `burned` and `proved` are
`State.Claims`; `pending` and `elapsed` the prober's; `neigh` and `proxy`
the kernel's neighbour cache and our proxy entries; `holder` the addresses
other hosts hold. Time is what it decides: `WindowRuns` (ProbeTimeout has
passed), `DeadlinePasses` (claimGiveUp), `ConflictLapses` (30 s). A batch is run
in the order of the code: withdrawals, installs, then the offer; the prober's
turn purges, solicits and reports. `PlanBlind` is the pass that cannot read the
installed entries.

### Routing

`index`, `addr`, `routes`, `tables`, `rules`, `marks` and `ecmp` are
the kernel. `ifaces`, `addrs`, `stale`, `gateways` and `unhealthy` are
the reconciler's state. A pass is `ReadLinks` (`linkPlan`, `absorbLinks`), then
`Plan` (`queryPlan`, `absorb`, `Desired`, `plan`), then `Run` for each command
in the order of `command.Ordered`; `Shutdown` is the last turn. The kernel may
change between any two of these, each read may fail, and so may each command.
`Crash` forgets the reconciler's state and leaves the kernel's; the next
process may manage IPv4 or not (`Manageable`).

What a pass installed it recognises in the kernel's text, with
`strings.Contains`; `Leads` and `SelectsFrom` are what that comes to on numbers
(`Begins`: the text of one begins that of the other). An address or a
next hop is its last octet, a mark the uplink's number. `Orders` gives the order
in which the interfaces appeared. `moved` remembers which interfaces had their
address replaced, for of their earlier addresses rules stay (see below).

### Leases

`discard` and `addr` are what a read of the kernel finds: reject routes of the
main table and the preferred addresses of each uplink, freshest first. What the
kernel *says* goes from `socket` (`Fanout`, `Recheck`, `Ignore`, `Nameless`;
`Overruns` when it overran) through `channel[u]`, one per prefix source, to
the reconciler's `inbox` (`Reports`), where `HandleLeaseWire` folds it into
`lease` and `withdrawn`. `Recheck` and `Ticks` post a resync straight into the
mailbox, past what waits in the channels: this is how a read overtakes a
notification. `Pass` is `absorbLeases` on what `Sources.Observed` makes of the
read. A socket that has overrun takes nothing more until it is drained, as in
Linux, and nothing is told of what is lost meanwhile. `word[u]` remembers the
last advertisement or withdrawal of a prefix `u` may take, and whether it was
lost on the way: the properties are about what the reconciler makes of it.

### Steering

`npt`, `marks`, `tables`, `fwrules`, `learn` and `learned` are what the kernel
holds of ours: translation rules, marks, IPv6 tables, mark rules, the learning
table and its set of hosts. `Slots`, `Base`, `Assign` are `slotsFor`, `subnetAt`
and `Options.Assign`: a delegation is a number of /64s and a size, and base bits
below its length are masked off. `DesiredRules` is the ruleset with its guards,
`WantedTables`, `WantedRules` and `WantedMarks` are `desiredIPv6Marks`. The pass
is `ReadLinks`, `Plan`, `Run` as in Routing. `Plan` works out `OutOfSync`, what
to tear down (`Teardown`), and the learning rules. Installed rules and routes are
recognised by containment as in Routing: `Selects` on the numbers of marks and
tables, and `Within` (a constant) says which next hop's text is found in which.

### Settings, Marks, Deploy

`Settings` has no state. It defines `SetDefaults`, the options derived from a
configuration (probes, table names, marks, NDP uplinks), `Accepted` (what the
daemon starts with: `internal/config`, `internal/settings`, `nptv6.Resolve`) and
`ModuleAccepts` (types and assertions of `nix/module/route-balancer.nix`). The
module often judges the *text* of an option where the program parses it, or tests
for null where the program tests for empty. So null and the empty text are two
things here ({} and {""}), and of prefixes and durations there is one value for
each class of texts that the two tell apart; the head of the module lists them.

`Marks` keeps the marks of either backend: `chain` and `jumps` are the iptables
chain and its jumps at each hook; `table[f, n]` the nftables table of family `f`
and name `n`, marks and translations alike, because the code tells them apart by
name only. `BackendActions` is `Differ`'s use of the configured backend,
`UnusedActions` the removal of the other's, `CleanupActions` the last turn. A
batch here is a *sequence*: the order of commands of one resource matters.
`Ordered` is the stable sort by turn, `PortRulesFor` names rules by their places
in the list, so that marks come in the order of the file. nftables keeps the ports
of a rule as a set (`Held`) and lists them in ascending order, each once
(`ListedAs`), while `sameMarkRules` compares the text that was configured;
iptables keeps and lists them as given.

`Deploy` takes what an operator writes through the assertions (`Evaluate`) to the
start of the daemon (`Start`), which runs with it or fails and is started again.
`OnlyTheProgramSees` and `OnlyTheModuleMinds` name the classes on which the two
validators part, and `ValidatorsAgree` is that there are no others.

## Runs

| Run | What it asks | Bounds |
|---|---|---|
| `health_one` | verdict bookkeeping, one monitor per target, reaping, and that Health implements Beliefs | one uplink, two targets, threshold 2, mailbox for 1, one gateway change |
| `health_live` | beliefs converge; shutdown ends | one target, mailbox for 2, one change |
| `claims_one` | safety of the claim protocol | one address, two changes, one fault of any kind, shutdown, a prober of any slowness |
| `claims_two` | the same where two addresses share an identifier | two addresses, one change, one fault, shutdown, a prober in time |
| `claims_live` | a free address is answered for, a held one given up | one address, two changes, two faults of any kind |
| `routing` | repair, teardown, order of commands, last turn, convergence | two uplinks, three interface indexes of which the third has a reserved table, one address that may be replaced, two changes, two faults, restarts with `ipv4_ecmp` on or off |
| `leases` | leases follow the kernel, no withdrawn prefix returns, convergence | a DHCPv6 and an advertised uplink, three prefixes (one of neither), socket 2, channel 1, mailbox 2, three changes, one fault |
| `leases_renumber` | **expected violation** | one advertised uplink, two prefixes, room for everything |
| `steering` | what is steered is translated, prefixes do not overlap, no uplink uncovered, repair, last turn, convergence | two uplinks, two subnets, delegations that fit, are too short or misaligned, two configurations, two changes, one fault |
| `marks` | both backends repaired, removed and converging; a settled pass does nothing | three configurations, three mappings, two changes, two faults |
| `marks_names` | **expected violation** | the accepted configurations that give two tables one name, no change, no fault |
| `deploy` | what Nix accepts the daemon starts with | 172,810 states: every combination of the listed options, with every class of text and duration |

The runs `routing`, `steering` and `marks` keep to constants on which what is
compared as text is apart: `MCRouting` and `MCSteering` have TLC evaluate
`TextsApart`, `MCMarks` has it evaluate `NamesApart` and `PortsAscend`. These are the
hypotheses of the theorems on settled passes; what the code does beyond them is
described below.

Bounds. The mailbox holds one event where a dropped or late one is the question:
with one place every interleaving of "full" and "room" occurs, and the real 256
only makes them rarer (`health_live` needs two: in a mailbox of one the resync
tick could occupy the only place at every report; it keeps to one target, so that no
monitor is replaced in it: with two the liveness check does not finish in time.
What replacement may do to beliefs is `KeptInv` and `BeliefsKept`). One or two changes are enough
for each hazard, because each is about one thing replaced by another (a monitor,
an interface index, an address, a lease) while messages or commands about the
first are under way; two also let it come back. `leases` takes three, since a
prefix must come, be withdrawn and be overtaken by something else. Two uplinks
are enough to let one's commands interfere with the other's. One fault is a
fault at *every* place where one may happen; `routing`, `marks` and
`claims_live` allow two, since a restart is only interesting when something else
failed too. Interface indexes are never reused, as in the kernel. `MaxJumps`
caps equal jumps at a hook at three: two are already one too many.

Deadlock is checked except in the runs whose process may stop (`claims_one`,
`claims_two`, `routing`, `steering`, `marks`, `marks_names`, where a batch may
also be over for good, and `deploy`, which only starts a process).

Every property has a mutant in `PROJECT.json`: a plausible mistake in the code,
defined next to what it replaces (marked "A bug"), that the run then catches.

### Fairness

`Health!Fairness`: every goroutine that can run does (weak fairness of loop,
monitors, watcher, ticker). Strong fairness is asked of three things that are
only ready now and then: that a cancelled monitor leaves (Go picks at random
between its ready tick and its closed context), that a drain empties the mailbox
(probes are seconds apart), and that a read of the kernel repeated every period
is up to date in the end.

`Claims!Fairness`: both loops run, the poll ticker ticks, a host that is
asked answers, a window runs out. Deadlines pass and conflicts lapse with strong
fairness, because a pass is short and may be under way whenever one looks.
`Prompt` says that the prober rules within `claimGiveUp`; it is FALSE in
`claims_one`.

`Leases!Fairness`: watcher, sources, reconciler and ticker run. Routers repeat
their advertisements (RFC 4861, minutes apart): without it a lost advertisement
of a prefix that was withdrawn before would never be made up for.

`Routing!Fairness`, `Steering!Fairness`, `Marks!Fairness`: the reconciler goes
on. A pass is started at least by every tick of `actor.Every`. Nothing is asked
of the kernel: changes and faults are bounded, so they end.

## Where code and text differ

Two runs are expected to find a violation: the property says what a document,
comment or test says, and the counterexample is what the code does.

| Run | Text | What happens |
|---|---|---|
| `leases_renumber` | `prefixwatch_test.go:106`: "a stale withdrawal was applied, dropping the current prefix" is a failure; README.md:510-520: all three ways of reading a lease "run the same read" | an advertisement that announces a new prefix and ends an old one sets `Withdrawn` for the uplink, and the next pass drops the *new* prefix, until it is advertised again |
| `marks_names` | README.md:1044: `nftables_table` "must differ from `nptv6.nftablesTable`"; `settings.go:74-76`: otherwise "each overwrites the other every pass" | the names are only compared if the backend is nftables; with iptables, the resource of the IPv6 marks (`mangle6Resource`, `differ.go:399`) wants no marks, finds a table `ip6` of that name and deletes it in one pass, and the next writes the translation table again |

The passing runs are chosen to stay clear of the following edges of the code, or
their properties are stated so as to allow them. None is a run of its own.

Routing:
- A table via `x.10` passes for one via `x.1`, because its text contains the
  wanted text (`route.go:343`): `routing` takes next hops of which none begins
  another, and so does the theorem on `PassSettles`. The same goes for addresses and
  marks (`0x1` is found in `0x10`), and for IPv6 in Steering.
- Rules for addresses an interface had earlier stay (`differ.go:287` tears down
  tables, not rules): replies from an uplink that gets such an address leave by
  the other one. They stay at exit as well. `NoRuleIsLeftDangling` and `CleanExit`
  except the rules of exactly those interfaces (`moved`), nothing else.
- A process that restarts and cannot read the default routes on its first pass
  knows no gateway, takes every table for stale and tears it down
  (`absorb.go:79`; `differ.go:293` spares tables only if the *interfaces* are
  unreadable). `Converges` shows that the next pass puts the tables back.
- Tables are found through their rule (`route.go:191`). A table whose rule could
  not be added, or whose flush failed after the rule was deleted, is not found
  again: nothing empties it. No traffic uses it.
- The last ECMP route is retained when no gateway is active, also when the last
  default route has *gone*, of which README.md:12 says that it leaves ECMP
  immediately.
- The last turn deletes a gateway's rule by its priority, once, and reads
  nothing: an interface whose address has changed has two rules of that
  priority, and an interface that went since the last pass is not named.

Claims:
- A question that never came back "is asked again" (`docs/architecture.md:113`)
  only if its entry is missing (`ndpproxy.go:48`); a speculative claim's is
  installed.
- A contested identifier "is proved free before every later claim"
  (README.md:977); a proof not spent yet survives a later conflict
  (`ndpclaim.go:34`).
- A withdrawal that fails is not retried once its conflict (30 s) has lapsed, and
  a neighbour table that cannot be read passes for an empty one
  (`ndp/claim.go:102`). `ContestedIsRetracted` holds as long as nothing fails.

Leases:
- Of the addresses of an advertised uplink the freshest is picked before
  `match_prefix` is applied: a fresher address outside it hides one inside.
- A list that cannot be read counts as an empty one, and the uplink's lease is
  dropped for that pass.
- After the overrun has been reported, a socket that is still full goes on
  losing messages without a word; the recheck that was asked for may run too
  early to see them, and the timer's makes up for it.

Deploy:
- The comment on `goDuration` (`route-balancer.nix:8-11`) says that a total is
  positive when some digit is not zero. `0.1ns` comes to nothing, and a value too
  large does not parse: the module passes both and `config.go:38` refuses them.
- A `staticPrefix` or `matchPrefix` of `""` is not null and passes the module;
  `nptv6.go:111` refuses the former and, of several uplinks with routes, 155 the
  latter.
- The network of `fd00::/4` is no ULA, though the text begins as one
  (`nptv6.go:70`); and only the program sees that a prefix cannot be parsed, is too
  long or does not fit.
- A subnet `/064` is a /64 to the program and none to the module.

Steering and Marks:
- Ports that are configured in another order than ascending, or twice, are not
  recognised when nftables lists them (`firewall.go:75-83` renders them as given,
  101-111 compares texts). The marks are deleted and written anew by every pass, while
  CONTRIBUTING.md:255 says "A converged daemon plans nothing". With `<<8443, 443>>`
  TLC finds that `PassSettles` holds, and `SettledIsLeftAlone` and `Converges` do
  not. The limit of 15 ports of iptables' multiport is not modelled.
- The per-gateway IPv6 tables stay at shutdown (`routing.go:9`), while
  README.md:388-390 speaks of all.
- Marks (order 5) are written before the translation (order 50): a subnet that
  has just been mapped may leave untranslated in between. `SteeredIsTranslated`
  is about the end of a batch.
- When the learning table cannot be listed it is rewritten, which empties the
  set of learned hosts, although `absorb.go:194` speaks of "keeping the hosts
  already known". `HostsAreKept` is about passes that could list it.
- Mark numbers follow the sorted list of gateways: a crash followed by a start
  with other gateways leaves rules with the old numbers. NPTv6 disabled, or a
  mark table renamed, across a crash leaves the old table.
- The last matching mark wins; in Steering marks are a set, in Marks a sequence.
- A jump that is there twice and of which one removal fails stays for a pass,
  which is harmless; at exit it may leave an empty chain, because a chain that is
  jumped to cannot be removed.

## Proofs

### HealthProofs

For all uplinks, targets, thresholds, mailbox depths and numbers of changes that
satisfy `HealthAssumption`:

- `TypeCorrect`: `Spec => []TypeOK`. `TypeOK` is inductive with the bound on
  the mailbox in it.
- `MonitorsAreReaped`: `Spec => []NoneOutlivesTheLoop`. Every running monitor is
  on the list the loop reaps: `Adopt` drops only children that have exited.
  Inductive together with `TypeOK`.
- `KeptAlways`: `Spec => []KeptInv`, and from it `NoVerdictIsLost`:
  `Spec => []VerdictKept`. `VerdictKept` says that the last verdict a current
  monitor managed to send is either the last of its verdicts in the mailbox or,
  if there is none, what the reconciler holds. It is not inductive by itself: it
  must be known that a verdict in the mailbox carries the key of the monitor
  that gave it (else `Handle` would change another uplink's entry), that
  `monitors[k]` is a monitor of `k` (else its verdicts would be applied to
  another key), and that a key without a monitor is not in `unhealthy` (else a
  new monitor, which starts as healthy, would start with a difference). These
  are the last three conjuncts of `KeptInv`; `health_one` checks it with TLC.

The argument goes by action. Only `MonitorReports` puts a verdict into the
mailbox and it sets `sent` in the same step, or drops it and leaves `sent`;
`Receive` takes the first event, so the last verdict stays the last, or was the
only one and is now held; `Plan` gives a replaced key a fresh identity, of which
no verdict exists. Everything else leaves the five variables alone
(`KeptStutter`). The lemmas on sequences say which positions of the mailbox
hold a monitor's verdicts after an append and after a tail.

- `OneMonitorEach`: `Spec => []OneMonitorPerTarget`, whose three parts have
  names (`NotStopped`, `KeptAreStarted`, `WantedAreProbed`). `TargetInv` adds
  `KeptInv` (two keys share no monitor), that there is nothing to stop or to
  start outside of a batch, and that what is to be stopped is kept for no key
  any more: else `StopMonitor` would cancel a monitor that was wanted again.
  `SyncTargets` is what `syncMonitors` brings about, key by key; it is the only
  step that changes what is wanted.

### SteeringProofs

For all uplinks, subnets, priorities, delegations, next hops, configurations and
bounds that satisfy `SteeringAssumption` and `PriorityAssumption` (the latter is
a check of `nptv6.Resolve`):

- `TypeCorrect`: `Spec => []TypeOK`. The part that is not about shape: a command
  in the batch has the arguments of its kind, a rule that is deleted is one of
  the list (`WithoutFirst`), the preferred gateway of an uplink exists
  (`Hop` is bounded, so `preferTarget` has a minimum), and indexes never exceed
  what the kernel has given out.
- `ExternalsStayOwn`: `Spec => []ExternalsAreOwn`: whatever has been installed
  maps an uplink's subnets to distinct /64s that one of its possible delegations
  holds. `OwnInv` adds the same of the ruleset of a command still in the batch.
  It rests on facts on `Slots`, `Base` and `Assign`: a slot's number is below
  the number of slots, the base is a multiple of it, and a subnet's slot is its
  place in `subnet_priority`, which names none twice.
- `NoUplinkIsUncovered`: `Spec => NeverUncovered`: a step of a pass never goes
  from every uplink translating or guarded to one that is neither. `GuardInv`
  says that a ruleset in a batch covers every uplink by itself, because guards
  are computed from the very assignments it is rendered from; the table is
  replaced in one transaction.
- `PassesSettle`: `TextsApart` implies `Spec => []PassSettles`. The hypothesis is a
  real one, as in Routing: with a next hop, a table or a mark whose text is found in
  another's, a pass takes for installed what is not. The other theorems do without it,
  so the invariant has it as the premise of two conjuncts only: that a table filled
  holds the wanted route, and that a rule `Selects` finds is there.
  The proof is from `Settling`: in a pass in which
  nothing failed so far and which nobody disturbed, whatever is wanted is there or
  a command for it waits, and no command waits that is against what is wanted.
  Its parts are about the gateways, tables, rules, marks, translation and learning
  rules. Two are not obvious. Marks are deleted before they are written, so
  `MarksSettle` must say that whenever a deletion waits the new table does too,
  and that the order of commands keeps it behind. And rules are deleted by
  priority, which is the *first* rule of a mark: a pass that finds unwanted rules
  at two interfaces of one uplink plans two such commands, and which rule each
  deletes depends on what is left. So `RulesSettle` counts: of each mark as many
  deletions wait (`Doomed`) as there are rules that are not wanted (`Unwanted`);
  that the two fall together (`CountsFall`) needs that the first rule of a mark
  is an unwanted one whenever there is one. It is, because the kernel lists rules
  in the order they were added (`Ordered`), interfaces come back under greater
  indexes, and only the greatest an uplink has had can be wanted
  (`WantedIsLatest`).
- `SteeredAreTranslated`: `Spec => []SteeredIsTranslated`. After such a pass marks
  are of assignments, and where a mark leads is an uplink's own table: `OneOwner`
  says that a function `own` from indexes to uplinks explains everything that
  names both, be it installed, read or about to be installed. `own` is a history
  of what the kernel has given out; it is quantified in the invariant instead of
  being a variable of the model.
- `NoneDangles`: `Spec => NoRuleIsLeftDangling`. A table is flushed when no deletion
  of a rule waits any more, so by the counts no rule points where it should not;
  a rule is added when no table waits to be filled.
- `HostsStay`: `Spec => HostsAreKept`: a command for the learning table waits only
  if the table is not what it will be.
- `LeavesNothing`: `Spec => []CleanExit`. `SteeredOnly`: without faults, so without
  a restart under another configuration, every rule is of a steered uplink.
  `Leaving`: in the last turn what is not gone yet has its command waiting.
  `Latest` is needed too: a rule's table has a number the last turn will use.

`PassInv` is what these share: types, `Waiting`, `OneOwner`, `Ordered`, `Latest`
and `AsRead` (what was read of interfaces stands until the pass is disturbed).
All were checked with TLC in the setting of the run `steering` first.

### RoutingProofs

For all uplinks, pools of addresses, next hops, indexes, configurations and bounds
that satisfy `RoutingAssumption`:

- `TypeCorrect`: `Spec => []TypeOK`, with `WellFormed`: a command names an
  interface, an address and a next hop that can be. For the latter, that of
  several gateways on an interface one has the last key (`LastKey`): keys are
  sorted as texts, and `Place` gives a text its number.
- `TeardownsAreOfTheUnused`: `Spec => OnlyTheUnusedIsTornDown`. It needs whose an
  interface is (`OneOwner`, as in Steering) and that an interface which is not
  stale is as it was read (`AsRead`): a table looks unused only to a pass that
  knows its interface.
- `NoneDangles`: `Spec => NoRuleIsLeftDangling`, from `Paired`: a flush that
  waits has its rule's deletion waiting or done, unless the address of that very
  interface was replaced; a rule that waits has its table waiting or filled.
- `LeavesNothing`: `Spec => []CleanExit`. Because the last turn reads nothing it
  must *know* all there is: `Remembered` says that without faults every filled table
  is of a gateway the reconciler knows (`Known`) and has a rule, and every rule is of
  such a gateway or of an interface whose address was replaced, or a command about it
  waits. `OneAddress` (an index not in `moved` has one address) is why deleting one
  rule per interface is enough for the others.
- `PassesSettle`: `TextsApart` implies `Spec => []PassSettles`. `Settling` is like
  that of Steering; `SrcHeld` adds that the route of a table is from the address
  its interface has. That no rule leads to a table of the kernel's own comes from
  `UsableOnly`. `TextsApart` is a real hypothesis, not one of convenience:
  the code recognises a table, an address and a mark by a text *containing*
  another (`route.go:343`), so a wanted table passes for installed if its text
  begins what is there, and an address that two interfaces may both be given lets
  the rule of one pass for the other's. `MCRouting` has TLC evaluate it on the
  constants of the run, and `LikeLengthsAreApart` shows that ordinary ones satisfy
  it: tables from 100 on, addresses and next hops that end in three digits, at
  most fifteen marks, pools of their own.

`PassInv` is what these share, of which `KeptInv` is the part about what may
be installed at all.

### BeliefsProofs

From the same assumptions, that `Health` implements `Beliefs`:

- `EveryVerdictTurns`: `Spec => []EveryVerdictIsNews`. `NewsInv` adds to it
  `KeptInv` and that a monitor about to report has something new to say
  (`sent # st`): without the latter `MonitorReports` could append the verdict
  that is already there. `NewsIsAlternation` restates the property between
  neighbours (each verdict of a monitor in the mailbox differs from the one
  before), in which form each step keeps it.
- `HealthKeepsItsPromise`: `Spec => BeliefsKept`. The mapping takes the monitor
  that is kept for a key for what is watched (`Watched`), its last delivered
  verdict for what was said (`Said`), `unhealthy` for what is held, and the
  number of its verdicts in the mailbox for what is owed (`Owed`). By action:
  `MonitorReports` of a kept monitor, if delivered, is `Give`; `Receive` of such
  a verdict is `Believe`; `Plan` is `Rewatch` of the keys that get a new monitor
  or none; every other step is a stutter. It needs `NewsInv`: a
  verdict that is sent turns the one said before, and the one that is received
  turns the one held. `CountGrows` and `CountShrinks` say what
  an append and a tail do to that number; that it is at most `QueueDepth` comes
  from the bound on the mailbox.

### LeasesProofs

For all uplinks, prefixes, matches, depths and bounds that satisfy
`LeasesAssumption`:

- `TypeCorrect`: `Spec => []TypeOK`. That a lease is always a prefix its uplink
  may take is inductive only together with `Sourced`: every lease message in the
  mailbox is of such a prefix, and of an uplink that is not static.
- `NothingComesBack`: `Spec => []NoResurrection`. `Heard` says of each advertised
  uplink whose router's last word was not lost: this word is the last of what
  is in the socket for the uplink; or if nothing is there, the last in its
  channel; or if nothing is there either, the last in the mailbox; and if that is
  empty too, `withdrawn` says what the word was and the prefix it withdrew is not
  held. Each step moves the word one place on, puts a newer one behind it, or
  loses it. A pass cannot spoil it, since `Observed` finds nothing for an uplink
  that is `withdrawn` and learns by advertisement.
- `LeasesFollowTheKernel`: `Spec => []FollowsTheKernel`, from the same `Heard`
  (`withdrawn` is set for a reason) and `StillRead`: what a settled pass found
  stands as long as `settled` does.

`LeaseInv` is the conjunction. `Places` and `LastIn` say where and what the last
message of a kind in a queue is; `AppendLast`, `TailLast` and `NotifyLast` say
what becomes of them as queues move.

### ClaimsProofs

Every safety property of `Claims`, for all addresses, identifiers, depths and
bounds that satisfy `ClaimsAssumption`. Each has an invariant of its own, since
they rest on different facts:

- `TypeCorrect`: `TypeOK` is inductive by itself.
- `ProvingComesFirst`: so is `NeverAnsweredWhileProving`, given the types.
- `NoneReclaimedBlindly`: `NoBlindReclaim` from `Accounted`: what was contested
  is burned; what is `proved` has its proof; what is about to be installed is
  not `proved` any more, and has a proof if its identifier was contested. (A proof may be
  older than the latest conflict, see above.) That
  nothing waits to be installed outside of a pass matters: a verdict folded
  in between would otherwise contest an entry already on its way.
- `CleanPassSettles`: `PassSettles` from `OnTheWay`: in the middle of a pass,
  what stays is wanted or about to be withdrawn, and what is missing is being
  probed, refused or about to be installed.
- `LeavesNothingBehind`: `CleanExit` from `LeavingClean`, the same for the last
  turn.
- `OnlyAnswersContest`: `ContestIsFresh` from `Fresh`: what is being probed and
  stands in the kernel's table has answered since it was admitted, or is still to
  be purged; and an idle prober has no work left, so that no poll comes between a
  batch's admission and its purges.

`PlanFacts` says what `PlanClaims` makes of the missing entries, for any local,
proved and burned ones; `PlanEffect` and `PlanMakes` what a pass makes of them.

### MarksProofs

For all configurations, mappings, kinds of change and fault, and bounds that
satisfy `MarksAssumption`. A batch is a sequence, and its commands concern five
things: the iptables chain, the three tables of marks (`ip`, `ip6`, and an earlier
version's `inet`), and with NPTv6 on the two of translation and learning. The order
between things is that of the turns; the properties need only the order within
each. So the proof looks at the batch thing by thing: `Sel(batch, C)` are the
commands of the batch that are in the set `C`, in their order.

- `TypeCorrect`: `Spec => []TypeOK`: besides shapes, that a command has the
  arguments of its kind, that a chain that is jumped to is there (the kernel refuses
  to delete it before), and that a table that is not there holds nothing.
- `LeavesNothing`: `Spec => []CleanExit`. `ChainInv` says how far the chain's
  programme has come: there is a counter `k`, the commands of the chain that wait
  are those of `IptablesActions` from `k` on, and what has been run so far shows
  (`Unhooked`: the jumps before `k` are gone; `Made`: the chain holds the rules
  appended so far). `OursInv` says that tables are at places of ours only, and that
  in the last turn each that is still there has its deletion waiting. `PhaseInv`
  adds that without faults no jump is ever there twice: deleting one would leave
  the other, and the chain could not be deleted. Nothing is assumed of names here.
- `PassesSettle`: if `NamesApart` holds of each configuration,
  `Spec => []PassSettles`. `TablesInv` says of each table that all of its programme
  waits, or the table is gone and only its write waits, or nothing waits and the
  table is as wanted; `ChainInv` says it of the chain. At the end of a batch
  nothing waits.
- `SettledStays`: from it and `PortsAscend` of each configuration,
  `Spec => SettledIsLeftAlone`. Ports that nftables lists in another order than
  they are configured are not recognised, and `ListedAs` is false of them.
  `SettledInv` says that what a settled pass has left is as wanted until something
  changes, and the lemma `LeftAlone` that a pass which reads that plans nothing.
  This is what the comparison of what is installed with what is wanted is for: if
  it ever failed to recognise its own work, marks would be rewritten on each tick.

`MarksInv`, the inductive invariant of the last two, is the conjunction of
`TypeOK`, `PhaseInv`, `ChainInv`, `TablesInv` and `SettledInv`; TLC has checked it,
and `OursInv`, in the setting of the run `marks`. `NamesApart` (no table of marks
shares a name with one of NPTv6) is a real hypothesis: `Settings` has it for
nftables only, and the run `marks_names` shows what happens without. `MCMarks`
has TLC evaluate it on the configurations of the run.

That a batch may be taken apart rests on `SelConcat`, `SelTail` and `SelOrdered`:
a stable sort keeps the order among commands of one thing if they were planned
turn by turn, as `ProgrammeOrdered` and `TableProgrammeOrdered` show they are.
`FlattenSeq` is defined by recursion and there is no theorem about it to cite;
`FlattenAppend` and `FlattenTyped` are proved here. The induction they take is
stated about *sets* of numbers and of sequences (`Least`, `Induct`, `SeqInduct`)
and rests on `<` being well-founded, because a theorem with an operator for its
parameter cannot be instantiated here.

### DeployProofs

- `Agreement`: `Spec => []ValidatorsAgree`, for everything an operator may write:
  any gateways, rules, probes, durations, subnets and uplinks. `WrittenAssumption` says what
  such a record is (an option that may be left out is there at most once, numbers
  are numbers); TLC evaluates it on all the options of the run `deploy`. The
  invariant, `Judged`, says what the state of the unit tells of the options. The
  substance is in the lemmas, one for each thing judged, that the assertions and
  the program come to the same: `RulesAlike`, `PurposeAlike` (there is something to
  manage), `ProbesAlike` and `NptAlike`, each but for the texts that
  `OnlyTheProgramSees` and `OnlyTheModuleMinds` name. For probes this needs `PlayAlike`: the
  families the module takes to be in play are those the program observes, but only
  once rules of IPv6 are known to be backed by NPTv6. `DefaultsOf` says that among
  options within their types only the table's name is ever defaulted.

### What is only model-checked

Every safety property that a passing run checks is also a theorem. The runs alone
speak for what must *eventually* happen (`BeliefConverges`, `ShutdownCompletes`,
`FreeIsAnswered`, `ContestedIsRetracted`, and `Converges` of Routing, Leases,
Steering and Marks): fairness and ENABLED are out of the prover's reach.

## Not modelled

- Routing: weights of next hops, a table's subnet route, a foreign default route
  at the ECMP route's metric. IPv6 ECMP runs the code of IPv4's.
- In Routing and Steering, the second batch of queries is one read of one
  moment; in the code its queries run one after the other. At most one answer of
  it is missing. Queries are memoised within a pass, which one read stands for.
- Claims takes `proxy_ndp` to be set, and the set of learned hosts as an input;
  that a learned host ages out is one of its changes.
- The actor runtime is part of the modules that use it, not one of its own;
  prober and reconciler stopping together is not one model. They share only the
  context, and neither waits for the other.
- Sockets, message formats, text of rule sets, JSON, logging and the wording of
  errors, how ICMP, TCP, HTTP, DNS and exec probes ask, building and VM tests:
  I/O or wording, no state of the daemon.

## Plan

1. Done: `Health` with `Beliefs`, `Claims`, `Routing`, `Leases`, `Steering`,
   `Marks`, `Settings`, `Deploy`; `HealthProofs`, `BeliefsProofs`,
   `LeasesProofs`, `ClaimsProofs`, `SteeringProofs`, `RoutingProofs`,
   `MarksProofs`, `DeployProofs`.
2. A module of the learning set by itself: its limit and the ageing of hosts,
   as input to Claims.
3. Liveness stays with TLC. What could be proved towards it is that a variant
   decreases in each step of a batch, of which `ChainInv` has the counter.

