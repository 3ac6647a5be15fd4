------------------------------- MODULE Claims -------------------------------
(***************************************************************************)
(* Proxy NDP: how the reconciler and the address prober ("Claim actor")    *)
(* decide together which translated addresses to answer for.               *)
(*                                                                         *)
(* Source: internal/reconcile/ndpclaim.go and ndpproxy.go,                 *)
(* internal/claim/claim.go, internal/ndp/claim.go and entry.go.            *)
(*                                                                         *)
(* An address nobody has contested is installed at once (speculative) and  *)
(* the prober asked whether anything else answers for it; an address whose *)
(* host identifier was ever contested is installed only after the prober   *)
(* has found it free (screened).  A contested address is withdrawn and     *)
(* left alone for a while.                                                 *)
(*                                                                         *)
(* The two loops meet only in their mailboxes.  The other events of the    *)
(* reconciler's mailbox are not kept here: one of them may start a pass at *)
(* any time, and may have filled the mailbox when the prober reports,      *)
(* which counts as a fault.  Time is abstracted to what it decides: a      *)
(* probe's window has run, a claim's deadline has passed, a conflict is no *)
(* longer remembered.                                                      *)
(***************************************************************************)
EXTENDS Integers, Sequences, FiniteSets

CONSTANTS
  Entry,        \* translated addresses on an uplink, numbered in sorted order
  Ident,        \* Ident[e]: e's host identifier on its uplink (burnKey)
  EventDepth,   \* room for verdicts in the reconciler's mailbox
  ProbeDepth,   \* capacity of the prober's mailbox (64)
  Prompt,       \* whether the prober always rules within claimGiveUp
  Stops,        \* whether the process may be told to stop
  MaxChanges,   \* bound: changes of the surroundings
  FaultKinds,   \* what may fail: reads, commands, solicitations, messages, answers
  MaxFaults     \* bound: how often something fails

Host == {Ident[e] : e \in Entry}

ASSUME ClaimsAssumption ==
  /\ Entry \subseteq Nat
  /\ IsFiniteSet(Entry)
  /\ Ident \in [Entry -> Nat]
  /\ EventDepth \in Nat \ {0}
  /\ ProbeDepth \in Nat \ {0}
  /\ Prompt \in BOOLEAN /\ Stops \in BOOLEAN
  /\ MaxChanges \in Nat
  /\ FaultKinds \subseteq {"read", "command", "solicit", "message", "answer"}
  /\ MaxFaults \in Nat

VARIABLES
  desired,    \* Inventory.ProxyNeigh: learned hosts in assigned prefixes
  local,      \* State.Links.LocalV6: addresses configured on this host
  holder,     \* addresses another host on the link holds
  neigh,      \* the kernel's resolved neighbours
  proxy,      \* the kernel's proxy entries of ours
  changes,    \* changes of the surroundings so far
  faults,     \* faults so far
  stop,       \* the context of both loops is cancelled
  events,     \* verdicts waiting in the reconciler's mailbox
  probes,     \* the prober's mailbox: batches of claims and poll ticks
  pc,         \* where the reconciler's loop is
  probing,    \* State.Claims.Probing: the kind of the claim in flight
  overdue,    \* claims in flight whose deadline has passed
  conflicts,  \* State.Claims.Conflicts still remembered
  burned,     \* State.Claims.Burned
  proved,     \* State.Claims.Proved
  batch,      \* commands of the reconciler's pass not run yet
  ppc,        \* where the prober's loop is
  pending,    \* prober.pending: the kind of the claim being probed
  elapsed,    \* pending claims whose ProbeTimeout has run
  work,       \* actions of the prober's turn not run yet
  planned,    \* history: the entries the last pass wanted
  failed,     \* history: a read or command of this pass has failed
  contested,  \* history: identifiers another host was heard to answer for
  proof,      \* history: the entries a screened verdict found free, and not claimed since
  answered    \* history: entries answered for since they were last admitted

world   == <<desired, local, holder, changes, stop>>
claims  == <<probing, overdue, conflicts, burned, proved>>
prober  == <<ppc, pending, elapsed, work>>
history == <<planned, failed, contested, proof, answered>>
vars == <<world, neigh, proxy, faults, events, probes, pc, claims, batch, prober, history>>

None == "none"
Speculative == "speculative"
Screened == "screened"
Kind == {Speculative, Screened}

Claim   == [entry: Entry, kind: Kind]
Verdict == [entry: Entry, kind: Kind, contested: BOOLEAN]
Poll == {}                               \* Probe{Poll: true}: a batch of no claims

NoBatch == [withdraw |-> {}, install |-> {}, offer |-> {}]
NoWork  == [purge |-> {}, solicit |-> {}, report |-> {}]

TypeOK ==
  /\ desired \subseteq Entry /\ local \subseteq Entry /\ holder \subseteq Entry
  /\ neigh \subseteq Entry /\ proxy \subseteq Entry
  /\ changes \in 0..MaxChanges /\ faults \in 0..MaxFaults
  /\ stop \in BOOLEAN
  /\ events \in Seq(Verdict) /\ Len(events) <= EventDepth
  /\ probes \in Seq(SUBSET Claim) /\ Len(probes) <= ProbeDepth
  /\ pc \in {"select", "fold", "observe", "run", "shutdown", "cleanup", "done"}
  /\ probing \in [Entry -> Kind \cup {None}]
  /\ overdue \subseteq {e \in Entry : probing[e] # None}
  /\ conflicts \subseteq Entry /\ burned \subseteq Host /\ proved \subseteq Entry
  /\ batch \in [withdraw: SUBSET Entry, install: SUBSET Entry, offer: SUBSET Claim]
  /\ ppc \in {"idle", "run", "done"}
  /\ pending \in [Entry -> Kind \cup {None}]
  /\ elapsed \subseteq {e \in Entry : pending[e] # None}
  /\ work \in [purge: SUBSET Entry, solicit: SUBSET Entry, report: SUBSET Verdict]
  /\ planned \subseteq Entry /\ failed \in BOOLEAN
  /\ contested \subseteq Host
  /\ proof \subseteq Entry
  /\ answered \subseteq Entry

Init ==
  /\ desired \in SUBSET Entry /\ local = {} /\ holder \in SUBSET Entry
  /\ neigh \in SUBSET holder /\ proxy = {}
  /\ changes = 0 /\ faults = 0 /\ stop = FALSE
  /\ events = <<>> /\ probes = <<>>
  /\ pc = "select"
  /\ probing = [e \in Entry |-> None] /\ overdue = {}
  /\ conflicts = {} /\ burned = {} /\ proved = {}
  /\ batch = NoBatch
  /\ ppc = "idle" /\ pending = [e \in Entry |-> None] /\ elapsed = {}
  /\ work = NoWork
  /\ planned = {} /\ failed = FALSE /\ contested = {} /\ answered = {}
  /\ proof = {}

-----------------------------------------------------------------------------
(* The surroundings.                                                        *)

\* Batches are sorted by address (SortedEntries, SortedClaims).
IsFirst(e, S) == e \in S /\ \A f \in S : e <= f

\* Something of this kind fails.
Fault(kind) ==
  /\ kind \in FaultKinds
  /\ faults < MaxFaults
  /\ faults' = faults + 1

Toggle(S, e) == IF e \in S THEN S \ {e} ELSE S \cup {e}

\* Hosts are learned and age out, prefixes come and go; this host and the
\* others on the link take addresses and give them up.
WorldChanges(e) ==
  /\ changes < MaxChanges
  /\ changes' = changes + 1
  /\ \/ desired' = Toggle(desired, e) /\ UNCHANGED <<local, holder>>
     \/ local' = Toggle(local, e) /\ UNCHANGED <<desired, holder>>
     \/ holder' = Toggle(holder, e) /\ UNCHANGED <<desired, local>>
  /\ UNCHANGED <<stop, neigh, proxy, faults, events, probes, pc, claims, batch, prober, history>>

Cancel ==
  /\ Stops /\ ~stop
  /\ stop' = TRUE
  /\ UNCHANGED <<desired, local, holder, changes, neigh, proxy, faults, events, probes, pc,
                 claims, batch, prober, history>>

Solicited(e) == pending[e] # None /\ e \notin work.solicit

\* The holder of an address answers the solicitation.
HolderAnswers(e) ==
  /\ Solicited(e)
  /\ e \in holder \ neigh
  /\ neigh' = neigh \cup {e}
  /\ answered' = answered \cup {e}
  /\ UNCHANGED <<world, proxy, faults, events, probes, pc, claims, batch, prober,
                 planned, failed, contested, proof>>

\* The kernel drops a neighbour it no longer uses; not while it is probed.
NeighbourAges(e) ==
  /\ e \in neigh \ holder
  /\ pending[e] = None
  /\ neigh' = neigh \ {e}
  /\ UNCHANGED <<world, proxy, faults, events, probes, pc, claims, batch, prober, history>>

\* A probe's window runs out.  A holder that was asked has answered by then,
\* unless the question or the answer was lost on the link; a prober that is
\* not prompt may be so slow that the question has not left yet.
WindowRuns(e) ==
  /\ pending[e] # None
  /\ e \notin elapsed
  /\ Prompt => Solicited(e)
  /\ IF Solicited(e) /\ e \in holder \ neigh THEN Fault("answer") ELSE UNCHANGED faults
  /\ elapsed' = elapsed \cup {e}
  /\ UNCHANGED <<world, neigh, proxy, events, probes, pc, claims, batch,
                 ppc, pending, work, history>>

\* The question about e is on its way, being asked, or its answer on the way.
Outstanding(e) ==
  \/ \E j \in DOMAIN probes : \E c \in probes[j] : c.entry = e
  \/ pending[e] # None
  \/ \E v \in work.report : v.entry = e
  \/ \E j \in DOMAIN events : events[j].entry = e

\* Between passes, deadlines of claims pass and conflicts are forgotten.  A
\* deadline is four times the window of a probe: it passes on a claim that is
\* still outstanding only if the prober is that late.
DeadlinePasses(e) ==
  /\ pc = "select"
  /\ probing[e] # None
  /\ e \notin overdue
  /\ Prompt => ~Outstanding(e)
  /\ overdue' = overdue \cup {e}
  /\ UNCHANGED <<world, neigh, proxy, faults, events, probes, pc, probing, conflicts, burned,
                 proved, batch, prober, history>>

ConflictLapses(e) ==
  /\ pc = "select"
  /\ e \in conflicts
  /\ conflicts' = conflicts \ {e}
  /\ UNCHANGED <<world, neigh, proxy, faults, events, probes, pc, probing, overdue, burned,
                 proved, batch, prober, history>>

\* The poll ticker drops its tick when the mailbox is full; at most one tick
\* waits there, the period being longer than a turn.
PollTicks ==
  /\ ~stop
  /\ Len(probes) < ProbeDepth
  /\ \A j \in DOMAIN probes : probes[j] # Poll
  /\ probes' = Append(probes, Poll)
  /\ UNCHANGED <<world, neigh, proxy, faults, events, pc, claims, batch, prober, history>>

-----------------------------------------------------------------------------
(* The reconciler.                                                          *)

\* Something arrives: a verdict, or an event of another component.
Wake ==
  /\ pc = "select"
  /\ pc' = "fold"
  /\ UNCHANGED <<world, neigh, proxy, faults, events, probes, claims, batch, prober, history>>

\* The select takes a context that is done, if no event as well.
WakeToStop ==
  /\ pc = "select"
  /\ stop
  /\ pc' = "shutdown"
  /\ UNCHANGED <<world, neigh, proxy, faults, events, probes, claims, batch, prober, history>>

\* A bug: the identifiers are remembered, the conflict itself is not.
BurnOnly(E, conflicts0) ==
  /\ conflicts' = conflicts0
  /\ burned' = burned \cup {Ident[e] : e \in E}

\* recordConflict: the entries are refused for now, their identifiers for good.
RecordConflicts(E, conflicts0) ==
  /\ conflicts' = conflicts0 \cup E
  /\ burned' = burned \cup {Ident[e] : e \in E}

\* handleClaimVerified: a verdict counts only for the claim in flight, of its
\* kind; a screened claim found free is proved.
ClaimVerified(v) ==
  LET e == v.entry IN
  IF probing[e] # v.kind
  THEN UNCHANGED <<claims, contested, proof>>
  ELSE /\ probing' = [probing EXCEPT ![e] = None]
       /\ overdue' = overdue \ {e}
       /\ IF v.contested
          THEN /\ RecordConflicts({e}, conflicts)
               /\ UNCHANGED <<proved, proof>>
               /\ contested' = contested \cup {Ident[e]}
          ELSE /\ IF v.kind = Screened
                  THEN /\ conflicts' = conflicts \ {e}
                       /\ proved' = proved \cup {e}
                       /\ proof' = proof \cup {e}
                  ELSE UNCHANGED <<conflicts, proved, proof>>
               /\ UNCHANGED <<burned, contested>>

Receive ==
  /\ pc = "fold"
  /\ events # <<>>
  /\ ClaimVerified(Head(events))
  /\ events' = Tail(events)
  /\ UNCHANGED <<world, neigh, proxy, faults, probes, pc, batch, prober, planned, failed, answered>>

FoldDone ==
  /\ pc = "fold"
  /\ events = <<>>
  /\ pc' = "observe"
  /\ UNCHANGED <<world, neigh, proxy, faults, events, probes, claims, batch, prober, history>>

\* A bug: contested addresses are still wanted.
WantAll == desired

Want == desired \ conflicts

\* A bug: a claim without a verdict is never given up.
NeverSwept == probing

\* sweepInFlightClaims
InFlight == [e \in Entry |-> IF e \in overdue THEN None ELSE probing[e]]

\* A bug: an identifier is as clean as new once its conflict is forgotten.
Unremembered(e, refused) == e \notin conflicts

\* e's identifier has no history, nor has this pass given it one.
Clean(e, refused) ==
  /\ Ident[e] \notin burned
  /\ \A f \in refused : f < e => Ident[f] # Ident[e]

\* planClaims over the missing entries: an address of this host is refused, a
\* proved one installed, one with no history claimed on speculation, any other
\* screened.
PlanClaims(missing) ==
  LET idle    == {e \in missing : InFlight[e] = None}
      refused == idle \cap local
      ready   == (idle \ refused) \cap proved
      rest    == idle \ (refused \cup ready)
      spec    == {e \in rest : Clean(e, refused)}
  IN  [refused |-> refused, proved |-> ready, speculative |-> spec,
       screened |-> rest \ spec]

\* A bug: an address is installed whatever its claim.
InstallAll(p) == p.proved \cup p.speculative \cup p.screened

Installs(p) == p.proved \cup p.speculative

\* A pass: stale entries are withdrawn, missing ones claimed, the claims
\* offered to the prober in one message.
Plan ==
  LET p    == PlanClaims(Want \ proxy)
      kind == [e \in p.speculative \cup p.screened |->
                 IF e \in p.speculative THEN Speculative ELSE Screened]
  IN  /\ pc = "observe"
      /\ RecordConflicts(p.refused, conflicts)
      /\ proved' = proved \ p.proved
      /\ probing' = [e \in Entry |-> IF e \in DOMAIN kind THEN kind[e] ELSE InFlight[e]]
      /\ overdue' = {}
      /\ batch' = [withdraw |-> proxy \ Want,
                   install  |-> Installs(p),
                   offer    |-> {[entry |-> e, kind |-> kind[e]] : e \in DOMAIN kind}]
      /\ planned' = Want
      /\ failed' = FALSE
      /\ pc' = "run"
      /\ UNCHANGED <<world, neigh, proxy, faults, events, probes, prober, contested, proof, answered>>

\* With the proxy entries unreadable the pass only sweeps.
PlanBlind ==
  /\ pc = "observe"
  /\ Fault("read")
  /\ probing' = InFlight
  /\ overdue' = {}
  /\ failed' = TRUE
  /\ pc' = "run"
  /\ UNCHANGED <<world, neigh, proxy, events, probes, conflicts, burned, proved, batch, prober,
                 planned, contested, proof, answered>>

\* A command is run once; one that fails is left to the next pass.
Failure(kind) == Fault(kind) /\ failed' = TRUE

Withdraw(e) ==
  /\ pc \in {"run", "cleanup"}
  /\ IsFirst(e, batch.withdraw)
  /\ batch' = [batch EXCEPT !.withdraw = @ \ {e}]
  /\ \/ proxy' = proxy \ {e} /\ UNCHANGED <<faults, failed>>
     \/ Failure("command") /\ UNCHANGED proxy
  /\ UNCHANGED <<world, neigh, events, probes, pc, claims, prober, planned, contested, proof, answered>>

\* Withdrawals come first, the offer last.
Install(e) ==
  /\ pc = "run"
  /\ batch.withdraw = {}
  /\ IsFirst(e, batch.install)
  /\ batch' = [batch EXCEPT !.install = @ \ {e}]
  /\ \/ /\ proxy' = proxy \cup {e}
        /\ proof' = proof \ {e}
        /\ UNCHANGED <<faults, failed>>
     \/ Failure("command") /\ UNCHANGED <<proxy, proof>>
  /\ UNCHANGED <<world, neigh, events, probes, pc, claims, prober, planned, contested, answered>>

\* Send: a full mailbox drops the whole batch of claims.
Offer ==
  /\ pc = "run"
  /\ batch.withdraw = {} /\ batch.install = {}
  /\ batch.offer # {}
  /\ batch' = NoBatch
  /\ probes' = IF Len(probes) < ProbeDepth THEN Append(probes, batch.offer) ELSE probes
  /\ UNCHANGED <<world, neigh, proxy, faults, events, pc, claims, prober, history>>

\* The next turn begins with a look at the context.
PassDone ==
  /\ pc = "run"
  /\ batch = NoBatch
  /\ pc' = IF stop THEN "shutdown" ELSE "select"
  /\ UNCHANGED <<world, neigh, proxy, faults, events, probes, claims, batch, prober, history>>

\* A bug: entries whose probe is under way are left to the prober.
Settled == {e \in proxy : probing[e] = None}

Leftovers == proxy

\* The last turn: every entry found is withdrawn, unless they are unreadable.
PlanShutdown ==
  /\ pc = "shutdown"
  /\ pc' = "cleanup"
  /\ \/ batch' = [NoBatch EXCEPT !.withdraw = Leftovers] /\ failed' = FALSE /\ UNCHANGED faults
     \/ Failure("read") /\ UNCHANGED batch
  /\ probing' = [e \in Entry |-> None] /\ overdue' = {}
  /\ conflicts' = {} /\ proved' = {}
  /\ UNCHANGED <<world, neigh, proxy, events, probes, burned, prober, planned, contested, proof, answered>>

CleanupDone ==
  /\ pc = "cleanup"
  /\ batch = NoBatch
  /\ pc' = "done"
  /\ UNCHANGED <<world, neigh, proxy, faults, events, probes, claims, batch, prober, history>>

-----------------------------------------------------------------------------
(* The prober.                                                              *)

TakeProbe(b) ==
  /\ ppc = "idle"
  /\ probes # <<>>
  /\ Head(probes) = b
  /\ probes' = Tail(probes)
  /\ ppc' = "run"

\* A bug: what the kernel has cached is taken at its word.
CacheTrusted(E) == {}

Cached(E) == E \cap neigh

\* A batch is admitted but for the claims already being probed: cached
\* neighbours are purged, then each address is solicited.
Admit ==
  \E b \in {probes[j] : j \in DOMAIN probes} \ {Poll} :
    LET fresh == {c \in b : pending[c.entry] = None}
        E     == {c.entry : c \in fresh}
        kind(e) == (CHOOSE c \in fresh : c.entry = e).kind
    IN  /\ TakeProbe(b)
        /\ pending' = [e \in Entry |-> IF e \in E THEN kind(e) ELSE pending[e]]
        /\ answered' = answered \ E
        /\ \/ work' = [NoWork EXCEPT !.purge = Cached(E), !.solicit = E] /\ UNCHANGED faults
           \/ Fault("read") /\ work' = [NoWork EXCEPT !.solicit = E]
        /\ UNCHANGED <<world, neigh, proxy, events, pc, claims, batch, elapsed,
                       planned, failed, contested, proof>>

\* A poll rules on what it can: contested if the address has resolved, free if
\* its window has run.  An unreadable neighbour table reads as an empty one.
PollNeighbours ==
  /\ TakeProbe(Poll)
  /\ \E resolved \in {neigh, {}} :
       LET held  == {e \in resolved : pending[e] # None}
           ruled == held \cup elapsed
       IN  /\ IF resolved = neigh THEN UNCHANGED faults ELSE Fault("read")
           /\ work' = [NoWork EXCEPT !.report =
                         {[entry |-> e, kind |-> pending[e], contested |-> e \in held] : e \in ruled}]
           /\ pending' = [e \in Entry |-> IF e \in ruled THEN None ELSE pending[e]]
           /\ elapsed' = elapsed \ ruled
  /\ UNCHANGED <<world, neigh, proxy, events, pc, claims, batch, history>>

Purge(e) ==
  /\ ppc = "run"
  /\ IsFirst(e, work.purge)
  /\ work' = [work EXCEPT !.purge = @ \ {e}]
  /\ \/ neigh' = neigh \ {e} /\ UNCHANGED faults
     \/ Fault("command") /\ UNCHANGED neigh
  /\ UNCHANGED <<world, proxy, events, probes, pc, claims, batch, ppc, pending, elapsed, history>>

\* A solicitation that never left is not waited on.
Solicit(e) ==
  /\ ppc = "run"
  /\ work.purge = {}
  /\ IsFirst(e, work.solicit)
  /\ work' = [work EXCEPT !.solicit = @ \ {e}]
  /\ \/ UNCHANGED <<pending, elapsed, faults>>
     \/ /\ Fault("solicit")
        /\ pending' = [pending EXCEPT ![e] = None]
        /\ elapsed' = elapsed \ {e}
  /\ UNCHANGED <<world, neigh, proxy, events, probes, pc, claims, batch, ppc, history>>

\* A bug: the reconciler's mailbox takes any number of verdicts.
Boundless(v) == Append(events, v)

\* Send: a full mailbox drops the verdict.
Delivery(v) == IF Len(events) < EventDepth THEN Append(events, v) ELSE events

\* Verdicts are sent without waiting, the contested ones first.
Report(v) ==
  /\ ppc = "run"
  /\ v \in work.report
  /\ \A w \in work.report : \/ v.contested /\ ~w.contested
                            \/ v.contested = w.contested /\ v.entry <= w.entry
  /\ work' = [work EXCEPT !.report = @ \ {v}]
  /\ \/ /\ events' = Delivery(v)
        /\ UNCHANGED faults
     \/ Fault("message") /\ UNCHANGED events
  /\ UNCHANGED <<world, neigh, proxy, probes, pc, claims, batch, ppc, pending, elapsed, history>>

TurnDone ==
  /\ ppc = "run"
  /\ work = NoWork
  /\ ppc' = "idle"
  /\ UNCHANGED <<world, neigh, proxy, faults, events, probes, pc, claims, batch,
                 pending, elapsed, work, history>>

ProberStops ==
  /\ ppc = "idle"
  /\ stop
  /\ ppc' = "done"
  /\ UNCHANGED <<world, neigh, proxy, faults, events, probes, pc, claims, batch,
                 pending, elapsed, work, history>>

-----------------------------------------------------------------------------
Surroundings ==
  \/ Cancel \/ PollTicks
  \/ \E e \in Entry : \/ WorldChanges(e) \/ HolderAnswers(e) \/ NeighbourAges(e)
                      \/ WindowRuns(e) \/ DeadlinePasses(e) \/ ConflictLapses(e)

Reconciler ==
  \/ Wake \/ WakeToStop \/ Receive \/ FoldDone \/ Plan \/ PlanBlind \/ Offer \/ PassDone
  \/ PlanShutdown \/ CleanupDone
  \/ \E e \in Entry : Withdraw(e) \/ Install(e)

Prober ==
  \/ Admit \/ PollNeighbours \/ TurnDone \/ ProberStops
  \/ \E e \in Entry : Purge(e) \/ Solicit(e)
  \/ \E v \in work.report : Report(v)

Next == Surroundings \/ Reconciler \/ Prober

Spec == Init /\ [][Next]_vars

\* Both loops run, tickers tick and a host that is asked answers.  Time passes
\* between passes: a deadline is reached, and a conflict forgotten, although the
\* reconciler is in the middle of a pass again and again (strong fairness).
Fairness ==
  /\ WF_vars(Reconciler) /\ WF_vars(Prober) /\ WF_vars(PollTicks)
  /\ \A e \in Entry :
       /\ WF_vars(HolderAnswers(e)) /\ WF_vars(WindowRuns(e))
       /\ SF_vars(DeadlinePasses(e)) /\ SF_vars(ConflictLapses(e))

FairSpec == Spec /\ Fairness

-----------------------------------------------------------------------------
(* Properties.                                                              *)

\* An address is never answered for while it is being proved free: a screened
\* claim in flight has no entry in the kernel (planClaims, proxyEntryActions).
NeverAnsweredWhileProving ==
  \A e \in Entry : probing[e] = Screened => e \notin proxy \cup batch.install

\* A pass whose reads and commands all succeeded leaves in the kernel nothing
\* but what it wanted and has not refused, and leaves out, of what it wanted,
\* only what is being probed or was refused (proxyEntryDiff, planClaims and the
\* order of the batch, against verdicts and sweeps since the last pass).
PassSettles ==
  pc = "run" /\ batch = NoBatch /\ ~failed =>
    /\ proxy \subseteq planned \ conflicts
    /\ \A e \in planned \ proxy : probing[e] # None \/ e \in conflicts

\* An identifier that another host was heard to answer for is claimed again
\* only on a proof, and a proof is spent by the claim it allows. The proof may
\* be older than the latest conflict: planClaims (ndpclaim.go:34) asks whether
\* there is one, not when it was given.
NoBlindReclaim ==
  [][\A e \in proxy' \ proxy : Ident[e] \in contested => e \in proof]_vars

\* As long as nothing fails, an address is called contested only if a host
\* answered for it since it was admitted: what the kernel had cached from
\* earlier does not count (PurgeClaimActions before SolicitAction).
ContestIsFresh ==
  faults = 0 => \A v \in work.report : v.contested => v.entry \in answered

\* A clean last turn leaves no entry of ours behind, whatever claims, offers
\* and verdicts were under way.
CleanExit == pc = "done" /\ ~failed => proxy = {}

\* README.md: "An address someone else answers for is claimed briefly, then
\* retracted": as long as nothing fails, an address that another host holds all
\* along does not stay in the kernel.
ContestedIsRetracted ==
  \A e \in Entry : [](e \in holder /\ faults = 0) => (e \in proxy ~> e \notin proxy)

\* A wanted address that nobody else holds ends up answered for, whatever its
\* history, and whatever offers, solicitations and verdicts were lost.
FreeIsAnswered ==
  \A e \in Entry :
    <>[](e \in desired /\ e \notin local \cup holder /\ ~stop) => <>[](e \in proxy)

=============================================================================
