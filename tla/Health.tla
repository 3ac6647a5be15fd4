------------------------------- MODULE Health -------------------------------
(***************************************************************************)
(* Gateway health: the protocol between the reconciler ("Event loop") and  *)
(* the health monitors it runs as child actors.                            *)
(*                                                                         *)
(* Source: internal/reconcile/health.go, events.go, absorb.go (the gateway *)
(* read), and internal/actor (mailboxes, children, the loop and its reap). *)
(*                                                                         *)
(* A monitor probes one target and sends a verdict into the reconciler's   *)
(* bounded mailbox when its verdict differs from the last one it managed   *)
(* to send; a send into a full mailbox is dropped.  The reconciler drains  *)
(* its mailbox, reads the kernel, and stops and starts monitors so that    *)
(* each wanted target has one.  A monitor that was stopped may still       *)
(* deliver: its verdict carries its identity and is discarded.             *)
(*                                                                         *)
(* One address family is modelled: a key is an uplink with a probe, and    *)
(* monitors of different families share only the identity counter.         *)
(***************************************************************************)
EXTENDS Integers, Sequences, FiniteSets

CONSTANTS
  Key,                 \* the uplinks that are probed (healthKey)
  Addr,                \* gateway addresses; NoAddr is a point-to-point link
  UnhealthyThreshold,  \* consecutive failures that make a gateway Failed
  HealthyThreshold,    \* consecutive successes that make it Healthy again
  QueueDepth,          \* capacity of the reconciler's mailbox (256 in main.go)
  MaxChanges           \* bound: gateway changes in the kernel

NoAddr == 0

ASSUME HealthAssumption ==
  /\ IsFiniteSet(Key)
  /\ Addr \subseteq Nat
  /\ UnhealthyThreshold \in Nat \ {0}
  /\ HealthyThreshold \in Nat \ {0}
  /\ QueueDepth \in Nat \ {0}
  /\ MaxChanges \in Nat

VARIABLES
  kernel,     \* kernel[k]: the gateways of k's default routes
  alive,      \* the <<key, address>> targets that answer a probe now
  notes,      \* kernel notifications the route watcher has not posted yet
  changes,    \* gateway changes so far, at most MaxChanges
  ctxDone,    \* the context given to the reconciler is cancelled
  inbox,      \* the reconciler's mailbox
  pc,         \* where the reconciler's loop is
  gateways,   \* State.Routes.Gateways
  monitors,   \* State.Health.Monitors: identity of k's monitor, 0 for none
  unhealthy,  \* State.Health.Unhealthy
  monSeq,     \* last monitor identity given out
  toStop,     \* stop actions of the batch not run yet
  toStart,    \* start actions of the batch not run yet
  children,   \* the reconciler's children list
  mon         \* mon[i]: the monitor of identity i

env  == <<kernel, alive, notes, changes, ctxDone>>
rec  == <<pc, gateways, monitors, unhealthy, monSeq, toStop, toStart, children>>
vars == <<env, inbox, rec, mon>>

MonId == 1..monSeq

Healthy == "healthy"
Failed  == "failed"
Verdict == {Healthy, Failed}

\* The events that only wake the reconciler: a changed route, a resync tick.
RouteEvent  == [kind |-> "route"]
ResyncEvent == [kind |-> "resync"]

\* HealthChanged: the identity of the monitor that judged, its key, its verdict.
HealthEvent(i, k, v) == [kind |-> "health", id |-> i, key |-> k, verdict |-> v]

Monitor == [key: Key, target: Addr, cancelled: BOOLEAN,
            phase: {"new", "tick", "probe", "report", "exited"},
            st: Verdict, consecutive: Nat, sent: Verdict]

Event == {RouteEvent, ResyncEvent}
           \cup [kind: {"health"}, id: MonId, key: Key, verdict: Verdict]

TypeOK ==
  /\ kernel \in [Key -> SUBSET Addr]
  /\ alive \subseteq Key \X Addr
  /\ notes \in Nat
  /\ changes \in 0..MaxChanges
  /\ ctxDone \in BOOLEAN
  /\ inbox \in Seq(Event)
  /\ Len(inbox) <= QueueDepth
  /\ pc \in {"check", "select", "fold", "observe", "run", "shutdown", "reap", "done"}
  /\ gateways \in [Key -> SUBSET Addr]
  /\ monSeq \in Nat
  /\ monitors \in [Key -> 0..monSeq]
  /\ unhealthy \subseteq Key
  /\ toStop \subseteq MonId
  /\ toStart \subseteq MonId
  /\ children \subseteq MonId
  /\ mon \in [MonId -> Monitor]

Init ==
  /\ kernel \in [Key -> SUBSET Addr]
  /\ alive = Key \X Addr
  /\ notes = 0
  /\ changes = 0
  /\ ctxDone = FALSE
  /\ inbox = <<ResyncEvent>>
  /\ pc = "check"
  /\ gateways = [k \in Key |-> {}]
  /\ monitors = [k \in Key |-> 0]
  /\ unhealthy = {}
  /\ monSeq = 0
  /\ toStop = {}
  /\ toStart = {}
  /\ children = {}
  /\ mon = [i \in {} |-> 0]

-----------------------------------------------------------------------------
(* The surroundings: the kernel, the probed hosts, the watcher, the ticker. *)

HasRoom == Len(inbox) < QueueDepth

\* The gateways of an uplink change, and the kernel notifies the watcher.
GatewaysChange(k, S) ==
  /\ changes < MaxChanges
  /\ S # kernel[k]
  /\ kernel' = [kernel EXCEPT ![k] = S]
  /\ notes' = notes + 1
  /\ changes' = changes + 1
  /\ UNCHANGED <<alive, ctxDone, inbox, rec, mon>>

\* A target starts or stops answering.
TargetFlips(t) ==
  /\ alive' = IF t \in alive THEN alive \ {t} ELSE alive \cup {t}
  /\ UNCHANGED <<kernel, notes, changes, ctxDone, inbox, rec, mon>>

\* The process is told to stop.
Cancel ==
  /\ ~ctxDone
  /\ ctxDone' = TRUE
  /\ UNCHANGED <<kernel, alive, notes, changes, inbox, rec, mon>>

\* Post blocks until the mailbox has room or the context is done.
WatcherPosts ==
  /\ notes > 0
  /\ \/ HasRoom /\ inbox' = Append(inbox, RouteEvent)
     \/ ctxDone /\ UNCHANGED inbox
  /\ notes' = notes - 1
  /\ UNCHANGED <<kernel, alive, changes, ctxDone, rec, mon>>

\* The reconcile ticker drops its tick when the mailbox is full.  A period is
\* far longer than a drain: no tick lands in the middle of one, and an earlier
\* tick has been taken out.
ResyncTicks ==
  /\ ~ctxDone
  /\ pc # "fold"
  /\ \A j \in 1..Len(inbox) : inbox[j] # ResyncEvent
  /\ HasRoom
  /\ inbox' = Append(inbox, ResyncEvent)
  /\ UNCHANGED <<env, rec, mon>>

-----------------------------------------------------------------------------
(* The monitors.                                                            *)

Cancelled(i) == ctxDone \/ mon[i].cancelled

\* A verdict changes only after a full run of opposite results; any other
\* result resets the run.
Streak(m, pass) ==
  LET against   == pass # (m.st = Healthy)
      threshold == IF m.st = Healthy THEN UnhealthyThreshold ELSE HealthyThreshold
  IN  IF ~against THEN [m EXCEPT !.consecutive = 0]
      ELSE IF m.consecutive + 1 >= threshold
      THEN [m EXCEPT !.st = IF m.st = Healthy THEN Failed ELSE Healthy,
                     !.consecutive = 0]
      ELSE [m EXCEPT !.consecutive = @ + 1]

\* A cancelled context makes the probe in flight fail.
Answers(i) == <<mon[i].key, mon[i].target>> \in alive

MayResult(i, pass) == IF pass THEN Answers(i) ELSE ~Answers(i) \/ Cancelled(i)

\* The select takes the tick, even if the context is done as well.
MonitorTicks(i) ==
  /\ mon[i].phase = "tick"
  /\ mon' = [mon EXCEPT ![i].phase = "probe"]
  /\ UNCHANGED <<env, inbox, rec>>

MonitorExits(i) ==
  /\ mon[i].phase = "tick"
  /\ Cancelled(i)
  /\ mon' = [mon EXCEPT ![i].phase = "exited"]
  /\ UNCHANGED <<env, inbox, rec>>

\* A bug: an unhealthy gateway is reported after every probe.
FailureIsNews(m) == m.sent # m.st \/ m.st = Failed

\* There is a verdict to report only if it is not the one last sent.
HasNews(m) == m.sent # m.st

MonitorProbes(i) ==
  /\ mon[i].phase = "probe"
  /\ \E pass \in BOOLEAN :
       LET m == Streak(mon[i], pass) IN
       /\ MayResult(i, pass)
       /\ mon' = [mon EXCEPT ![i] =
                    [m EXCEPT !.phase = IF HasNews(m) THEN "report" ELSE "tick"]]
  /\ UNCHANGED <<env, inbox, rec>>

Delivered(m) == [m EXCEPT !.phase = "tick", !.sent = m.st]

\* A bug: a dropped verdict counts as sent.
DroppedAsSent(m) == Delivered(m)

\* A dropped verdict is still news after the next probe.
Dropped(m) == [m EXCEPT !.phase = "tick"]

\* A bug: the report waits for room in the mailbox.
MonitorPosts(i) ==
  /\ mon[i].phase = "report"
  /\ HasRoom
  /\ inbox' = Append(inbox, HealthEvent(i, mon[i].key, mon[i].st))
  /\ mon' = [mon EXCEPT ![i] = Delivered(@)]
  /\ UNCHANGED <<env, rec>>

\* Send never blocks: it delivers the verdict or drops it.
MonitorReports(i) ==
  /\ mon[i].phase = "report"
  /\ \/ /\ HasRoom
        /\ inbox' = Append(inbox, HealthEvent(i, mon[i].key, mon[i].st))
        /\ mon' = [mon EXCEPT ![i] = Delivered(@)]
     \/ /\ ~HasRoom
        /\ mon' = [mon EXCEPT ![i] = Dropped(@)]
        /\ UNCHANGED inbox
  /\ UNCHANGED <<env, rec>>

-----------------------------------------------------------------------------
(* The reconciler.                                                          *)

\* foldBatch looks at the context before it waits for an event.
CheckStop ==
  /\ pc = "check"
  /\ pc' = IF ctxDone THEN "shutdown" ELSE "select"
  /\ UNCHANGED <<env, inbox, gateways, monitors, unhealthy, monSeq, toStop, toStart, children, mon>>

SelectStop ==
  /\ pc = "select"
  /\ ctxDone
  /\ pc' = "shutdown"
  /\ UNCHANGED <<env, inbox, gateways, monitors, unhealthy, monSeq, toStop, toStart, children, mon>>

\* A bug: a verdict counts whichever monitor of the key it comes from.
HandleAny(ev) ==
  unhealthy' = IF ev.kind # "health" \/ monitors[ev.key] = 0 THEN unhealthy
               ELSE IF ev.verdict = Healthy THEN unhealthy \ {ev.key}
               ELSE unhealthy \cup {ev.key}

\* A verdict counts only if it comes from the monitor that runs for its key.
Handle(ev) ==
  unhealthy' = IF ev.kind # "health" \/ monitors[ev.key] # ev.id THEN unhealthy
               ELSE IF ev.verdict = Healthy THEN unhealthy \ {ev.key}
               ELSE unhealthy \cup {ev.key}

Receive ==
  /\ pc \in {"select", "fold"}
  /\ inbox # <<>>
  /\ Handle(Head(inbox))
  /\ inbox' = Tail(inbox)
  /\ pc' = "fold"
  /\ UNCHANGED <<env, gateways, monitors, monSeq, toStop, toStart, children, mon>>

FoldDone ==
  /\ pc = "fold"
  /\ inbox = <<>>
  /\ pc' = "observe"
  /\ UNCHANGED <<env, inbox, gateways, monitors, unhealthy, monSeq, toStop, toStart, children, mon>>

\* preferTarget: a target with an address first, then the lower address.
Preferred(a, b) ==
  IF (a = NoAddr) = (b = NoAddr) THEN a < b ELSE a # NoAddr

Target(S) == CHOOSE a \in S : \A b \in S \ {a} : Preferred(a, b)

\* The identities that follow on from monSeq, given out one to a key of K.
NewIds(K) ==
  LET ids == (monSeq + 1)..(monSeq + Cardinality(K)) IN
  {f \in [K -> ids] : \A i \in ids : \E k \in K : \A l \in K : f[l] = i <=> l = k}

NewMonitor(k, a) ==
  [key |-> k, target |-> a, cancelled |-> FALSE, phase |-> "new",
   st |-> Healthy, consecutive |-> 0, sent |-> Healthy]

\* A bug: a monitor stays as long as its uplink has a gateway.
StaysOnUplink(g) == {k \in Key : monitors[k] # 0 /\ g[k] # {}}

\* A monitor stays if its target is still the wanted one of gateways g.
Stays(g) ==
  {k \in Key : /\ monitors[k] # 0
               /\ g[k] # {}
               /\ mon[monitors[k]].target = Target(g[k])}

\* syncMonitors: the other monitors are stopped, and forgotten with what they
\* said; the targets without one get a new one.
SyncMonitors(g) ==
  LET stays   == Stays(g)
      stopped == {k \in Key : monitors[k] # 0} \ stays
      started == {k \in Key : g[k] # {}} \ stays
  IN  \E id \in NewIds(started) :
        /\ monSeq' = monSeq + Cardinality(started)
        /\ monitors' = [k \in Key |-> IF k \in stays THEN monitors[k]
                                      ELSE IF k \in started THEN id[k] ELSE 0]
        /\ unhealthy' = unhealthy \ stopped
        /\ toStop' = {monitors[k] : k \in stopped}
        /\ toStart' = {id[k] : k \in started}
        /\ mon' = [i \in 1..(monSeq + Cardinality(started)) |->
                     IF i \in MonId THEN mon[i]
                     ELSE LET k == CHOOSE x \in started : id[x] = i
                          IN  NewMonitor(k, Target(g[k]))]

\* A pass: the gateways are read from the kernel, or kept if the read fails,
\* and the monitors are brought in line with them.
Plan ==
  /\ pc = "observe"
  /\ gateways' \in {kernel, gateways}
  /\ SyncMonitors(gateways')
  /\ pc' = "run"
  /\ UNCHANGED <<env, inbox, children>>

\* Stop actions come before start actions.
StopMonitor(i) ==
  /\ pc = "run"
  /\ i \in toStop
  /\ mon' = [mon EXCEPT ![i].cancelled = TRUE]
  /\ toStop' = toStop \ {i}
  /\ UNCHANGED <<env, inbox, pc, gateways, monitors, unhealthy, monSeq, toStart, children>>

\* A bug: the children that were told to stop are dropped from the list.
Uncancelled == {c \in children : ~mon[c].cancelled}

\* The children that have not finished.
Unfinished == {c \in children : mon[c].phase # "exited"}

\* Adopt drops the children that have finished, appends the new one, starts it.
StartMonitor(i) ==
  /\ pc = "run"
  /\ toStop = {}
  /\ i \in toStart
  /\ children' = Unfinished \cup {i}
  /\ mon' = [mon EXCEPT ![i].phase = "tick"]
  /\ toStart' = toStart \ {i}
  /\ UNCHANGED <<env, inbox, pc, gateways, monitors, unhealthy, monSeq, toStop>>

BatchDone ==
  /\ pc = "run"
  /\ toStop = {} /\ toStart = {}
  /\ pc' = "check"
  /\ UNCHANGED <<env, inbox, gateways, monitors, unhealthy, monSeq, toStop, toStart, children, mon>>

\* The last batch is run, the context cancelled and every child told to stop.
Shutdown ==
  /\ pc = "shutdown"
  /\ mon' = [i \in MonId |-> [mon[i] EXCEPT !.cancelled = @ \/ i \in children]]
  /\ pc' = "reap"
  /\ UNCHANGED <<env, inbox, gateways, monitors, unhealthy, monSeq, toStop, toStart, children>>

\* reap waits for each child in turn before the loop is done.
ReapDone ==
  /\ pc = "reap"
  /\ \A c \in children : mon[c].phase = "exited"
  /\ pc' = "done"
  /\ UNCHANGED <<env, inbox, gateways, monitors, unhealthy, monSeq, toStop, toStart, children, mon>>

Reconciler ==
  \/ CheckStop \/ SelectStop \/ Receive \/ FoldDone \/ Plan
  \/ \E i \in MonId : StopMonitor(i) \/ StartMonitor(i)
  \/ BatchDone \/ Shutdown \/ ReapDone

MonitorStep(i) ==
  MonitorTicks(i) \/ MonitorExits(i) \/ MonitorProbes(i) \/ MonitorReports(i)

Surroundings ==
  \/ \E k \in Key, S \in SUBSET Addr : GatewaysChange(k, S)
  \/ \E t \in Key \X Addr : TargetFlips(t)
  \/ Cancel \/ WatcherPosts \/ ResyncTicks

Next == Reconciler \/ (\E i \in MonId : MonitorStep(i)) \/ Surroundings

Spec == Init /\ [][Next]_vars

\* Monitor identities a behaviour can reach: one per key to begin with, and at
\* most one more for each change of a gateway.
Slot == 1..(Cardinality(Key) + MaxChanges)

\* Every goroutine that can run does.  The ticker of a cancelled monitor and
\* its context are both ready: Go picks among ready cases at random, so the
\* monitor is not kept from leaving for ever (strong fairness), and probes are
\* seconds apart, so a drain does get to the last event and does find the
\* mailbox empty.  A read of the kernel that is repeated every period does not
\* fail for ever.
Fairness ==
  /\ WF_vars(Reconciler)
  /\ SF_vars(Receive /\ inbox' = <<>>) /\ SF_vars(FoldDone)
  /\ SF_vars(Plan /\ gateways' = kernel)
  /\ WF_vars(WatcherPosts) /\ WF_vars(ResyncTicks)
  /\ \A i \in Slot :
       /\ WF_vars(i \in MonId /\ MonitorStep(i))
       /\ SF_vars(i \in MonId /\ MonitorExits(i))

FairSpec == Spec /\ Fairness

-----------------------------------------------------------------------------
(* Properties.                                                              *)

\* The verdicts of monitor i that wait in the mailbox, by position.
Mail(i) == {j \in DOMAIN inbox : inbox[j].kind = "health" /\ inbox[j].id = i}

LastOf(J) == {j \in J : \A l \in J : l <= j}

\* What a monitor believes it has told the reconciler is what the reconciler
\* will hold once it has drained its mailbox: dropped sends, verdicts of
\* monitors since stopped and restarts in between never make the two differ
\* (healthMonitor.sent against State.Health.Unhealthy).
VerdictKept ==
  \A k \in Key :
    monitors[k] # 0 =>
      LET i == monitors[k] IN
      /\ \A j \in LastOf(Mail(i)) : inbox[j].verdict = mon[i].sent
      /\ Mail(i) = {} => (k \in unhealthy <=> mon[i].sent = Failed)

\* Why VerdictKept lasts: a verdict in the mailbox carries the key of the
\* monitor that gave it, the monitor kept for a key is that key's, and a key
\* without a monitor is not held unhealthy, so that a verdict is applied to the
\* key it is about and a new monitor starts from a clean slate.
KeptInv ==
  /\ TypeOK
  /\ VerdictKept
  /\ \A j \in DOMAIN inbox :
       inbox[j].kind = "health" => inbox[j].key = mon[inbox[j].id].key
  /\ \A k \in Key : monitors[k] # 0 => mon[monitors[k]].key = k
  /\ \A k \in unhealthy : monitors[k] # 0

\* A gateway is held unhealthy only while a monitor runs for it, and every
\* verdict of that monitor in the mailbox turns the one before it: no verdict
\* is delivered twice, so none takes the place of another in a full mailbox.
EveryVerdictIsNews ==
  \A k \in Key :
    /\ k \in unhealthy => monitors[k] # 0
    /\ monitors[k] # 0 =>
         \A j \in Mail(monitors[k]) :
           LET before == {l \in Mail(monitors[k]) : l < j} IN
           /\ \A l \in LastOf(before) : inbox[j].verdict # inbox[l].verdict
           /\ before = {} => (inbox[j].verdict = Healthy <=> k \in unhealthy)

\* The uplinks that have a monitor, those of them whose monitor has sent a failure
\* last, and how many verdicts of its monitor an uplink has in the mailbox.
Watched == {k \in Key : monitors[k] # 0}
Said    == {k \in Watched : mon[monitors[k]].sent = Failed}
Owed    == [k \in Key |-> IF monitors[k] = 0 THEN 0 ELSE Cardinality(Mail(monitors[k]))]

\* What the reconciler holds of its uplinks is what Beliefs promises: verdicts that
\* were dropped, that are late or of a monitor since replaced, and a mailbox in which
\* they wait among other events, do not show.
Promise == INSTANCE Beliefs WITH
  Depth <- QueueDepth, watched <- Watched, said <- Said, held <- unhealthy, owed <- Owed

BeliefsKept == Promise!Spec

Started(i) == mon[i].phase # "new"
Running(i) == mon[i].phase \notin {"new", "exited"}

\* Once a batch has run, the monitors that have not been told to stop are
\* exactly those the reconciler keeps, one per wanted target and probing it;
\* during a batch the difference is what is still to stop and to start.
OneMonitorPerTarget ==
  /\ pc \in {"check", "select", "fold", "observe", "run"} =>
       \A i \in MonId :
         (~mon[i].cancelled) = (i \in toStop \/ \E k \in Key : monitors[k] = i)
  /\ \A k \in Key :
       monitors[k] # 0 =>
         /\ mon[monitors[k]].key = k
         /\ Started(monitors[k]) = (monitors[k] \notin toStart)
  /\ pc # "observe" =>
       \A k \in Key : IF gateways[k] = {} THEN monitors[k] = 0
                      ELSE monitors[k] # 0 /\ mon[monitors[k]].target = Target(gateways[k])

\* Every monitor goroutine that runs is on the list the loop reaps, so none
\* outlives the reconciler (Adopt's pruning against reap).
NoneOutlivesTheLoop ==
  /\ \A i \in MonId : Running(i) => i \in children
  /\ pc = "done" => \A i \in MonId : ~Running(i)

\* If k's wanted target stays as it is, and keeps failing or keeps answering,
\* the reconciler ends up holding exactly that of it, whatever was lost,
\* delayed or restarted on the way.
Settled(k, up) ==
  /\ ~ctxDone
  /\ kernel[k] # {}
  /\ (<<k, Target(kernel[k])>> \in alive) = up

BeliefConverges ==
  \A k \in Key, up \in BOOLEAN :
    <>[]Settled(k, up) => <>[]((k \in unhealthy) = ~up /\ monitors[k] # 0)

\* A cancelled reconciler finishes: it leaves its loop, and its monitors leave
\* theirs although nobody reads the mailbox they report to any more.
ShutdownCompletes == ctxDone ~> pc = "done"

=============================================================================
