---------------------------- MODULE HealthProofs ----------------------------
(***************************************************************************)
(* What holds of the health protocol for any number of uplinks, addresses, *)
(* thresholds and any capacity of the mailbox.                             *)
(***************************************************************************)
EXTENDS Health, FiniteSetTheorems, WellFoundedInduction, TLAPS

-----------------------------------------------------------------------------
(* Type correctness.                                                        *)

\* A queue keeps its type when the type of its elements grows.
LEMMA SeqGrows ==
  ASSUME NEW S, NEW T, S \subseteq T, NEW q \in Seq(S)
  PROVE  q \in Seq(T)
  OBVIOUS

\* What is left of a queue, and a queue with one more element.
LEMMA QueueOps ==
  ASSUME NEW S, NEW q \in Seq(S)
  PROVE  /\ q # <<>> => /\ Head(q) \in S
                        /\ Tail(q) \in Seq(S)
                        /\ Len(Tail(q)) = Len(q) - 1
                        /\ Len(q) > 0
         /\ \A x \in S : /\ Append(q, x) \in Seq(S)
                         /\ Len(Append(q, x)) = Len(q) + 1
  OBVIOUS

\* A probe's result changes nothing of a monitor but its verdict and its run.
LEMMA StreakType ==
  ASSUME NEW m \in Monitor, NEW pass \in BOOLEAN
  PROVE  /\ Streak(m, pass) \in Monitor
         /\ Streak(m, pass).key = m.key
         /\ Streak(m, pass).sent = m.sent
         /\ Streak(m, pass).phase = m.phase
         /\ Streak(m, pass).target = m.target
         /\ Streak(m, pass).cancelled = m.cancelled
<1>1. CASE Streak(m, pass) = [m EXCEPT !.consecutive = 0]
  BY <1>1 DEF Monitor
<1>2. ASSUME NEW v \in Verdict,
             Streak(m, pass) = [m EXCEPT !.st = v, !.consecutive = 0]
      PROVE  /\ Streak(m, pass) \in Monitor
             /\ Streak(m, pass).key = m.key
             /\ Streak(m, pass).sent = m.sent
             /\ Streak(m, pass).phase = m.phase
             /\ Streak(m, pass).target = m.target
             /\ Streak(m, pass).cancelled = m.cancelled
  <2> DEFINE n == [m EXCEPT !.st = v, !.consecutive = 0]
  <2>1. /\ n \in Monitor /\ n.key = m.key /\ n.sent = m.sent /\ n.phase = m.phase
        /\ n.target = m.target /\ n.cancelled = m.cancelled
    BY DEF Monitor
  <2> QED
    BY <1>2, <2>1
<1>3. CASE Streak(m, pass) = [m EXCEPT !.consecutive = m.consecutive + 1]
  BY <1>3 DEF Monitor
<1>4. \/ Streak(m, pass) = [m EXCEPT !.consecutive = 0]
      \/ \E v \in Verdict : Streak(m, pass) = [m EXCEPT !.st = v, !.consecutive = 0]
      \/ Streak(m, pass) = [m EXCEPT !.consecutive = m.consecutive + 1]
  BY Zenon DEF Streak, Verdict
<1> QED
  BY <1>1, <1>2, <1>3, <1>4

\* A set of natural numbers that is not empty has a least element.
LEMMA Least ==
  ASSUME NEW S \in SUBSET Nat, S # {}
  PROVE  \E m \in S : \A n \in S : m <= n
<1> DEFINE R == OpToRel(<, Nat)
<1>1. \A x, y \in Nat : <<x, y>> \in R <=> x < y
  BY DEF OpToRel
<1>2. IsWellFoundedOn(R, Nat)
  BY NatLessThanWellFounded
<1> HIDE DEF R
<1>3. PICK m \in S : \A n \in S : <<n, m>> \notin R
  BY <1>2, WFMin
<1>4. \A n \in S : ~(n < m)
  BY <1>1, <1>3, Zenon
<1> QED
  BY <1>4

\* Among the gateways of an uplink there is one preferTarget prefers to the others.
LEMMA TargetType ==
  ASSUME NEW S \in SUBSET Addr, S # {}
  PROVE  Target(S) \in S
<1>1. S \subseteq Nat
  BY HealthAssumption
<1>2. \E a \in S : \A b \in S \ {a} : Preferred(a, b)
  <2>1. CASE S \subseteq {NoAddr}
    BY <2>1
  <2>2. CASE ~(S \subseteq {NoAddr})
    <3>1. PICK m \in S \ {NoAddr} : \A n \in S \ {NoAddr} : m <= n
      BY <1>1, <2>2, Least
    <3> WITNESS m \in S
    <3> QED
      BY <1>1, <3>1 DEF Preferred
  <2> QED
    BY <2>1, <2>2
<1> QED
  BY <1>2, Zenon DEF Target

\* What syncMonitors does to monitors and their identities: the ones it knew
\* stay as they are, the ones it adds are new, have said nothing, and are their
\* key's; what it held of a key it holds only if the monitor stays.
LEMMA SyncFacts ==
  ASSUME TypeOK, NEW g \in [Key -> SUBSET Addr], SyncMonitors(g)
  PROVE  /\ monSeq' \in Nat /\ monSeq <= monSeq'
         /\ monitors' \in [Key -> 0..monSeq']
         /\ unhealthy' \subseteq unhealthy
         /\ toStop' \subseteq MonId'
         /\ toStart' \subseteq MonId'
         /\ mon' \in [MonId' -> Monitor]
         /\ \A i \in MonId : mon'[i] = mon[i]
         /\ \A i \in MonId' \ MonId : mon'[i].phase = "new" /\ mon'[i].sent = Healthy
         /\ \A k \in Key :
              \/ monitors'[k] = 0
              \/ monitors'[k] = monitors[k]
              \/ monitors'[k] \in MonId' \ MonId /\ mon'[monitors'[k]].key = k
         /\ \A k \in Key : monitors[k] # 0 =>
              (k \in unhealthy' <=> k \in unhealthy /\ monitors'[k] = monitors[k])
<1> DEFINE stays   == Stays(g)
           stopped == {k \in Key : monitors[k] # 0} \ stays
           started == {k \in Key : g[k] # {}} \ stays
           n       == monSeq + Cardinality(started)
<1>1. PICK id \in NewIds(started) :
        /\ monSeq' = n
        /\ monitors' = [k \in Key |-> IF k \in stays THEN monitors[k]
                                      ELSE IF k \in started THEN id[k] ELSE 0]
        /\ unhealthy' = unhealthy \ stopped
        /\ toStop' = {monitors[k] : k \in stopped}
        /\ toStart' = {id[k] : k \in started}
        /\ mon' = [i \in 1..n |->
                     IF i \in MonId THEN mon[i]
                     ELSE LET k == CHOOSE x \in started : id[x] = i
                          IN  NewMonitor(k, Target(g[k]))]
  BY Zenon DEF SyncMonitors
<1>2. Cardinality(started) \in Nat
  BY FS_CardinalityType, FS_Subset, HealthAssumption
<1>3. monSeq' \in Nat /\ monSeq <= monSeq'
  BY <1>1, <1>2 DEF TypeOK
<1>4. /\ id \in [started -> (monSeq + 1)..n]
      /\ \A i \in (monSeq + 1)..n :
           \E k \in started : \A l \in started : id[l] = i <=> l = k
  BY DEF NewIds
<1> DEFINE New(i) == CHOOSE x \in started : id[x] = i
<1>5. \A i \in (monSeq + 1)..n : New(i) \in started /\ id[New(i)] = i
  BY <1>4, Zenon
<1>6. \A k \in started : New(id[k]) = k
  <2> TAKE k \in started
  <2>1. id[k] \in (monSeq + 1)..n
    BY <1>4
  <2>2. New(id[k]) \in started /\ id[New(id[k])] = id[k]
    BY <1>5, <2>1
  <2>3. PICK x \in started : \A l \in started : id[l] = id[k] <=> l = x
    BY <1>4, <2>1
  <2> QED
    BY <2>2, <2>3, Zenon
<1>7. stays \subseteq Key /\ \A k \in stays : monitors[k] \in MonId
  BY DEF Stays, TypeOK, MonId
<1>8. \A k \in started : Target(g[k]) \in Addr
  BY TargetType
<1>9. \A k \in started : LET m == NewMonitor(k, Target(g[k])) IN
        /\ m \in Monitor /\ m.phase = "new" /\ m.sent = Healthy /\ m.key = k
  BY <1>8 DEF NewMonitor, Monitor, Verdict, Healthy
<1>10. monSeq \in Nat /\ n \in Nat /\ monSeq <= n
  BY <1>2 DEF TypeOK
<1> HIDE DEF stays, stopped, started, n, New
<1>11. MonId' = 1..n
  BY <1>1 DEF MonId
<1>12. MonId' = 1..n /\ MonId' \ MonId = (monSeq + 1)..n /\ MonId \subseteq MonId'
  <2>1. \A i : i \in 1..n /\ i \notin 1..monSeq <=> i \in (monSeq + 1)..n
    BY <1>10
  <2>2. \A i \in 1..monSeq : i \in 1..n
    BY <1>10
  <2> QED
    BY <1>11, <2>1, <2>2, Zenon DEF MonId
<1>13. \A i \in MonId' \ MonId : mon'[i] = NewMonitor(New(i), Target(g[New(i)]))
  BY <1>1, <1>12, Zenon DEF New
<1>14. \A i \in MonId : mon'[i] = mon[i]
  BY <1>1, <1>12, Zenon
<1>15. mon' \in [MonId' -> Monitor]
  <2>1. \A i \in MonId' : mon'[i] \in Monitor
    <3> TAKE i \in MonId'
    <3>1. CASE i \in MonId
      BY <1>14, <3>1 DEF TypeOK
    <3>2. CASE i \notin MonId
      BY <1>5, <1>9, <1>12, <1>13, <3>2
    <3> QED
      BY <3>1, <3>2
  <2>2. DOMAIN mon' = MonId' /\ mon' = [i \in MonId' |-> mon'[i]]
    BY <1>1, <1>12
  <2> QED
    BY <2>1, <2>2
<1>16. \A i \in MonId' \ MonId : mon'[i].phase = "new" /\ mon'[i].sent = Healthy
  BY <1>5, <1>9, <1>12, <1>13
<1>17. \A k \in started : k \notin stays
  BY DEF started
<1>18. \A k \in Key :
         \/ k \in stays /\ monitors'[k] = monitors[k]
         \/ k \in started \ stays /\ monitors'[k] = id[k]
         \/ k \notin stays \cup started /\ monitors'[k] = 0
  BY <1>1
<1>19. \A k \in started : id[k] \in MonId' \ MonId /\ mon'[id[k]].key = k
  BY <1>4, <1>6, <1>9, <1>12, <1>13
<1>20. monitors' \in [Key -> 0..monSeq']
  <2>1. \A k \in Key : monitors'[k] \in 0..monSeq'
    <3> TAKE k \in Key
    <3>1. CASE monitors'[k] = monitors[k]
      BY <1>3, <3>1 DEF TypeOK
    <3>2. CASE k \in started /\ monitors'[k] = id[k]
      BY <1>3, <1>19, <3>2 DEF MonId
    <3>3. CASE monitors'[k] = 0
      BY <1>3, <3>3
    <3> QED
      BY <1>18, <3>1, <3>2, <3>3
  <2> QED
    BY <1>1, <2>1
<1>21. toStop' \subseteq MonId' /\ toStart' \subseteq MonId'
  <2>1. \A k \in stopped : k \in Key /\ monitors[k] # 0
    BY DEF stopped
  <2>2. \A k \in stopped : monitors[k] \in MonId
    BY <2>1 DEF TypeOK, MonId
  <2>3. toStop' \subseteq MonId'
    BY <1>1, <1>12, <2>2, Zenon
  <2>4. toStart' \subseteq MonId'
    BY <1>1, <1>19, Zenon
  <2> QED
    BY <2>3, <2>4
<1>22. \A k \in Key : monitors[k] # 0 =>
         (k \in unhealthy' <=> k \in unhealthy /\ monitors'[k] = monitors[k])
  <2>1. \A k \in Key : monitors[k] # 0 /\ k \notin stopped => k \in stays
    BY DEF stopped
  <2> QED
    <3> SUFFICES ASSUME NEW k \in Key, monitors[k] # 0
                 PROVE  k \in unhealthy' <=> k \in unhealthy /\ monitors'[k] = monitors[k]
      OBVIOUS
    <3>1. CASE k \in stays
      <4>1. k \notin stopped
        BY <3>1 DEF stopped
      <4> QED
        BY <1>1, <1>18, <1>17, <3>1, <4>1
    <3>2. CASE k \notin stays
      <4>1. k \in stopped
        BY <2>1, <3>2
      <4>2. monitors[k] \in MonId
        BY DEF TypeOK, MonId
      <4>3. monitors'[k] # monitors[k]
        BY <1>18, <1>19, <3>2, <4>2
      <4> QED
        BY <1>1, <4>1, <4>3
    <3> QED
      BY <3>1, <3>2
<1> QED
  BY <1>1, <1>3, <1>14, <1>15, <1>16, <1>18, <1>19, <1>20, <1>21, <1>22

\* The initial state has the types.
LEMMA TypeInit ==
  Init => TypeOK
<1> SUFFICES ASSUME Init PROVE TypeOK
  OBVIOUS
<1>1. inbox \in Seq(Event) /\ Len(inbox) = 1
  BY DEF Init, Event
<1>2. mon \in [MonId -> Monitor]
  BY DEF Init, MonId
<1> QED
  <2>1. /\ kernel \in [Key -> SUBSET Addr] /\ gateways \in [Key -> SUBSET Addr]
        /\ monitors \in [Key -> 0..monSeq]
    BY DEF Init
  <2>2. alive \subseteq Key \X Addr /\ notes \in Nat /\ changes \in 0..MaxChanges
    BY HealthAssumption DEF Init
  <2>3. ctxDone \in BOOLEAN /\ monSeq \in Nat /\ unhealthy \subseteq Key
    BY DEF Init
  <2>4. toStop \subseteq MonId /\ toStart \subseteq MonId /\ children \subseteq MonId
    BY DEF Init
  <2>5. Len(inbox) <= QueueDepth /\ pc = "check"
    BY <1>1, HealthAssumption DEF Init
  <2> QED
    BY <1>1, <1>2, <2>1, <2>2, <2>3, <2>4, <2>5 DEF TypeOK

\* The steps of the surroundings keep the types.
LEMMA TypeSurroundings ==
  ASSUME TypeOK, Surroundings
  PROVE  TypeOK'
<1>1. ASSUME NEW k \in Key, NEW S \in SUBSET Addr, GatewaysChange(k, S)
      PROVE  TypeOK'
  BY <1>1, HealthAssumption DEF TypeOK, GatewaysChange, rec, MonId, Event
<1>2. ASSUME NEW t \in Key \X Addr, TargetFlips(t)
      PROVE  TypeOK'
  BY <1>2 DEF TypeOK, TargetFlips, rec, MonId, Event
<1>3. CASE Cancel
  BY <1>3 DEF TypeOK, Cancel, rec, MonId, Event
<1>4. ASSUME NEW e \in {RouteEvent, ResyncEvent}, HasRoom, inbox' = Append(inbox, e)
      PROVE  inbox' \in Seq(Event) /\ Len(inbox') <= QueueDepth
  BY <1>4, QueueOps, HealthAssumption DEF TypeOK, HasRoom, Event
<1>5. CASE WatcherPosts
  <2>1. inbox' \in Seq(Event) /\ Len(inbox') <= QueueDepth
    BY <1>4, <1>5 DEF WatcherPosts, TypeOK
  <2> QED
    BY <1>5, <2>1 DEF TypeOK, WatcherPosts, rec, MonId, Event
<1>6. CASE ResyncTicks
  <2>1. inbox' \in Seq(Event) /\ Len(inbox') <= QueueDepth
    BY <1>4, <1>6 DEF ResyncTicks
  <2> QED
    BY <1>6, <2>1 DEF TypeOK, ResyncTicks, env, rec, MonId, Event
<1> QED
  BY <1>1, <1>2, <1>3, <1>5, <1>6 DEF Surroundings

\* What a monitor does changes a field of its record, and the mailbox at most
\* by one verdict of its own.
LEMMA TypeMonitorStep ==
  ASSUME TypeOK, NEW i \in MonId, MonitorStep(i)
  PROVE  TypeOK'
<1>1. ASSUME NEW m \in Monitor, mon' = [mon EXCEPT ![i] = m], UNCHANGED <<env, rec>>,
             inbox' \in Seq(Event), Len(inbox') <= QueueDepth
      PROVE  TypeOK'
  BY <1>1 DEF TypeOK, env, rec, MonId, Event
<1>2. mon[i] \in Monitor
  BY DEF TypeOK
<1>3. CASE MonitorTicks(i)
  <2>1. [mon[i] EXCEPT !.phase = "probe"] \in Monitor
    BY <1>2 DEF Monitor
  <2> QED
    BY <1>1, <1>3, <2>1 DEF MonitorTicks, TypeOK
<1>4. CASE MonitorExits(i)
  <2>1. [mon[i] EXCEPT !.phase = "exited"] \in Monitor
    BY <1>2 DEF Monitor
  <2> QED
    BY <1>1, <1>4, <2>1 DEF MonitorExits, TypeOK
<1>5. CASE MonitorProbes(i)
  <2>1. PICK pass \in BOOLEAN :
          mon' = [mon EXCEPT ![i] = [Streak(mon[i], pass) EXCEPT !.phase =
                    IF HasNews(Streak(mon[i], pass)) THEN "report" ELSE "tick"]]
    BY <1>5, Zenon DEF MonitorProbes
  <2>2. Streak(mon[i], pass) \in Monitor
    BY <1>2, StreakType
  <2>3. \A p \in {"report", "tick"} : [Streak(mon[i], pass) EXCEPT !.phase = p] \in Monitor
    BY <2>2 DEF Monitor
  <2> QED
    BY <1>1, <1>5, <2>1, <2>3 DEF MonitorProbes, TypeOK
<1>6. CASE MonitorReports(i)
  <2>1. Delivered(mon[i]) \in Monitor /\ Dropped(mon[i]) \in Monitor
    BY <1>2 DEF Delivered, Dropped, Monitor
  <2>2. HealthEvent(i, mon[i].key, mon[i].st) \in Event
    BY <1>2 DEF HealthEvent, Event, Monitor
  <2>3. inbox' \in Seq(Event) /\ Len(inbox') <= QueueDepth
    <3> DEFINE e == HealthEvent(i, mon[i].key, mon[i].st)
    <3>1. Append(inbox, e) \in Seq(Event) /\ Len(Append(inbox, e)) = Len(inbox) + 1
      BY <2>2, QueueOps DEF TypeOK
    <3>2. CASE HasRoom /\ inbox' = Append(inbox, e)
      BY <3>1, <3>2, HealthAssumption DEF HasRoom, TypeOK
    <3>3. CASE UNCHANGED inbox
      BY <3>3 DEF TypeOK
    <3> QED
      BY <1>6, <3>2, <3>3 DEF MonitorReports
  <2> QED
    BY <1>1, <1>6, <2>1, <2>3 DEF MonitorReports
<1> QED
  BY <1>3, <1>4, <1>5, <1>6 DEF MonitorStep

\* What a pass leaves of the types: SyncMonitors keeps them, and the mailbox
\* and the children are as they were.
LEMMA TypePlan ==
  ASSUME TypeOK, Plan
  PROVE  TypeOK'
<1>1. gateways' \in [Key -> SUBSET Addr] /\ SyncMonitors(gateways')
  BY DEF Plan, TypeOK
<1>2. /\ monSeq' \in Nat /\ monSeq <= monSeq'
      /\ monitors' \in [Key -> 0..monSeq']
      /\ unhealthy' \subseteq unhealthy
      /\ toStop' \subseteq MonId' /\ toStart' \subseteq MonId'
      /\ mon' \in [MonId' -> Monitor]
  BY <1>1, SyncFacts
<1>3. MonId \subseteq MonId'
  BY <1>2 DEF MonId, TypeOK
<1>4. Event \subseteq Event'
  BY <1>3 DEF Event
<1>5. inbox' \in Seq(Event')
  BY <1>4, SeqGrows DEF Plan, TypeOK
<1> QED
  BY <1>1, <1>2, <1>3, <1>5 DEF TypeOK, Plan, env

\* The steps of the reconciler keep the types.
LEMMA TypeReconciler ==
  ASSUME TypeOK, Reconciler
  PROVE  TypeOK'
<1>1. CASE CheckStop \/ SelectStop \/ FoldDone \/ BatchDone \/ ReapDone
  BY <1>1 DEF TypeOK, CheckStop, SelectStop, FoldDone, BatchDone, ReapDone, env, MonId, Event
<1>2. CASE Receive
  <2>1. inbox' \in Seq(Event) /\ Len(inbox') <= QueueDepth /\ Head(inbox) \in Event
    BY <1>2, QueueOps, HealthAssumption DEF Receive, TypeOK
  <2>2. unhealthy' \subseteq Key
    BY <1>2, <2>1 DEF Receive, Handle, TypeOK, Event, RouteEvent, ResyncEvent
  <2> QED
    BY <1>2, <2>1, <2>2 DEF TypeOK, Receive, env, MonId, Event
<1>3. CASE Plan
  BY <1>3, TypePlan
<1>4. ASSUME NEW i \in MonId, StopMonitor(i)
      PROVE  TypeOK'
  <2>1. [mon[i] EXCEPT !.cancelled = TRUE] \in Monitor
    BY DEF TypeOK, Monitor
  <2> QED
    BY <1>4, <2>1 DEF TypeOK, StopMonitor, env, MonId, Event
<1>5. ASSUME NEW i \in MonId, StartMonitor(i)
      PROVE  TypeOK'
  <2>1. [mon[i] EXCEPT !.phase = "tick"] \in Monitor
    BY DEF TypeOK, Monitor
  <2> QED
    BY <1>5, <2>1 DEF TypeOK, StartMonitor, Unfinished, env, MonId, Event
<1>6. CASE Shutdown
  <2>1. \A i \in MonId, c \in BOOLEAN : [mon[i] EXCEPT !.cancelled = c] \in Monitor
    BY DEF TypeOK, Monitor
  <2>2. \A i \in MonId : [mon[i] EXCEPT !.cancelled = @ \/ i \in children] \in Monitor
    BY <2>1
  <2>3. mon' \in [MonId -> Monitor]
    BY <1>6, <2>2, Zenon DEF Shutdown
  <2> QED
    BY <1>6, <2>3 DEF TypeOK, Shutdown, env, MonId, Event
<1> QED
  BY <1>1, <1>2, <1>3, <1>4, <1>5, <1>6 DEF Reconciler

\* So does every step.
LEMMA TypeNext ==
  TypeOK /\ [Next]_vars => TypeOK'
<1> SUFFICES ASSUME TypeOK, [Next]_vars PROVE TypeOK'
  OBVIOUS
<1>1. CASE UNCHANGED vars
  BY <1>1 DEF TypeOK, vars, env, rec, MonId, Event
<1> QED
  BY <1>1, TypeReconciler, TypeMonitorStep, TypeSurroundings DEF Next

\* Every variable keeps its type, and the mailbox its capacity.
THEOREM TypeCorrect ==
  Spec => []TypeOK
<1> QED
  BY TypeInit, TypeNext, PTL DEF Spec

-----------------------------------------------------------------------------
(* No monitor outlives the loop.                                            *)

\* A step of a monitor does not make it run, nor any other.
LEMMA MonitorStepRuns ==
  ASSUME TypeOK, NEW i \in MonId, MonitorStep(i)
  PROVE  /\ Running(i)
         /\ UNCHANGED rec
         /\ \A j \in MonId : Running(j)' => Running(j)
<1>1. Running(i)
  BY DEF MonitorStep, MonitorTicks, MonitorExits, MonitorProbes, MonitorReports, Running
<1>2. UNCHANGED rec
  BY DEF MonitorStep, MonitorTicks, MonitorExits, MonitorProbes, MonitorReports
<1>3. \A j \in MonId \ {i} : mon'[j] = mon[j]
  BY DEF TypeOK, MonitorStep, MonitorTicks, MonitorExits, MonitorProbes, MonitorReports
<1> QED
  BY <1>1, <1>2, <1>3 DEF Running

\* No monitor runs initially.
LEMMA NoneOutlivesInit ==
  Init => NoneOutlivesTheLoop
  BY DEF Init, NoneOutlivesTheLoop, MonId

\* A monitor that runs is a child before and after every step: Adopt drops
\* only children that have exited, and the loop ends only once all have.
LEMMA NoneOutlivesNext ==
  TypeOK /\ NoneOutlivesTheLoop /\ [Next]_vars => NoneOutlivesTheLoop'
<1> SUFFICES ASSUME TypeOK, NoneOutlivesTheLoop, [Next]_vars
             PROVE  NoneOutlivesTheLoop'
  OBVIOUS
<1>1. CASE UNCHANGED vars
  BY <1>1 DEF NoneOutlivesTheLoop, Running, MonId, vars, rec
<1>2. CASE Surroundings
  BY <1>2 DEF NoneOutlivesTheLoop, Running, MonId, rec, Surroundings, GatewaysChange,
              TargetFlips, Cancel, WatcherPosts, ResyncTicks
<1>3. ASSUME NEW i \in MonId, MonitorStep(i)
      PROVE  NoneOutlivesTheLoop'
  BY <1>3, MonitorStepRuns DEF NoneOutlivesTheLoop, MonId, rec
<1>4. CASE Reconciler
  <2>1. CASE CheckStop \/ SelectStop \/ FoldDone \/ BatchDone \/ Receive
    BY <2>1 DEF NoneOutlivesTheLoop, Running, MonId,
                CheckStop, SelectStop, FoldDone, BatchDone, Receive
  <2>2. CASE ReapDone
    BY <2>2 DEF NoneOutlivesTheLoop, Running, MonId, ReapDone, TypeOK
  <2>3. CASE Plan
    <3>1. gateways' \in [Key -> SUBSET Addr] /\ SyncMonitors(gateways')
      BY <2>3 DEF Plan, TypeOK
    <3>2. /\ \A i \in MonId : mon'[i] = mon[i]
          /\ \A i \in MonId' \ MonId : mon'[i].phase = "new"
      BY <3>1, SyncFacts
    <3> QED
      BY <2>3, <3>2 DEF NoneOutlivesTheLoop, Running, Plan
  <2>4. ASSUME NEW i \in MonId, StopMonitor(i)
        PROVE  NoneOutlivesTheLoop'
    BY <2>4 DEF NoneOutlivesTheLoop, Running, MonId, StopMonitor, TypeOK, Monitor
  <2>5. ASSUME NEW i \in MonId, StartMonitor(i)
        PROVE  NoneOutlivesTheLoop'
    BY <2>5 DEF NoneOutlivesTheLoop, Running, MonId, StartMonitor, Unfinished, TypeOK, Monitor
  <2>6. CASE Shutdown
    <3>1. \A i \in MonId : mon'[i].phase = mon[i].phase
      BY <2>6 DEF Shutdown, TypeOK, Monitor
    <3> QED
      BY <2>6, <3>1 DEF NoneOutlivesTheLoop, Running, MonId, Shutdown
  <2> QED
    BY <1>4, <2>1, <2>2, <2>3, <2>4, <2>5, <2>6 DEF Reconciler
<1> QED
  BY <1>1, <1>2, <1>3, <1>4 DEF Next

\* However often monitors are replaced, the children the loop reaps are enough:
\* none runs that is not among them, and none runs once the loop is done.
THEOREM MonitorsAreReaped ==
  Spec => []NoneOutlivesTheLoop
<1> QED
  BY TypeCorrect, NoneOutlivesInit, NoneOutlivesNext, PTL DEF Spec

-----------------------------------------------------------------------------
(* The reconciler's belief and the monitors' own agree.                     *)

\* An event that is no verdict leaves the verdicts in the mailbox as they are.
LEMMA MailOfOthers ==
  ASSUME TypeOK, NEW e \in {RouteEvent, ResyncEvent}, inbox' = Append(inbox, e)
  PROVE  /\ \A i : Mail(i)' = Mail(i)
         /\ \A j \in DOMAIN inbox : inbox'[j] = inbox[j]
         /\ \A j \in DOMAIN inbox' : inbox'[j].kind = "health" => j \in DOMAIN inbox
<1>1. inbox \in Seq(Event) /\ e.kind # "health"
  BY DEF TypeOK, RouteEvent, ResyncEvent
<1>2. \A j \in DOMAIN inbox : inbox'[j] = inbox[j]
  BY <1>1
<1>3. DOMAIN inbox' = DOMAIN inbox \cup {Len(inbox) + 1} /\ inbox'[Len(inbox) + 1] = e
  BY <1>1
<1>4. \A j \in DOMAIN inbox' : inbox'[j].kind = "health" => j \in DOMAIN inbox
  BY <1>1, <1>3
<1>5. \A i : Mail(i)' = Mail(i)
  BY <1>2, <1>3, <1>4, Zenon DEF Mail
<1> QED
  BY <1>2, <1>4, <1>5

\* A verdict that is delivered is the last of its monitor's.
LEMMA MailDelivered ==
  ASSUME TypeOK, NEW i \in MonId, NEW e, e.kind = "health", e.id = i,
         inbox' = Append(inbox, e)
  PROVE  /\ \A l \in MonId \ {i} : Mail(l)' = Mail(l)
         /\ Mail(i)' # {}
         /\ \A j \in LastOf(Mail(i)') : inbox'[j] = e
         /\ \A j \in DOMAIN inbox : inbox'[j] = inbox[j]
         /\ \A j \in DOMAIN inbox' : j \in DOMAIN inbox \/ inbox'[j] = e
<1> DEFINE n == Len(inbox) + 1
<1>1. inbox \in Seq(Event) /\ e.kind = "health" /\ e.id = i
  BY DEF TypeOK
<1>2. \A j \in DOMAIN inbox : inbox'[j] = inbox[j] /\ j \in Nat /\ j < n
  BY <1>1
<1>3. DOMAIN inbox' = DOMAIN inbox \cup {n} /\ inbox'[n] = e /\ n \in Nat
  BY <1>1
<1> HIDE DEF n
<1>4. \A l \in MonId \ {i} : Mail(l)' = Mail(l)
  <2> TAKE l \in MonId \ {i}
  <2>1. \A j : j \in Mail(l)' <=> j \in Mail(l)
    BY <1>1, <1>2, <1>3, Zenon DEF Mail
  <2> QED
    BY <2>1, Zenon
<1>5. n \in Mail(i)' /\ \A j \in Mail(i)' : j \in DOMAIN inbox \/ j = n
  BY <1>1, <1>3 DEF Mail
<1>6. \A j \in LastOf(Mail(i)') : j = n
  BY <1>2, <1>3, <1>5 DEF LastOf
<1> QED
  BY <1>2, <1>3, <1>4, <1>5, <1>6

\* What is taken from the mailbox is its first event; the others move up.
LEMMA MailReceived ==
  ASSUME TypeOK, inbox # <<>>, inbox' = Tail(inbox)
  PROVE  /\ Head(inbox) = inbox[1] /\ 1 \in DOMAIN inbox
         /\ \A j \in DOMAIN inbox' : j + 1 \in DOMAIN inbox /\ inbox'[j] = inbox[j + 1]
         /\ \A i : \A j \in Mail(i)' : j + 1 \in Mail(i)
         /\ \A i : \A j \in LastOf(Mail(i)') : j + 1 \in LastOf(Mail(i))
         /\ \A i : Mail(i)' = {} => Mail(i) \subseteq {1}
<1>1. inbox \in Seq(Event)
  BY DEF TypeOK
<1>2. Head(inbox) = inbox[1] /\ 1 \in DOMAIN inbox
  BY <1>1
<1>3. \A j \in DOMAIN inbox' : j \in Nat /\ j + 1 \in DOMAIN inbox /\ inbox'[j] = inbox[j + 1]
  BY <1>1
<1>4. \A j \in DOMAIN inbox \ {1} : j - 1 \in DOMAIN inbox' /\ inbox'[j - 1] = inbox[j]
  BY <1>1
<1>5. ASSUME NEW i, NEW j \in Mail(i)'
      PROVE  j + 1 \in Mail(i) /\ j \in Nat
  BY <1>3 DEF Mail
<1>6. ASSUME NEW i, NEW j \in Mail(i) \ {1}
      PROVE  j - 1 \in Mail(i)'
  BY <1>4 DEF Mail
<1>7. \A j \in DOMAIN inbox : j \in Nat
  BY <1>1
<1>8. ASSUME NEW i, NEW j \in LastOf(Mail(i)')
      PROVE  j + 1 \in LastOf(Mail(i))
  <2>1. j \in Mail(i)' /\ j \in Nat /\ j + 1 \in Mail(i)
    BY <1>5 DEF LastOf
  <2>2. ASSUME NEW l \in Mail(i)
        PROVE  l <= j + 1
    <3>1. l \in Nat
      BY <1>7 DEF Mail
    <3>2. CASE l = 1
      BY <2>1, <3>2
    <3>3. CASE l # 1
      <4>1. l - 1 \in Mail(i)'
        BY <1>6, <3>3
      <4>2. l - 1 <= j
        BY <4>1 DEF LastOf
      <4> QED
        BY <2>1, <3>1, <4>2
    <3> QED
      BY <3>2, <3>3
  <2> QED
    BY <2>1, <2>2 DEF LastOf
<1> QED
  BY <1>2, <1>3, <1>5, <1>6, <1>8

\* A verdict in the mailbox is from a monitor that there is or was.
LEMMA MailIds ==
  ASSUME TypeOK
  PROVE  \A j \in DOMAIN inbox : inbox[j].kind = "health" => inbox[j].id \in MonId
<1>1. \A j \in DOMAIN inbox : inbox[j] \in Event
  BY DEF TypeOK
<1> QED
  BY <1>1 DEF Event, RouteEvent, ResyncEvent

\* Steps that leave alone the mailbox's verdicts, what is held of the keys, and
\* what the monitors have sent, keep the invariant.
LEMMA KeptStutter ==
  ASSUME KeptInv, TypeOK',
         \A i : Mail(i)' = Mail(i),
         \A j \in DOMAIN inbox : inbox'[j] = inbox[j],
         \A j \in DOMAIN inbox' : inbox'[j].kind = "health" => j \in DOMAIN inbox,
         UNCHANGED <<monitors, unhealthy, monSeq>>,
         \A i \in MonId : mon'[i].key = mon[i].key /\ mon'[i].sent = mon[i].sent
  PROVE  KeptInv'
<1>1. \A k \in Key : monitors[k] # 0 => monitors[k] \in MonId
  BY DEF KeptInv, TypeOK, MonId
<1>2. VerdictKept'
  <2>1. \A i : \A j \in LastOf(Mail(i)) : j \in DOMAIN inbox
    BY DEF LastOf, Mail
  <2> QED
    BY <1>1, <2>1 DEF KeptInv, VerdictKept
<1>3. \A j \in DOMAIN inbox' :
        inbox'[j].kind = "health" => inbox'[j].key = mon'[inbox'[j].id].key
  BY MailIds DEF KeptInv
<1>4. \A k \in Key : monitors'[k] # 0 => mon'[monitors'[k]].key = k
  BY <1>1 DEF KeptInv
<1>5. \A k \in unhealthy' : monitors'[k] # 0
  BY DEF KeptInv
<1> QED
  BY <1>2, <1>3, <1>4, <1>5 DEF KeptInv

\* Nothing is held of any key initially, and there is no monitor.
LEMMA KeptInit ==
  Init => KeptInv
<1> SUFFICES ASSUME Init PROVE KeptInv
  OBVIOUS
<1>1. TypeOK
  BY TypeInit
<1>2. DOMAIN inbox = {1} /\ inbox[1].kind = "resync"
  BY DEF Init, ResyncEvent
<1>3. \A k \in Key : monitors[k] = 0
  BY DEF Init
<1>4. unhealthy = {}
  BY DEF Init
<1> QED
  BY <1>1, <1>2, <1>3, <1>4 DEF KeptInv, VerdictKept

\* A verdict delivered is what its monitor now believes it has told.
LEMMA KeptReport ==
  ASSUME KeptInv, TypeOK', NEW i \in MonId, MonitorReports(i)
  PROVE  KeptInv'
<1>1. TypeOK /\ mon[i] \in Monitor /\ UNCHANGED rec
  BY DEF KeptInv, TypeOK, MonitorReports
<1>2. CASE ~HasRoom
  <2>1. UNCHANGED inbox /\ mon' = [mon EXCEPT ![i] = Dropped(mon[i])]
    BY <1>2 DEF MonitorReports
  <2>2. \A l \in MonId : mon'[l].key = mon[l].key /\ mon'[l].sent = mon[l].sent
    BY <1>1, <2>1 DEF Dropped, Monitor, TypeOK
  <2> QED
    BY <1>1, <2>1, <2>2, KeptStutter DEF rec, Mail
<1>3. CASE HasRoom
  <2> DEFINE e == HealthEvent(i, mon[i].key, mon[i].st)
  <2>1. inbox' = Append(inbox, e) /\ mon' = [mon EXCEPT ![i] = Delivered(mon[i])]
    BY <1>3 DEF MonitorReports
  <2>2. /\ \A l \in MonId \ {i} : mon'[l] = mon[l]
        /\ mon'[i].key = mon[i].key /\ mon'[i].sent = mon[i].st
    BY <1>1, <2>1 DEF Delivered, Monitor, TypeOK
  <2>3. e.kind = "health" /\ e.key = mon[i].key /\ e.id = i /\ e.verdict = mon[i].st
    BY DEF HealthEvent
  <2> HIDE DEF e
  <2>4. /\ \A l \in MonId \ {i} : Mail(l)' = Mail(l)
        /\ Mail(i)' # {}
        /\ \A j \in LastOf(Mail(i)') : inbox'[j] = e
        /\ \A j \in DOMAIN inbox : inbox'[j] = inbox[j]
        /\ \A j \in DOMAIN inbox' : j \in DOMAIN inbox \/ inbox'[j] = e
    BY <1>1, <2>1, <2>3, MailDelivered
  <2>5. \A k \in Key : monitors[k] # 0 => monitors[k] \in MonId
    BY <1>1 DEF TypeOK, MonId
  <2>6. VerdictKept'
    <3>1. monitors' = monitors /\ unhealthy' = unhealthy
      BY <1>1 DEF rec
    <3> SUFFICES ASSUME NEW k \in Key, monitors[k] # 0
                 PROVE  /\ \A j \in LastOf(Mail(monitors[k])') :
                             inbox'[j].verdict = mon'[monitors[k]].sent
                        /\ Mail(monitors[k])' = {} =>
                             (k \in unhealthy <=> mon'[monitors[k]].sent = Failed)
      BY <3>1, Zenon DEF VerdictKept
    <3>2. CASE monitors[k] = i
      BY <2>2, <2>3, <2>4, <3>1, <3>2
    <3>3. CASE monitors[k] # i
      <4>1. \A j \in LastOf(Mail(monitors[k])) : j \in DOMAIN inbox
        BY DEF LastOf, Mail
      <4> QED
        BY <2>2, <2>4, <2>5, <3>1, <3>3, <4>1 DEF KeptInv, VerdictKept
    <3> QED
      BY <3>2, <3>3
  <2>7. \A j \in DOMAIN inbox' :
          inbox'[j].kind = "health" => inbox'[j].key = mon'[inbox'[j].id].key
    <3>1. \A j \in DOMAIN inbox :
            inbox[j].kind = "health" => inbox'[j].key = mon'[inbox'[j].id].key
      BY <1>1, <2>2, <2>4, MailIds DEF KeptInv
    <3> QED
      BY <2>2, <2>3, <2>4, <3>1
  <2>8. /\ \A k \in Key : monitors'[k] # 0 => mon'[monitors'[k]].key = k
        /\ \A k \in unhealthy' : monitors'[k] # 0
    BY <1>1, <2>2, <2>5 DEF KeptInv, rec
  <2> QED
    BY <2>6, <2>7, <2>8 DEF KeptInv
<1> QED
  BY <1>2, <1>3

\* Taking a verdict from the mailbox applies it to the key it is about, or to
\* none if its monitor is no longer the key's.
LEMMA KeptReceive ==
  ASSUME KeptInv, TypeOK', Receive
  PROVE  KeptInv'
<1>1. TypeOK /\ inbox # <<>> /\ inbox' = Tail(inbox)
  BY DEF KeptInv, Receive
<1>2. UNCHANGED <<monitors, monSeq, mon>>
  BY DEF Receive
<1>3. /\ Head(inbox) = inbox[1] /\ 1 \in DOMAIN inbox
      /\ \A j \in DOMAIN inbox' : j + 1 \in DOMAIN inbox /\ inbox'[j] = inbox[j + 1]
      /\ \A i : \A j \in LastOf(Mail(i)') : j + 1 \in LastOf(Mail(i))
      /\ \A i : Mail(i)' = {} => Mail(i) \subseteq {1}
  BY <1>1, MailReceived
<1> DEFINE ev == inbox[1]
<1>4. Handle(ev)
  BY <1>3 DEF Receive
<1>5. ev \in Event /\ (ev.kind = "health" => ev.key \in Key /\ ev.verdict \in Verdict)
  BY <1>1, <1>3 DEF TypeOK, Event, RouteEvent, ResyncEvent
<1>6. \A k \in Key : ev.kind # "health" \/ monitors[k] # ev.id =>
                       (k \in unhealthy' <=> k \in unhealthy)
  <2> TAKE k \in Key
  <2>1. CASE ev.kind # "health"
    BY <1>4, <2>1 DEF Handle
  <2>2. CASE ev.kind = "health" /\ monitors[k] # ev.id
    <3>1. CASE ev.key = k
      BY <1>4, <2>2, <3>1 DEF Handle
    <3>2. CASE ev.key # k
      BY <1>4, <2>2, <3>2 DEF Handle
    <3> QED
      BY <3>1, <3>2
  <2> QED
    BY <2>1, <2>2
<1>7. \A k \in Key : ev.kind = "health" /\ monitors[k] = ev.id /\ monitors[k] # 0 =>
                       (k \in unhealthy' <=> ev.verdict = Failed)
  <2> SUFFICES ASSUME NEW k \in Key, ev.kind = "health", monitors[k] = ev.id, monitors[k] # 0
               PROVE  k \in unhealthy' <=> ev.verdict = Failed
    OBVIOUS
  <2>1. ev.key = k
    BY <1>3 DEF KeptInv
  <2> QED
    BY <1>4, <1>5, <2>1 DEF Handle, Verdict, Healthy, Failed
<1>8. VerdictKept'
  <2> SUFFICES ASSUME NEW k \in Key, NEW i, i = monitors[k], i # 0
               PROVE  /\ \A j \in LastOf(Mail(i)') : inbox'[j].verdict = mon[i].sent
                      /\ Mail(i)' = {} => (k \in unhealthy' <=> mon[i].sent = Failed)
    BY <1>2, Zenon DEF VerdictKept
  <2>1. /\ \A j \in LastOf(Mail(i)) : inbox[j].verdict = mon[i].sent
        /\ Mail(i) = {} => (k \in unhealthy <=> mon[i].sent = Failed)
    BY DEF KeptInv, VerdictKept
  <2>2. ASSUME NEW j \in LastOf(Mail(i)')
        PROVE  inbox'[j].verdict = mon[i].sent
    <3>1. j \in DOMAIN inbox' /\ j + 1 \in LastOf(Mail(i))
      BY <1>3 DEF LastOf, Mail
    <3> QED
      BY <1>3, <2>1, <3>1
  <2>3. ASSUME Mail(i)' = {}
        PROVE  k \in unhealthy' <=> mon[i].sent = Failed
    <3>1. Mail(i) \subseteq {1}
      BY <1>3, <2>3
    <3>2. CASE 1 \in Mail(i)
      <4>1. 1 \in LastOf(Mail(i))
        BY <3>1, <3>2 DEF LastOf
      <4>2. ev.kind = "health" /\ ev.id = i
        BY <3>2 DEF Mail
      <4> QED
        BY <1>7, <2>1, <4>1, <4>2
    <3>3. CASE 1 \notin Mail(i)
      <4>1. ev.kind # "health" \/ i # ev.id
        BY <1>3, <3>3 DEF Mail
      <4>2. Mail(i) = {}
        BY <3>1, <3>3
      <4> QED
        BY <1>6, <2>1, <4>1, <4>2
    <3> QED
      BY <3>2, <3>3
  <2> QED
    BY <2>2, <2>3
<1>9. \A j \in DOMAIN inbox' :
        inbox'[j].kind = "health" => inbox'[j].key = mon'[inbox'[j].id].key
  BY <1>2, <1>3 DEF KeptInv
<1>10. \A k \in Key : monitors'[k] # 0 => mon'[monitors'[k]].key = k
  BY <1>2 DEF KeptInv
<1>11. \A k \in unhealthy' : monitors'[k] # 0
  <2> SUFFICES ASSUME NEW k \in unhealthy' PROVE monitors[k] # 0
    BY <1>2
  <2>1. k \in Key
    BY DEF TypeOK
  <2>2. CASE ev.kind = "health" /\ monitors[k] = ev.id
    <3>1. ev.id \in MonId
      BY <1>1, <1>3, <2>2, MailIds
    <3> QED
      BY <1>1, <2>2, <3>1 DEF MonId, TypeOK
  <2>3. CASE ~(ev.kind = "health" /\ monitors[k] = ev.id)
    BY <1>6, <2>1, <2>3 DEF KeptInv
  <2> QED
    BY <2>2, <2>3
<1> QED
  BY <1>8, <1>9, <1>10, <1>11 DEF KeptInv

\* A pass forgets what it held of the keys whose monitor it stops, and the
\* monitors it starts have said nothing.
LEMMA KeptPlan ==
  ASSUME KeptInv, TypeOK', Plan
  PROVE  KeptInv'
<1>1. TypeOK /\ gateways' \in [Key -> SUBSET Addr] /\ SyncMonitors(gateways')
  BY DEF KeptInv, Plan, TypeOK
<1>2. /\ monSeq' \in Nat /\ monSeq <= monSeq'
      /\ unhealthy' \subseteq unhealthy
      /\ \A i \in MonId : mon'[i] = mon[i]
      /\ \A i \in MonId' \ MonId : mon'[i].phase = "new" /\ mon'[i].sent = Healthy
      /\ \A k \in Key :
           \/ monitors'[k] = 0
           \/ monitors'[k] = monitors[k]
           \/ monitors'[k] \in MonId' \ MonId /\ mon'[monitors'[k]].key = k
      /\ \A k \in Key : monitors[k] # 0 =>
           (k \in unhealthy' <=> k \in unhealthy /\ monitors'[k] = monitors[k])
  BY <1>1, SyncFacts
<1>3. UNCHANGED inbox
  BY DEF Plan
<1>4. \A i : Mail(i)' = Mail(i)
  BY <1>3 DEF Mail
<1>5. \A i \in MonId' \ MonId : Mail(i) = {}
  BY <1>1, MailIds DEF Mail
<1>6. \A k \in Key : monitors[k] # 0 => monitors[k] \in MonId
  BY <1>1 DEF TypeOK, MonId
<1>7. \A k \in unhealthy' : monitors'[k] = monitors[k] /\ monitors[k] # 0 /\ k \in Key
  BY <1>1, <1>2 DEF KeptInv, TypeOK
<1>8. VerdictKept'
  <2> SUFFICES ASSUME NEW k \in Key, NEW i, i = monitors'[k], i # 0
               PROVE  /\ \A j \in LastOf(Mail(i)) : inbox[j].verdict = mon'[i].sent
                      /\ Mail(i) = {} => (k \in unhealthy' <=> mon'[i].sent = Failed)
    BY <1>3, <1>4, Zenon DEF VerdictKept
  <2>1. CASE i = monitors[k]
    <3>1. mon'[i] = mon[i]
      BY <1>2, <1>6, <2>1
    <3>2. k \in unhealthy' <=> k \in unhealthy
      BY <1>1, <1>2, <2>1 DEF KeptInv
    <3> QED
      BY <2>1, <3>1, <3>2 DEF KeptInv, VerdictKept
  <2>2. CASE i # monitors[k]
    <3>1. i \in MonId' \ MonId /\ mon'[i].sent = Healthy
      BY <1>2, <2>2
    <3>2. k \notin unhealthy'
      BY <1>7, <2>2
    <3> QED
      BY <1>5, <3>1, <3>2 DEF LastOf, Healthy, Failed
  <2> QED
    BY <2>1, <2>2
<1>9. \A j \in DOMAIN inbox' :
        inbox'[j].kind = "health" => inbox'[j].key = mon'[inbox'[j].id].key
  BY <1>1, <1>2, <1>3, MailIds DEF KeptInv
<1>10. \A k \in Key : monitors'[k] # 0 => mon'[monitors'[k]].key = k
  BY <1>2, <1>6 DEF KeptInv
<1>11. \A k \in unhealthy' : monitors'[k] # 0
  BY <1>7
<1> QED
  BY <1>8, <1>9, <1>10, <1>11 DEF KeptInv

\* The steps that neither deliver, nor take out, nor judge a verdict, nor change
\* which monitor is kept.
LEMMA KeptOther ==
  ASSUME KeptInv, TypeOK', UNCHANGED <<inbox, monitors, unhealthy, monSeq>>,
         \A i \in MonId : mon'[i].key = mon[i].key /\ mon'[i].sent = mon[i].sent
  PROVE  KeptInv'
  BY KeptStutter DEF Mail

\* The steps of a monitor: only a report changes what it has told.
LEMMA KeptMonitorStep ==
  ASSUME KeptInv, TypeOK', NEW i \in MonId, MonitorStep(i)
  PROVE  KeptInv'
<1>1. TypeOK /\ mon[i] \in Monitor
  BY DEF KeptInv, TypeOK
<1>2. ASSUME UNCHANGED <<env, inbox, rec>>,
             \A l \in MonId \ {i} : mon'[l] = mon[l],
             mon'[i].key = mon[i].key, mon'[i].sent = mon[i].sent
      PROVE  KeptInv'
  BY <1>2, KeptOther DEF rec
<1>3. CASE MonitorTicks(i) \/ MonitorExits(i)
  BY <1>1, <1>2, <1>3 DEF MonitorTicks, MonitorExits, TypeOK, Monitor
<1>4. CASE MonitorProbes(i)
  <2>1. PICK pass \in BOOLEAN :
          mon' = [mon EXCEPT ![i] = [Streak(mon[i], pass) EXCEPT !.phase =
                    IF HasNews(Streak(mon[i], pass)) THEN "report" ELSE "tick"]]
    BY <1>4, Zenon DEF MonitorProbes
  <2>2. /\ Streak(mon[i], pass) \in Monitor
        /\ Streak(mon[i], pass).key = mon[i].key
        /\ Streak(mon[i], pass).sent = mon[i].sent
    BY <1>1, StreakType
  <2>3. \A p : LET m == [Streak(mon[i], pass) EXCEPT !.phase = p] IN
          m.key = mon[i].key /\ m.sent = mon[i].sent
    BY <2>2 DEF Monitor
  <2> QED
    BY <1>1, <1>2, <1>4, <2>1, <2>3 DEF MonitorProbes, TypeOK
<1>5. CASE MonitorReports(i)
  BY <1>5, KeptReport
<1> QED
  BY <1>3, <1>4, <1>5 DEF MonitorStep

\* The steps of the surroundings put no verdict in the mailbox.
LEMMA KeptSurroundings ==
  ASSUME KeptInv, TypeOK', Surroundings
  PROVE  KeptInv'
<1>1. TypeOK
  BY DEF KeptInv
<1>2. UNCHANGED <<monitors, unhealthy, monSeq, mon>>
  BY DEF Surroundings, GatewaysChange, TargetFlips, Cancel, WatcherPosts, ResyncTicks, rec
<1>3. CASE UNCHANGED inbox
  BY <1>2, <1>3, KeptOther
<1>4. ASSUME NEW e \in {RouteEvent, ResyncEvent}, inbox' = Append(inbox, e)
      PROVE  KeptInv'
  BY <1>1, <1>2, <1>4, MailOfOthers, KeptStutter
<1> QED
  BY <1>3, <1>4 DEF Surroundings, GatewaysChange, TargetFlips, Cancel, WatcherPosts, ResyncTicks

\* The steps of the reconciler: only a verdict taken and a pass change what is
\* held of a key.
LEMMA KeptReconciler ==
  ASSUME KeptInv, TypeOK', Reconciler
  PROVE  KeptInv'
<1>1. TypeOK
  BY DEF KeptInv
<1>2. CASE CheckStop \/ SelectStop \/ FoldDone \/ BatchDone \/ ReapDone
  BY <1>2, KeptOther DEF CheckStop, SelectStop, FoldDone, BatchDone, ReapDone
<1>3. CASE Receive
  BY <1>3, KeptReceive
<1>4. CASE Plan
  BY <1>4, KeptPlan
<1>5. ASSUME NEW i \in MonId, StopMonitor(i) \/ StartMonitor(i)
      PROVE  KeptInv'
  <2>1. \A l \in MonId : mon'[l].key = mon[l].key /\ mon'[l].sent = mon[l].sent
    <3>1. CASE StopMonitor(i)
      BY <1>1, <3>1 DEF StopMonitor, TypeOK, Monitor
    <3>2. CASE StartMonitor(i)
      BY <1>1, <3>2 DEF StartMonitor, TypeOK, Monitor
    <3> QED
      BY <1>5, <3>1, <3>2
  <2> QED
    BY <1>5, <2>1, KeptOther DEF StopMonitor, StartMonitor
<1>6. CASE Shutdown
  <2>1. \A l \in MonId : mon'[l].key = mon[l].key /\ mon'[l].sent = mon[l].sent
    BY <1>1, <1>6 DEF Shutdown, TypeOK, Monitor
  <2> QED
    BY <1>6, <2>1, KeptOther DEF Shutdown
<1> QED
  BY <1>2, <1>3, <1>4, <1>5, <1>6 DEF Reconciler

\* So every step keeps the invariant.
LEMMA KeptNext ==
  KeptInv /\ [Next]_vars => KeptInv'
<1> SUFFICES ASSUME KeptInv, [Next]_vars PROVE KeptInv'
  OBVIOUS
<1>1. TypeOK'
  BY TypeNext DEF KeptInv
<1>2. CASE UNCHANGED vars
  BY <1>1, <1>2, KeptOther DEF vars, rec
<1> QED
  BY <1>1, <1>2, KeptReconciler, KeptMonitorStep, KeptSurroundings DEF Next

\* The inductive invariant, and with it what it is for: for any number of
\* uplinks and any capacity of the mailbox, whatever sends are dropped and
\* monitors replaced, once the mailbox is drained the reconciler holds of every
\* target what its monitor believes it has told.
THEOREM KeptAlways ==
  Spec => []KeptInv
<1> QED
  BY KeptInit, KeptNext, PTL DEF Spec

\* In particular the property the runs check: what a monitor believes it has
\* told is what the reconciler holds, or will hold once it has drained its mailbox.
THEOREM NoVerdictIsLost ==
  Spec => []VerdictKept
<1>1. KeptInv => VerdictKept
  BY DEF KeptInv
<1> QED
  BY KeptAlways, <1>1, PTL

-----------------------------------------------------------------------------
(* One monitor per wanted target, for any number of uplinks and addresses. *)

\* What syncMonitors brings about, key by key: the monitor stays, because its target is
\* the wanted one, or it is to be stopped, and if there is a target a new monitor of
\* that target is to be started.
LEMMA SyncTargets ==
  ASSUME TypeOK, NEW g \in [Key -> SUBSET Addr], SyncMonitors(g)
  PROVE  /\ \A k \in Key :
              \/ /\ monitors'[k] = monitors[k] /\ monitors[k] # 0
                 /\ g[k] # {} /\ mon[monitors[k]].target = Target(g[k])
              \/ /\ monitors[k] # 0 => monitors[k] \in toStop'
                 /\ g[k] = {} => monitors'[k] = 0
                 /\ g[k] # {} => /\ monitors'[k] \in MonId' \ MonId
                                 /\ monitors'[k] \in toStart'
                                 /\ mon'[monitors'[k]].target = Target(g[k])
         /\ \A i \in toStop' : \E k \in Key : monitors[k] = i /\ i # 0 /\ monitors'[k] # i
         /\ toStart' \subseteq MonId' \ MonId
         /\ \A i \in MonId' \ MonId : ~mon'[i].cancelled /\ \E k \in Key : monitors'[k] = i
<1> DEFINE stays   == Stays(g)
           stopped == {k \in Key : monitors[k] # 0} \ stays
           started == {k \in Key : g[k] # {}} \ stays
           n       == monSeq + Cardinality(started)
<1>1. PICK id \in NewIds(started) :
        /\ monSeq' = n
        /\ monitors' = [k \in Key |-> IF k \in stays THEN monitors[k]
                                      ELSE IF k \in started THEN id[k] ELSE 0]
        /\ toStop' = {monitors[k] : k \in stopped}
        /\ toStart' = {id[k] : k \in started}
        /\ mon' = [i \in 1..n |->
                     IF i \in MonId THEN mon[i]
                     ELSE LET k == CHOOSE x \in started : id[x] = i
                          IN  NewMonitor(k, Target(g[k]))]
  BY Zenon DEF SyncMonitors
<1>2. Cardinality(started) \in Nat
  BY FS_CardinalityType, FS_Subset, HealthAssumption
<1>3. /\ id \in [started -> (monSeq + 1)..n]
      /\ \A i \in (monSeq + 1)..n :
           \E k \in started : \A l \in started : id[l] = i <=> l = k
  BY DEF NewIds
<1> DEFINE New(i) == CHOOSE x \in started : id[x] = i
<1>4. \A i \in (monSeq + 1)..n : New(i) \in started /\ id[New(i)] = i
  BY <1>3, Zenon
<1>5. ASSUME NEW k \in started
      PROVE  New(id[k]) = k
  <2>1. id[k] \in (monSeq + 1)..n
    BY <1>3
  <2>2. New(id[k]) \in started /\ id[New(id[k])] = id[k]
    BY <1>4, <2>1
  <2>3. PICK x \in started : \A l \in started : id[l] = id[k] <=> l = x
    BY <1>3, <2>1
  <2> QED
    BY <2>2, <2>3, Zenon
<1>6. /\ \A k \in stays : k \in Key /\ monitors[k] # 0 /\ g[k] # {}
      /\ \A k \in stays : mon[monitors[k]].target = Target(g[k])
      /\ \A k \in Key : k \in stopped <=> monitors[k] # 0 /\ k \notin stays
      /\ \A k \in Key : k \in started <=> g[k] # {} /\ k \notin stays
      /\ started \subseteq Key /\ stopped \subseteq Key
  BY DEF Stays
<1>7. \A k, a : NewMonitor(k, a).target = a /\ ~NewMonitor(k, a).cancelled
  BY DEF NewMonitor
<1>8. MonId' \ MonId = (monSeq + 1)..n /\ MonId' = 1..n /\ monSeq \in Nat /\ n \in Nat
  <2>1. monSeq \in Nat /\ n \in Nat /\ monSeq <= n
    BY <1>2 DEF TypeOK
  <2> HIDE DEF n
  <2>2. \A i : i \in 1..n /\ i \notin 1..monSeq <=> i \in (monSeq + 1)..n
    BY <2>1
  <2>3. MonId' = 1..n
    BY <1>1 DEF MonId
  <2> QED
    BY <2>1, <2>2, <2>3, Zenon DEF MonId
<1> HIDE DEF stays, stopped, started, n, New
<1>9. \A i \in MonId' \ MonId : mon'[i] = NewMonitor(New(i), Target(g[New(i)]))
  BY <1>1, <1>8, Zenon DEF New
<1>10. \A k \in started : /\ id[k] \in MonId' \ MonId /\ id[k] \in toStart'
                          /\ mon'[id[k]].target = Target(g[k])
                          /\ monitors'[k] = id[k]
  <2> TAKE k \in started
  <2>1. id[k] \in MonId' \ MonId /\ id[k] \in toStart'
    BY <1>1, <1>3, <1>8
  <2>2. mon'[id[k]] = NewMonitor(k, Target(g[k]))
    BY <1>5, <1>9, <2>1
  <2>3. k \in Key /\ k \notin stays
    BY <1>6
  <2>4. monitors'[k] = id[k]
    BY <1>1, <2>3
  <2> QED
    BY <1>7, <2>1, <2>2, <2>4
<1>11. \A k \in Key : /\ k \in stays => monitors'[k] = monitors[k]
                      /\ k \notin stays /\ k \notin started => monitors'[k] = 0
  BY <1>1
<1>12. ASSUME NEW k \in Key
       PROVE  \/ /\ monitors'[k] = monitors[k] /\ monitors[k] # 0
                 /\ g[k] # {} /\ mon[monitors[k]].target = Target(g[k])
              \/ /\ monitors[k] # 0 => monitors[k] \in toStop'
                 /\ g[k] = {} => monitors'[k] = 0
                 /\ g[k] # {} => /\ monitors'[k] \in MonId' \ MonId
                                 /\ monitors'[k] \in toStart'
                                 /\ mon'[monitors'[k]].target = Target(g[k])
  <2>1. CASE k \in stays
    BY <1>6, <1>11, <2>1
  <2>2. CASE k \notin stays
    <3>1. monitors[k] # 0 => monitors[k] \in toStop'
      BY <1>1, <1>6, <2>2
    <3>2. g[k] = {} => monitors'[k] = 0
      BY <1>6, <1>11, <2>2
    <3>3. g[k] # {} => k \in started
      BY <1>6, <2>2
    <3> QED
      BY <1>10, <3>1, <3>2, <3>3
  <2> QED
    BY <2>1, <2>2
<1>13. ASSUME NEW i \in toStop'
       PROVE  \E k \in Key : monitors[k] = i /\ i # 0 /\ monitors'[k] # i
  <2>1. PICK k \in stopped : monitors[k] = i
    BY <1>1
  <2>2. k \in Key /\ monitors[k] # 0 /\ k \notin stays
    BY <1>6
  <2>3. monitors[k] \in MonId
    BY <2>2 DEF TypeOK, MonId
  <2>4. monitors'[k] # i
    BY <1>10, <1>11, <2>1, <2>2, <2>3
  <2> QED
    BY <2>1, <2>2, <2>4
<1>14. ASSUME NEW i \in toStart'
       PROVE  i \in MonId' \ MonId
  <2>1. PICK k \in started : i = id[k]
    BY <1>1, Zenon
  <2> QED
    BY <1>10, <2>1
<1>15. ASSUME NEW i \in MonId' \ MonId
       PROVE  ~mon'[i].cancelled /\ \E k \in Key : monitors'[k] = i
  <2>1. New(i) \in started /\ id[New(i)] = i
    BY <1>4, <1>8
  <2>2. ~mon'[i].cancelled
    BY <1>7, <1>9
  <2> QED
    BY <1>6, <1>10, <2>1, <2>2
<1> QED
  BY <1>12, <1>13, <1>14, <1>15

-----------------------------------------------------------------------------
(* The invariant.                                                           *)

\* The places of a loop that has not been told to stop.
LoopPlaces == {"check", "select", "fold", "observe", "run"}

\* The three parts of OneMonitorPerTarget: which monitors have not been told to stop,
\* which have been started, and what they probe.
NotStopped ==
  pc \in LoopPlaces =>
    \A i \in MonId : (~mon[i].cancelled) = (i \in toStop \/ \E k \in Key : monitors[k] = i)

KeptAreStarted ==
  \A k \in Key : monitors[k] # 0 =>
    /\ mon[monitors[k]].key = k
    /\ Started(monitors[k]) = (monitors[k] \notin toStart)

WantedAreProbed ==
  pc # "observe" =>
    \A k \in Key : IF gateways[k] = {} THEN monitors[k] = 0
                   ELSE monitors[k] # 0 /\ mon[monitors[k]].target = Target(gateways[k])

\* What makes them last: outside of a batch there is nothing to stop or to start, and
\* what is to be stopped is kept for no key any more.
TargetInv ==
  /\ KeptInv
  /\ NotStopped /\ KeptAreStarted /\ WantedAreProbed
  /\ pc # "run" => toStop = {} /\ toStart = {}
  /\ \A i \in toStop, k \in Key : monitors[k] # i

LEMMA PartsOfOne ==
  OneMonitorPerTarget <=> NotStopped /\ KeptAreStarted /\ WantedAreProbed
  BY DEF OneMonitorPerTarget, NotStopped, KeptAreStarted, WantedAreProbed, LoopPlaces

LEMMA TargetInit ==
  Init => TargetInv
<1> SUFFICES ASSUME Init PROVE TargetInv
  OBVIOUS
<1>1. KeptInv
  BY KeptInit
<1>2. (\A k \in Key : monitors[k] = 0 /\ gateways[k] = {}) /\ MonId = {}
  BY DEF Init, MonId
<1>3. toStop = {} /\ toStart = {}
  BY DEF Init
<1> QED
  BY <1>1, <1>2, <1>3 DEF TargetInv, NotStopped, KeptAreStarted, WantedAreProbed

\* Steps after which every monitor that was kept, told to stop, or started still is, and
\* that are no pass.
LEMMA TargetStutter ==
  ASSUME TargetInv, KeptInv',
         UNCHANGED <<monitors, monSeq, gateways, toStop, toStart>>,
         \A i \in MonId : /\ mon'[i].key = mon[i].key /\ mon'[i].target = mon[i].target
                          /\ (mon'[i].phase = "new") = (mon[i].phase = "new"),
         pc' \in LoopPlaces => /\ pc \in LoopPlaces
                               /\ \A i \in MonId : mon'[i].cancelled = mon[i].cancelled,
         pc = "observe" => pc' = "observe",
         pc' # "run" => toStop = {} /\ toStart = {}
  PROVE  TargetInv'
<1>1. MonId' = MonId /\ \A k \in Key : monitors[k] # 0 => monitors[k] \in MonId
  BY DEF TargetInv, KeptInv, TypeOK, MonId
<1>2. NotStopped'
  BY <1>1 DEF TargetInv, NotStopped
<1>3. KeptAreStarted'
  BY <1>1 DEF TargetInv, KeptAreStarted, Started
<1>4. WantedAreProbed'
  BY <1>1 DEF TargetInv, WantedAreProbed
<1> QED
  BY <1>2, <1>3, <1>4 DEF TargetInv

\* A pass: each wanted target has a monitor, and the others are to be stopped.
LEMMA TargetPlan ==
  ASSUME TargetInv, KeptInv', Plan
  PROVE  TargetInv'
<1>1. /\ TypeOK /\ KeptInv /\ gateways' \in [Key -> SUBSET Addr] /\ SyncMonitors(gateways')
      /\ pc = "observe" /\ pc' = "run" /\ toStop = {} /\ toStart = {}
  BY DEF TargetInv, KeptInv, Plan, TypeOK
<1>2. /\ monSeq' \in Nat /\ monSeq <= monSeq'
      /\ monitors' \in [Key -> 0..monSeq']
      /\ \A i \in MonId : mon'[i] = mon[i]
      /\ \A i \in MonId' \ MonId : mon'[i].phase = "new"
  BY <1>1, SyncFacts
<1>3. /\ \A k \in Key :
           \/ /\ monitors'[k] = monitors[k] /\ monitors[k] # 0
              /\ gateways'[k] # {} /\ mon[monitors[k]].target = Target(gateways'[k])
           \/ /\ monitors[k] # 0 => monitors[k] \in toStop'
              /\ gateways'[k] = {} => monitors'[k] = 0
              /\ gateways'[k] # {} => /\ monitors'[k] \in MonId' \ MonId
                                      /\ monitors'[k] \in toStart'
                                      /\ mon'[monitors'[k]].target = Target(gateways'[k])
      /\ \A i \in toStop' : \E k \in Key : monitors[k] = i /\ i # 0 /\ monitors'[k] # i
      /\ toStart' \subseteq MonId' \ MonId
      /\ \A i \in MonId' \ MonId : ~mon'[i].cancelled /\ \E k \in Key : monitors'[k] = i
  BY <1>1, SyncTargets
<1>4. /\ \A k \in Key : monitors[k] # 0 => monitors[k] \in MonId
      /\ \A k \in Key : monitors'[k] # 0 => monitors'[k] \in MonId'
      /\ 0 \notin MonId' /\ 0 \notin MonId
  BY <1>1, <1>2 DEF TypeOK, MonId
<1>5. \A i \in toStop', k \in Key : monitors'[k] # i
  <2> SUFFICES ASSUME NEW i \in toStop', NEW k \in Key, monitors'[k] = i PROVE FALSE
    OBVIOUS
  <2>1. PICK l \in Key : monitors[l] = i /\ i # 0 /\ monitors'[l] # i
    BY <1>3
  <2>2. i \in MonId
    BY <1>4, <2>1
  <2>3. monitors'[k] = monitors[k]
    BY <1>3, <2>1, <2>2
  <2>4. k = l
    BY <1>1, <2>1, <2>3 DEF KeptInv
  <2> QED
    BY <2>1, <2>4
<1>6. NotStopped'
  <2> SUFFICES ASSUME NEW i \in MonId'
               PROVE  (~mon'[i].cancelled) = (i \in toStop' \/ \E k \in Key : monitors'[k] = i)
    BY DEF NotStopped
  <2>1. CASE i \notin MonId
    BY <1>3, <2>1
  <2>2. CASE i \in MonId
    <3>1. (~mon'[i].cancelled) = (\E k \in Key : monitors[k] = i)
      BY <1>1, <1>2, <2>2 DEF TargetInv, NotStopped, LoopPlaces
    <3>2. ASSUME NEW k \in Key, monitors[k] = i
          PROVE  i \in toStop' \/ monitors'[k] = i
      BY <1>3, <1>4, <2>2, <3>2
    <3>3. i \in toStop' => \E k \in Key : monitors[k] = i
      BY <1>3
    <3>4. ASSUME NEW k \in Key, monitors'[k] = i
          PROVE  monitors[k] = i
      BY <1>3, <1>4, <2>2, <3>4
    <3>5. (\E k \in Key : monitors[k] = i) <=> (i \in toStop' \/ \E k \in Key : monitors'[k] = i)
      BY <3>2, <3>3, <3>4
    <3> QED
      BY <3>1, <3>5
  <2> QED
    BY <2>1, <2>2
<1>7. KeptAreStarted'
  <2> SUFFICES ASSUME NEW k \in Key, NEW i, i = monitors'[k], i # 0
               PROVE  (mon'[i].phase # "new") = (i \notin toStart')
    BY Zenon DEF KeptAreStarted, Started, KeptInv
  <2>1. CASE i \in MonId
    <3>1. monitors[k] = i
      BY <1>3, <1>4, <2>1
    <3>2. mon[i].phase # "new"
      BY <1>1, <3>1 DEF TargetInv, KeptAreStarted, Started
    <3> QED
      BY <1>2, <1>3, <2>1, <3>2
  <2>2. CASE i \notin MonId
    <3>1. i \in MonId' \ MonId
      BY <1>4, <2>2
    <3>2. i \in toStart'
      BY <1>3, <1>4, <2>2
    <3> QED
      BY <1>2, <3>1, <3>2
  <2> QED
    BY <2>1, <2>2
<1>8. WantedAreProbed'
  <2> SUFFICES ASSUME NEW k \in Key
               PROVE  IF gateways'[k] = {} THEN monitors'[k] = 0
                      ELSE monitors'[k] # 0 /\ mon'[monitors'[k]].target = Target(gateways'[k])
    BY DEF WantedAreProbed
  <2> QED
    BY <1>2, <1>3, <1>4
<1> QED
  BY <1>1, <1>5, <1>6, <1>7, <1>8 DEF TargetInv

\* A monitor is told to stop: it is no key's any more.
LEMMA TargetStop ==
  ASSUME TargetInv, KeptInv', NEW i \in MonId, StopMonitor(i)
  PROVE  TargetInv'
<1>1. /\ TypeOK /\ i \in toStop /\ toStop' = toStop \ {i}
      /\ UNCHANGED <<pc, gateways, monitors, monSeq, toStart>>
      /\ pc = "run"
  BY DEF TargetInv, KeptInv, StopMonitor
<1>2. /\ \A l \in MonId \ {i} : mon'[l] = mon[l]
      /\ mon'[i].cancelled
  BY <1>1 DEF StopMonitor, TypeOK, Monitor
<1>3. /\ MonId' = MonId
      /\ \A k \in Key : monitors[k] # i
      /\ \A k \in Key : monitors[k] # 0 => monitors[k] \in MonId \ {i}
  BY <1>1 DEF TargetInv, TypeOK, MonId
<1>4. NotStopped'
  <2> SUFFICES ASSUME NEW l \in MonId
               PROVE  (~mon'[l].cancelled) = (l \in toStop' \/ \E k \in Key : monitors[k] = l)
    BY <1>1, <1>3 DEF NotStopped
  <2>1. (~mon[l].cancelled) = (l \in toStop \/ \E k \in Key : monitors[k] = l)
    BY <1>1 DEF TargetInv, NotStopped, LoopPlaces
  <2>2. CASE l = i
    BY <1>1, <1>2, <1>3, <2>2
  <2>3. CASE l # i
    BY <1>1, <1>2, <2>1, <2>3
  <2> QED
    BY <2>2, <2>3
<1>5. KeptAreStarted'
  BY <1>1, <1>2, <1>3 DEF TargetInv, KeptAreStarted, Started
<1>6. WantedAreProbed'
  BY <1>1, <1>2, <1>3 DEF TargetInv, WantedAreProbed
<1> QED
  BY <1>1, <1>4, <1>5, <1>6 DEF TargetInv

\* A monitor is started, once there is none to stop.
LEMMA TargetStart ==
  ASSUME TargetInv, KeptInv', NEW i \in MonId, StartMonitor(i)
  PROVE  TargetInv'
<1>1. /\ TypeOK /\ i \in toStart /\ toStart' = toStart \ {i}
      /\ UNCHANGED <<pc, gateways, monitors, monSeq, toStop>>
      /\ pc = "run"
  BY DEF TargetInv, KeptInv, StartMonitor
<1>2. /\ \A l \in MonId \ {i} : mon'[l] = mon[l]
      /\ mon'[i].phase = "tick"
      /\ mon'[i].cancelled = mon[i].cancelled /\ mon'[i].key = mon[i].key
      /\ mon'[i].target = mon[i].target
  BY <1>1 DEF StartMonitor, TypeOK, Monitor
<1>3. MonId' = MonId /\ \A k \in Key : monitors[k] # 0 => monitors[k] \in MonId
  BY <1>1 DEF TypeOK, MonId
<1>4. NotStopped'
  <2>1. \A l \in MonId : mon'[l].cancelled = mon[l].cancelled
    BY <1>2
  <2> QED
    BY <1>1, <1>3, <2>1 DEF TargetInv, NotStopped
<1>5. KeptAreStarted'
  <2> SUFFICES ASSUME NEW k \in Key, NEW l, l = monitors[k], l # 0
               PROVE  (mon'[l].phase # "new") = (l \notin toStart')
    BY <1>1, Zenon DEF KeptAreStarted, Started, KeptInv
  <2>1. (mon[l].phase # "new") = (l \notin toStart)
    BY DEF TargetInv, KeptAreStarted, Started
  <2> QED
    BY <1>1, <1>2, <1>3, <2>1
<1>6. WantedAreProbed'
  <2>1. \A l \in MonId : mon'[l].target = mon[l].target
    BY <1>2
  <2> QED
    BY <1>1, <1>3, <2>1 DEF TargetInv, WantedAreProbed
<1> QED
  BY <1>1, <1>4, <1>5, <1>6 DEF TargetInv

\* What a monitor's own steps leave of it, and that it was started.
KeepsIts(i, m) ==
  /\ mon' = [mon EXCEPT ![i] = m]
  /\ m.key = mon[i].key /\ m.target = mon[i].target /\ m.cancelled = mon[i].cancelled
  /\ m.phase # "new" /\ mon[i].phase # "new"

\* A monitor's own steps leave it what it is, and started.
LEMMA TargetMonitorStep ==
  ASSUME TargetInv, KeptInv', NEW i \in MonId, MonitorStep(i)
  PROVE  TargetInv'
<1>1. TypeOK /\ mon[i] \in Monitor
  BY DEF TargetInv, KeptInv, TypeOK
<1>2. UNCHANGED rec
  BY DEF MonitorStep, MonitorTicks, MonitorExits, MonitorProbes, MonitorReports
<1>3. PICK m : KeepsIts(i, m)
  <2>1. \A n \in Monitor : \A p : LET m == [n EXCEPT !.phase = p] IN
          /\ m.key = n.key /\ m.target = n.target /\ m.cancelled = n.cancelled /\ m.phase = p
    BY DEF Monitor
  <2>2. CASE MonitorTicks(i)
    <3>1. mon' = [mon EXCEPT ![i] = [mon[i] EXCEPT !.phase = "probe"]] /\ mon[i].phase = "tick"
      BY <2>2 DEF MonitorTicks
    <3>2. KeepsIts(i, [mon[i] EXCEPT !.phase = "probe"])
      BY <1>1, <2>1, <3>1 DEF KeepsIts
    <3> QED
      BY <3>2, Zenon
  <2>3. CASE MonitorExits(i)
    <3>1. mon' = [mon EXCEPT ![i] = [mon[i] EXCEPT !.phase = "exited"]] /\ mon[i].phase = "tick"
      BY <2>3 DEF MonitorExits
    <3>2. KeepsIts(i, [mon[i] EXCEPT !.phase = "exited"])
      BY <1>1, <2>1, <3>1 DEF KeepsIts
    <3> QED
      BY <3>2, Zenon
  <2>4. CASE MonitorProbes(i)
    <3>1. PICK pass \in BOOLEAN :
            mon' = [mon EXCEPT ![i] = [Streak(mon[i], pass) EXCEPT !.phase =
                      IF HasNews(Streak(mon[i], pass)) THEN "report" ELSE "tick"]]
      BY <2>4, Zenon DEF MonitorProbes
    <3>2. mon[i].phase = "probe"
      BY <2>4 DEF MonitorProbes
    <3>3. PICK p \in {"report", "tick"} :
            mon' = [mon EXCEPT ![i] = [Streak(mon[i], pass) EXCEPT !.phase = p]]
      BY <3>1
    <3>4. /\ Streak(mon[i], pass) \in Monitor
          /\ Streak(mon[i], pass).key = mon[i].key
          /\ Streak(mon[i], pass).target = mon[i].target
          /\ Streak(mon[i], pass).cancelled = mon[i].cancelled
      BY <1>1, StreakType
    <3>5. KeepsIts(i, [Streak(mon[i], pass) EXCEPT !.phase = p])
      BY <2>1, <3>2, <3>3, <3>4 DEF KeepsIts
    <3> QED
      BY <3>5, Zenon
  <2>5. CASE MonitorReports(i)
    <3>1. PICK m \in {Delivered(mon[i]), Dropped(mon[i])} : mon' = [mon EXCEPT ![i] = m]
      BY <2>5 DEF MonitorReports
    <3>2. /\ m.key = mon[i].key /\ m.target = mon[i].target
          /\ m.cancelled = mon[i].cancelled /\ m.phase = "tick"
      BY <1>1, <3>1 DEF Delivered, Dropped, Monitor
    <3>3. mon[i].phase = "report"
      BY <2>5 DEF MonitorReports
    <3>4. KeepsIts(i, m)
      BY <3>1, <3>2, <3>3 DEF KeepsIts
    <3> QED
      BY <3>4, Zenon
  <2> QED
    BY <2>2, <2>3, <2>4, <2>5 DEF MonitorStep
<1>4. \A l \in MonId : /\ mon'[l].key = mon[l].key /\ mon'[l].target = mon[l].target
                       /\ (mon'[l].phase = "new") = (mon[l].phase = "new")
                       /\ mon'[l].cancelled = mon[l].cancelled
  BY <1>1, <1>3 DEF TypeOK, KeepsIts
<1> QED
  BY <1>2, <1>4, TargetStutter DEF rec, TargetInv

\* The other steps do not touch what the invariant is about, or leave the loop.
LEMMA TargetOther ==
  ASSUME TargetInv, KeptInv',
         \/ Surroundings \/ UNCHANGED vars
         \/ CheckStop \/ SelectStop \/ FoldDone \/ Receive \/ BatchDone \/ Shutdown \/ ReapDone
  PROVE  TargetInv'
<1>1. TypeOK
  BY DEF TargetInv, KeptInv
<1>2. CASE Surroundings
  <2>1. UNCHANGED <<rec, mon>>
    BY <1>2 DEF Surroundings, GatewaysChange, TargetFlips, Cancel, WatcherPosts, ResyncTicks
  <2> QED
    BY <2>1, TargetStutter DEF rec, TargetInv
<1>3. CASE UNCHANGED vars
  BY <1>3, TargetStutter DEF vars, rec, TargetInv
<1>4. CASE CheckStop
  BY <1>4, TargetStutter DEF CheckStop, TargetInv, LoopPlaces
<1>5. CASE SelectStop
  BY <1>5, TargetStutter DEF SelectStop, TargetInv, LoopPlaces
<1>6. CASE FoldDone
  BY <1>6, TargetStutter DEF FoldDone, TargetInv, LoopPlaces
<1>7. CASE Receive
  BY <1>7, TargetStutter DEF Receive, TargetInv, LoopPlaces
<1>8. CASE BatchDone
  BY <1>8, TargetStutter DEF BatchDone, TargetInv, LoopPlaces
<1>9. CASE ReapDone
  BY <1>9, TargetStutter DEF ReapDone, TargetInv, LoopPlaces
<1>10. CASE Shutdown
  <2>1. \A i \in MonId : /\ mon'[i].key = mon[i].key /\ mon'[i].target = mon[i].target
                         /\ (mon'[i].phase = "new") = (mon[i].phase = "new")
    BY <1>1, <1>10 DEF Shutdown, TypeOK, Monitor
  <2>2. pc' = "reap" /\ pc' \notin LoopPlaces /\ pc = "shutdown"
    BY <1>10 DEF Shutdown, LoopPlaces
  <2> QED
    BY <1>10, <2>1, <2>2, TargetStutter DEF Shutdown, TargetInv
<1> QED
  BY <1>2, <1>3, <1>4, <1>5, <1>6, <1>7, <1>8, <1>9, <1>10

LEMMA TargetNext ==
  TargetInv /\ [Next]_vars => TargetInv'
<1> SUFFICES ASSUME TargetInv, [Next]_vars PROVE TargetInv'
  OBVIOUS
<1>1. KeptInv'
  BY KeptNext DEF TargetInv
<1> QED
  BY <1>1, TargetPlan, TargetStop, TargetStart, TargetMonitorStep, TargetOther
     DEF Next, Reconciler

\* For any number of uplinks and addresses, whenever a batch has run the monitors that
\* have not been told to stop are those of the wanted targets, one each, however often
\* targets have changed and whatever they were doing meanwhile.
THEOREM OneMonitorEach ==
  Spec => []OneMonitorPerTarget
<1>1. Spec => []TargetInv
  BY TargetInit, TargetNext, PTL DEF Spec
<1>2. TargetInv => OneMonitorPerTarget
  BY PartsOfOne DEF TargetInv
<1> QED
  BY <1>1, <1>2, PTL
=============================================================================
