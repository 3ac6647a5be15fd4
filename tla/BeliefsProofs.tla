---------------------------- MODULE BeliefsProofs ----------------------------
(***************************************************************************)
(* Health implements Beliefs, for any number of uplinks, addresses,        *)
(* thresholds and any capacity of the mailbox.                             *)
(*                                                                         *)
(* KeptInv speaks of the last verdict of a monitor.  Beliefs has each of   *)
(* them believed in its turn, so all must be spoken of: they alternate,    *)
(* from what is held of the uplink to what its monitor has said.           *)
(***************************************************************************)
EXTENDS HealthProofs, FunctionTheorems

-----------------------------------------------------------------------------
(* Verdicts alternate.                                                      *)

\* The verdicts of monitor i that wait before position j.
Before(i, j) == {l \in Mail(i) : l < j}

\* A monitor that is about to report has something new to say; so has every verdict
\* in the mailbox.
NewsInv ==
  /\ KeptInv
  /\ EveryVerdictIsNews
  /\ \A i \in MonId : mon[i].phase = "report" => mon[i].sent # mon[i].st

\* What EveryVerdictIsNews says of one uplink whose monitor is i.
Alternates(k, i) ==
  \A j \in Mail(i) :
    /\ \A l \in LastOf(Before(i, j)) : inbox[j].verdict # inbox[l].verdict
    /\ Before(i, j) = {} => (inbox[j].verdict = Healthy <=> k \in unhealthy)

LEMMA NewsIsAlternation ==
  EveryVerdictIsNews <=>
    \A k \in Key : /\ k \in unhealthy => monitors[k] # 0
                   /\ monitors[k] # 0 => Alternates(k, monitors[k])
  BY DEF EveryVerdictIsNews, Alternates, Before

\* Verdicts in the mailbox are verdicts, at positions that are numbers.
LEMMA MailType ==
  ASSUME TypeOK, NEW i, NEW j \in Mail(i)
  PROVE  /\ j \in DOMAIN inbox /\ j \in Nat /\ 1 <= j
         /\ inbox[j].verdict \in Verdict /\ inbox[j].kind = "health" /\ inbox[j].id = i
<1>1. j \in DOMAIN inbox /\ inbox[j].kind = "health" /\ inbox[j].id = i
  BY DEF Mail
<1>2. inbox \in Seq(Event)
  BY DEF TypeOK
<1>3. inbox[j] \in Event /\ j \in Nat /\ 1 <= j
  BY <1>1, <1>2
<1> QED
  BY <1>1, <1>3 DEF Event, RouteEvent, ResyncEvent

\* One verdict more is one place more.
LEMMA MailGrows ==
  ASSUME TypeOK, NEW i \in MonId, NEW e, e.kind = "health", e.id = i,
         inbox' = Append(inbox, e)
  PROVE  /\ Len(inbox) + 1 \notin Mail(i)
         /\ Mail(i)' = Mail(i) \cup {Len(inbox) + 1}
         /\ \A j \in Mail(i) : j < Len(inbox) + 1
         /\ inbox'[Len(inbox) + 1] = e
         /\ \A j \in DOMAIN inbox : inbox'[j] = inbox[j]
<1> DEFINE n == Len(inbox) + 1
<1>1. inbox \in Seq(Event) /\ e.kind = "health" /\ e.id = i
  BY DEF TypeOK
<1>2. \A j \in DOMAIN inbox : inbox'[j] = inbox[j] /\ j \in Nat /\ j < n
  BY <1>1
<1>3. DOMAIN inbox' = DOMAIN inbox \cup {n} /\ inbox'[n] = e /\ n \in Nat
  BY <1>1
<1> HIDE DEF n
<1>4. \A j : j \in Mail(i)' <=> j \in Mail(i) \cup {n}
  BY <1>1, <1>2, <1>3, Zenon DEF Mail
<1>5. n \notin Mail(i)
  BY <1>2, <1>3 DEF Mail
<1>6. \A j \in Mail(i) : j < n
  BY <1>2 DEF Mail
<1> QED
  BY <1>2, <1>3, <1>4, <1>5, <1>6 DEF n

\* When the first event is taken, the places of the others go down by one.
LEMMA MailShifts ==
  ASSUME TypeOK, inbox # <<>>, inbox' = Tail(inbox), NEW i
  PROVE  /\ \A j \in Mail(i)' : j \in Nat /\ j + 1 \in Mail(i) \ {1} /\ inbox'[j] = inbox[j + 1]
         /\ \A j \in Mail(i) \ {1} : j \in Nat /\ j - 1 \in Mail(i)'
<1>1. inbox \in Seq(Event)
  BY DEF TypeOK
<1>2. \A j \in DOMAIN inbox' : j \in Nat /\ 1 <= j /\ j + 1 \in DOMAIN inbox /\ inbox'[j] = inbox[j + 1]
  BY <1>1
<1>3. \A j \in DOMAIN inbox \ {1} :
        j \in Nat /\ j - 1 \in DOMAIN inbox' /\ inbox'[j - 1] = inbox[j]
  BY <1>1
<1>4. \A j \in Mail(i)' : j + 1 \in Mail(i)
  BY <1>2 DEF Mail
<1>5. \A j \in Mail(i)' : j + 1 # 1 /\ j \in Nat /\ inbox'[j] = inbox[j + 1]
  <2> TAKE j \in Mail(i)'
  <2>1. j \in DOMAIN inbox'
    BY DEF Mail
  <2> QED
    BY <1>2, <2>1
<1>6. \A j \in Mail(i) \ {1} : j \in Nat /\ j - 1 \in Mail(i)'
  BY <1>3 DEF Mail
<1> QED
  BY <1>4, <1>5, <1>6

\* The monitors of different keys are different.
LEMMA MonitorsDiffer ==
  ASSUME KeptInv, NEW k \in Key, NEW l \in Key, monitors[k] # 0, monitors[k] = monitors[l]
  PROVE  k = l
  BY DEF KeptInv

\* Steps that leave alone the mailbox's verdicts and what is held of the keys.
LEMMA NewsStutter ==
  ASSUME NewsInv, KeptInv',
         \A i : Mail(i)' = Mail(i),
         \A j \in DOMAIN inbox : inbox'[j] = inbox[j],
         UNCHANGED <<monitors, unhealthy>>,
         \A i \in MonId' : mon'[i].phase = "report" => mon'[i].sent # mon'[i].st
  PROVE  NewsInv'
<1>1. \A k \in Key : monitors[k] # 0 => Alternates(k, monitors[k])'
  <2> SUFFICES ASSUME NEW k \in Key, NEW i, i = monitors[k], i # 0
               PROVE  Alternates(k, i)'
    BY Zenon DEF Alternates
  <2>1. Alternates(k, i)
    BY NewsIsAlternation DEF NewsInv
  <2>2. \A j : Before(i, j)' = Before(i, j)
    BY DEF Before
  <2>3. \A j \in Mail(i) : j \in DOMAIN inbox /\ \A l \in LastOf(Before(i, j)) : l \in DOMAIN inbox
    BY DEF LastOf, Before, Mail
  <2> QED
    BY <2>1, <2>2, <2>3 DEF Alternates
<1> QED
  BY <1>1 DEF NewsInv, KeptInv, EveryVerdictIsNews, Alternates, Before

\* Nothing is in the mailbox initially but a tick.
LEMMA NewsInit ==
  Init => NewsInv
<1> SUFFICES ASSUME Init PROVE NewsInv
  OBVIOUS
<1>1. KeptInv
  BY KeptInit
<1>2. \A k \in Key : monitors[k] = 0
  BY DEF Init
<1>3. unhealthy = {} /\ MonId = {}
  BY DEF Init, MonId
<1> QED
  BY <1>1, <1>2, <1>3 DEF NewsInv, EveryVerdictIsNews

\* A verdict delivered differs from the one before it: that is the last its monitor
\* has sent, or, if it has been taken, what is held.
LEMMA NewsReport ==
  ASSUME NewsInv, KeptInv', NEW i \in MonId, MonitorReports(i)
  PROVE  NewsInv'
<1>1. TypeOK /\ KeptInv /\ mon[i] \in Monitor /\ UNCHANGED rec
  BY DEF NewsInv, KeptInv, TypeOK, MonitorReports
<1>2. mon[i].phase = "report" /\ mon[i].sent # mon[i].st
  BY DEF MonitorReports, NewsInv
<1>3. \A l \in MonId \ {i} : mon'[l] = mon[l]
  BY <1>1 DEF MonitorReports, TypeOK
<1>4. mon'[i].phase = "tick"
  <2>1. Delivered(mon[i]).phase = "tick" /\ Dropped(mon[i]).phase = "tick"
    BY <1>1 DEF Delivered, Dropped, Monitor
  <2>2. mon'[i] \in {Delivered(mon[i]), Dropped(mon[i])}
    BY <1>1 DEF MonitorReports, TypeOK
  <2> QED
    BY <2>1, <2>2
<1>5. MonId' = MonId
  BY <1>1 DEF MonId, rec
<1>6. \A l \in MonId' : mon'[l].phase = "report" => mon'[l].sent # mon'[l].st
  BY <1>3, <1>4, <1>5 DEF NewsInv
<1>7. CASE ~HasRoom
  BY <1>1, <1>6, <1>7, NewsStutter DEF MonitorReports, rec, Mail
<1>8. CASE HasRoom
  <2>0. PICK e, n : e = HealthEvent(i, mon[i].key, mon[i].st) /\ n = Len(inbox) + 1
    OBVIOUS
  <2>1. inbox' = Append(inbox, e)
    BY <1>8, <2>0 DEF MonitorReports
  <2>2. e.kind = "health" /\ e.id = i /\ e.verdict = mon[i].st
    BY <2>0 DEF HealthEvent
  <2>3. /\ n \notin Mail(i)
        /\ Mail(i)' = Mail(i) \cup {n}
        /\ \A j \in Mail(i) : j < n
        /\ inbox'[n] = e
        /\ \A j \in DOMAIN inbox : inbox'[j] = inbox[j]
    BY <1>1, <2>0, <2>1, <2>2, MailGrows
  <2>4. \A l \in MonId \ {i} : Mail(l)' = Mail(l)
    BY <1>1, <2>1, <2>2, MailDelivered
  <2>5. n \in Nat
    BY <1>1, <2>0 DEF TypeOK
  <2>6. \A k \in Key : monitors[k] # 0 => monitors[k] \in MonId
    BY <1>1 DEF TypeOK, MonId
  <2>7. UNCHANGED <<monitors, unhealthy>>
    BY <1>1 DEF rec
  <2>8. ASSUME NEW k \in Key, NEW m, m = monitors[k], m # 0
        PROVE  Alternates(k, m)'
    <3>1. Alternates(k, m)
      BY <2>8, NewsIsAlternation DEF NewsInv
    <3>2. CASE m # i
      <4>1. Mail(m)' = Mail(m)
        BY <2>4, <2>6, <2>8, <3>2
      <4>2. \A j : Before(m, j)' = Before(m, j)
        BY <2>7, <4>1 DEF Before
      <4>3. \A j \in Mail(m) :
              j \in DOMAIN inbox /\ \A l \in LastOf(Before(m, j)) : l \in DOMAIN inbox
        BY DEF LastOf, Before, Mail
      <4> QED
        BY <2>3, <2>7, <3>1, <4>1, <4>2, <4>3 DEF Alternates
    <3>3. CASE m = i
      <4>1. ASSUME NEW j \in Mail(i)
            PROVE  /\ \A l \in LastOf(Before(i, j)') : inbox'[j].verdict # inbox'[l].verdict
                   /\ Before(i, j)' = {} => (inbox'[j].verdict = Healthy <=> k \in unhealthy)
        <5>1. j < n /\ j \in Nat /\ j \in DOMAIN inbox
          BY <1>1, <2>3, MailType
        <5>2. Before(i, j)' = Before(i, j)
          BY <2>3, <2>5, <5>1 DEF Before
        <5>3. \A l \in LastOf(Before(i, j)) : l \in DOMAIN inbox
          BY DEF LastOf, Before, Mail
        <5> QED
          BY <2>3, <3>1, <3>3, <5>1, <5>2, <5>3 DEF Alternates
      <4>2. Before(i, n)' = Mail(i)
        BY <1>1, <2>3, <2>5 DEF Before
      <4>3. /\ \A l \in LastOf(Mail(m)) : inbox[l].verdict = mon[m].sent
            /\ Mail(m) = {} => (k \in unhealthy <=> mon[m].sent = Failed)
        BY <1>1, <2>8 DEF KeptInv, VerdictKept
      <4>4. /\ \A l \in LastOf(Mail(i)) : l \in DOMAIN inbox /\ inbox[l].verdict = mon[i].sent
            /\ Mail(i) = {} => (k \in unhealthy <=> mon[i].sent = Failed)
        BY <3>3, <4>3 DEF LastOf, Mail
      <4>5. mon[i].st \in Verdict /\ mon[i].sent \in Verdict
        BY <1>1 DEF Monitor
      <4>6. /\ \A l \in LastOf(Before(i, n)') : inbox'[n].verdict # inbox'[l].verdict
            /\ Before(i, n)' = {} => (inbox'[n].verdict = Healthy <=> k \in unhealthy)
        <5>1. \A l \in LastOf(Mail(i)) : inbox'[n].verdict # inbox'[l].verdict
          BY <1>2, <2>2, <2>3, <4>4
        <5>2. Mail(i) = {} => (inbox'[n].verdict = Healthy <=> k \in unhealthy)
          BY <1>2, <2>2, <2>3, <4>4, <4>5 DEF Verdict, Healthy, Failed
        <5> QED
          BY <4>2, <5>1, <5>2
      <4>7. Mail(i)' = Mail(i) \cup {n}
        BY <2>3
      <4>8. \A j \in Mail(i)' :
              /\ \A l \in LastOf(Before(i, j)') : inbox'[j].verdict # inbox'[l].verdict
              /\ Before(i, j)' = {} => (inbox'[j].verdict = Healthy <=> k \in unhealthy)
        BY <4>1, <4>6, <4>7
      <4> QED
        BY <2>7, <3>3, <4>8, Zenon DEF Alternates, LastOf
    <3> QED
      BY <3>2, <3>3
  <2>9. \A k \in Key : k \in unhealthy' => monitors'[k] # 0
    BY <1>1, <2>7 DEF KeptInv
  <2>10. \A k \in Key : monitors[k] # 0 => Alternates(k, monitors[k])'
    <3> SUFFICES ASSUME NEW k \in Key, NEW m, m = monitors[k], m # 0
                 PROVE  Alternates(k, m)'
      BY <2>7, Zenon DEF Alternates
    <3> QED
      BY <2>8
  <2>11. EveryVerdictIsNews'
    BY <2>7, <2>9, <2>10 DEF EveryVerdictIsNews, Alternates, Before
  <2> QED
    BY <1>6, <2>11 DEF NewsInv
<1> QED
  BY <1>7, <1>8

\* The verdict that is taken is applied, if at all, to what it turns; the next one
\* turns what is then held.
LEMMA NewsReceive ==
  ASSUME NewsInv, KeptInv', Receive
  PROVE  NewsInv'
<1>1. TypeOK /\ KeptInv /\ inbox # <<>> /\ inbox' = Tail(inbox)
  BY DEF NewsInv, KeptInv, Receive
<1>2. UNCHANGED <<monitors, monSeq, mon>>
  BY DEF Receive
<1>3. Head(inbox) = inbox[1] /\ 1 \in DOMAIN inbox
  BY <1>1, MailReceived
<1> DEFINE ev == inbox[1]
<1>4. ASSUME NEW k \in Key, monitors[k] # 0
      PROVE  /\ 1 \notin Mail(monitors[k]) => (k \in unhealthy' <=> k \in unhealthy)
             /\ 1 \in Mail(monitors[k]) => (k \in unhealthy' <=> ev.verdict = Failed)
  <2>1. Handle(ev)
    BY <1>3 DEF Receive
  <2>2. CASE 1 \in Mail(monitors[k])
    <3>1. ev.kind = "health" /\ ev.id = monitors[k] /\ ev.verdict \in Verdict
      BY <1>1, <2>2, MailType
    <3>2. ev.key = k
      BY <1>1, <1>3, <1>4, <3>1 DEF KeptInv
    <3> QED
      BY <2>1, <2>2, <3>1, <3>2 DEF Handle, Verdict, Healthy, Failed
  <2>3. CASE 1 \notin Mail(monitors[k])
    <3>1. ev.kind # "health" \/ ev.id # monitors[k]
      BY <1>3, <2>3 DEF Mail
    <3>2. ev.kind # "health" \/ ev.key # k \/ monitors[ev.key] # ev.id
      BY <3>1
    <3>3. CASE ev.kind # "health"
      BY <2>1, <2>3, <3>3 DEF Handle
    <3>4. CASE ev.kind = "health" /\ ev.key # k
      BY <2>1, <2>3, <3>4 DEF Handle
    <3>5. CASE ev.kind = "health" /\ monitors[ev.key] # ev.id
      BY <2>1, <2>3, <3>5 DEF Handle
    <3> QED
      BY <3>2, <3>3, <3>4, <3>5
  <2> QED
    BY <2>2, <2>3
<1> HIDE DEF ev
<1>5. ASSUME NEW k \in Key, NEW i, i = monitors[k], i # 0, NEW j \in Mail(i)'
      PROVE  /\ \A l \in LastOf(Before(i, j)') : inbox'[j].verdict # inbox'[l].verdict
             /\ Before(i, j)' = {} => (inbox'[j].verdict = Healthy <=> k \in unhealthy')
  <2>1. /\ j \in Nat /\ j + 1 \in Mail(i) /\ j + 1 # 1 /\ inbox'[j] = inbox[j + 1]
        /\ \A m \in Mail(i)' : m \in Nat /\ m + 1 \in Mail(i) /\ m + 1 # 1 /\ inbox'[m] = inbox[m + 1]
        /\ \A m \in Mail(i) \ {1} : m \in Nat /\ m - 1 \in Mail(i)'
    BY <1>1, MailShifts
  <2>2. Alternates(k, i)
    BY <1>5, NewsIsAlternation DEF NewsInv
  <2>3. ASSUME NEW m \in Before(i, j)'
        PROVE  m \in Nat /\ m + 1 \in Before(i, j + 1)
    <3>1. m \in Mail(i)' /\ m < j
      BY DEF Before
    <3>2. m \in Nat /\ m + 1 \in Mail(i) /\ j \in Nat
      BY <2>1, <3>1, Zenon
    <3>3. m + 1 < j + 1
      BY <3>1, <3>2
    <3> QED
      BY <3>2, <3>3 DEF Before
  <2>4. \A m \in Before(i, j + 1) : m = 1 \/ (m \in Nat /\ m - 1 \in Before(i, j)')
    BY <2>1 DEF Before
  <2>5. ASSUME NEW l \in LastOf(Before(i, j)')
        PROVE  inbox'[j].verdict # inbox'[l].verdict
    <3>1. l \in Before(i, j)' /\ l \in Nat /\ l + 1 \in Before(i, j + 1)
      BY <2>3 DEF LastOf
    <3>2. \A m \in Before(i, j + 1) : m <= l + 1
      <4> TAKE m \in Before(i, j + 1)
      <4>1. CASE m = 1
        BY <3>1, <4>1
      <4>2. CASE m # 1
        <5>1. m \in Nat /\ m - 1 \in Before(i, j)'
          BY <2>4, <4>2
        <5>2. m - 1 <= l
          BY <5>1 DEF LastOf
        <5> QED
          BY <3>1, <5>1, <5>2
      <4> QED
        BY <4>1, <4>2
    <3>3. l + 1 \in LastOf(Before(i, j + 1))
      BY <3>1, <3>2 DEF LastOf
    <3>4. inbox[j + 1].verdict # inbox[l + 1].verdict
      BY <2>1, <2>2, <3>3 DEF Alternates
    <3>5. l \in Mail(i)'
      BY <3>1 DEF Before
    <3> QED
      BY <2>1, <3>4, <3>5
  <2>6. ASSUME Before(i, j)' = {}
        PROVE  inbox'[j].verdict = Healthy <=> k \in unhealthy'
    <3>1. Before(i, j + 1) \subseteq {1}
      BY <2>4, <2>6
    <3>2. CASE 1 \in Mail(i)
      <4>1. 1 < j + 1
        BY <1>1, <2>1, MailType
      <4>2. 1 \in LastOf(Before(i, j + 1))
        BY <3>1, <3>2, <4>1 DEF LastOf, Before
      <4>3. inbox[j + 1].verdict # ev.verdict
        BY <2>1, <2>2, <4>2 DEF Alternates, ev
      <4>4. inbox[j + 1].verdict \in Verdict /\ ev.verdict \in Verdict
        BY <1>1, <2>1, <3>2, MailType DEF ev
      <4> QED
        BY <1>4, <1>5, <2>1, <3>2, <4>3, <4>4 DEF Verdict, Healthy, Failed
    <3>3. CASE 1 \notin Mail(i)
      <4>1. Before(i, j + 1) = {}
        BY <3>1, <3>3 DEF Before
      <4>2. inbox[j + 1].verdict = Healthy <=> k \in unhealthy
        BY <2>1, <2>2, <4>1 DEF Alternates
      <4> QED
        BY <1>4, <1>5, <2>1, <3>3, <4>2
    <3> QED
      BY <3>2, <3>3
  <2> QED
    BY <2>5, <2>6
<1>6. \A k \in Key : monitors[k] # 0 => Alternates(k, monitors[k])'
  <2> SUFFICES ASSUME NEW k \in Key, NEW i, i = monitors[k], i # 0
               PROVE  Alternates(k, i)'
    BY <1>2, Zenon DEF Alternates
  <2> QED
    BY <1>5 DEF Alternates
<1>7. \A k \in Key : k \in unhealthy' => monitors'[k] # 0
  BY DEF KeptInv
<1>8. EveryVerdictIsNews'
  BY <1>2, <1>6, <1>7 DEF EveryVerdictIsNews, Alternates, Before
<1>9. \A i \in MonId' : mon'[i].phase = "report" => mon'[i].sent # mon'[i].st
  BY <1>2 DEF NewsInv, MonId
<1> QED
  BY <1>8, <1>9 DEF NewsInv

\* A pass keeps the mailbox; of the monitors it starts there is nothing in it.
LEMMA NewsPlan ==
  ASSUME NewsInv, KeptInv', Plan
  PROVE  NewsInv'
<1>1. TypeOK /\ KeptInv /\ gateways' \in [Key -> SUBSET Addr] /\ SyncMonitors(gateways')
  BY DEF NewsInv, KeptInv, Plan, TypeOK
<1>2. /\ monSeq' \in Nat /\ monSeq <= monSeq'
      /\ \A i \in MonId : mon'[i] = mon[i]
      /\ \A i \in MonId' \ MonId : mon'[i].phase = "new" /\ mon'[i].sent = Healthy
      /\ \A k \in Key :
           \/ monitors'[k] = 0
           \/ monitors'[k] = monitors[k]
           \/ monitors'[k] \in MonId' \ MonId /\ mon'[monitors'[k]].key = k
      /\ \A k \in Key : monitors[k] # 0 =>
           (k \in unhealthy' <=> k \in unhealthy /\ monitors'[k] = monitors[k])
  BY <1>1, SyncFacts
<1>3. UNCHANGED inbox
  BY DEF Plan
<1>4. \A i : Mail(i)' = Mail(i)
  BY <1>3 DEF Mail
<1>5. \A i \in MonId' \ MonId : Mail(i) = {}
  BY <1>1, MailIds DEF Mail
<1>6. \A i, j : Before(i, j)' = Before(i, j)
  BY <1>4 DEF Before
<1>7. ASSUME NEW k \in Key, NEW i, i = monitors'[k], i # 0
      PROVE  Alternates(k, i)'
  <2>1. CASE i = monitors[k]
    <3>1. k \in unhealthy' <=> k \in unhealthy
      BY <1>2, <1>7, <2>1
    <3>2. Alternates(k, i)
      BY <1>7, <2>1, NewsIsAlternation DEF NewsInv
    <3> QED
      BY <1>3, <1>4, <1>6, <3>1, <3>2 DEF Alternates
  <2>2. CASE i # monitors[k]
    BY <1>2, <1>4, <1>5, <1>7, <2>2 DEF Alternates
  <2> QED
    BY <2>1, <2>2
<1>8. \A k \in Key : k \in unhealthy' => monitors'[k] # 0
  BY DEF KeptInv
<1>9. EveryVerdictIsNews'
  <2>1. \A k \in Key : monitors'[k] # 0 => Alternates(k, monitors[k])'
    <3> SUFFICES ASSUME NEW k \in Key, NEW i, i = monitors'[k], i # 0
                 PROVE  Alternates(k, i)'
      BY Zenon DEF Alternates
    <3> QED
      BY <1>7
  <2> QED
    BY <1>8, <2>1 DEF EveryVerdictIsNews, Alternates, Before
<1>10. \A i \in MonId' : mon'[i].phase = "report" => mon'[i].sent # mon'[i].st
  BY <1>2 DEF NewsInv
<1> QED
  BY <1>9, <1>10 DEF NewsInv

\* The steps that neither deliver nor take a verdict, nor change what is held.
LEMMA NewsOther ==
  ASSUME NewsInv, KeptInv', UNCHANGED <<inbox, monitors, unhealthy, monSeq>>,
         \A i \in MonId : /\ mon'[i].sent = mon[i].sent /\ mon'[i].st = mon[i].st
                          /\ mon'[i].phase = "report" => mon[i].phase = "report"
  PROVE  NewsInv'
<1>1. MonId' = MonId
  BY DEF MonId
<1>2. \A i \in MonId : mon[i].phase = "report" => mon[i].sent # mon[i].st
  BY DEF NewsInv
<1>3. ASSUME NEW i \in MonId', mon'[i].phase = "report"
      PROVE  mon'[i].sent # mon'[i].st
  BY <1>1, <1>2, <1>3, Zenon
<1> QED
  BY <1>3, NewsStutter DEF Mail

\* The steps of a monitor: after a probe it reports only if it has something to say.
LEMMA NewsMonitorStep ==
  ASSUME NewsInv, KeptInv', NEW i \in MonId, MonitorStep(i)
  PROVE  NewsInv'
<1>1. TypeOK /\ mon[i] \in Monitor
  BY DEF NewsInv, KeptInv, TypeOK
<1>2. CASE MonitorTicks(i) \/ MonitorExits(i)
  <2>1. \A l \in MonId : /\ mon'[l].sent = mon[l].sent /\ mon'[l].st = mon[l].st
                         /\ mon'[l].phase = "report" => mon[l].phase = "report"
    <3>1. PICK p \in {"probe", "exited"} : mon' = [mon EXCEPT ![i].phase = p]
      BY <1>2 DEF MonitorTicks, MonitorExits
    <3> QED
      BY <1>1, <3>1 DEF TypeOK, Monitor
  <2> QED
    BY <1>2, <2>1, NewsOther DEF MonitorTicks, MonitorExits, rec
<1>3. CASE MonitorProbes(i)
  <2>1. PICK pass \in BOOLEAN :
          mon' = [mon EXCEPT ![i] = [Streak(mon[i], pass) EXCEPT !.phase =
                    IF HasNews(Streak(mon[i], pass)) THEN "report" ELSE "tick"]]
    BY <1>3, Zenon DEF MonitorProbes
  <2>2. Streak(mon[i], pass) \in Monitor
    BY <1>1, StreakType
  <2>3. \A m \in Monitor : \A p : LET n == [m EXCEPT !.phase = p] IN
          n.phase = p /\ n.sent = m.sent /\ n.st = m.st
    BY DEF Monitor
  <2>4. mon'[i].phase = "report" => mon'[i].sent # mon'[i].st
    BY <1>1, <2>1, <2>2, <2>3 DEF TypeOK, HasNews
  <2>5. \A l \in MonId \ {i} : mon'[l] = mon[l]
    BY <1>1, <2>1 DEF TypeOK
  <2>6. \A l \in MonId' : mon'[l].phase = "report" => mon'[l].sent # mon'[l].st
    BY <1>3, <2>4, <2>5 DEF MonitorProbes, rec, MonId, NewsInv
  <2> QED
    BY <1>3, <2>6, NewsStutter DEF MonitorProbes, rec, Mail
<1>4. CASE MonitorReports(i)
  BY <1>4, NewsReport
<1> QED
  BY <1>2, <1>3, <1>4 DEF MonitorStep

\* The steps of the surroundings put no verdict in the mailbox.
LEMMA NewsSurroundings ==
  ASSUME NewsInv, KeptInv', Surroundings
  PROVE  NewsInv'
<1>1. TypeOK
  BY DEF NewsInv, KeptInv
<1>2. UNCHANGED <<monitors, unhealthy, monSeq, mon>>
  BY DEF Surroundings, GatewaysChange, TargetFlips, Cancel, WatcherPosts, ResyncTicks, rec
<1>3. CASE UNCHANGED inbox
  BY <1>2, <1>3, NewsOther
<1>4. ASSUME NEW e \in {RouteEvent, ResyncEvent}, inbox' = Append(inbox, e)
      PROVE  NewsInv'
  <2>1. /\ \A i : Mail(i)' = Mail(i)
        /\ \A j \in DOMAIN inbox : inbox'[j] = inbox[j]
    BY <1>1, <1>4, MailOfOthers
  <2>2. \A i \in MonId' : mon'[i].phase = "report" => mon'[i].sent # mon'[i].st
    BY <1>2 DEF NewsInv, MonId
  <2> QED
    BY <1>2, <2>1, <2>2, NewsStutter
<1> QED
  BY <1>3, <1>4 DEF Surroundings, GatewaysChange, TargetFlips, Cancel, WatcherPosts, ResyncTicks

\* The steps of the reconciler but for the two that the verdicts are about change a
\* monitor's flag or its first phase.
LEMMA NewsReconciler ==
  ASSUME NewsInv, KeptInv', Reconciler
  PROVE  NewsInv'
<1>1. TypeOK
  BY DEF NewsInv, KeptInv
<1>2. CASE CheckStop \/ SelectStop \/ FoldDone \/ BatchDone \/ ReapDone
  BY <1>2, NewsOther DEF CheckStop, SelectStop, FoldDone, BatchDone, ReapDone
<1>3. CASE Receive
  BY <1>3, NewsReceive
<1>4. CASE Plan
  BY <1>4, NewsPlan
<1>5. ASSUME NEW i \in MonId, StopMonitor(i) \/ StartMonitor(i)
      PROVE  NewsInv'
  <2>1. \A l \in MonId : /\ mon'[l].sent = mon[l].sent /\ mon'[l].st = mon[l].st
                         /\ mon'[l].phase = "report" => mon[l].phase = "report"
    <3>1. CASE StopMonitor(i)
      BY <1>1, <3>1 DEF StopMonitor, TypeOK, Monitor
    <3>2. CASE StartMonitor(i)
      BY <1>1, <3>2 DEF StartMonitor, TypeOK, Monitor
    <3> QED
      BY <1>5, <3>1, <3>2
  <2> QED
    BY <1>5, <2>1, NewsOther DEF StopMonitor, StartMonitor
<1>6. CASE Shutdown
  <2>1. \A l \in MonId : /\ mon'[l].sent = mon[l].sent /\ mon'[l].st = mon[l].st
                         /\ mon'[l].phase = "report" => mon[l].phase = "report"
    BY <1>1, <1>6 DEF Shutdown, TypeOK, Monitor
  <2> QED
    BY <1>6, <2>1, NewsOther DEF Shutdown
<1> QED
  BY <1>2, <1>3, <1>4, <1>5, <1>6 DEF Reconciler

\* So every step keeps the invariant.
LEMMA NewsNext ==
  NewsInv /\ [Next]_vars => NewsInv'
<1> SUFFICES ASSUME NewsInv, [Next]_vars PROVE NewsInv'
  OBVIOUS
<1>1. KeptInv'
  BY KeptNext DEF NewsInv
<1>2. CASE UNCHANGED vars
  BY <1>1, <1>2, NewsOther DEF vars, rec
<1> QED
  BY <1>1, <1>2, NewsReconciler, NewsMonitorStep, NewsSurroundings DEF Next

\* For any number of uplinks and any capacity of the mailbox, no verdict is delivered
\* twice, and none is skipped: those of a monitor that wait in the mailbox turn, one
\* after the other, what is held of its uplink.
THEOREM EveryVerdictTurns ==
  Spec => []EveryVerdictIsNews
<1>1. Spec => []NewsInv
  BY NewsInit, NewsNext, PTL DEF Spec
<1>2. NewsInv => EveryVerdictIsNews
  BY DEF NewsInv
<1> QED
  BY <1>1, <1>2, PTL
-----------------------------------------------------------------------------
(* Every step is a step of Beliefs, or none.                                *)

\* The verdicts of a monitor are no more than there are events in the mailbox.
LEMMA MailCount ==
  ASSUME TypeOK, NEW i
  PROVE  /\ IsFiniteSet(Mail(i)) /\ Cardinality(Mail(i)) \in Nat
         /\ Cardinality(Mail(i)) <= Len(inbox)
<1>1. inbox \in Seq(Event) /\ Len(inbox) \in Nat
  BY DEF TypeOK
<1>2. Mail(i) \in SUBSET (1..Len(inbox))
  BY <1>1 DEF Mail
<1>3. IsFiniteSet(1..Len(inbox)) /\ Cardinality(1..Len(inbox)) = Len(inbox)
  BY <1>1, FS_Interval
<1> QED
  BY <1>2, <1>3, FS_Subset, FS_CardinalityType

\* One verdict more, and one less, as the mailbox grows and is drained.
LEMMA CountGrows ==
  ASSUME TypeOK, NEW i \in MonId, NEW e, e.kind = "health", e.id = i,
         inbox' = Append(inbox, e)
  PROVE  Cardinality(Mail(i)') = Cardinality(Mail(i)) + 1
<1>1. PICK n : n = Len(inbox) + 1
  OBVIOUS
<1>2. n \notin Mail(i) /\ Mail(i)' = Mail(i) \cup {n}
  BY <1>1, MailGrows
<1> QED
  BY <1>2, MailCount, FS_AddElement

LEMMA CountShrinks ==
  ASSUME TypeOK, inbox # <<>>, inbox' = Tail(inbox), NEW i
  PROVE  Cardinality(Mail(i)') =
           IF 1 \in Mail(i) THEN Cardinality(Mail(i)) - 1 ELSE Cardinality(Mail(i))
<1>1. /\ \A j \in Mail(i)' : j \in Nat /\ j + 1 \in Mail(i) \ {1}
      /\ \A j \in Mail(i) \ {1} : j \in Nat /\ j - 1 \in Mail(i)'
  BY MailShifts
<1> DEFINE f == [j \in Mail(i) \ {1} |-> j - 1]
<1>2. f \in [Mail(i) \ {1} -> Mail(i)']
  BY <1>1
<1>3. \A a, b \in Mail(i) \ {1} : f[a] = f[b] => a = b
  BY <1>1
<1>4. ASSUME NEW t \in Mail(i)'
      PROVE  \E s \in Mail(i) \ {1} : f[s] = t
  <2>1. t \in Nat /\ t + 1 \in Mail(i) \ {1}
    BY <1>1
  <2>2. f[t + 1] = t
    BY <2>1
  <2> QED
    BY <2>1, <2>2
<1>5. ExistsBijection(Mail(i) \ {1}, Mail(i)')
  BY <1>2, <1>3, <1>4, Fun_IsBij DEF ExistsBijection
<1>6. /\ IsFiniteSet(Mail(i) \ {1})
      /\ Cardinality(Mail(i) \ {1}) =
           IF 1 \in Mail(i) THEN Cardinality(Mail(i)) - 1 ELSE Cardinality(Mail(i))
  BY MailCount, FS_RemoveElement
<1> QED
  BY <1>5, <1>6, FS_Bijection

\* What Beliefs sees of a state, key by key.
LEMMA PromiseFacts ==
  ASSUME NewsInv
  PROVE  /\ Owed \in [Key -> Nat] /\ Watched \subseteq Key
         /\ \A k \in Key : /\ k \in Watched <=> monitors[k] # 0
                           /\ k \in Said <=> monitors[k] # 0 /\ mon[monitors[k]].sent = Failed
                           /\ monitors[k] # 0 => /\ monitors[k] \in MonId
                                                 /\ Owed[k] = Cardinality(Mail(monitors[k]))
                           /\ monitors[k] = 0 => Owed[k] = 0 /\ k \notin unhealthy
<1>1. TypeOK /\ KeptInv
  BY DEF NewsInv, KeptInv
<1>2. \A i : Cardinality(Mail(i)) \in Nat
  BY <1>1, MailCount
<1>3. Owed \in [Key -> Nat]
  BY <1>2 DEF Owed
<1>4. \A k \in Key : monitors[k] # 0 => monitors[k] \in MonId
  BY <1>1 DEF TypeOK, MonId
<1>5. \A k \in Key : monitors[k] = 0 => k \notin unhealthy
  BY <1>1 DEF KeptInv
<1> QED
  BY <1>3, <1>4, <1>5 DEF Owed, Watched, Said

\* A step that changes neither the monitors kept and what they have sent, nor what is
\* held, nor how many of their verdicts there are, does not show.
LEMMA Unseen ==
  ASSUME NewsInv, UNCHANGED <<monitors, unhealthy>>,
         \A i \in MonId : Cardinality(Mail(i)') = Cardinality(Mail(i)),
         \A k \in Key : monitors[k] # 0 => mon'[monitors[k]].sent = mon[monitors[k]].sent
  PROVE  UNCHANGED Promise!vars
<1>1. \A k \in Key : monitors[k] # 0 => monitors[k] \in MonId
  BY DEF NewsInv, KeptInv, TypeOK, MonId
<1>2. UNCHANGED <<Watched, Said>>
  BY DEF Watched, Said
<1>3. UNCHANGED Owed
  <2> SUFFICES ASSUME NEW k \in Key, NEW i, i = monitors[k], i # 0
               PROVE  Cardinality(Mail(i))' = Cardinality(Mail(i))
    BY Zenon DEF Owed
  <2> QED
    BY <1>1
<1> QED
  BY <1>2, <1>3 DEF Promise!vars

\* A verdict delivered is one given, unless its monitor has been replaced.
LEMMA ReportGives ==
  ASSUME NewsInv, NewsInv', NEW i \in MonId, MonitorReports(i)
  PROVE  [Promise!Next]_(Promise!vars)
<1>1. TypeOK /\ KeptInv /\ mon[i] \in Monitor /\ UNCHANGED <<monitors, unhealthy>>
  BY DEF NewsInv, KeptInv, TypeOK, MonitorReports, rec
<1>2. CASE ~HasRoom
  <2>0. mon' = [mon EXCEPT ![i] = Dropped(mon[i])]
    BY <1>2 DEF MonitorReports
  <2>1. \A l \in MonId : mon'[l].sent = mon[l].sent
    BY <1>1, <2>0 DEF Dropped, Monitor, TypeOK
  <2>2. UNCHANGED inbox
    BY <1>2 DEF MonitorReports
  <2>3. \A k \in Key : monitors[k] # 0 => monitors[k] \in MonId
    BY PromiseFacts
  <2>4. \A l \in MonId : Cardinality(Mail(l)') = Cardinality(Mail(l))
    BY <2>2 DEF Mail
  <2> QED
    BY <1>1, <2>1, <2>3, <2>4, Unseen
<1>3. CASE HasRoom
  <2>1. PICK e : e = HealthEvent(i, mon[i].key, mon[i].st)
    OBVIOUS
  <2>2. e.kind = "health" /\ e.id = i /\ inbox' = Append(inbox, e)
    BY <1>3, <2>1 DEF HealthEvent, MonitorReports
  <2>3. /\ Cardinality(Mail(i)') = Cardinality(Mail(i)) + 1
        /\ \A l \in MonId \ {i} : Mail(l)' = Mail(l)
    BY <1>1, <2>2, CountGrows, MailDelivered
  <2>4. /\ \A l \in MonId \ {i} : mon'[l] = mon[l]
        /\ mon'[i].sent = mon[i].st
    <3>1. mon' = [mon EXCEPT ![i] = Delivered(mon[i])]
      BY <1>3 DEF MonitorReports
    <3> QED
      BY <1>1, <3>1 DEF Delivered, Monitor, TypeOK
  <2>5. mon[i].st \in Verdict /\ mon[i].sent \in Verdict /\ mon[i].sent # mon[i].st
    BY <1>1 DEF Monitor, MonitorReports, NewsInv
  <2>6. Cardinality(Mail(i)) \in Nat /\ Cardinality(Mail(i)) < QueueDepth
    BY <1>1, <1>3, MailCount, HealthAssumption DEF HasRoom, TypeOK
  <2>7. CASE \A k \in Key : monitors[k] # i
    <3>1. \A k \in Key : monitors[k] # 0 => mon'[monitors[k]].sent = mon[monitors[k]].sent
      BY <2>4, <2>7, PromiseFacts
    <3>2. UNCHANGED <<Watched, Said>>
      BY <1>1, <3>1 DEF Watched, Said
    <3>3. UNCHANGED Owed
      <4> SUFFICES ASSUME NEW k \in Key, NEW l, l = monitors[k], l # 0
                   PROVE  Cardinality(Mail(l))' = Cardinality(Mail(l))
        BY <1>1, Zenon DEF Owed
      <4> QED
        BY <2>3, <2>7, PromiseFacts
    <3> QED
      BY <1>1, <3>2, <3>3 DEF Promise!vars
  <2>8. ASSUME NEW k \in Key, monitors[k] = i
        PROVE  Promise!Give(k)
    <3>1. i # 0 /\ \A l \in Key \ {k} : monitors[l] # i
      BY <1>1, <2>8, MonitorsDiffer DEF MonId, TypeOK
    <3>2. k \in Watched /\ Owed[k] = Cardinality(Mail(i)) /\ Owed \in [Key -> Nat]
      BY <2>8, <3>1, PromiseFacts
    <3>3. Watched' = Watched
      BY <1>1 DEF Watched
    <3>4. Said' = Promise!Turned(Said, k)
      <4>1. ASSUME NEW l \in Key
            PROVE  l \in Said' <=> IF l = k THEN k \notin Said ELSE l \in Said
        <5>1. l \in Said' <=> monitors[l] # 0 /\ mon'[monitors[l]].sent = Failed
          BY <1>1 DEF Said, Watched
        <5>2. l \in Said <=> monitors[l] # 0 /\ mon[monitors[l]].sent = Failed
          BY DEF Said, Watched
        <5>3. monitors[l] # 0 => monitors[l] \in MonId
          BY PromiseFacts
        <5>4. CASE l = k
          BY <2>4, <2>5, <2>8, <3>1, <5>1, <5>2, <5>4 DEF Verdict, Healthy, Failed
        <5>5. CASE l # k
          BY <2>4, <3>1, <5>1, <5>2, <5>3, <5>5
        <5> QED
          BY <5>4, <5>5
      <4>2. Said \subseteq Key /\ Said' \subseteq Key
        BY <3>3 DEF Said, Watched
      <4> QED
        BY <4>1, <4>2, <3>2 DEF Promise!Turned
    <3>5. Owed' = [Owed EXCEPT ![k] = Owed[k] + 1]
      <4>1. ASSUME NEW l \in Key, NEW m, m = monitors[l]
            PROVE  (IF m = 0 THEN 0 ELSE Cardinality(Mail(m)')) =
                     IF l = k THEN Owed[k] + 1 ELSE Owed[l]
        <5>1. CASE l = k
          BY <2>3, <2>8, <3>1, <3>2, <4>1, <5>1
        <5>2. CASE l # k
          <6>1. m # 0 => m \in MonId \ {i} /\ Owed[l] = Cardinality(Mail(m))
            BY <3>1, <4>1, <5>2, PromiseFacts
          <6>2. m = 0 => Owed[l] = 0
            BY <4>1, PromiseFacts
          <6> QED
            BY <2>3, <5>2, <6>1, <6>2
        <5> QED
          BY <5>1, <5>2
      <4>2. ASSUME NEW l \in Key
            PROVE  Owed'[l] = IF l = k THEN Owed[k] + 1 ELSE Owed[l]
        <5>1. PICK m : m = monitors[l]
          OBVIOUS
        <5>2. Owed'[l] = IF m = 0 THEN 0 ELSE Cardinality(Mail(m)')
          BY <1>1, <5>1 DEF Owed
        <5> QED
          BY <4>1, <5>1, <5>2
      <4>3. DOMAIN Owed' = Key /\ DOMAIN Owed = Key /\ Owed' = [l \in Key |-> Owed'[l]]
        BY DEF Owed
      <4> QED
        BY <3>2, <4>2, <4>3
    <3> QED
      BY <1>1, <2>6, <3>2, <3>3, <3>4, <3>5 DEF Promise!Give
  <2> QED
    BY <2>7, <2>8 DEF Promise!Next
<1> QED
  BY <1>2, <1>3

\* A verdict taken is one believed, if its monitor is still its key's.
LEMMA ReceiveBelieves ==
  ASSUME NewsInv, NewsInv', Receive
  PROVE  [Promise!Next]_(Promise!vars)
<1>1. TypeOK /\ KeptInv /\ inbox # <<>> /\ inbox' = Tail(inbox) /\ UNCHANGED <<monitors, mon>>
  BY DEF NewsInv, KeptInv, Receive
<1>2. PICK ev : ev = inbox[1]
  OBVIOUS
<1>3. Handle(ev) /\ 1 \in DOMAIN inbox
  BY <1>1, <1>2, MailReceived DEF Receive
<1>4. \A i : Cardinality(Mail(i)') =
                IF 1 \in Mail(i) THEN Cardinality(Mail(i)) - 1 ELSE Cardinality(Mail(i))
  BY <1>1, CountShrinks
<1>5. \A i : 1 \in Mail(i) <=> ev.kind = "health" /\ ev.id = i
  BY <1>2, <1>3 DEF Mail
<1>6. ev.kind = "health" => ev.id \in MonId /\ ev.key = mon[ev.id].key /\ ev.key \in Key
  <2>1. ev \in Event
    BY <1>1, <1>2, <1>3 DEF TypeOK
  <2> QED
    BY <1>1, <1>2, <1>3, <2>1, MailIds DEF KeptInv, Event, RouteEvent, ResyncEvent
<1>7. UNCHANGED <<Watched, Said>>
  BY <1>1 DEF Watched, Said
<1>8. CASE ~(ev.kind = "health" /\ monitors[ev.key] = ev.id)
  <2>1. UNCHANGED unhealthy
    BY <1>3, <1>8 DEF Handle
  <2>2. \A k \in Key : monitors[k] # 0 => 1 \notin Mail(monitors[k])
    <3> TAKE k \in Key
    <3> SUFFICES ASSUME monitors[k] # 0, ev.kind = "health", ev.id = monitors[k] PROVE FALSE
      BY <1>5
    <3>1. ev.key = k
      BY <1>1, <1>6 DEF KeptInv
    <3> QED
      BY <1>8, <3>1
  <2>3. UNCHANGED Owed
    <3> SUFFICES ASSUME NEW k \in Key, NEW i, i = monitors[k], i # 0
                 PROVE  Cardinality(Mail(i))' = Cardinality(Mail(i))
      BY <1>1, Zenon DEF Owed
    <3> QED
      BY <1>4, <2>2
  <2> QED
    BY <1>7, <2>1, <2>3 DEF Promise!vars
<1>9. CASE ev.kind = "health" /\ monitors[ev.key] = ev.id
  <2>1. PICK k \in Key : k = ev.key
    BY <1>6, <1>9
  <2>2. PICK i \in MonId : i = monitors[k] /\ i # 0
    BY <1>1, <1>6, <1>9, <2>1 DEF MonId, TypeOK
  <2>3. 1 \in Mail(i) /\ \A l \in Key \ {k} : monitors[l] # i
    BY <1>1, <1>5, <1>9, <2>1, <2>2, MonitorsDiffer
  <2>4. /\ Owed[k] = Cardinality(Mail(i)) /\ Owed[k] > 0 /\ Owed[k] \in Nat
    <3>1. Cardinality(Mail(i)) # 0 /\ Cardinality(Mail(i)) \in Nat
      BY <1>1, <2>3, MailCount, FS_EmptySet
    <3> QED
      BY <2>2, <3>1, PromiseFacts
  <2>5. unhealthy' = Promise!Turned(unhealthy, k)
    <3>1. Alternates(k, i)
      BY <2>2, NewsIsAlternation DEF NewsInv
    <3>2. Before(i, 1) = {}
      <4>1. \A l \in Mail(i) : l \in Nat /\ 1 <= l
        BY <1>1, MailType
      <4> QED
        BY <4>1 DEF Before
    <3>3. ev.verdict = Healthy <=> k \in unhealthy
      BY <1>2, <2>3, <3>1, <3>2 DEF Alternates
    <3> QED
      BY <1>3, <1>9, <2>1, <3>3 DEF Handle, Promise!Turned
  <2>6. Owed' = [Owed EXCEPT ![k] = Owed[k] - 1]
    <3>1. ASSUME NEW l \in Key
          PROVE  Owed'[l] = IF l = k THEN Owed[k] - 1 ELSE Owed[l]
      <4>1. PICK m : m = monitors[l]
        OBVIOUS
      <4>2. Owed'[l] = IF m = 0 THEN 0 ELSE Cardinality(Mail(m)')
        BY <1>1, <4>1 DEF Owed
      <4>3. CASE l = k
        BY <1>4, <2>2, <2>3, <2>4, <4>1, <4>2, <4>3
      <4>4. CASE l # k
        <5>1. m # 0 => 1 \notin Mail(m) /\ Owed[l] = Cardinality(Mail(m))
          <6>1. m # i
            BY <2>3, <4>1, <4>4
          <6>2. 1 \in Mail(m) => m = i
            BY <1>5, <2>3
          <6> QED
            BY <4>1, <6>1, <6>2, PromiseFacts
        <5>2. m = 0 => Owed[l] = 0
          BY <4>1, PromiseFacts
        <5> QED
          BY <1>4, <4>2, <4>4, <5>1, <5>2
      <4> QED
        BY <4>3, <4>4
    <3>2. DOMAIN Owed' = Key /\ DOMAIN Owed = Key /\ Owed' = [l \in Key |-> Owed'[l]]
      BY DEF Owed
    <3> QED
      BY <3>1, <3>2, PromiseFacts
  <2>7. Promise!Believe(k)
    BY <1>7, <2>4, <2>5, <2>6 DEF Promise!Believe
  <2> QED
    BY <2>7 DEF Promise!Next
<1> QED
  BY <1>8, <1>9

\* A pass ends the watches of the monitors it stops and begins those it starts.
LEMMA PlanRewatches ==
  ASSUME NewsInv, NewsInv', Plan
  PROVE  [Promise!Next]_(Promise!vars)
<1>1. TypeOK /\ KeptInv /\ gateways' \in [Key -> SUBSET Addr] /\ SyncMonitors(gateways')
  BY DEF NewsInv, KeptInv, Plan, TypeOK
<1>2. /\ unhealthy' \subseteq unhealthy
      /\ \A i \in MonId : mon'[i] = mon[i]
      /\ \A i \in MonId' \ MonId : mon'[i].phase = "new" /\ mon'[i].sent = Healthy
      /\ \A k \in Key :
           \/ monitors'[k] = 0
           \/ monitors'[k] = monitors[k]
           \/ monitors'[k] \in MonId' \ MonId /\ mon'[monitors'[k]].key = k
      /\ \A k \in Key : monitors[k] # 0 =>
           (k \in unhealthy' <=> k \in unhealthy /\ monitors'[k] = monitors[k])
  BY <1>1, SyncFacts
<1>3. \A i : Mail(i)' = Mail(i)
  BY DEF Plan, Mail
<1>4. \A i \in MonId' \ MonId : Mail(i) = {}
  BY <1>1, MailIds DEF Mail
<1>5. \A k \in Key : /\ monitors[k] # 0 => monitors[k] \in MonId
                     /\ monitors[k] = 0 => k \notin unhealthy
  BY PromiseFacts
<1> DEFINE ended == {k \in Key : monitors[k] # 0 /\ monitors'[k] # monitors[k]}
           begun == {k \in Key : monitors'[k] # 0 /\ monitors'[k] # monitors[k]}
<1>6. ended \in SUBSET Key /\ begun \in SUBSET Key /\ ended \subseteq Watched
  BY DEF Watched
<1>7. begun \cap (Watched \ ended) = {} /\ Watched' = (Watched \ ended) \cup begun
  BY DEF Watched
<1>8. \A k \in begun : monitors'[k] \in MonId' \ MonId
  BY <1>2
<1>9. Said' = Said \ ended
  <2>1. ASSUME NEW k \in Key
        PROVE  k \in Said' <=> k \in Said /\ k \notin ended
    <3>1. /\ k \in Said' <=> monitors'[k] # 0 /\ mon'[monitors'[k]].sent = Failed
          /\ k \in Said <=> monitors[k] # 0 /\ mon[monitors[k]].sent = Failed
      BY DEF Said, Watched
    <3>2. CASE monitors'[k] = monitors[k]
      BY <1>2, <1>5, <3>1, <3>2
    <3>3. CASE monitors'[k] # monitors[k]
      <4>1. k \in begun => mon'[monitors'[k]].sent = Healthy
        BY <1>2, <1>8
      <4> QED
        BY <3>1, <3>3, <4>1 DEF Healthy, Failed
    <3> QED
      BY <3>2, <3>3
  <2>2. Said \subseteq Key /\ Said' \subseteq Key
    BY DEF Said, Watched
  <2> QED
    BY <2>1, <2>2
<1>10. unhealthy' = unhealthy \ ended
  <2>1. unhealthy \subseteq Key
    BY <1>1 DEF TypeOK
  <2> QED
    BY <1>2, <1>5, <2>1
<1>11. Owed' = [k \in Key |-> IF k \in ended THEN 0 ELSE Owed[k]]
  <2>1. ASSUME NEW k \in Key
        PROVE  Owed'[k] = IF k \in ended THEN 0 ELSE Owed[k]
    <3>1. PICK i : i = monitors'[k]
      OBVIOUS
    <3>2. Owed'[k] = IF i = 0 THEN 0 ELSE Cardinality(Mail(i)')
      BY <3>1 DEF Owed
    <3>3. Owed'[k] = IF i = 0 THEN 0 ELSE Cardinality(Mail(i))
      BY <1>3, <3>2
    <3>4. CASE i = monitors[k]
      BY <3>1, <3>3, <3>4 DEF Owed
    <3>5. CASE i # monitors[k]
      <4>1. Owed'[k] = 0
        <5>1. i # 0 => Mail(i) = {}
          BY <1>4, <1>8, <3>1, <3>5
        <5> QED
          BY <3>3, <5>1, FS_EmptySet
      <4>2. monitors[k] = 0 => Owed[k] = 0
        BY PromiseFacts
      <4> QED
        BY <3>1, <3>5, <4>1, <4>2
    <3> QED
      BY <3>4, <3>5
  <2>2. Owed' = [k \in Key |-> Owed'[k]]
    BY DEF Owed
  <2> QED
    BY <2>1, <2>2
<1> HIDE DEF ended, begun
<1>12. Promise!Rewatch(ended, begun)
  BY <1>6, <1>7, <1>9, <1>10, <1>11 DEF Promise!Rewatch
<1> QED
  BY <1>6, <1>12 DEF Promise!Next

\* The other steps do not show.
LEMMA OthersAreUnseen ==
  ASSUME NewsInv, NewsInv', [Next]_vars
  PROVE  \/ \E i \in MonId : MonitorReports(i)
         \/ Receive \/ Plan
         \/ UNCHANGED Promise!vars
<1>1. TypeOK /\ (\A k \in Key : monitors[k] # 0 => monitors[k] \in MonId)
  BY PromiseFacts DEF NewsInv, KeptInv
<1>2. ASSUME UNCHANGED <<monitors, unhealthy>>, \A i : Mail(i)' = Mail(i),
             \A i \in MonId : mon'[i].sent = mon[i].sent
      PROVE  UNCHANGED Promise!vars
  BY <1>1, <1>2, Unseen
<1>3. CASE UNCHANGED vars
  BY <1>2, <1>3 DEF vars, rec, Mail
<1>4. CASE CheckStop \/ SelectStop \/ FoldDone \/ BatchDone \/ ReapDone
  BY <1>2, <1>4 DEF CheckStop, SelectStop, FoldDone, BatchDone, ReapDone, Mail
<1>5. CASE Shutdown
  <2>1. \A l \in MonId : mon'[l].sent = mon[l].sent
    BY <1>1, <1>5 DEF Shutdown, TypeOK, Monitor
  <2> QED
    BY <1>2, <1>5, <2>1 DEF Shutdown, Mail
<1>6. ASSUME NEW i \in MonId, StopMonitor(i) \/ StartMonitor(i)
      PROVE  UNCHANGED Promise!vars
  <2>1. \A l \in MonId : mon'[l].sent = mon[l].sent
    <3>1. CASE StopMonitor(i)
      BY <1>1, <3>1 DEF StopMonitor, TypeOK, Monitor
    <3>2. CASE StartMonitor(i)
      BY <1>1, <3>2 DEF StartMonitor, TypeOK, Monitor
    <3> QED
      BY <1>6, <3>1, <3>2
  <2> QED
    BY <1>2, <1>6, <2>1 DEF StopMonitor, StartMonitor, Mail
<1>7. ASSUME NEW i \in MonId, MonitorTicks(i) \/ MonitorExits(i)
      PROVE  UNCHANGED Promise!vars
  <2>1. \A l \in MonId : mon'[l].sent = mon[l].sent
    <3>1. PICK p \in {"probe", "exited"} : mon' = [mon EXCEPT ![i].phase = p]
      BY <1>7 DEF MonitorTicks, MonitorExits
    <3> QED
      BY <1>1, <3>1 DEF TypeOK, Monitor
  <2> QED
    BY <1>2, <1>7, <2>1 DEF MonitorTicks, MonitorExits, rec, Mail
<1>8. ASSUME NEW i \in MonId, MonitorProbes(i)
      PROVE  UNCHANGED Promise!vars
  <2>1. PICK pass \in BOOLEAN :
          mon' = [mon EXCEPT ![i] = [Streak(mon[i], pass) EXCEPT !.phase =
                    IF HasNews(Streak(mon[i], pass)) THEN "report" ELSE "tick"]]
    BY <1>8, Zenon DEF MonitorProbes
  <2>2. Streak(mon[i], pass) \in Monitor /\ Streak(mon[i], pass).sent = mon[i].sent
    BY <1>1, StreakType DEF TypeOK
  <2>3. \A m \in Monitor : \A p : [m EXCEPT !.phase = p].sent = m.sent
    BY DEF Monitor
  <2>4. \A l \in MonId : mon'[l].sent = mon[l].sent
    BY <1>1, <2>1, <2>2, <2>3 DEF TypeOK
  <2> QED
    BY <1>2, <1>8, <2>4 DEF MonitorProbes, rec, Mail
<1>9. CASE Surroundings
  <2>1. UNCHANGED <<monitors, unhealthy, mon>>
    BY <1>9 DEF Surroundings, GatewaysChange, TargetFlips, Cancel, WatcherPosts, ResyncTicks, rec
  <2>2. CASE UNCHANGED inbox
    BY <1>2, <2>1, <2>2 DEF Mail
  <2>3. ASSUME NEW e \in {RouteEvent, ResyncEvent}, inbox' = Append(inbox, e)
        PROVE  UNCHANGED Promise!vars
    <3>1. \A i : Mail(i)' = Mail(i)
      BY <1>1, <2>3, MailOfOthers
    <3> QED
      BY <1>2, <2>1, <3>1
  <2> QED
    BY <1>9, <2>2, <2>3 DEF Surroundings, GatewaysChange, TargetFlips, Cancel, WatcherPosts, ResyncTicks
<1> QED
  BY <1>3, <1>4, <1>5, <1>6, <1>7, <1>8, <1>9 DEF Next, Reconciler, MonitorStep

\* Initially nothing is watched.
LEMMA PromiseInit ==
  Init => Promise!Init
<1> SUFFICES ASSUME Init PROVE Promise!Init
  OBVIOUS
<1>1. Watched = {} /\ Said = {} /\ Owed = [k \in Key |-> 0]
  BY DEF Init, Watched, Said, Owed
<1>2. unhealthy = {}
  BY DEF Init
<1> QED
  BY <1>1, <1>2 DEF Promise!Init

\* For any number of uplinks and any capacity of the mailbox, what the reconciler holds
\* of its uplinks is what Beliefs promises: whatever is dropped, late, of a replaced
\* monitor or waiting among other events, every verdict given is believed once, in its
\* turn, unless its watch has ended.
THEOREM HealthKeepsItsPromise ==
  Spec => BeliefsKept
<1>1. NewsInv /\ NewsInv' /\ [Next]_vars => [Promise!Next]_(Promise!vars)
  BY OthersAreUnseen, ReportGives, ReceiveBelieves, PlanRewatches
<1>2. Spec => []NewsInv
  BY NewsInit, NewsNext, PTL DEF Spec
<1> QED
  BY <1>1, <1>2, PromiseInit, PTL DEF Spec, BeliefsKept, Promise!Spec
=============================================================================
