---------------------------- MODULE ClaimsProofs ----------------------------
(***************************************************************************)
(* The safety of Claims, for any addresses, identifiers, mailbox depths    *)
(* and numbers of changes and faults.                                      *)
(***************************************************************************)
EXTENDS Claims, TLAPS

-----------------------------------------------------------------------------
(* Types.                                                                  *)

\* A queue keeps its type as it shrinks and grows.
LEMMA QueueOps ==
  ASSUME NEW S, NEW q \in Seq(S)
  PROVE  /\ q # <<>> => /\ Head(q) \in S
                        /\ Tail(q) \in Seq(S)
                        /\ Len(Tail(q)) = Len(q) - 1
                        /\ Len(q) > 0
         /\ \A x \in S : /\ Append(q, x) \in Seq(S)
                         /\ Len(Append(q, x)) = Len(q) + 1
         /\ \A i \in DOMAIN q : q[i] \in S
  OBVIOUS

LEMMA TypeInit ==
  Init => TypeOK
<1> SUFFICES ASSUME Init PROVE TypeOK
  OBVIOUS
<1>1. \A S : <<>> \in Seq(S) /\ Len(<<>>) = 0
  OBVIOUS
<1>2. /\ events \in Seq(Verdict) /\ Len(events) = 0
      /\ probes \in Seq(SUBSET Claim) /\ Len(probes) = 0
  BY <1>1 DEF Init
<1>3. /\ EventDepth \in Nat /\ ProbeDepth \in Nat /\ MaxChanges \in Nat /\ MaxFaults \in Nat
  BY ClaimsAssumption
<1>4. /\ batch \in [withdraw: SUBSET Entry, install: SUBSET Entry, offer: SUBSET Claim]
      /\ work \in [purge: SUBSET Entry, solicit: SUBSET Entry, report: SUBSET Verdict]
  BY DEF Init, NoBatch, NoWork
<1>5. probing \in [Entry -> Kind \cup {None}] /\ pending \in [Entry -> Kind \cup {None}]
  BY DEF Init
<1>6. /\ desired \subseteq Entry /\ local \subseteq Entry /\ holder \subseteq Entry
      /\ neigh \subseteq Entry /\ proxy \subseteq Entry /\ changes = 0 /\ faults = 0
      /\ stop \in BOOLEAN /\ pc = "select" /\ ppc = "idle"
      /\ overdue = {} /\ conflicts = {} /\ burned = {} /\ proved = {} /\ elapsed = {}
      /\ planned = {} /\ failed \in BOOLEAN /\ contested = {} /\ proof = {} /\ answered = {}
  BY DEF Init
<1> QED
  BY <1>2, <1>3, <1>4, <1>5, <1>6 DEF TypeOK

\* The bound on faults is kept.
LEMMA FaultType ==
  ASSUME TypeOK, (\E kind : Fault(kind)) \/ UNCHANGED faults
  PROVE  faults' \in 0..MaxFaults
  BY ClaimsAssumption DEF Fault, TypeOK

LEMMA TypeSurroundings ==
  ASSUME TypeOK, Surroundings
  PROVE  TypeOK'
<1>1. ASSUME NEW e \in Entry, WorldChanges(e)
      PROVE  TypeOK'
  <2>1. \A S : S \subseteq Entry => Toggle(S, e) \subseteq Entry
    BY DEF Toggle
  <2>2. desired' \subseteq Entry /\ local' \subseteq Entry /\ holder' \subseteq Entry
    BY <1>1, <2>1 DEF WorldChanges, TypeOK
  <2>3. changes' \in 0..MaxChanges
    BY <1>1, ClaimsAssumption DEF WorldChanges, TypeOK
  <2> QED
    BY <1>1, <2>2, <2>3 DEF WorldChanges, TypeOK, claims, prober, history
<1>2. CASE Cancel
  BY <1>2 DEF Cancel, TypeOK, claims, prober, history
<1>3. ASSUME NEW e \in Entry, HolderAnswers(e)
      PROVE  TypeOK'
  BY <1>3 DEF HolderAnswers, TypeOK, world, claims, prober
<1>4. ASSUME NEW e \in Entry, NeighbourAges(e)
      PROVE  TypeOK'
  BY <1>4 DEF NeighbourAges, TypeOK, world, claims, prober, history
<1>5. ASSUME NEW e \in Entry, WindowRuns(e)
      PROVE  TypeOK'
  <2>1. faults' \in 0..MaxFaults
    BY <1>5, FaultType DEF WindowRuns
  <2>2. elapsed' \subseteq {f \in Entry : pending'[f] # None}
    BY <1>5 DEF WindowRuns, TypeOK
  <2> QED
    BY <1>5, <2>1, <2>2 DEF WindowRuns, TypeOK, world, claims, history
<1>6. ASSUME NEW e \in Entry, DeadlinePasses(e)
      PROVE  TypeOK'
  BY <1>6 DEF DeadlinePasses, TypeOK, world, prober, history
<1>7. ASSUME NEW e \in Entry, ConflictLapses(e)
      PROVE  TypeOK'
  BY <1>7 DEF ConflictLapses, TypeOK, world, prober, history
<1>8. CASE PollTicks
  <2>1. probes' \in Seq(SUBSET Claim) /\ Len(probes') <= ProbeDepth
    <3>1. Poll \in SUBSET Claim
      BY DEF Poll
    <3> QED
      BY <1>8, <3>1, QueueOps, ClaimsAssumption DEF PollTicks, TypeOK
  <2> QED
    BY <1>8, <2>1 DEF PollTicks, TypeOK, world, claims, prober, history
<1> QED
  BY <1>1, <1>2, <1>3, <1>4, <1>5, <1>6, <1>7, <1>8 DEF Surroundings

\* What planClaims makes of the missing entries: four disjoint kinds.
LEMMA PlanFacts ==
  ASSUME TypeOK, NEW missing \in SUBSET Entry
  PROVE  LET p == PlanClaims(missing) IN
         /\ p.refused \subseteq missing /\ p.proved \subseteq missing
         /\ p.speculative \subseteq missing /\ p.screened \subseteq missing
         /\ \A e \in missing : \/ InFlight[e] # None
                               \/ e \in p.refused \cup p.proved \cup p.speculative \cup p.screened
         /\ \A e \in p.refused \cup p.proved \cup p.speculative \cup p.screened : InFlight[e] = None
         /\ p.proved \subseteq proved
         /\ (p.speculative \cup p.screened) \cap (p.refused \cup p.proved) = {}
         /\ p.speculative \cap p.screened = {} /\ p.refused \cap p.proved = {}
         /\ p.speculative \cap proved = {}
         /\ \A e \in p.speculative : Ident[e] \notin burned
  BY DEF PlanClaims, Clean

LEMMA TypeReceive ==
  ASSUME TypeOK, Receive
  PROVE  TypeOK'
<1> DEFINE v == Head(events)
           e == v.entry
<1>1. /\ v \in Verdict /\ events' \in Seq(Verdict) /\ Len(events') <= EventDepth
  BY QueueOps, ClaimsAssumption DEF Receive, TypeOK
<1>2. ClaimVerified(v)
  BY DEF Receive
<1>3. e \in Entry /\ v.kind \in Kind /\ Ident[e] \in Host
  BY <1>1 DEF Verdict, Host
<1>4. UNCHANGED <<world, neigh, proxy, faults, probes, pc, batch, prober, planned, failed, answered>>
  BY DEF Receive
<1> HIDE DEF v
<1>5. CASE probing[e] # v.kind
  BY <1>1, <1>2, <1>4, <1>5 DEF ClaimVerified, TypeOK, world, claims, prober
<1>6. CASE probing[e] = v.kind
  <2>1. /\ probing' = [probing EXCEPT ![e] = None]
        /\ overdue' = overdue \ {e}
        /\ IF v.contested
           THEN /\ RecordConflicts({e}, conflicts)
                /\ UNCHANGED <<proved, proof>>
                /\ contested' = contested \cup {Ident[e]}
           ELSE /\ IF v.kind = Screened
                   THEN /\ conflicts' = conflicts \ {e}
                        /\ proved' = proved \cup {e}
                        /\ proof' = proof \cup {e}
                   ELSE UNCHANGED <<conflicts, proved, proof>>
                /\ UNCHANGED <<burned, contested>>
    BY <1>2, <1>6, Zenon DEF ClaimVerified
  <2> HIDE DEF e
  <2>2. /\ probing' \in [Entry -> Kind \cup {None}]
        /\ overdue' \subseteq {f \in Entry : probing'[f] # None}
    BY <1>3, <2>1 DEF TypeOK
  <2>3. /\ conflicts' \subseteq Entry /\ burned' \subseteq Host /\ proved' \subseteq Entry
        /\ contested' \subseteq Host /\ proof' \subseteq Entry
    BY <1>3, <2>1 DEF TypeOK, RecordConflicts, Host
  <2> QED
    BY <1>1, <1>4, <2>2, <2>3 DEF TypeOK, world, prober
<1> QED
  BY <1>5, <1>6

\* What is in flight is in flight for a kind.
LEMMA InFlightType ==
  ASSUME TypeOK
  PROVE  /\ InFlight \in [Entry -> Kind \cup {None}]
         /\ \A e \in Entry : InFlight[e] # None => InFlight[e] = probing[e]
  BY DEF TypeOK, InFlight

\* A pass, in what it makes of each entry.
PlanMakes(refused, ready, spec, screened) ==
  /\ pc = "observe" /\ pc' = "run" /\ failed' = FALSE /\ planned' = Want /\ overdue' = {}
  /\ UNCHANGED <<world, neigh, proxy, faults, events, probes, prober,
                 contested, proof, answered>>
  /\ conflicts' = conflicts \cup refused
  /\ burned' = burned \cup {Ident[e] : e \in refused}
  /\ proved' = proved \ ready
  /\ \A e \in Entry : probing'[e] = IF e \in spec THEN Speculative
                                    ELSE IF e \in screened THEN Screened ELSE InFlight[e]
  /\ probing' \in [Entry -> Kind \cup {None}]
  /\ batch'.withdraw = proxy \ Want /\ batch'.install = ready \cup spec
  /\ batch' \in [withdraw: SUBSET Entry, install: SUBSET Entry, offer: SUBSET Claim]
  /\ \A e \in Want \ proxy : \/ InFlight[e] # None
                             \/ e \in refused \cup ready \cup spec \cup screened
  /\ \A e \in refused \cup ready \cup spec \cup screened : InFlight[e] = None
  /\ ready \subseteq proved /\ spec \cap proved = {}
  /\ refused \cap (ready \cup spec) = {} /\ screened \cap (ready \cup spec) = {}
  /\ \A e \in spec : Ident[e] \notin burned

LEMMA PlanEffect ==
  ASSUME TypeOK, Plan
  PROVE  \E refused, ready, spec, screened \in SUBSET (Want \ proxy) :
           PlanMakes(refused, ready, spec, screened)
<1> DEFINE p    == PlanClaims(Want \ proxy)
           kind == [e \in p.speculative \cup p.screened |->
                      IF e \in p.speculative THEN Speculative ELSE Screened]
           offer == {[entry |-> e, kind |-> kind[e]] : e \in DOMAIN kind}
<1>1. /\ pc = "observe" /\ pc' = "run" /\ failed' = FALSE /\ planned' = Want /\ overdue' = {}
      /\ UNCHANGED <<world, neigh, proxy, faults, events, probes, prober,
                     contested, proof, answered>>
      /\ RecordConflicts(p.refused, conflicts)
      /\ proved' = proved \ p.proved
      /\ probing' = [e \in Entry |-> IF e \in DOMAIN kind THEN kind[e] ELSE InFlight[e]]
      /\ batch' = [withdraw |-> proxy \ Want, install |-> Installs(p), offer |-> offer]
  BY Zenon DEF Plan
<1>2. Want \subseteq Entry /\ Want \ proxy \in SUBSET Entry
  BY DEF Want, TypeOK
<1>3. /\ p.refused \subseteq Want \ proxy /\ p.proved \subseteq Want \ proxy
      /\ p.speculative \subseteq Want \ proxy /\ p.screened \subseteq Want \ proxy
      /\ \A e \in Want \ proxy :
           \/ InFlight[e] # None
           \/ e \in p.refused \cup p.proved \cup p.speculative \cup p.screened
      /\ \A e \in p.refused \cup p.proved \cup p.speculative \cup p.screened : InFlight[e] = None
      /\ p.proved \subseteq proved
      /\ (p.speculative \cup p.screened) \cap (p.refused \cup p.proved) = {}
      /\ p.speculative \cap p.screened = {} /\ p.refused \cap p.proved = {}
      /\ p.speculative \cap proved = {}
      /\ \A e \in p.speculative : Ident[e] \notin burned
  BY <1>2, PlanFacts
<1>4. Installs(p) = p.proved \cup p.speculative
  BY DEF Installs
<1> HIDE DEF p
<1>5. offer \in SUBSET Claim
  <2>1. /\ DOMAIN kind = p.speculative \cup p.screened
        /\ \A e \in DOMAIN kind : e \in Entry /\ kind[e] \in Kind
    BY <1>2, <1>3 DEF Kind
  <2> HIDE DEF kind
  <2>2. \A e \in DOMAIN kind : [entry |-> e, kind |-> kind[e]] \in Claim
    BY <2>1 DEF Claim
  <2> QED
    BY <2>2
<1>6. /\ \A e \in Entry : probing'[e] = IF e \in p.speculative THEN Speculative
                                        ELSE IF e \in p.screened THEN Screened ELSE InFlight[e]
      /\ probing' \in [Entry -> Kind \cup {None}]
  BY <1>1, InFlightType DEF Kind
<1>7. /\ batch'.withdraw = proxy \ Want /\ batch'.install = p.proved \cup p.speculative
      /\ batch' \in [withdraw: SUBSET Entry, install: SUBSET Entry, offer: SUBSET Claim]
  <2> HIDE DEF offer
  <2>1. proxy \ Want \in SUBSET Entry /\ p.proved \cup p.speculative \in SUBSET Entry
    BY <1>2, <1>3 DEF TypeOK
  <2> QED
    BY <1>1, <1>4, <1>5, <2>1
<1>8. /\ conflicts' = conflicts \cup p.refused
      /\ burned' = burned \cup {Ident[e] : e \in p.refused}
  BY <1>1 DEF RecordConflicts
<1>9. PlanMakes(p.refused, p.proved, p.speculative, p.screened)
  <2>1. /\ p.refused \cap (p.proved \cup p.speculative) = {}
        /\ p.screened \cap (p.proved \cup p.speculative) = {}
    BY <1>3
  <2> QED
    BY <1>1, <1>3, <1>6, <1>7, <1>8, <2>1, Zenon DEF PlanMakes
<1> QED
  BY <1>3, <1>9, Zenon

LEMMA TypePlan ==
  ASSUME TypeOK, Plan
  PROVE  TypeOK'
<1>1. PICK refused, ready, spec, screened \in SUBSET (Want \ proxy) :
         PlanMakes(refused, ready, spec, screened)
  BY PlanEffect
<1>2. Want \subseteq Entry
  BY DEF Want, TypeOK
<1>3. /\ conflicts' \subseteq Entry /\ burned' \subseteq Host /\ proved' \subseteq Entry
      /\ planned' \subseteq Entry
  BY <1>1, <1>2 DEF PlanMakes, TypeOK, Host
<1>4. /\ overdue' = {} /\ pc' = "run" /\ failed' = FALSE
      /\ probing' \in [Entry -> Kind \cup {None}]
      /\ batch' \in [withdraw: SUBSET Entry, install: SUBSET Entry, offer: SUBSET Claim]
      /\ UNCHANGED <<world, neigh, proxy, faults, events, probes, prober,
                     contested, proof, answered>>
  BY <1>1, Zenon DEF PlanMakes
<1> QED
  BY <1>3, <1>4 DEF TypeOK, world, prober

\* The batch of a pass shrinks as its commands run.
LEMMA BatchShrinks ==
  ASSUME TypeOK, NEW e \in Entry
  PROVE  /\ [batch EXCEPT !.withdraw = @ \ {e}]
              \in [withdraw: SUBSET Entry, install: SUBSET Entry, offer: SUBSET Claim]
         /\ [batch EXCEPT !.install = @ \ {e}]
              \in [withdraw: SUBSET Entry, install: SUBSET Entry, offer: SUBSET Claim]
         /\ NoBatch \in [withdraw: SUBSET Entry, install: SUBSET Entry, offer: SUBSET Claim]
  BY DEF TypeOK, NoBatch

LEMMA TypeReconciler ==
  ASSUME TypeOK, Reconciler
  PROVE  TypeOK'
<1>1. CASE Wake
  BY <1>1 DEF Wake, TypeOK, world, claims, prober, history
<1>2. CASE WakeToStop
  BY <1>2 DEF WakeToStop, TypeOK, world, claims, prober, history
<1>3. CASE FoldDone
  BY <1>3 DEF FoldDone, TypeOK, world, claims, prober, history
<1>4. CASE PlanBlind
  <2>1. faults' \in 0..MaxFaults
    BY <1>4, FaultType DEF PlanBlind
  <2>2. /\ probing' \in [Entry -> Kind \cup {None}] /\ overdue' = {}
    BY <1>4, InFlightType DEF PlanBlind
  <2> QED
    BY <1>4, <2>1, <2>2 DEF PlanBlind, TypeOK, world, prober
<1>5. CASE Offer
  <2>1. /\ batch' = NoBatch
        /\ probes' = IF Len(probes) < ProbeDepth THEN Append(probes, batch.offer) ELSE probes
        /\ UNCHANGED <<world, neigh, proxy, faults, events, pc, claims, prober, history>>
    BY <1>5 DEF Offer
  <2>2. batch.offer \in SUBSET Claim
    BY DEF TypeOK
  <2>3. probes \in Seq(SUBSET Claim) /\ Len(probes) <= ProbeDepth
    BY DEF TypeOK
  <2>4. probes' \in Seq(SUBSET Claim) /\ Len(probes') <= ProbeDepth
    BY <2>1, <2>2, <2>3, QueueOps, ClaimsAssumption
  <2>5. batch' \in [withdraw: SUBSET Entry, install: SUBSET Entry, offer: SUBSET Claim]
    BY <2>1 DEF NoBatch
  <2> QED
    BY <2>1, <2>4, <2>5 DEF TypeOK, world, claims, prober, history
<1>6. CASE PassDone
  BY <1>6 DEF PassDone, TypeOK, world, claims, prober, history
<1>7. CASE PlanShutdown
  <2>1. faults' \in 0..MaxFaults
    BY <1>7, FaultType DEF PlanShutdown, Failure
  <2>2. batch' \in [withdraw: SUBSET Entry, install: SUBSET Entry, offer: SUBSET Claim]
    BY <1>7 DEF PlanShutdown, TypeOK, NoBatch, Leftovers
  <2>3. failed' \in BOOLEAN
    BY <1>7 DEF PlanShutdown, Failure
  <2>4. probing' \in [Entry -> Kind \cup {None}]
    BY <1>7 DEF PlanShutdown
  <2>5. /\ pc' = "cleanup" /\ overdue' = {} /\ conflicts' = {} /\ proved' = {}
        /\ UNCHANGED <<world, neigh, proxy, events, probes, burned, prober, planned, contested,
                       proof, answered>>
    BY <1>7 DEF PlanShutdown
  <2> QED
    BY <2>1, <2>2, <2>3, <2>4, <2>5 DEF TypeOK, world, prober
<1>8. CASE CleanupDone
  BY <1>8 DEF CleanupDone, TypeOK, world, claims, prober, history
<1>9. ASSUME NEW e \in Entry, Withdraw(e)
      PROVE  TypeOK'
  <2>1. faults' \in 0..MaxFaults
    BY <1>9, FaultType DEF Withdraw, Failure
  <2>2. /\ batch' = [batch EXCEPT !.withdraw = @ \ {e}]
        /\ proxy' \subseteq Entry /\ failed' \in BOOLEAN
        /\ UNCHANGED <<world, neigh, events, probes, pc, claims, prober, planned, contested,
                       proof, answered>>
    BY <1>9 DEF Withdraw, Failure, TypeOK
  <2>3. batch' \in [withdraw: SUBSET Entry, install: SUBSET Entry, offer: SUBSET Claim]
    BY <2>2, BatchShrinks
  <2> QED
    BY <2>1, <2>2, <2>3 DEF TypeOK, world, claims, prober
<1>10. ASSUME NEW e \in Entry, Install(e)
       PROVE  TypeOK'
  <2>1. faults' \in 0..MaxFaults
    BY <1>10, FaultType DEF Install, Failure
  <2>2. /\ batch' = [batch EXCEPT !.install = @ \ {e}]
        /\ proxy' \subseteq Entry /\ failed' \in BOOLEAN /\ proof' \subseteq Entry
        /\ UNCHANGED <<world, neigh, events, probes, pc, claims, prober, planned, contested,
                       answered>>
    BY <1>10 DEF Install, Failure, TypeOK
  <2>3. batch' \in [withdraw: SUBSET Entry, install: SUBSET Entry, offer: SUBSET Claim]
    BY <2>2, BatchShrinks
  <2> QED
    BY <2>1, <2>2, <2>3 DEF TypeOK, world, claims, prober
<1> QED
  BY <1>1, <1>2, <1>3, <1>4, <1>5, <1>6, <1>7, <1>8, <1>9, <1>10, TypeReceive, TypePlan, Zenon
     DEF Reconciler

\* A turn of the prober takes the head of its mailbox.
LEMMA TakeProbeType ==
  ASSUME TypeOK, NEW b, TakeProbe(b)
  PROVE  /\ b \in SUBSET Claim
         /\ probes' \in Seq(SUBSET Claim) /\ Len(probes') <= ProbeDepth
         /\ ppc' = "run"
  BY QueueOps, ClaimsAssumption DEF TakeProbe, TypeOK

LEMMA TypeAdmit ==
  ASSUME TypeOK, Admit
  PROVE  TypeOK'
<1>1. PICK b :
        LET fresh == {c \in b : pending[c.entry] = None}
            E     == {c.entry : c \in fresh}
            kind(e) == (CHOOSE c \in fresh : c.entry = e).kind
        IN  /\ TakeProbe(b)
            /\ pending' = [e \in Entry |-> IF e \in E THEN kind(e) ELSE pending[e]]
            /\ answered' = answered \ E
            /\ \/ work' = [NoWork EXCEPT !.purge = Cached(E), !.solicit = E] /\ UNCHANGED faults
               \/ Fault("read") /\ work' = [NoWork EXCEPT !.solicit = E]
            /\ UNCHANGED <<world, neigh, proxy, events, pc, claims, batch, elapsed,
                           planned, failed, contested, proof>>
  BY Zenon DEF Admit
<1> DEFINE fresh == {c \in b : pending[c.entry] = None}
           E     == {c.entry : c \in fresh}
           kind(e) == (CHOOSE c \in fresh : c.entry = e).kind
<1>2. /\ TakeProbe(b)
      /\ pending' = [e \in Entry |-> IF e \in E THEN kind(e) ELSE pending[e]]
      /\ answered' = answered \ E
      /\ \/ work' = [NoWork EXCEPT !.purge = Cached(E), !.solicit = E] /\ UNCHANGED faults
         \/ Fault("read") /\ work' = [NoWork EXCEPT !.solicit = E]
      /\ UNCHANGED <<world, neigh, proxy, events, pc, claims, batch, elapsed,
                     planned, failed, contested, proof>>
  BY <1>1, Zenon
<1>3. /\ b \in SUBSET Claim
      /\ probes' \in Seq(SUBSET Claim) /\ Len(probes') <= ProbeDepth
      /\ ppc' = "run"
  BY <1>2, TakeProbeType
<1>4. E \subseteq Entry /\ \A e \in E : pending[e] = None /\ kind(e) \in Kind
  <2>1. E \subseteq Entry /\ \A e \in E : pending[e] = None
    BY <1>3 DEF Claim
  <2>2. ASSUME NEW e \in E PROVE kind(e) \in Kind
    <3>1. PICK c \in fresh : c.entry = e
      OBVIOUS
    <3>2. (CHOOSE d \in fresh : d.entry = e) \in fresh
      BY <3>1
    <3> QED
      BY <1>3, <3>2 DEF Claim
  <2> QED
    BY <2>1, <2>2
<1> HIDE DEF E, kind
<1>5. pending' \in [Entry -> Kind \cup {None}]
  BY <1>2, <1>4 DEF TypeOK
<1>6. elapsed' \subseteq {e \in Entry : pending'[e] # None}
  <2>1. elapsed' = elapsed
    BY <1>2
  <2>2. \A e \in elapsed : e \in Entry /\ e \notin E /\ pending[e] # None
    BY <1>4 DEF TypeOK
  <2> QED
    BY <1>2, <2>1, <2>2
<1>7. work' \in [purge: SUBSET Entry, solicit: SUBSET Entry, report: SUBSET Verdict]
  <2>1. Cached(E) \in SUBSET Entry /\ E \in SUBSET Entry
    BY <1>4 DEF Cached
  <2>2. \/ work' = [purge |-> Cached(E), solicit |-> E, report |-> {}]
        \/ work' = [purge |-> {}, solicit |-> E, report |-> {}]
    BY <1>2 DEF NoWork
  <2> QED
    BY <2>1, <2>2
<1>8. faults' \in 0..MaxFaults
  BY <1>2, FaultType
<1>9. answered' \subseteq Entry
  BY <1>2 DEF TypeOK
<1> QED
  BY <1>2, <1>3, <1>5, <1>6, <1>7, <1>8, <1>9 DEF TypeOK, world, claims

\* What a poll rules, and what it leaves.
PollRules(resolved, held, ruled) ==
  /\ resolved \in {neigh, {}}
  /\ held = {e \in resolved : pending[e] # None}
  /\ ruled = held \cup elapsed
  /\ IF resolved = neigh THEN UNCHANGED faults ELSE Fault("read")
  /\ work' = [purge |-> {}, solicit |-> {}, report |->
                {[entry |-> e, kind |-> pending[e], contested |-> e \in held] : e \in ruled}]
  /\ pending' = [e \in Entry |-> IF e \in ruled THEN None ELSE pending[e]]
  /\ elapsed' = elapsed \ ruled

LEMMA PollEffect ==
  ASSUME PollNeighbours
  PROVE  /\ TakeProbe(Poll)
         /\ \E resolved, held, ruled : PollRules(resolved, held, ruled)
         /\ UNCHANGED <<world, neigh, proxy, events, pc, claims, batch, history>>
<1>1. PICK resolved \in {neigh, {}} :
       LET held  == {e \in resolved : pending[e] # None}
           ruled == held \cup elapsed
       IN  /\ IF resolved = neigh THEN UNCHANGED faults ELSE Fault("read")
           /\ work' = [NoWork EXCEPT !.report =
                         {[entry |-> e, kind |-> pending[e], contested |-> e \in held] : e \in ruled}]
           /\ pending' = [e \in Entry |-> IF e \in ruled THEN None ELSE pending[e]]
           /\ elapsed' = elapsed \ ruled
  BY Zenon DEF PollNeighbours
<1> DEFINE held  == {e \in resolved : pending[e] # None}
           ruled == held \cup elapsed
<1>2. \A R : [NoWork EXCEPT !.report = R] = [purge |-> {}, solicit |-> {}, report |-> R]
  BY DEF NoWork
<1>3. PollRules(resolved, held, ruled)
  BY <1>1, <1>2, Zenon DEF PollRules
<1> QED
  BY <1>3, Zenon DEF PollNeighbours

LEMMA TypePoll ==
  ASSUME TypeOK, PollNeighbours
  PROVE  TypeOK'
<1>1. PICK resolved, held, ruled : PollRules(resolved, held, ruled)
  BY PollEffect
<1>2. /\ UNCHANGED <<world, neigh, proxy, events, pc, claims, batch, history>>
      /\ probes' \in Seq(SUBSET Claim) /\ Len(probes') <= ProbeDepth
      /\ ppc' = "run"
  BY PollEffect, TakeProbeType
<1>3. ruled \subseteq Entry /\ \A e \in ruled : pending[e] \in Kind
  BY <1>1 DEF PollRules, TypeOK
<1>4. work' \in [purge: SUBSET Entry, solicit: SUBSET Entry, report: SUBSET Verdict]
  <2> DEFINE R == {[entry |-> e, kind |-> pending[e], contested |-> e \in held] : e \in ruled}
  <2>1. R \in SUBSET Verdict
    <3>1. \A e \in ruled : [entry |-> e, kind |-> pending[e], contested |-> e \in held] \in Verdict
      <4> SUFFICES ASSUME NEW e \in ruled
                   PROVE  [entry |-> e, kind |-> pending[e], contested |-> e \in held] \in Verdict
        OBVIOUS
      <4> DEFINE c == e \in held
      <4>1. c \in BOOLEAN
        <5>1. CASE e \in held
          <6>1. c = TRUE
            BY <5>1
          <6> QED
            BY <6>1
        <5>2. CASE e \notin held
          <6>1. c = FALSE
            BY <5>2
          <6> QED
            BY <6>1
        <5> QED
          BY <5>1, <5>2
      <4> HIDE DEF c
      <4>2. [entry |-> e, kind |-> pending[e], contested |-> c] \in Verdict
        BY <1>3, <4>1 DEF Verdict
      <4> QED
        BY <4>2, Zenon DEF c
    <3> QED
      BY <3>1, Zenon
  <2>2. work' = [purge |-> {}, solicit |-> {}, report |-> R]
    BY <1>1 DEF PollRules
  <2> HIDE DEF R
  <2> QED
    BY <2>1, <2>2
<1>5. /\ pending' \in [Entry -> Kind \cup {None}]
      /\ elapsed' \subseteq {e \in Entry : pending'[e] # None}
  BY <1>1, <1>3 DEF PollRules, TypeOK
<1>6. faults' \in 0..MaxFaults
  BY <1>1, FaultType DEF PollRules
<1> QED
  BY <1>2, <1>4, <1>5, <1>6 DEF TypeOK, world, claims, history

\* The work of a turn shrinks as its commands run.
LEMMA WorkShrinks ==
  ASSUME TypeOK, NEW e
  PROVE  /\ [work EXCEPT !.purge = @ \ {e}]
              \in [purge: SUBSET Entry, solicit: SUBSET Entry, report: SUBSET Verdict]
         /\ [work EXCEPT !.solicit = @ \ {e}]
              \in [purge: SUBSET Entry, solicit: SUBSET Entry, report: SUBSET Verdict]
         /\ [work EXCEPT !.report = @ \ {e}]
              \in [purge: SUBSET Entry, solicit: SUBSET Entry, report: SUBSET Verdict]
  BY DEF TypeOK

LEMMA TypeProber ==
  ASSUME TypeOK, Prober
  PROVE  TypeOK'
<1>1. CASE TurnDone
  BY <1>1 DEF TurnDone, TypeOK, world, claims, history
<1>2. CASE ProberStops
  BY <1>2 DEF ProberStops, TypeOK, world, claims, history
<1>3. ASSUME NEW e \in Entry, Purge(e)
      PROVE  TypeOK'
  <2>1. faults' \in 0..MaxFaults
    BY <1>3, FaultType DEF Purge
  <2>2. work' \in [purge: SUBSET Entry, solicit: SUBSET Entry, report: SUBSET Verdict]
    BY <1>3, WorkShrinks DEF Purge
  <2> QED
    BY <1>3, <2>1, <2>2 DEF Purge, TypeOK, world, claims, history
<1>4. ASSUME NEW e \in Entry, Solicit(e)
      PROVE  TypeOK'
  <2>1. faults' \in 0..MaxFaults
    BY <1>4, FaultType DEF Solicit
  <2>2. work' \in [purge: SUBSET Entry, solicit: SUBSET Entry, report: SUBSET Verdict]
    BY <1>4, WorkShrinks DEF Solicit
  <2>3. /\ pending' \in [Entry -> Kind \cup {None}]
        /\ elapsed' \subseteq {f \in Entry : pending'[f] # None}
    BY <1>4 DEF Solicit, TypeOK
  <2> QED
    BY <1>4, <2>1, <2>2, <2>3 DEF Solicit, TypeOK, world, claims, history
<1>5. ASSUME NEW v \in work.report, Report(v)
      PROVE  TypeOK'
  <2>1. faults' \in 0..MaxFaults
    BY <1>5, FaultType DEF Report
  <2>2. work' \in [purge: SUBSET Entry, solicit: SUBSET Entry, report: SUBSET Verdict]
    BY <1>5, WorkShrinks DEF Report
  <2>3. events' \in Seq(Verdict) /\ Len(events') <= EventDepth
    <3>1. v \in Verdict /\ events \in Seq(Verdict) /\ Len(events) <= EventDepth
      BY DEF TypeOK
    <3>2. \/ events' = Append(events, v) /\ Len(events) < EventDepth
          \/ events' = events
      BY <1>5 DEF Report, Delivery
    <3> QED
      BY <3>1, <3>2, QueueOps, ClaimsAssumption
  <2> QED
    BY <1>5, <2>1, <2>2, <2>3 DEF Report, TypeOK, world, claims, history
<1> QED
  BY <1>1, <1>2, <1>3, <1>4, <1>5, TypeAdmit, TypePoll, Zenon DEF Prober

LEMMA TypeStep ==
  ASSUME TypeOK, [Next]_vars
  PROVE  TypeOK'
<1>1. CASE UNCHANGED vars
  BY <1>1 DEF vars, TypeOK, world, claims, prober, history
<1> QED
  BY <1>1, TypeSurroundings, TypeReconciler, TypeProber DEF Next

\* Every variable of both loops keeps its type; each mailbox stays within its
\* capacity, claims are overdue and windows run only for what is in flight.
THEOREM TypeCorrect ==
  Spec => []TypeOK
  BY TypeInit, TypeStep, PTL DEF Spec

-----------------------------------------------------------------------------
(* What an entry in the kernel stands for.                                 *)

\* Neither the surroundings nor the prober touch what the reconciler keeps,
\* but for the conflicts forgotten between passes.
LEMMA OthersLeaveIt ==
  ASSUME Surroundings \/ Prober \/ UNCHANGED vars
  PROVE  /\ UNCHANGED <<proxy, pc, probing, burned, proved, batch, planned, failed, contested, proof>>
         /\ conflicts' = conflicts \/ pc = "select"
<1>1. CASE UNCHANGED vars
  BY <1>1 DEF vars, claims, history
<1>2. CASE Surroundings
  BY <1>2 DEF Surroundings, Cancel, PollTicks, WorldChanges, HolderAnswers, NeighbourAges,
              WindowRuns, DeadlinePasses, ConflictLapses, claims, history
<1>3. CASE Prober
  <2>1. CASE Admit
    BY <2>1 DEF Admit, claims
  <2>2. CASE PollNeighbours
    BY <2>2 DEF PollNeighbours, claims, history
  <2>3. CASE TurnDone \/ ProberStops
    BY <2>3 DEF TurnDone, ProberStops, claims, history
  <2>4. CASE \E e \in Entry : Purge(e) \/ Solicit(e)
    BY <2>4 DEF Purge, Solicit, claims, history
  <2>5. CASE \E v \in work.report : Report(v)
    BY <2>5 DEF Report, claims, history
  <2> QED
    BY <1>3, <2>1, <2>2, <2>3, <2>4, <2>5 DEF Prober
<1> QED
  BY <1>1, <1>2, <1>3

\* What a verdict does to the claims, were it taken.
LEMMA ReceiveEffect ==
  ASSUME TypeOK, Receive
  PROVE  /\ pc = "fold" /\ UNCHANGED <<pc, proxy, batch, planned, failed>>
         /\ \A e \in Entry : probing'[e] \in {probing[e], None}
         /\ \/ UNCHANGED <<conflicts, burned, proved, contested, proof>>
            \/ \E e \in Entry :
                 /\ conflicts' = conflicts \cup {e} /\ burned' = burned \cup {Ident[e]}
                 /\ contested' = contested \cup {Ident[e]}
                 /\ UNCHANGED <<proved, proof>>
            \/ \E e \in Entry :
                 /\ conflicts' = conflicts \ {e}
                 /\ proved' = proved \cup {e} /\ proof' = proof \cup {e}
                 /\ UNCHANGED <<burned, contested>>
<1> DEFINE v == Head(events)
<1>1. v \in Verdict /\ ClaimVerified(v)
  BY QueueOps DEF Receive, TypeOK
<1>2. pc = "fold" /\ UNCHANGED <<pc, proxy, batch, planned, failed>>
  BY DEF Receive
<1> HIDE DEF v
<1>3. v.entry \in Entry
  BY <1>1 DEF Verdict
<1>4. \A e \in Entry : probing'[e] \in {probing[e], None}
  BY <1>1, <1>3 DEF ClaimVerified, TypeOK, claims
<1>5. \/ UNCHANGED <<conflicts, burned, proved, contested, proof>>
      \/ /\ conflicts' = conflicts \cup {v.entry} /\ burned' = burned \cup {Ident[v.entry]}
         /\ contested' = contested \cup {Ident[v.entry]}
         /\ UNCHANGED <<proved, proof>>
      \/ /\ conflicts' = conflicts \ {v.entry}
         /\ proved' = proved \cup {v.entry} /\ proof' = proof \cup {v.entry}
         /\ UNCHANGED <<burned, contested>>
  BY <1>1 DEF ClaimVerified, RecordConflicts, claims
<1> QED
  BY <1>2, <1>3, <1>4, <1>5, Zenon

LEMMA ProvingStep ==
  ASSUME TypeOK, NeverAnsweredWhileProving, [Next]_vars
  PROVE  NeverAnsweredWhileProving'
<1>1. CASE Surroundings \/ Prober \/ UNCHANGED vars
  BY <1>1, OthersLeaveIt DEF NeverAnsweredWhileProving
<1>2. CASE Wake \/ WakeToStop \/ FoldDone \/ PassDone \/ CleanupDone
  BY <1>2 DEF Wake, WakeToStop, FoldDone, PassDone, CleanupDone, claims, NeverAnsweredWhileProving
<1>3. CASE Receive
  BY <1>3, ReceiveEffect DEF NeverAnsweredWhileProving, Screened, None
<1>4. CASE Plan
  <2>1. PICK refused, ready, spec, screened \in SUBSET (Want \ proxy) :
           PlanMakes(refused, ready, spec, screened)
    BY <1>4, PlanEffect
  <2>2. ASSUME NEW e \in Entry, probing'[e] = Screened
        PROVE  e \notin proxy' \cup batch'.install
    <3>1. /\ proxy' = proxy /\ batch'.install = ready \cup spec
          /\ \A f \in refused \cup ready \cup spec \cup screened : InFlight[f] = None
          /\ screened \cap (ready \cup spec) = {}
          /\ Screened = IF e \in spec THEN Speculative
                        ELSE IF e \in screened THEN Screened ELSE InFlight[e]
      BY <2>1, <2>2 DEF PlanMakes
    <3>2. CASE e \in screened
      BY <3>1, <3>2
    <3>3. CASE e \notin screened
      <4>1. InFlight[e] = Screened /\ probing[e] = Screened
        BY <3>1, <3>3, InFlightType DEF Screened, Speculative, None
      <4>2. e \notin ready \cup spec
        BY <3>1, <4>1 DEF Screened, None
      <4> QED
        BY <3>1, <4>1, <4>2 DEF NeverAnsweredWhileProving
    <3> QED
      BY <3>2, <3>3
  <2> QED
    BY <2>2 DEF NeverAnsweredWhileProving
<1>5. CASE PlanBlind
  BY <1>5, InFlightType DEF PlanBlind, NeverAnsweredWhileProving, Screened, None
<1>6. CASE Offer
  BY <1>6 DEF Offer, NoBatch, claims, NeverAnsweredWhileProving
<1>7. CASE PlanShutdown
  BY <1>7 DEF PlanShutdown, NeverAnsweredWhileProving, Screened, None
<1>8. ASSUME NEW e \in Entry, Withdraw(e)
      PROVE  NeverAnsweredWhileProving'
  <2>1. proxy' \subseteq proxy /\ batch'.install = batch.install /\ probing' = probing
    BY <1>8 DEF Withdraw, Failure, TypeOK, claims
  <2> QED
    BY <2>1 DEF NeverAnsweredWhileProving
<1>9. ASSUME NEW e \in Entry, Install(e)
      PROVE  NeverAnsweredWhileProving'
  <2>1. /\ proxy' \subseteq proxy \cup {e} /\ batch'.install = batch.install \ {e}
        /\ e \in batch.install /\ probing' = probing
    BY <1>9 DEF Install, Failure, IsFirst, TypeOK, claims
  <2> QED
    BY <2>1 DEF NeverAnsweredWhileProving
<1> QED
  BY <1>1, <1>2, <1>3, <1>4, <1>5, <1>6, <1>7, <1>8, <1>9, Zenon DEF Next, Reconciler

\* No address is answered for, nor about to be, while its screened claim is in
\* flight, whatever verdicts, sweeps and failed commands came between.
THEOREM ProvingComesFirst ==
  Spec => []NeverAnsweredWhileProving
<1>1. Init => NeverAnsweredWhileProving
  BY DEF Init, NeverAnsweredWhileProving, Screened, None
<1> QED
  BY <1>1, TypeCorrect, ProvingStep, PTL DEF Spec

-----------------------------------------------------------------------------
(* An identifier once contested is claimed again only on a proof.          *)

\* The history is in the burned identifiers, every claim that may be installed
\* at once has its proof, and so has, of the entries about to be installed,
\* each whose identifier was contested.
Accounted ==
  /\ contested \subseteq burned
  /\ proved \subseteq proof
  /\ batch.install \cap proved = {}
  /\ \A e \in batch.install : Ident[e] \in contested => e \in proof
  /\ pc # "run" => batch.install = {}

LEMMA AccountedStep ==
  ASSUME TypeOK, Accounted, [Next]_vars
  PROVE  Accounted'
<1>1. CASE Surroundings \/ Prober \/ UNCHANGED vars
  BY <1>1, OthersLeaveIt DEF Accounted
<1>2. CASE Wake \/ WakeToStop \/ FoldDone \/ PassDone \/ CleanupDone
  BY <1>2 DEF Wake, WakeToStop, FoldDone, PassDone, CleanupDone, claims, history, NoBatch, Accounted
<1>3. CASE Receive
  BY <1>3, ReceiveEffect DEF Accounted
<1>4. CASE Plan
  <2>1. PICK refused, ready, spec, screened \in SUBSET (Want \ proxy) :
           PlanMakes(refused, ready, spec, screened)
    BY <1>4, PlanEffect
  <2>2. /\ pc' = "run" /\ UNCHANGED <<contested, proof>>
        /\ burned \subseteq burned' /\ proved' = proved \ ready
        /\ batch'.install = ready \cup spec
        /\ ready \subseteq proved /\ spec \cap proved = {}
        /\ \A e \in spec : Ident[e] \notin burned
    BY <2>1 DEF PlanMakes
  <2> QED
    BY <2>2 DEF Accounted
<1>5. CASE PlanBlind
  BY <1>5 DEF PlanBlind, Accounted
<1>6. CASE Offer
  BY <1>6 DEF Offer, NoBatch, claims, history, Accounted
<1>7. CASE PlanShutdown
  <2>1. /\ pc = "shutdown" /\ proved' = {} /\ UNCHANGED <<burned, contested, proof>>
        /\ batch' = [NoBatch EXCEPT !.withdraw = Leftovers] \/ batch' = batch
    BY <1>7 DEF PlanShutdown
  <2>2. batch'.install = {}
    BY <2>1 DEF Accounted, NoBatch
  <2> QED
    BY <2>1, <2>2 DEF Accounted
<1>8. ASSUME NEW e \in Entry, Withdraw(e)
      PROVE  Accounted'
  <2>1. batch'.install = batch.install /\ UNCHANGED <<pc, burned, proved, contested, proof>>
    BY <1>8 DEF Withdraw, Failure, TypeOK, claims
  <2> QED
    BY <2>1 DEF Accounted
<1>9. ASSUME NEW e \in Entry, Install(e)
      PROVE  Accounted'
  <2>1. /\ batch'.install = batch.install \ {e} /\ e \in batch.install
        /\ proof \ {e} \subseteq proof' /\ UNCHANGED <<pc, burned, proved, contested>>
    BY <1>9 DEF Install, Failure, IsFirst, TypeOK, claims
  <2> QED
    BY <2>1 DEF Accounted
<1> QED
  BY <1>1, <1>2, <1>3, <1>4, <1>5, <1>6, <1>7, <1>8, <1>9, Zenon DEF Next, Reconciler

\* Only the command that installs an entry brings it into the kernel.
LEMMA OnlyInstallAnswers ==
  ASSUME TypeOK, [Next]_vars, NEW e \in proxy' \ proxy
  PROVE  e \in batch.install
<1>1. CASE Surroundings \/ Prober \/ UNCHANGED vars
  BY <1>1, OthersLeaveIt
<1>2. CASE \/ Wake \/ WakeToStop \/ FoldDone \/ PassDone \/ CleanupDone
           \/ Receive \/ Plan \/ PlanBlind \/ Offer \/ PlanShutdown
  BY <1>2 DEF Wake, WakeToStop, FoldDone, PassDone, CleanupDone, Receive, Plan, PlanBlind, Offer,
              PlanShutdown
<1>3. ASSUME NEW f \in Entry, Withdraw(f)
      PROVE  e \in batch.install
  BY <1>3 DEF Withdraw
<1>4. ASSUME NEW f \in Entry, Install(f)
      PROVE  e \in batch.install
  BY <1>4 DEF Install, IsFirst
<1> QED
  BY <1>1, <1>2, <1>3, <1>4, Zenon DEF Next, Reconciler

\* Whatever conflicts are forgotten, reads and commands fail and verdicts come
\* late: an identifier another host was heard to answer for is answered for
\* again only by an entry with a proof, the verdict of a screened claim that no
\* claim has spent yet; it may be older than the latest conflict.
THEOREM NoneReclaimedBlindly ==
  Spec => NoBlindReclaim
<1>1. Init => Accounted
  BY DEF Init, Accounted, NoBatch
<1>2. ASSUME TypeOK, Accounted, [Next]_vars
      PROVE  [\A e \in proxy' \ proxy : Ident[e] \in contested => e \in proof]_vars
  BY <1>2, OnlyInstallAnswers DEF Accounted
<1> QED
  BY <1>1, <1>2, TypeCorrect, AccountedStep, PTL DEF Spec, NoBlindReclaim

-----------------------------------------------------------------------------
(* What a clean pass, and a clean last turn, leave in the kernel.          *)

\* Commands of a pass that have not run are what the kernel lacks of the plan:
\* what stays is wanted or about to go, what is missing is under way, refused
\* or about to come.
OnTheWay ==
  pc = "run" /\ ~failed =>
    /\ proxy \subseteq (planned \ conflicts) \cup batch.withdraw
    /\ batch.install \subseteq planned \ conflicts
    /\ batch.withdraw \cap planned = {}
    /\ \A e \in planned \ proxy : probing[e] # None \/ e \in conflicts \cup batch.install

\* The last turn has yet to withdraw whatever is left.
LeavingClean ==
  /\ pc = "cleanup" /\ ~failed => proxy \subseteq batch.withdraw
  /\ pc = "done" /\ ~failed => proxy = {}

LEMMA OnTheWayStep ==
  ASSUME TypeOK, OnTheWay, [Next]_vars
  PROVE  OnTheWay'
<1>1. CASE Surroundings \/ Prober \/ UNCHANGED vars
  BY <1>1, OthersLeaveIt DEF OnTheWay
<1>2. CASE Wake \/ WakeToStop \/ FoldDone \/ PassDone \/ CleanupDone
  BY <1>2 DEF Wake, WakeToStop, FoldDone, PassDone, CleanupDone, OnTheWay
<1>3. CASE Receive \/ PlanShutdown
  BY <1>3, ReceiveEffect DEF PlanShutdown, OnTheWay
<1>4. CASE Plan
  <2>1. PICK refused, ready, spec, screened \in SUBSET (Want \ proxy) :
           PlanMakes(refused, ready, spec, screened)
    BY <1>4, PlanEffect
  <2>2. /\ proxy' = proxy /\ planned' = Want /\ conflicts' = conflicts \cup refused
        /\ batch'.withdraw = proxy \ Want /\ batch'.install = ready \cup spec
        /\ \A e \in Want \ proxy : \/ InFlight[e] # None
                                   \/ e \in refused \cup ready \cup spec \cup screened
        /\ refused \cap (ready \cup spec) = {}
        /\ \A e \in Entry : probing'[e] = IF e \in spec THEN Speculative
                                          ELSE IF e \in screened THEN Screened ELSE InFlight[e]
    BY <2>1 DEF PlanMakes
  <2>3. Want \cap conflicts = {} /\ Want \subseteq Entry
    BY DEF Want, TypeOK
  <2>4. /\ proxy \subseteq (Want \ conflicts') \cup (proxy \ Want)
        /\ ready \cup spec \subseteq Want \ conflicts'
    BY <2>2, <2>3
  <2>5. \A e \in Want \ proxy : probing'[e] # None \/ e \in conflicts' \cup (ready \cup spec)
    BY <2>2, <2>3 DEF None, Speculative, Screened
  <2> QED
    BY <2>2, <2>4, <2>5 DEF OnTheWay
<1>5. CASE PlanBlind
  BY <1>5 DEF PlanBlind, OnTheWay
<1>6. CASE Offer
  BY <1>6 DEF Offer, NoBatch, claims, history, OnTheWay
<1>7. ASSUME NEW e \in Entry, Withdraw(e)
      PROVE  OnTheWay'
  <2>1. /\ batch'.install = batch.install /\ batch'.withdraw = batch.withdraw \ {e}
        /\ e \in batch.withdraw
        /\ UNCHANGED <<pc, probing, conflicts, planned>>
        /\ (proxy' = proxy \ {e} /\ failed' = failed) \/ failed'
    BY <1>7 DEF Withdraw, Failure, IsFirst, TypeOK, claims
  <2> QED
    BY <2>1 DEF OnTheWay
<1>8. ASSUME NEW e \in Entry, Install(e)
      PROVE  OnTheWay'
  <2>1. /\ batch'.install = batch.install \ {e} /\ batch'.withdraw = batch.withdraw
        /\ e \in batch.install
        /\ UNCHANGED <<pc, probing, conflicts, planned>>
        /\ (proxy' = proxy \cup {e} /\ failed' = failed) \/ failed'
    BY <1>8 DEF Install, Failure, IsFirst, TypeOK, claims
  <2> QED
    BY <2>1 DEF OnTheWay
<1> QED
  BY <1>1, <1>2, <1>3, <1>4, <1>5, <1>6, <1>7, <1>8, Zenon DEF Next, Reconciler

LEMMA LeavingStep ==
  ASSUME TypeOK, LeavingClean, [Next]_vars
  PROVE  LeavingClean'
<1>1. CASE Surroundings \/ Prober \/ UNCHANGED vars
  BY <1>1, OthersLeaveIt DEF LeavingClean
<1>2. CASE \/ Wake \/ WakeToStop \/ FoldDone \/ PassDone
           \/ Plan \/ PlanBlind \/ Offer
  BY <1>2 DEF Wake, WakeToStop, FoldDone, PassDone, Plan, PlanBlind, Offer, LeavingClean
<1>3. CASE Receive
  BY <1>3, ReceiveEffect DEF LeavingClean
<1>4. CASE PlanShutdown
  BY <1>4 DEF PlanShutdown, Failure, Leftovers, NoBatch, LeavingClean
<1>5. CASE CleanupDone
  BY <1>5 DEF CleanupDone, NoBatch, history, LeavingClean
<1>6. ASSUME NEW e \in Entry, Withdraw(e)
      PROVE  LeavingClean'
  <2>1. /\ batch'.withdraw = batch.withdraw \ {e} /\ pc \in {"run", "cleanup"} /\ pc' = pc
        /\ (proxy' = proxy \ {e} /\ failed' = failed) \/ failed'
    BY <1>6 DEF Withdraw, Failure, TypeOK
  <2> QED
    BY <2>1 DEF LeavingClean
<1>7. ASSUME NEW e \in Entry, Install(e)
      PROVE  LeavingClean'
  BY <1>7 DEF Install, LeavingClean
<1> QED
  BY <1>1, <1>2, <1>3, <1>4, <1>5, <1>6, <1>7, Zenon DEF Next, Reconciler

\* A pass without a failure leaves in the kernel nothing it did not want or has
\* refused, and misses, of what it wanted, only what is being probed or refused.
THEOREM CleanPassSettles ==
  Spec => []PassSettles
<1>1. Init => OnTheWay
  BY DEF Init, OnTheWay
<1>2. TypeOK /\ OnTheWay => PassSettles
  BY DEF OnTheWay, PassSettles, NoBatch
<1> QED
  BY <1>1, <1>2, TypeCorrect, OnTheWayStep, PTL DEF Spec

\* After a last turn without a failure no entry is left, whatever was in flight.
THEOREM LeavesNothingBehind ==
  Spec => []CleanExit
<1>1. Init => LeavingClean
  BY DEF Init, LeavingClean
<1>2. LeavingClean => CleanExit
  BY DEF LeavingClean, CleanExit
<1> QED
  BY <1>1, <1>2, TypeCorrect, LeavingStep, PTL DEF Spec

-----------------------------------------------------------------------------
(* Contested by an answer, not by what the kernel remembered.              *)

\* As long as nothing fails: what is being probed and stands in the kernel's
\* table has answered since it was admitted, or is about to be purged.
Fresh ==
  /\ ppc = "idle" => work = NoWork
  /\ faults = 0 =>
       /\ \A e \in Entry : pending[e] # None /\ e \in neigh => e \in answered \cup work.purge
       /\ \A v \in work.report : v.contested => v.entry \in answered

\* A fault is counted.
LEMMA FaultCounts ==
  ASSUME TypeOK, NEW kind, Fault(kind)
  PROVE  faults' # 0
  BY ClaimsAssumption DEF TypeOK, Fault

LEMMA FreshSurroundings ==
  ASSUME TypeOK, Fresh, Surroundings
  PROVE  Fresh'
<1>1. CASE Cancel
  BY <1>1 DEF Cancel, Fresh, prober, history
<1>2. CASE PollTicks
  BY <1>2 DEF PollTicks, Fresh, prober, history
<1>3. ASSUME NEW e \in Entry, WorldChanges(e)
      PROVE  Fresh'
  BY <1>3 DEF WorldChanges, Fresh, prober, history
<1>4. ASSUME NEW e \in Entry, HolderAnswers(e)
      PROVE  Fresh'
  BY <1>4 DEF HolderAnswers, Fresh, prober
<1>5. ASSUME NEW e \in Entry, NeighbourAges(e)
      PROVE  Fresh'
  BY <1>5 DEF NeighbourAges, Fresh, prober, history
<1>6. ASSUME NEW e \in Entry, WindowRuns(e)
      PROVE  Fresh'
  BY <1>6, FaultCounts DEF WindowRuns, Fresh, history
<1>7. ASSUME NEW e \in Entry, DeadlinePasses(e)
      PROVE  Fresh'
  BY <1>7 DEF DeadlinePasses, Fresh, prober, history
<1>8. ASSUME NEW e \in Entry, ConflictLapses(e)
      PROVE  Fresh'
  BY <1>8 DEF ConflictLapses, Fresh, prober, history
<1> QED
  BY <1>1, <1>2, <1>3, <1>4, <1>5, <1>6, <1>7, <1>8 DEF Surroundings

\* The reconciler leaves the prober and the kernel's neighbours alone.
LEMMA ReconcilerLeavesIt ==
  ASSUME Reconciler
  PROVE  /\ UNCHANGED <<ppc, pending, work, neigh, answered>>
         /\ faults' = faults \/ \E kind : Fault(kind)
<1>1. CASE \/ Wake \/ WakeToStop \/ FoldDone \/ PassDone \/ CleanupDone
           \/ Receive \/ Plan \/ PlanBlind \/ Offer \/ PlanShutdown
  BY <1>1 DEF Wake, WakeToStop, FoldDone, PassDone, CleanupDone, Receive, Plan, PlanBlind, Offer,
              PlanShutdown, Failure, prober, history
<1>2. ASSUME NEW e \in Entry, Withdraw(e)
      PROVE  /\ UNCHANGED <<ppc, pending, work, neigh, answered>>
             /\ faults' = faults \/ \E kind : Fault(kind)
  BY <1>2 DEF Withdraw, Failure, prober
<1>3. ASSUME NEW e \in Entry, Install(e)
      PROVE  /\ UNCHANGED <<ppc, pending, work, neigh, answered>>
             /\ faults' = faults \/ \E kind : Fault(kind)
  BY <1>3 DEF Install, Failure, prober
<1> QED
  BY <1>1, <1>2, <1>3, Zenon DEF Reconciler

LEMMA FreshAdmit ==
  ASSUME TypeOK, Fresh, Admit
  PROVE  Fresh'
<1>1. PICK b :
        LET fresh == {c \in b : pending[c.entry] = None}
            E     == {c.entry : c \in fresh}
            kind(e) == (CHOOSE c \in fresh : c.entry = e).kind
        IN  /\ TakeProbe(b)
            /\ pending' = [e \in Entry |-> IF e \in E THEN kind(e) ELSE pending[e]]
            /\ answered' = answered \ E
            /\ \/ work' = [NoWork EXCEPT !.purge = Cached(E), !.solicit = E] /\ UNCHANGED faults
               \/ Fault("read") /\ work' = [NoWork EXCEPT !.solicit = E]
            /\ UNCHANGED <<world, neigh, proxy, events, pc, claims, batch, elapsed,
                           planned, failed, contested, proof>>
  BY Zenon DEF Admit
<1> DEFINE fresh == {c \in b : pending[c.entry] = None}
           E     == {c.entry : c \in fresh}
           kind(e) == (CHOOSE c \in fresh : c.entry = e).kind
<1>2. /\ TakeProbe(b)
      /\ pending' = [e \in Entry |-> IF e \in E THEN kind(e) ELSE pending[e]]
      /\ answered' = answered \ E
      /\ \/ work' = [NoWork EXCEPT !.purge = Cached(E), !.solicit = E] /\ UNCHANGED faults
         \/ Fault("read") /\ work' = [NoWork EXCEPT !.solicit = E]
      /\ UNCHANGED neigh
  BY <1>1, Zenon
<1>3. ppc = "idle" /\ ppc' = "run" /\ work = NoWork
  BY <1>2 DEF TakeProbe, Fresh
<1>4. \A e \in E : pending[e] = None
  OBVIOUS
<1> HIDE DEF E, kind
<1>5. SUFFICES ASSUME faults' = 0
               PROVE  /\ \A e \in Entry : pending'[e] # None /\ e \in neigh'
                                          => e \in answered' \cup work'.purge
                      /\ \A v \in work'.report : v.contested => v.entry \in answered'
  BY <1>3 DEF Fresh
<1>6. faults = 0 /\ work'.purge = E \cap neigh /\ work'.report = {}
  BY <1>2, <1>5, FaultCounts DEF NoWork, Cached
<1>7. ASSUME NEW e \in Entry, pending'[e] # None, e \in neigh
      PROVE  e \in answered' \cup work'.purge
  <2>1. CASE e \in E
    BY <1>6, <1>7, <2>1
  <2>2. CASE e \notin E
    <3>1. pending[e] # None
      BY <1>2, <1>7, <2>2
    <3>2. e \in answered
      BY <1>3, <1>6, <1>7, <3>1 DEF Fresh, NoWork
    <3> QED
      BY <1>2, <2>2, <3>2
  <2> QED
    BY <2>1, <2>2
<1> QED
  BY <1>2, <1>6, <1>7

LEMMA FreshPoll ==
  ASSUME TypeOK, Fresh, PollNeighbours
  PROVE  Fresh'
<1>1. PICK resolved, held, ruled : PollRules(resolved, held, ruled)
  BY PollEffect
<1>2. /\ ppc = "idle" /\ ppc' = "run" /\ work = NoWork /\ neigh' = neigh /\ answered' = answered
  BY PollEffect DEF TakeProbe, Fresh, history
<1>3. SUFFICES ASSUME faults' = 0
               PROVE  /\ \A e \in Entry : pending'[e] # None /\ e \in neigh'
                                          => e \in answered' \cup work'.purge
                      /\ \A v \in work'.report : v.contested => v.entry \in answered'
  BY <1>2 DEF Fresh
<1>4. faults = 0
  BY <1>1, <1>3, FaultCounts DEF PollRules
<1>5. \A e \in Entry : pending[e] # None /\ e \in neigh => e \in answered
  BY <1>2, <1>4 DEF Fresh, NoWork
<1>6. \A e \in Entry : pending'[e] # None /\ e \in neigh' => e \in answered'
  BY <1>1, <1>2, <1>5 DEF PollRules
<1>7. \A e \in held : e \in answered
  BY <1>1, <1>5 DEF PollRules, TypeOK
<1>8. ASSUME NEW v \in work'.report, v.contested
      PROVE  v.entry \in held
  <2>1. PICK e \in ruled : v = [entry |-> e, kind |-> pending[e], contested |-> e \in held]
    BY <1>1, Zenon DEF PollRules
  <2> DEFINE c == e \in held
  <2>2. v = [entry |-> e, kind |-> pending[e], contested |-> c]
    BY <2>1, Zenon
  <2> HIDE DEF c
  <2>3. v.entry = e /\ v.contested = c
    BY <2>2
  <2>4. c
    BY <1>8, <2>3, Zenon
  <2> QED
    BY <2>3, <2>4, Zenon DEF c
<1> QED
  BY <1>2, <1>6, <1>7, <1>8

LEMMA FreshStep ==
  ASSUME TypeOK, Fresh, [Next]_vars
  PROVE  Fresh'
<1>1. CASE UNCHANGED vars
  BY <1>1 DEF vars, Fresh, prober, history
<1>2. CASE Reconciler
  BY <1>2, ReconcilerLeavesIt, FaultCounts DEF Fresh
<1>3. CASE Prober
  <2>1. CASE TurnDone
    BY <2>1 DEF TurnDone, Fresh, history
  <2>2. CASE ProberStops
    BY <2>2 DEF ProberStops, Fresh, history
  <2>3. ASSUME NEW e \in Entry, Purge(e)
        PROVE  Fresh'
    <3>1. /\ ppc = "run" /\ UNCHANGED <<ppc, pending, answered>>
          /\ work'.purge = work.purge \ {e} /\ work'.report = work.report
          /\ (neigh' = neigh \ {e} /\ faults' = faults) \/ faults' # 0
      BY <2>3, FaultCounts DEF Purge, TypeOK, history
    <3> QED
      BY <3>1 DEF Fresh
  <2>4. ASSUME NEW e \in Entry, Solicit(e)
        PROVE  Fresh'
    <3>1. /\ ppc = "run" /\ UNCHANGED <<ppc, neigh, answered>>
          /\ work'.purge = work.purge /\ work'.report = work.report
          /\ (pending' = pending /\ faults' = faults) \/ faults' # 0
      BY <2>4, FaultCounts DEF Solicit, TypeOK, history
    <3> QED
      BY <3>1 DEF Fresh
  <2>5. ASSUME NEW v \in work.report, Report(v)
        PROVE  Fresh'
    <3>1. /\ ppc = "run" /\ UNCHANGED <<ppc, neigh, pending, answered>>
          /\ work'.purge = work.purge /\ work'.report = work.report \ {v}
          /\ faults' = faults \/ faults' # 0
      BY <2>5, FaultCounts DEF Report, TypeOK, history
    <3> QED
      BY <3>1 DEF Fresh
  <2> QED
    BY <1>3, <2>1, <2>2, <2>3, <2>4, <2>5, FreshAdmit, FreshPoll, Zenon DEF Prober
<1> QED
  BY <1>1, <1>2, <1>3, FreshSurroundings DEF Next

\* As long as nothing fails, whatever is called contested was answered for
\* since its claim was admitted: purges come before the poll can look.
THEOREM OnlyAnswersContest ==
  Spec => []ContestIsFresh
<1>1. Init => Fresh
  BY DEF Init, Fresh, NoWork
<1>2. Fresh => ContestIsFresh
  BY DEF Fresh, ContestIsFresh
<1> QED
  BY <1>1, <1>2, TypeCorrect, FreshStep, PTL DEF Spec
=============================================================================
