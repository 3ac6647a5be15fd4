---------------------------- MODULE LeasesProofs ----------------------------
(***************************************************************************)
(* Leases is type-correct, follows the kernel, and brings no withdrawn     *)
(* prefix back, for any uplinks, prefixes, depths and numbers of changes.  *)
(***************************************************************************)
EXTENDS Leases, SequenceTheorems, TLAPS

\* Where a sequence has a member of T, and the last such member.
Places(s, T) == {i \in DOMAIN s : s[i] \in T}
Highest(P)   == {i \in P : \A k \in P : k <= i}
LastIn(s, T) == {s[i] : i \in Highest(Places(s, T))}

\* What is reported is of the uplink, an address is no evidence for a static one, and
\* only what is advertised is withdrawn by a router.
Sourced ==
  /\ \A i \in DOMAIN inbox : inbox[i].type = "lease" =>
       inbox[i].prefix \in Match[inbox[i].uplink] /\ SourceOf[inbox[i].uplink] # "static"
  /\ \A u \in Uplink : withdrawn[u] => SourceOf[u] # "static"
  /\ \A u \in Uplink : word[u].kind = "gone" => RA(u)

-----------------------------------------------------------------------------
(* What a router's last word leaves on its way.                            *)

\* What the watcher and the mailbox hold for an advertised uplink.
News(u) == {o \in Observation : o.kind = "ra" /\ o.iface = u /\ o.prefix \in Match[u]}
Mine(u) == {e \in Event : e.type = "lease" /\ e.uplink = u}

\* An observation, or the message of it, is the last word.
Tells(u, o) == o.prefix = word[u].prefix /\ o.gone = (word[u].kind = "gone")

\* The last word is the last thing on its way or, if nothing is, it was heeded.
Heard(u) ==
  RA(u) /\ ~word[u].lost =>
    /\ \A o \in LastIn(socket, News(u)) : Tells(u, o)
    /\ Places(socket, News(u)) = {} =>
         /\ \A o \in LastIn(channel[u], News(u)) : Tells(u, o)
         /\ Places(channel[u], News(u)) = {} =>
              /\ \A e \in LastIn(inbox, Mine(u)) : Tells(u, e)
              /\ Places(inbox, Mine(u)) = {} =>
                   /\ withdrawn[u] = (word[u].kind = "gone")
                   /\ word[u].kind = "gone" => lease[u] # word[u].prefix

\* What a settled pass has read still stands.
StillRead ==
  settled => /\ socket = <<>> /\ inbox = <<>> /\ \A u \in Uplink : channel[u] = <<>>
             /\ \A u \in Uplink : lease[u] \in Observed(u, discard, addr)

LeaseInv == TypeOK /\ Sourced /\ StillRead /\ \A u \in Uplink : Heard(u)

-----------------------------------------------------------------------------
(* What waits in a queue.                                                  *)

\* A queue of one.
LEMMA Single ==
  ASSUME NEW S, NEW x \in S
  PROVE  <<x>> \in Seq(S) /\ Len(<<x>>) = 1 /\ <<x>>[1] = x
  OBVIOUS

\* The kinds of message a queue grows and shrinks by.
LEMMA QueueOps ==
  ASSUME NEW S, NEW q \in Seq(S)
  PROVE  /\ q # <<>> => /\ Head(q) \in S
                        /\ Tail(q) \in Seq(S)
                        /\ Len(Tail(q)) = Len(q) - 1
                        /\ Len(q) > 0
         /\ \A x \in S : /\ Append(q, x) \in Seq(S)
                         /\ Len(Append(q, x)) = Len(q) + 1
  OBVIOUS

\* An append adds the last member, or changes none.
LEMMA AppendLast ==
  ASSUME NEW S, NEW s \in Seq(S), NEW x \in S, NEW T
  PROVE  /\ x \in T => /\ Places(Append(s, x), T) # {}
                       /\ LastIn(Append(s, x), T) = {x}
         /\ x \notin T => /\ Places(Append(s, x), T) = Places(s, T)
                          /\ LastIn(Append(s, x), T) = LastIn(s, T)
<1> DEFINE t == Append(s, x)
           n == Len(s) + 1
<1>1. /\ DOMAIN t = DOMAIN s \cup {n} /\ t[n] = x /\ n \in Nat
      /\ \A i \in DOMAIN s : t[i] = s[i] /\ i \in Nat /\ i < n
  OBVIOUS
<1> HIDE DEF t, n
<1>2. ASSUME x \in T
      PROVE  Places(t, T) # {} /\ LastIn(t, T) = {x}
  <2>1. n \in Places(t, T) /\ \A k \in Places(t, T) : k \in Nat /\ k <= n
    BY <1>1, <1>2 DEF Places
  <2>2. \A i \in Highest(Places(t, T)) : i = n
    BY <1>1, <2>1 DEF Highest
  <2>3. n \in Highest(Places(t, T))
    BY <2>1 DEF Highest
  <2>4. Highest(Places(t, T)) = {n}
    BY <2>2, <2>3
  <2>5. LastIn(t, T) = {t[n]}
    BY <2>4 DEF LastIn
  <2> QED
    BY <1>1, <2>1, <2>5
<1>3. ASSUME x \notin T
      PROVE  Places(t, T) = Places(s, T) /\ LastIn(t, T) = LastIn(s, T)
  <2>1. Places(t, T) = Places(s, T)
    BY <1>1, <1>3 DEF Places
  <2>2. \A i \in Places(s, T) : t[i] = s[i]
    BY <1>1 DEF Places
  <2> QED
    BY <2>1, <2>2, Zenon DEF LastIn, Highest
<1> QED
  BY <1>2, <1>3 DEF t

\* What is left after the first is taken ends as before, if it has a member at all.
LEMMA TailLast ==
  ASSUME NEW S, NEW s \in Seq(S), s # <<>>, NEW T
  PROVE  /\ LastIn(Tail(s), T) \subseteq LastIn(s, T)
         /\ Places(Tail(s), T) = {} /\ Head(s) \in T => LastIn(s, T) = {Head(s)}
         /\ Places(s, T) = {} => Places(Tail(s), T) = {} /\ Head(s) \notin T
         /\ Head(s) \notin T /\ Places(Tail(s), T) = {} => Places(s, T) = {}
<1> DEFINE t == Tail(s)
<1>1. /\ Head(s) = s[1] /\ 1 \in DOMAIN s /\ \A i \in DOMAIN s : i \in Nat
      /\ \A i \in DOMAIN t : i \in Nat /\ i + 1 \in DOMAIN s /\ t[i] = s[i + 1]
      /\ \A i \in DOMAIN s \ {1} : i - 1 \in DOMAIN t /\ t[i - 1] = s[i]
  OBVIOUS
<1> HIDE DEF t
<1>2. \A i \in Places(t, T) : i \in Nat /\ i + 1 \in Places(s, T) /\ t[i] = s[i + 1]
  BY <1>1 DEF Places
<1>3. \A i \in Places(s, T) \ {1} : i \in Nat /\ i >= 1 /\ i - 1 \in Places(t, T)
  BY <1>1 DEF Places
<1>4. LastIn(t, T) \subseteq LastIn(s, T)
  <2> SUFFICES ASSUME NEW i \in Places(t, T), \A k \in Places(t, T) : k <= i
               PROVE  t[i] \in LastIn(s, T)
    BY DEF LastIn, Highest
  <2>1. i \in Nat /\ i + 1 \in Places(s, T) /\ t[i] = s[i + 1]
    BY <1>2
  <2>2. ASSUME NEW k \in Places(s, T) PROVE k <= i + 1
    BY <1>3, <2>1, <2>2
  <2> QED
    BY <2>1, <2>2 DEF LastIn, Highest
<1>5. ASSUME Places(t, T) = {}, Head(s) \in T
      PROVE  LastIn(s, T) = {Head(s)}
  <2>1. Places(s, T) = {1}
    BY <1>1, <1>3, <1>5 DEF Places
  <2>2. Highest(Places(s, T)) = {1}
    BY <2>1 DEF Highest
  <2>3. LastIn(s, T) = {s[1]}
    BY <2>2 DEF LastIn
  <2> QED
    BY <1>1, <2>3
<1>6. Places(s, T) = {} => Places(t, T) = {} /\ Head(s) \notin T
  BY <1>1, <1>2 DEF Places
<1>7. Head(s) \notin T /\ Places(t, T) = {} => Places(s, T) = {}
  BY <1>1, <1>3 DEF Places
<1> QED
  BY <1>4, <1>5, <1>6, <1>7 DEF t

\* What the socket takes of some notifications: a first part, at its end.
LEMMA NotifyTakes ==
  ASSUME TypeOK, NEW notices \in Seq(Observation \cup Notice), Notify(notices)
  PROVE  /\ Taken(notices) \in 0..Len(notices)
         /\ socket' \in Seq(Observation \cup Notice)
         /\ Len(socket') = Len(socket) + Taken(notices) /\ Len(socket') <= SocketDepth
         /\ \A i \in DOMAIN socket : socket'[i] = socket[i]
         /\ \A i \in 1..Taken(notices) : socket'[Len(socket) + i] = notices[i]
         /\ congested' \in BOOLEAN /\ overrun' \in BOOLEAN
<1> DEFINE k == Taken(notices)
           t == SubSeq(notices, 1, k)
<1>1. /\ socket \in Seq(Observation \cup Notice) /\ Len(socket) <= SocketDepth
      /\ Len(socket) \in Nat /\ Len(notices) \in Nat /\ SocketDepth \in Nat
  BY LeasesAssumption DEF TypeOK
<1>2. k \in 0..Len(notices) /\ (k > 0 => Len(socket) + k <= SocketDepth)
  BY <1>1 DEF Taken
<1>3. congested' \in BOOLEAN /\ overrun' \in BOOLEAN
  BY <1>2 DEF Notify, TypeOK, Lost
<1>4. socket' = socket \o t
  BY DEF Notify
<1> HIDE DEF k
<1>5. t \in Seq(Observation \cup Notice) /\ Len(t) = k /\ \A i \in 1..k : t[i] = notices[i]
  BY <1>1, <1>2
<1> HIDE DEF t
<1>6. /\ socket' \in Seq(Observation \cup Notice) /\ Len(socket') = Len(socket) + k
      /\ \A i \in DOMAIN socket : socket'[i] = socket[i]
      /\ \A i \in 1..k : socket'[Len(socket) + i] = t[i]
  <2>1. /\ socket' \in Seq(Observation \cup Notice) /\ Len(socket') = Len(socket) + Len(t)
        /\ \A i \in 1..Len(socket) + Len(t) :
             socket'[i] = IF i <= Len(socket) THEN socket[i] ELSE t[i - Len(socket)]
    BY <1>1, <1>4, <1>5, ConcatProperties
  <2> QED
    BY <1>1, <1>2, <1>5, <2>1
<1> QED
  BY <1>1, <1>2, <1>3, <1>5, <1>6 DEF k

\* If none of them is in T, what waits of T stays; if just the first is and it is taken,
\* it is the last.
LEMMA NotifyLast ==
  ASSUME TypeOK, NEW notices \in Seq(Observation \cup Notice), Notify(notices), NEW T,
         \A i \in 2..Len(notices) : notices[i] \notin T
  PROVE  /\ Taken(notices) = 0 \/ notices[1] \notin T
              => Places(socket', T) = Places(socket, T) /\ LastIn(socket', T) = LastIn(socket, T)
         /\ Taken(notices) # 0 /\ notices[1] \in T
              => Places(socket', T) # {} /\ LastIn(socket', T) = {notices[1]}
<1> DEFINE k == Taken(notices)
           n == Len(socket)
<1>1. /\ k \in 0..Len(notices) /\ n \in Nat /\ Len(notices) \in Nat
      /\ DOMAIN socket' = 1..n + k /\ DOMAIN socket = 1..n
      /\ \A i \in DOMAIN socket : socket'[i] = socket[i]
      /\ \A i \in 1..k : socket'[n + i] = notices[i]
  BY NotifyTakes DEF TypeOK
<1> HIDE DEF k, n
<1>2. \A i \in DOMAIN socket' \ DOMAIN socket : i - n \in 1..k /\ socket'[i] = notices[i - n]
  BY <1>1
<1>3. \A i \in Places(socket', T) : i \in Places(socket, T) \/ i = n + 1
  BY <1>1, <1>2 DEF Places
<1>4. ASSUME k = 0 \/ notices[1] \notin T
      PROVE  Places(socket', T) = Places(socket, T) /\ LastIn(socket', T) = LastIn(socket, T)
  <2>1. n + 1 \notin Places(socket', T)
    BY <1>1, <1>2, <1>4 DEF Places
  <2>2. Places(socket', T) = Places(socket, T)
    BY <1>1, <1>3, <2>1 DEF Places
  <2>3. \A i \in Places(socket, T) : socket'[i] = socket[i]
    BY <1>1 DEF Places
  <2> QED
    BY <2>2, <2>3, Zenon DEF LastIn, Highest
<1>5. ASSUME k # 0, notices[1] \in T
      PROVE  Places(socket', T) # {} /\ LastIn(socket', T) = {notices[1]}
  <2>1. n + 1 \in Places(socket', T) /\ socket'[n + 1] = notices[1]
    BY <1>1, <1>5 DEF Places
  <2>2. \A i \in Places(socket', T) : i <= n + 1 /\ i \in Nat
    BY <1>1, <1>3 DEF Places
  <2>3. Highest(Places(socket', T)) = {n + 1}
    BY <1>1, <2>1, <2>2 DEF Highest
  <2>4. LastIn(socket', T) = {socket'[n + 1]}
    BY <2>3 DEF LastIn
  <2> QED
    BY <2>1, <2>4
<1> QED
  BY <1>4, <1>5 DEF k

-----------------------------------------------------------------------------
(* Types.                                                                  *)

\* Without leaves prefixes, if it was given prefixes.
LEMMA WithoutType ==
  ASSUME NEW s \in Seq(Prefix), NEW p
  PROVE  Without(s, p) \in Seq(Prefix)
<1> DEFINE at == {i \in DOMAIN s : s[i] = p}
           i  == CHOOSE i \in at : TRUE
<1>1. CASE at = {}
  BY <1>1 DEF Without
<1>2. CASE at # {}
  <2>1. i \in 1..Len(s) /\ Len(s) \in Nat
    BY <1>2
  <2>2. Without(s, p) = SubSeq(s, 1, i - 1) \o SubSeq(s, i + 1, Len(s))
    BY <1>2 DEF Without
  <2> HIDE DEF i
  <2>3. SubSeq(s, 1, i - 1) \in Seq(Prefix) /\ SubSeq(s, i + 1, Len(s)) \in Seq(Prefix)
    BY <2>1
  <2> QED
    BY <2>2, <2>3
<1> QED
  BY <1>1, <1>2

LEMMA TypeInit ==
  Init => TypeOK
<1> SUFFICES ASSUME Init PROVE TypeOK
  OBVIOUS
<1>1. [kind |-> "none", prefix |-> None, lost |-> FALSE] \in Word
  BY DEF Word
<1>2. Resync \in Event
  BY DEF Resync, Event
<1>3. \A S : <<>> \in Seq(S) /\ Len(<<>>) = 0
  OBVIOUS
<1>4. inbox \in Seq(Event) /\ Len(inbox) = 1
  BY <1>2 DEF Init
<1>5. /\ addr \in [Uplink -> Seq(Prefix)]
      /\ channel \in [Uplink -> Seq(Observation)]
      /\ \A u \in Uplink : Len(channel[u]) = 0
  BY <1>3 DEF Init
<1>6. word \in [Uplink -> Word]
  BY <1>1 DEF Init
<1>7. lease \in [Uplink -> Prefix \cup {None}] /\ \A u \in Uplink : lease[u] = None
  BY DEF Init
<1>8. socket = <<>> /\ discard = {} /\ changes = 0 /\ faults = 0
  BY DEF Init
<1>9. withdrawn \in [Uplink -> BOOLEAN]
  BY DEF Init
<1>10. /\ SocketDepth \in Nat /\ ChannelDepth \in Nat /\ InboxDepth \in Nat /\ 1 <= InboxDepth
       /\ MaxChanges \in Nat /\ MaxFaults \in Nat
  BY LeasesAssumption
<1>11. socket \in Seq(Observation \cup Notice) /\ Len(socket) = 0
  BY <1>3, <1>8
<1>12. congested \in BOOLEAN /\ overrun \in BOOLEAN /\ folding \in BOOLEAN /\ settled \in BOOLEAN
  BY DEF Init
<1> QED
  BY <1>4, <1>5, <1>6, <1>7, <1>8, <1>9, <1>10, <1>11, <1>12 DEF TypeOK

\* The kinds of notification are what the socket can hold.
LEMMA NoticeTypes ==
  ASSUME NEW u \in Uplink, NEW p \in Prefix, NEW gone \in BOOLEAN
  PROVE  /\ RANotice(u, p, gone) \in Observation
         /\ [kind |-> "route", prefix |-> p, iface |-> None, gone |-> gone] \in Observation
         /\ [kind |-> "addr"] \in Notice /\ [kind |-> "other"] \in Notice
  BY DEF RANotice, Observation, Notice

LEMMA SaysType ==
  ASSUME TypeOK, NEW u \in Uplink, NEW p \in Prefix, NEW k \in {"live", "gone"},
         NEW lost \in BOOLEAN
  PROVE  /\ Says(u, p, k, lost) \in [Uplink -> Word]
         /\ \A v \in Uplink \ {u} : Says(u, p, k, lost)[v] = word[v]
         /\ p \notin Match[u] => Says(u, p, k, lost) = word
         /\ p \in Match[u] => Says(u, p, k, lost)[u] = [kind |-> k, prefix |-> p, lost |-> lost]
  BY DEF Says, TypeOK, Word

\* Head(addr[u]) is a prefix when there is one.
LEMMA AdvertisesType ==
  ASSUME TypeOK, NEW u \in Uplink, NEW p \in Prefix, Advertises(u, p)
  PROVE  /\ addr' \in [Uplink -> Seq(Prefix)] /\ word' \in [Uplink -> Word]
         /\ socket' \in Seq(Observation \cup Notice) /\ Len(socket') <= SocketDepth
         /\ congested' \in BOOLEAN /\ overrun' \in BOOLEAN
         /\ \E told \in Seq(Observation \cup Notice) :
              /\ Notify(told)
              /\ \A i \in 2..Len(told) : told[i] = [kind |-> "addr"]
              /\ u \in KernelRA => Len(told) > 0 /\ told[1] = RANotice(u, p, FALSE)
              /\ u \notin KernelRA => \A i \in 1..Len(told) : told[i] = [kind |-> "addr"]
              /\ word' = IF u \in KernelRA THEN Says(u, p, "live", Taken(told) = 0) ELSE word
<1> DEFINE ra == <<RANotice(u, p, FALSE)>>
           address == IF \E i \in DOMAIN addr[u] : addr[u][i] = p
                      THEN <<>> ELSE <<[kind |-> "addr"]>>
           told == IF u \in KernelRA THEN ra \o address ELSE address
<1>1. /\ addr' = [addr EXCEPT ![u] = <<p>> \o Without(addr[u], p)]
      /\ word' = IF u \in KernelRA THEN Says(u, p, "live", Taken(told) = 0) ELSE word
      /\ Notify(told)
  BY Zenon DEF Advertises
<1>2. RANotice(u, p, FALSE) \in Observation /\ [kind |-> "addr"] \in Notice
  BY NoticeTypes
<1>3. /\ address \in Seq(Observation \cup Notice) /\ Len(address) \in {0, 1}
      /\ \A i \in 1..Len(address) : address[i] = [kind |-> "addr"]
  <2> DEFINE n == [kind |-> "addr"]
  <2>1. n \in Observation \cup Notice
    BY <1>2
  <2> HIDE DEF n
  <2>2. /\ <<n>> \in Seq(Observation \cup Notice) /\ Len(<<n>>) = 1
        /\ \A i \in 1..Len(<<n>>) : <<n>>[i] = n
    BY <2>1, Single
  <2>3. /\ <<>> \in Seq(Observation \cup Notice) /\ Len(<<>>) = 0
        /\ \A i \in 1..Len(<<>>) : <<>>[i] = n
    OBVIOUS
  <2>4. address = <<>> \/ address = <<n>>
    BY DEF n
  <2>5. /\ address \in Seq(Observation \cup Notice) /\ Len(address) \in {0, 1}
        /\ \A i \in 1..Len(address) : address[i] = n
    BY <2>2, <2>3, <2>4
  <2> QED
    BY <2>5 DEF n
<1> HIDE DEF address
<1>4. /\ ra \o address \in Seq(Observation \cup Notice)
      /\ Len(ra \o address) > 0 /\ (ra \o address)[1] = RANotice(u, p, FALSE)
      /\ \A i \in 2..Len(ra \o address) : (ra \o address)[i] = [kind |-> "addr"]
  <2>1. ra \in Seq(Observation \cup Notice) /\ Len(ra) = 1 /\ ra[1] = RANotice(u, p, FALSE)
    BY <1>2, Single
  <2> HIDE DEF ra
  <2>2. /\ ra \o address \in Seq(Observation \cup Notice)
        /\ Len(ra \o address) = 1 + Len(address)
        /\ \A i \in 1..1 + Len(address) :
             (ra \o address)[i] = IF i <= 1 THEN ra[i] ELSE address[i - 1]
    BY <1>3, <2>1, ConcatProperties
  <2>3. 1 <= 1 + Len(address) /\ (ra \o address)[1] = ra[1]
    BY <1>3, <2>2
  <2>4. ASSUME NEW i \in 2..Len(ra \o address)
        PROVE  (ra \o address)[i] = [kind |-> "addr"]
    <3>1. i \in 1..1 + Len(address) /\ ~(i <= 1) /\ i - 1 \in 1..Len(address)
      BY <1>3, <2>2
    <3> QED
      BY <1>3, <2>2, <3>1
  <2>5. Len(ra \o address) > 0
    BY <1>3, <2>2
  <2> QED
    BY <2>1, <2>2, <2>3, <2>4, <2>5
<1> HIDE DEF ra
<1>5. /\ told \in Seq(Observation \cup Notice)
      /\ \A i \in 2..Len(told) : told[i] = [kind |-> "addr"]
      /\ u \in KernelRA => Len(told) > 0 /\ told[1] = RANotice(u, p, FALSE)
      /\ u \notin KernelRA => \A i \in 1..Len(told) : told[i] = [kind |-> "addr"]
  <2>1. CASE u \in KernelRA
    <3>1. told = ra \o address
      BY <2>1
    <3> QED
      BY <1>4, <2>1, <3>1, Zenon
  <2>2. CASE u \notin KernelRA
    <3>1. told = address
      BY <2>2
    <3>2. \A i \in 2..Len(address) : i \in 1..Len(address)
      BY <1>3
    <3> QED
      BY <1>3, <2>2, <3>1, <3>2, Zenon
  <2> QED
    BY <2>1, <2>2, Zenon
<1> HIDE DEF told
<1>6. word' \in [Uplink -> Word]
  BY <1>1, SaysType DEF TypeOK
<1>7. addr' \in [Uplink -> Seq(Prefix)]
  <2>1. Without(addr[u], p) \in Seq(Prefix) /\ <<p>> \in Seq(Prefix)
    BY WithoutType DEF TypeOK
  <2>2. <<p>> \o Without(addr[u], p) \in Seq(Prefix)
    BY <2>1
  <2> QED
    BY <1>1, <2>2 DEF TypeOK
<1> QED
  BY <1>1, <1>5, <1>6, <1>7, NotifyTakes

LEMMA WithdrawsType ==
  ASSUME TypeOK, NEW u \in Uplink, NEW p \in Prefix, NEW lingers \in BOOLEAN,
         Withdraws(u, p, lingers)
  PROVE  /\ addr' \in [Uplink -> Seq(Prefix)] /\ word' \in [Uplink -> Word]
         /\ socket' \in Seq(Observation \cup Notice) /\ Len(socket') <= SocketDepth
         /\ congested' \in BOOLEAN /\ overrun' \in BOOLEAN
         /\ <<RANotice(u, p, TRUE)>> \in Seq(Observation \cup Notice)
         /\ Notify(<<RANotice(u, p, TRUE)>>)
         /\ word' = Says(u, p, "gone", Lost(<<RANotice(u, p, TRUE)>>))
<1>1. <<RANotice(u, p, TRUE)>> \in Seq(Observation \cup Notice)
  <2>1. RANotice(u, p, TRUE) \in Observation \cup Notice
    BY NoticeTypes
  <2> QED
    BY <2>1, Single, Zenon
<1>2. /\ Notify(<<RANotice(u, p, TRUE)>>)
      /\ word' = Says(u, p, "gone", Lost(<<RANotice(u, p, TRUE)>>))
  BY DEF Withdraws
<1>3. word' \in [Uplink -> Word]
  <2> DEFINE lost == Lost(<<RANotice(u, p, TRUE)>>)
  <2>1. lost \in BOOLEAN
    BY DEF Lost
  <2>2. word' = Says(u, p, "gone", lost)
    BY <1>2
  <2> HIDE DEF lost
  <2> QED
    BY <2>1, <2>2, SaysType
<1>4. addr' \in [Uplink -> Seq(Prefix)]
  BY WithoutType DEF Withdraws, TypeOK
<1> QED
  BY <1>1, <1>2, <1>3, <1>4, NotifyTakes

\* What the surroundings do.
LEMMA TypeSurroundings ==
  ASSUME TypeOK,
         \/ RouteChanges \/ AdvertisementChanges \/ OthersChange
         \/ \E u \in Uplink : Readvertises(u)
  PROVE  TypeOK'
<1>1. CASE RouteChanges
  <2>1. PICK p \in Prefix :
          /\ Change(<<[kind |-> "route", prefix |-> p, iface |-> None, gone |-> p \in discard]>>)
          /\ discard' = IF p \in discard THEN discard \ {p} ELSE discard \cup {p}
          /\ UNCHANGED <<addr, word>>
    BY <1>1 DEF RouteChanges
  <2> DEFINE told == <<[kind |-> "route", prefix |-> p, iface |-> None, gone |-> p \in discard]>>
  <2>2. told \in Seq(Observation \cup Notice)
    BY DEF Observation
  <2>3. Notify(told)
    BY <2>1 DEF Change
  <2> HIDE DEF told
  <2>4. /\ socket' \in Seq(Observation \cup Notice) /\ Len(socket') <= SocketDepth
        /\ congested' \in BOOLEAN /\ overrun' \in BOOLEAN
    BY <2>2, <2>3, NotifyTakes
  <2>5. /\ discard' \subseteq Prefix /\ changes' \in 0..MaxChanges /\ settled' = FALSE
        /\ UNCHANGED <<addr, word, faults, channel, inbox, lease, withdrawn, folding>>
    BY <2>1, LeasesAssumption DEF Change, beliefs, TypeOK
  <2> QED
    BY <2>4, <2>5 DEF TypeOK
<1>2. CASE OthersChange
  <2> DEFINE told == <<[kind |-> "other"]>>
  <2>1. told \in Seq(Observation \cup Notice)
    BY DEF Notice
  <2>2. Notify(told)
    BY <1>2 DEF OthersChange, Change
  <2> HIDE DEF told
  <2>3. /\ socket' \in Seq(Observation \cup Notice) /\ Len(socket') <= SocketDepth
        /\ congested' \in BOOLEAN /\ overrun' \in BOOLEAN
    BY <2>1, <2>2, NotifyTakes
  <2>4. /\ changes' \in 0..MaxChanges /\ settled' = FALSE
        /\ UNCHANGED <<discard, addr, word, faults, channel, inbox, lease, withdrawn, folding>>
    BY <1>2, LeasesAssumption DEF OthersChange, Change, kernel, beliefs, TypeOK
  <2> QED
    BY <2>3, <2>4 DEF TypeOK
<1>3. CASE AdvertisementChanges
  <2>1. /\ changes' \in 0..MaxChanges /\ settled' = FALSE
        /\ UNCHANGED <<discard, faults, channel, inbox, lease, withdrawn, folding>>
    BY <1>3, LeasesAssumption DEF AdvertisementChanges, beliefs, TypeOK
  <2>2. /\ addr' \in [Uplink -> Seq(Prefix)] /\ word' \in [Uplink -> Word]
        /\ socket' \in Seq(Observation \cup Notice) /\ Len(socket') <= SocketDepth
        /\ congested' \in BOOLEAN /\ overrun' \in BOOLEAN
    <3>1. PICK u \in Uplink, p \in Prefix :
            \/ Advertises(u, p)
            \/ \E lingers \in BOOLEAN : Withdraws(u, p, lingers)
            \/ Expires(u, p)
      BY <1>3 DEF AdvertisementChanges
    <3>2. CASE Advertises(u, p)
      BY <3>2, AdvertisesType
    <3>3. ASSUME NEW lingers \in BOOLEAN, Withdraws(u, p, lingers)
          PROVE  <2>2
      BY <3>3, WithdrawsType
    <3>4. CASE Expires(u, p)
      <4>1. Notify(<<[kind |-> "addr"]>>) /\ <<[kind |-> "addr"]>> \in Seq(Observation \cup Notice)
        BY <3>4 DEF Expires, Notice
      <4>2. addr' \in [Uplink -> Seq(Prefix)] /\ word' \in [Uplink -> Word]
        BY <3>4, WithoutType DEF Expires, TypeOK
      <4> QED
        BY <4>1, <4>2, NotifyTakes
    <3> QED
      BY <3>1, <3>2, <3>3, <3>4
  <2> QED
    BY <2>1, <2>2 DEF TypeOK
<1>4. ASSUME NEW u \in Uplink, Readvertises(u)
      PROVE  TypeOK'
  <2>1. Head(addr[u]) \in Prefix
    BY <1>4 DEF Readvertises, TypeOK
  <2>2. Advertises(u, Head(addr[u]))
    BY <1>4 DEF Readvertises
  <2>3. /\ addr' \in [Uplink -> Seq(Prefix)] /\ word' \in [Uplink -> Word]
        /\ socket' \in Seq(Observation \cup Notice) /\ Len(socket') <= SocketDepth
        /\ congested' \in BOOLEAN /\ overrun' \in BOOLEAN
    BY <2>1, <2>2, AdvertisesType
  <2>4. /\ settled' = FALSE
        /\ UNCHANGED <<discard, changes, faults, channel, inbox, lease, withdrawn, folding>>
    BY <1>4 DEF Readvertises, counts, beliefs
  <2> QED
    BY <2>3, <2>4 DEF TypeOK
<1> QED
  BY <1>1, <1>2, <1>3, <1>4

\* What the watcher, the sources and the timer do.
LEMMA TypeQueues ==
  ASSUME TypeOK,
         \/ Overruns \/ Fanout \/ Recheck \/ Ignore \/ Nameless \/ Ticks
         \/ \E u \in Uplink : Reports(u)
  PROVE  TypeOK'
<1>1. Resync \in Event
  BY DEF Resync, Event
<1>2. ASSUME NEW e \in Event, HasRoom, inbox' = Append(inbox, e)
      PROVE  inbox' \in Seq(Event) /\ Len(inbox') <= InboxDepth
  BY <1>2, QueueOps, LeasesAssumption DEF HasRoom, TypeOK
<1>3. ASSUME Received
      PROVE  /\ socket' \in Seq(Observation \cup Notice) /\ Len(socket') <= SocketDepth
             /\ congested' \in BOOLEAN /\ overrun' \in BOOLEAN
             /\ Head(socket) \in Observation \cup Notice
  <2>1. /\ Tail(socket) \in Seq(Observation \cup Notice) /\ Len(Tail(socket)) = Len(socket) - 1
        /\ Head(socket) \in Observation \cup Notice
    BY <1>3, QueueOps DEF Received, TypeOK
  <2> QED
    BY <1>3, <2>1, LeasesAssumption DEF Received, TypeOK
<1>4. CASE Overruns
  BY <1>1, <1>2, <1>4 DEF Overruns, TypeOK, kernel, beliefs, counts
<1>5. CASE Fanout
  <2>1. Head(socket) \in Observation
    BY <1>3, <1>5 DEF Fanout, Notice
  <2>2. ASSUME NEW u \in Uplink
        PROVE  /\ Append(channel[u], Head(socket)) \in Seq(Observation)
               /\ Len(Append(channel[u], Head(socket))) <= ChannelDepth
    BY <1>5, <2>1, QueueOps, LeasesAssumption DEF Fanout, TypeOK
  <2>3. channel' \in [Uplink -> Seq(Observation)] /\ \A u \in Uplink : Len(channel'[u]) <= ChannelDepth
    BY <1>5, <2>2 DEF Fanout
  <2> QED
    BY <1>3, <1>5, <2>3 DEF Fanout, TypeOK, kernel, beliefs, counts
<1>6. CASE Recheck
  BY <1>1, <1>2, <1>3, <1>6 DEF Recheck, TypeOK, kernel, beliefs, counts
<1>7. CASE Ignore
  BY <1>3, <1>7 DEF Ignore, TypeOK, kernel, beliefs, counts
<1>8. CASE Nameless
  <2> DEFINE v == Head(socket).iface
             On(s) == {i \in DOMAIN s : s[i].kind = "ra" /\ s[i].iface = v /\ s[i].prefix \in Match[v]}
             lost == word[v].lost \/ (On(socket) # {} /\ On(socket') = {})
  <2>1. word' = [word EXCEPT ![v].lost = lost]
    BY <1>8, Zenon DEF Nameless
  <2>2. word' \in [Uplink -> Word]
    <3>1. lost \in BOOLEAN
      OBVIOUS
    <3> HIDE DEF lost, v
    <3> QED
      BY <2>1, <3>1 DEF TypeOK, Word
  <2>3. /\ faults' \in 0..MaxFaults
        /\ UNCHANGED <<discard, addr, channel, inbox, lease, withdrawn, folding, settled, changes>>
    BY <1>8, LeasesAssumption DEF Nameless, TypeOK, beliefs
  <2>4. Received
    BY <1>8 DEF Nameless
  <2> QED
    BY <1>3, <2>2, <2>3, <2>4 DEF TypeOK
<1>9. CASE Ticks
  BY <1>1, <1>2, <1>9 DEF Ticks, TypeOK, kernel, netlink, beliefs, counts
<1>10. ASSUME NEW u \in Uplink, Reports(u)
       PROVE  TypeOK'
  <2>1. /\ Head(channel[u]) \in Observation /\ Tail(channel[u]) \in Seq(Observation)
        /\ Len(Tail(channel[u])) <= ChannelDepth
    BY <1>10, QueueOps, LeasesAssumption DEF Reports, TypeOK
  <2>2. Reported(u, Head(channel[u])) \in Event
    BY <2>1 DEF Reported, Observation, Event
  <2>3. inbox' \in Seq(Event) /\ Len(inbox') <= InboxDepth
    BY <1>2, <1>10, <2>2 DEF Reports, TypeOK
  <2>4. channel' \in [Uplink -> Seq(Observation)] /\ \A v \in Uplink : Len(channel'[v]) <= ChannelDepth
    BY <1>10, <2>1 DEF Reports, TypeOK
  <2> QED
    BY <1>10, <2>3, <2>4 DEF Reports, TypeOK, kernel, netlink, beliefs, counts
<1> QED
  BY <1>4, <1>5, <1>6, <1>7, <1>8, <1>9, <1>10

\* What is held is of the uplink: from a message or from a read.
LEMMA LeaseTypes ==
  ASSUME TypeOK
  PROVE  /\ \A u \in Uplink : \A routes, addrs :
              Observed(u, routes, addrs) \subseteq Match[u] \cup {None}
         /\ \A p, q, gone : RecordLease(p, q, gone) \in {p, q, None}
<1>1. \A u \in Uplink : \A routes, addrs : Candidates(u, routes, addrs) \subseteq Match[u]
  BY LeasesAssumption DEF Candidates
<1> QED
  BY <1>1 DEF Observed, RecordLease

\* The first message is one that was reported.
LEMMA FirstMessage ==
  ASSUME TypeOK, Sourced, inbox # <<>>
  PROVE  /\ Head(inbox) \in Event /\ Tail(inbox) \in Seq(Event) /\ Len(Tail(inbox)) <= InboxDepth
         /\ Head(inbox).type = "lease" =>
              /\ Head(inbox).uplink \in Uplink /\ Head(inbox).gone \in BOOLEAN
              /\ Head(inbox).prefix \in Match[Head(inbox).uplink]
              /\ SourceOf[Head(inbox).uplink] # "static"
         /\ \A i \in DOMAIN Tail(inbox) : i + 1 \in DOMAIN inbox /\ Tail(inbox)[i] = inbox[i + 1]
<1>1. /\ Head(inbox) \in Event /\ Tail(inbox) \in Seq(Event) /\ Len(Tail(inbox)) <= InboxDepth
      /\ Head(inbox) = inbox[1] /\ 1 \in DOMAIN inbox
      /\ \A i \in DOMAIN Tail(inbox) : i + 1 \in DOMAIN inbox /\ Tail(inbox)[i] = inbox[i + 1]
  BY LeasesAssumption DEF TypeOK
<1>2. \A e \in Event : e.type = "lease" => e.uplink \in Uplink /\ e.gone \in BOOLEAN
  BY DEF Event
<1> QED
  BY <1>1, <1>2 DEF Sourced

LEMMA TypeReceive ==
  ASSUME TypeOK, Sourced, Receive
  PROVE  TypeOK'
<1>1. inbox # <<>> /\ inbox' = Tail(inbox) /\ folding' = TRUE /\ settled' = FALSE
  BY DEF Receive
<1>2. UNCHANGED <<discard, addr, word, socket, congested, overrun, channel, changes, faults>>
  BY DEF Receive, kernel, netlink, counts
<1>3. inbox' \in Seq(Event) /\ Len(inbox') <= InboxDepth
  BY <1>1, FirstMessage
<1>4. /\ withdrawn' \in [Uplink -> BOOLEAN] /\ lease' \in [Uplink -> Prefix \cup {None}]
      /\ \A u \in Uplink : lease'[u] \in Match[u] \cup {None}
  <2> DEFINE e == Head(inbox)
             v == e.uplink
             l == RecordLease(lease[v], e.prefix, e.gone)
  <2>1. CASE e.type = "lease" /\ HandleLeaseWire(e)
    <3>1. v \in Uplink /\ e.gone \in BOOLEAN /\ e.prefix \in Match[v]
      BY <1>1, <2>1, FirstMessage
    <3>2. l \in Match[v] \cup {None} /\ Match[v] \subseteq Prefix
      <4>1. l \in {lease[v], e.prefix, None}
        BY LeaseTypes, Zenon
      <4> QED
        BY <3>1, <4>1, LeasesAssumption DEF TypeOK
    <3>3. /\ withdrawn' = [withdrawn EXCEPT ![v] = e.gone]
          /\ lease' = [lease EXCEPT ![v] = l]
      BY <2>1, Zenon DEF HandleLeaseWire
    <3> HIDE DEF l, v, e
    <3> QED
      BY <3>1, <3>2, <3>3 DEF TypeOK
  <2>2. CASE UNCHANGED beliefs
    BY <2>2 DEF beliefs, TypeOK
  <2> QED
    BY <2>1, <2>2 DEF Receive
<1> QED
  BY <1>1, <1>2, <1>3, <1>4 DEF TypeOK

\* What a pass reads, and what it leaves: with nothing unread, what the kernel shows.
LEMMA PassFacts ==
  ASSUME TypeOK, Pass
  PROVE  /\ inbox = <<>> /\ folding' = FALSE /\ settled' \in BOOLEAN /\ faults' \in 0..MaxFaults
         /\ UNCHANGED <<discard, addr, word, socket, congested, overrun, channel, inbox,
                        withdrawn, changes>>
         /\ lease' \in [Uplink -> Prefix \cup {None}]
         /\ \A u \in Uplink : \E routes, addrs : lease'[u] \in Observed(u, routes, addrs)
         /\ settled' => /\ socket = <<>> /\ \A u \in Uplink : channel[u] = <<>>
                        /\ \A u \in Uplink : lease'[u] \in Observed(u, discard, addr)
<1>1. PICK hidden \in SUBSET discard, unread \in SUBSET {u \in Uplink : RA(u) /\ addr[u] # <<>>} :
        /\ hidden # {} \/ unread # {} => faults < MaxFaults
        /\ faults' = IF hidden # {} \/ unread # {} THEN faults + 1 ELSE faults
        /\ AbsorbLeases(discard \ hidden, [u \in Uplink |-> IF u \in unread THEN <<>> ELSE addr[u]])
        /\ settled' = (/\ ~(hidden # {} \/ unread # {}) /\ socket = <<>> /\ ~overrun
                       /\ \A u \in Uplink : channel[u] = <<>>)
  BY Zenon DEF Pass
<1>2. /\ inbox = <<>> /\ folding' = FALSE
      /\ UNCHANGED <<discard, addr, word, socket, congested, overrun, channel, inbox,
                     withdrawn, changes>>
  BY DEF Pass, kernel, netlink
<1>3. settled' \in BOOLEAN /\ faults' \in 0..MaxFaults
  BY <1>1, LeasesAssumption DEF TypeOK
<1>4. /\ lease' \in [Uplink -> Prefix \cup {None}]
      /\ \A u \in Uplink : \E routes, addrs : lease'[u] \in Observed(u, routes, addrs)
  BY <1>1, Zenon DEF AbsorbLeases
<1>5. ASSUME settled'
      PROVE  /\ socket = <<>> /\ \A u \in Uplink : channel[u] = <<>>
             /\ \A u \in Uplink : lease'[u] \in Observed(u, discard, addr)
  <2>1. hidden = {} /\ unread = {} /\ socket = <<>> /\ \A u \in Uplink : channel[u] = <<>>
    BY <1>1, <1>5
  <2>2. discard \ hidden = discard
    BY <2>1
  <2>3. [u \in Uplink |-> IF u \in unread THEN <<>> ELSE addr[u]] = addr
    BY <2>1 DEF TypeOK
  <2> QED
    BY <1>1, <2>1, <2>2, <2>3, Zenon DEF AbsorbLeases
<1> QED
  BY <1>2, <1>3, <1>4, <1>5

LEMMA TypePass ==
  ASSUME TypeOK, Pass
  PROVE  TypeOK'
<1>1. \A u \in Uplink : lease'[u] \in Match[u] \cup {None}
  BY PassFacts, LeaseTypes
<1> QED
  BY <1>1, PassFacts DEF TypeOK

LEMMA SourcedInit ==
  Init => Sourced
  BY DEF Init, Sourced, Resync

\* Only a source's report puts a lease into the mailbox.
LEMMA SourcedNext ==
  ASSUME TypeOK, TypeOK', Sourced, [Next]_vars
  PROVE  Sourced'
<1>1. ASSUME UNCHANGED <<inbox, withdrawn>>, \A u \in Uplink : word'[u].kind = "gone" => RA(u)
      PROVE  Sourced'
  BY <1>1 DEF Sourced
<1>2. ASSUME NEW u \in Uplink, NEW p \in Prefix, RA(u), Advertises(u, p), NEW v \in Uplink
      PROVE  word'[v].kind = "gone" => RA(v)
  <2>1. word' = word \/ \E lost \in BOOLEAN : word' = Says(u, p, "live", lost)
    <3>1. PICK told : word' = IF u \in KernelRA THEN Says(u, p, "live", Taken(told) = 0) ELSE word
      BY <1>2, AdvertisesType
    <3>2. (Taken(told) = 0) \in BOOLEAN
      OBVIOUS
    <3> QED
      BY <3>1, <3>2
  <2> QED
    <3>1. ASSUME NEW lost \in BOOLEAN, word' = Says(u, p, "live", lost)
          PROVE  word'[v].kind = "gone" => word[v].kind = "gone"
      BY <3>1 DEF Says, TypeOK, Word
    <3> QED
      BY <2>1, <3>1 DEF Sourced
<1>3. CASE RouteChanges \/ OthersChange
  <2>1. UNCHANGED <<inbox, withdrawn, word>>
    BY <1>3 DEF RouteChanges, OthersChange, Change, kernel, beliefs
  <2> QED
    BY <1>1, <2>1 DEF Sourced
<1>4. CASE AdvertisementChanges
  <2>1. PICK u \in Uplink, p \in Prefix :
          /\ RA(u)
          /\ \/ Advertises(u, p)
             \/ \E lingers \in BOOLEAN : Withdraws(u, p, lingers)
             \/ Expires(u, p)
    BY <1>4 DEF AdvertisementChanges
  <2>2. UNCHANGED <<inbox, withdrawn>>
    BY <1>4 DEF AdvertisementChanges, beliefs
  <2>3. ASSUME NEW lingers \in BOOLEAN, Withdraws(u, p, lingers), NEW v \in Uplink
        PROVE  word'[v].kind = "gone" => RA(v)
    <3> DEFINE lost == Lost(<<RANotice(u, p, TRUE)>>)
    <3>1. word' = Says(u, p, "gone", lost)
      BY <2>3 DEF Withdraws
    <3>2. lost \in BOOLEAN
      BY DEF Lost
    <3> HIDE DEF lost
    <3>3. word'[v].kind = "gone" => word[v].kind = "gone" \/ v = u
      BY <3>1, <3>2 DEF Says, TypeOK, Word
    <3> QED
      BY <2>1, <3>3 DEF Sourced
  <2>4. ASSUME Expires(u, p), NEW v \in Uplink
        PROVE  word'[v].kind = "gone" => RA(v)
    BY <2>4 DEF Expires, Sourced
  <2> QED
    BY <1>1, <1>2, <2>1, <2>2, <2>3, <2>4
<1>5. ASSUME NEW u \in Uplink, Readvertises(u)
      PROVE  Sourced'
  <2>1. Head(addr[u]) \in Prefix /\ RA(u) /\ Advertises(u, Head(addr[u]))
    BY <1>5 DEF Readvertises, TypeOK
  <2>2. UNCHANGED <<inbox, withdrawn>>
    BY <1>5 DEF Readvertises, beliefs
  <2> QED
    BY <1>1, <1>2, <2>1, <2>2
<1>6. ASSUME inbox' = Append(inbox, Resync), UNCHANGED <<withdrawn, word>>
      PROVE  Sourced'
  <2>1. \A i \in DOMAIN inbox' : (i \in DOMAIN inbox /\ inbox'[i] = inbox[i]) \/ inbox'[i] = Resync
    <3>1. inbox \in Seq(Event) /\ Resync \in Event
      BY DEF TypeOK, Resync, Event
    <3> QED
      BY <1>6, <3>1
  <2> QED
    BY <1>6, <2>1 DEF Sourced, Resync
<1>7. CASE Overruns \/ Recheck \/ Ticks
  BY <1>6, <1>7 DEF Overruns, Recheck, Ticks, kernel, beliefs
<1>8. CASE Fanout \/ Ignore
  BY <1>1, <1>8 DEF Fanout, Ignore, kernel, beliefs, Sourced
<1>9. CASE Nameless
  <2>1. UNCHANGED <<inbox, withdrawn>> /\ \E v, lost : word' = [word EXCEPT ![v].lost = lost]
    BY <1>9, Zenon DEF Nameless, beliefs
  <2>2. \A u \in Uplink : word'[u].kind = word[u].kind
    BY <2>1 DEF TypeOK, Word
  <2> QED
    BY <1>1, <2>1, <2>2 DEF Sourced
<1>10. ASSUME NEW u \in Uplink, Reports(u)
       PROVE  Sourced'
  <2> DEFINE o == Head(channel[u])
  <2>1. /\ UNCHANGED <<withdrawn, word>>
        /\ \/ Attribute(u, o) /\ inbox' = Append(inbox, Reported(u, o))
           \/ UNCHANGED inbox
    BY <1>10 DEF Reports, kernel, beliefs
  <2>2. o \in Observation
    BY <1>10 DEF Reports, TypeOK
  <2>3. CASE Attribute(u, o) /\ inbox' = Append(inbox, Reported(u, o))
    <3>1. /\ Reported(u, o).uplink = u /\ Reported(u, o).prefix \in Match[u]
          /\ SourceOf[u] # "static"
      BY <2>2, <2>3 DEF Reported, Attribute, Observation
    <3>2. \A i \in DOMAIN inbox' : (i \in DOMAIN inbox /\ inbox'[i] = inbox[i]) \/ inbox'[i] = Reported(u, o)
      BY <2>3 DEF TypeOK
    <3> QED
      BY <2>1, <3>1, <3>2 DEF Sourced
  <2> QED
    BY <1>1, <2>1, <2>3 DEF Sourced
<1>11. CASE Receive
  <2>1. inbox # <<>> /\ inbox' = Tail(inbox) /\ UNCHANGED word
    BY <1>11 DEF Receive, kernel
  <2>2. ASSUME NEW u \in Uplink, withdrawn'[u]
        PROVE  SourceOf[u] # "static"
    <3> DEFINE e == Head(inbox)
    <3>1. CASE e.type = "lease" /\ HandleLeaseWire(e)
      <4>1. withdrawn' = [withdrawn EXCEPT ![e.uplink] = e.gone]
        BY <3>1 DEF HandleLeaseWire
      <4>2. e.uplink \in Uplink /\ SourceOf[e.uplink] # "static"
        BY <2>1, <3>1, FirstMessage
      <4> QED
        BY <2>2, <4>1, <4>2 DEF Sourced, TypeOK
    <3>2. CASE UNCHANGED beliefs
      BY <2>2, <3>2 DEF beliefs, Sourced
    <3> QED
      BY <1>11, <3>1, <3>2 DEF Receive
  <2>3. \A i \in DOMAIN inbox' : i + 1 \in DOMAIN inbox /\ inbox'[i] = inbox[i + 1]
    BY <2>1, FirstMessage
  <2> QED
    BY <2>1, <2>2, <2>3 DEF Sourced
<1>12. CASE Pass
  BY <1>12, <1>1, PassFacts DEF Sourced
<1>13. CASE UNCHANGED vars
  BY <1>13, <1>1 DEF vars, kernel, beliefs, Sourced
<1> QED
  BY <1>3, <1>4, <1>5, <1>7, <1>8, <1>9, <1>10, <1>11, <1>12, <1>13 DEF Next

LEMMA TypedNext ==
  TypeOK /\ Sourced /\ [Next]_vars => (TypeOK /\ Sourced)'
<1> SUFFICES ASSUME TypeOK, Sourced, [Next]_vars PROVE (TypeOK /\ Sourced)'
  OBVIOUS
<1>1. CASE UNCHANGED vars
  <2>1. UNCHANGED <<discard, addr, word, socket, congested, overrun, channel, inbox,
                    lease, withdrawn, folding, settled, changes, faults>>
    BY <1>1 DEF vars, kernel, netlink, beliefs, counts
  <2> QED
    BY <2>1 DEF TypeOK, Sourced
<1>2. TypeOK'
  BY <1>1, TypeSurroundings, TypeQueues, TypeReceive, TypePass DEF Next
<1> QED
  BY <1>2, SourcedNext

\* For any uplinks, prefixes and depths: what is held of an uplink is a prefix it may
\* take, whoever told of it, and no queue holds more than it can.
THEOREM TypeCorrect ==
  Spec => []TypeOK
<1>1. Init => TypeOK /\ Sourced
  BY TypeInit, SourcedInit
<1> QED
  BY <1>1, TypedNext, PTL DEF Spec

-----------------------------------------------------------------------------
(* A last word is heeded.                                                  *)

\* Nothing came on the way of u, and what left was not the last.
LEMMA HeardSame ==
  ASSUME NEW u \in Uplink, Heard(u),
         LastIn(socket', News(u)) \subseteq LastIn(socket, News(u)),
         Places(socket', News(u)) = {} => Places(socket, News(u)) = {},
         LastIn(channel'[u], News(u)) \subseteq LastIn(channel[u], News(u)),
         Places(channel'[u], News(u)) = {} => Places(channel[u], News(u)) = {},
         LastIn(inbox', Mine(u)) \subseteq LastIn(inbox, Mine(u)),
         Places(inbox', Mine(u)) = {} => Places(inbox, Mine(u)) = {},
         word'[u].prefix = word[u].prefix, word'[u].kind = word[u].kind,
         word[u].lost => word'[u].lost,
         withdrawn'[u] = withdrawn[u], lease'[u] = lease[u]
  PROVE  Heard(u)'
<1> DEFINE Told(o) == o.prefix = word'[u].prefix /\ o.gone = (word'[u].kind = "gone")
<1>1. \A o : Tells(u, o) => Told(o)
  BY DEF Tells
<1>2. RA(u) /\ ~word'[u].lost =>
        /\ \A o \in LastIn(socket', News(u)) : Told(o)
        /\ Places(socket', News(u)) = {} =>
             /\ \A o \in LastIn(channel'[u], News(u)) : Told(o)
             /\ Places(channel'[u], News(u)) = {} =>
                  /\ \A e \in LastIn(inbox', Mine(u)) : Told(e)
                  /\ Places(inbox', Mine(u)) = {} =>
                       /\ withdrawn'[u] = (word'[u].kind = "gone")
                       /\ word'[u].kind = "gone" => lease'[u] # word'[u].prefix
  <2> HIDE DEF Told
  <2> QED
    BY <1>1 DEF Heard
<1> QED
  BY <1>2 DEF Heard, Tells

\* Notifications: none is news of u, or the first is and is the new last word, or the
\* last word was lost.
LEMMA HeardTold ==
  ASSUME TypeOK, NEW u \in Uplink, Heard(u),
         NEW told \in Seq(Observation \cup Notice), Notify(told),
         \A i \in 2..Len(told) : told[i] \notin News(u),
         UNCHANGED <<channel, inbox, lease, withdrawn>>,
         \/ word'[u].lost
         \/ word'[u] = word[u] /\ (Taken(told) = 0 \/ told[1] \notin News(u))
         \/ /\ Taken(told) # 0 /\ told[1] \in News(u)
            /\ told[1].prefix = word'[u].prefix /\ told[1].gone = (word'[u].kind = "gone")
  PROVE  Heard(u)'
<1>1. CASE word'[u].lost
  BY <1>1 DEF Heard
<1>2. CASE word'[u] = word[u] /\ (Taken(told) = 0 \/ told[1] \notin News(u))
  <2>1. /\ Places(socket', News(u)) = Places(socket, News(u))
        /\ LastIn(socket', News(u)) = LastIn(socket, News(u))
    BY <1>2, NotifyLast
  <2> QED
    BY <1>2, <2>1, HeardSame
<1>3. CASE /\ Taken(told) # 0 /\ told[1] \in News(u)
           /\ told[1].prefix = word'[u].prefix /\ told[1].gone = (word'[u].kind = "gone")
  <2>1. Places(socket', News(u)) # {} /\ LastIn(socket', News(u)) = {told[1]}
    BY <1>3, NotifyLast
  <2> QED
    BY <1>3, <2>1 DEF Heard, Tells
<1> QED
  BY <1>1, <1>2, <1>3

\* Of the notifications only an advertised prefix is news, and only of its uplink.
LEMMA NewsKinds ==
  ASSUME NEW u \in Uplink
  PROVE  /\ [kind |-> "addr"] \notin News(u) /\ [kind |-> "other"] \notin News(u)
         /\ \A p, gone : [kind |-> "route", prefix |-> p, iface |-> None, gone |-> gone] \notin News(u)
         /\ Resync \notin Mine(u)
  BY LeasesAssumption DEF News, Mine, Resync

\* An advertisement.
LEMMA HeardAdvertises ==
  ASSUME TypeOK, NEW v \in Uplink, NEW p \in Prefix, Advertises(v, p),
         UNCHANGED <<channel, inbox, lease, withdrawn>>, NEW u \in Uplink, Heard(u)
  PROVE  Heard(u)'
<1>1. PICK told \in Seq(Observation \cup Notice) :
        /\ Notify(told)
        /\ \A i \in 2..Len(told) : told[i] = [kind |-> "addr"]
        /\ v \in KernelRA => Len(told) > 0 /\ told[1] = RANotice(v, p, FALSE)
        /\ v \notin KernelRA => \A i \in 1..Len(told) : told[i] = [kind |-> "addr"]
        /\ word' = IF v \in KernelRA THEN Says(v, p, "live", Taken(told) = 0) ELSE word
  BY AdvertisesType
<1>2. \A i \in 2..Len(told) : told[i] \notin News(u)
  BY <1>1, NewsKinds
<1>3. Taken(told) \in 0..Len(told) /\ Len(told) \in Nat
  BY <1>1, NotifyTakes
<1>4. CASE v \notin KernelRA
  <2>1. Taken(told) = 0 \/ told[1] = [kind |-> "addr"]
    BY <1>1, <1>3, <1>4
  <2>2. word'[u] = word[u] /\ (Taken(told) = 0 \/ told[1] \notin News(u))
    BY <1>1, <1>4, <2>1, NewsKinds
  <2> QED
    BY <1>1, <1>2, <2>2, HeardTold
<1>5. CASE v \in KernelRA /\ (u # v \/ p \notin Match[v])
  <2>1. told[1] \notin News(u)
    BY <1>1, <1>5 DEF News, RANotice
  <2>2. word'[u] = word[u]
    BY <1>1, <1>5 DEF Says, TypeOK
  <2> QED
    BY <1>1, <1>2, <2>1, <2>2, HeardTold
<1>6. CASE v \in KernelRA /\ u = v /\ p \in Match[v]
  <2>1. word'[u] = [kind |-> "live", prefix |-> p, lost |-> (Taken(told) = 0)]
    BY <1>1, <1>6 DEF Says, TypeOK
  <2>2. word'[u].lost = (Taken(told) = 0) /\ word'[u].kind = "live" /\ word'[u].prefix = p
    BY <2>1
  <2>3. told[1] \in News(u) /\ told[1].prefix = p /\ told[1].gone = FALSE
    <3>1. told[1] = RANotice(u, p, FALSE)
      BY <1>1, <1>6
    <3> QED
      BY <1>6, <3>1 DEF News, RANotice, Observation
  <2>4. CASE Taken(told) = 0
    BY <1>1, <1>2, <2>2, <2>4, HeardTold
  <2>5. CASE Taken(told) # 0
    <3>1. told[1].prefix = word'[u].prefix /\ told[1].gone = (word'[u].kind = "gone")
      BY <2>2, <2>3
    <3> QED
      BY <1>1, <1>2, <2>3, <2>5, <3>1, HeardTold
  <2> QED
    BY <2>4, <2>5
<1> QED
  BY <1>4, <1>5, <1>6

\* A withdrawal.
LEMMA HeardWithdraws ==
  ASSUME TypeOK, NEW v \in Uplink, NEW p \in Prefix, NEW lingers \in BOOLEAN,
         Withdraws(v, p, lingers),
         UNCHANGED <<channel, inbox, lease, withdrawn>>, NEW u \in Uplink, Heard(u)
  PROVE  Heard(u)'
<1> DEFINE told == <<RANotice(v, p, TRUE)>>
<1>1. /\ told \in Seq(Observation \cup Notice) /\ Notify(told)
      /\ word' = Says(v, p, "gone", Lost(told))
  BY WithdrawsType
<1>2. Len(told) = 1 /\ told[1] = RANotice(v, p, TRUE)
  OBVIOUS
<1> HIDE DEF told
<1>3. Taken(told) \in {0, 1} /\ Lost(told) = (Taken(told) = 0)
  <2>1. Taken(told) \in 0..Len(told)
    BY <1>1, NotifyTakes
  <2> QED
    BY <1>2, <2>1 DEF Lost
<1>4. \A i \in 2..Len(told) : told[i] \notin News(u)
  BY <1>2
<1>5. CASE u # v \/ p \notin Match[v]
  <2>1. told[1] \notin News(u)
    BY <1>2, <1>5 DEF News, RANotice
  <2>2. word'[u] = word[u]
    BY <1>1, <1>5 DEF Says, TypeOK
  <2> QED
    BY <1>1, <1>4, <2>1, <2>2, HeardTold
<1>6. CASE u = v /\ p \in Match[v]
  <2>1. word'[u] = [kind |-> "gone", prefix |-> p, lost |-> Lost(told)]
    BY <1>1, <1>6 DEF Says, TypeOK
  <2>2. word'[u].lost = Lost(told) /\ word'[u].kind = "gone" /\ word'[u].prefix = p
    BY <2>1
  <2>3. told[1] \in News(u) /\ told[1].prefix = p /\ told[1].gone = TRUE
    BY <1>2, <1>6 DEF News, RANotice, Observation
  <2>4. CASE Taken(told) = 0
    BY <1>1, <1>3, <1>4, <2>2, <2>4, HeardTold
  <2>5. CASE Taken(told) # 0
    <3>1. told[1].prefix = word'[u].prefix /\ told[1].gone = (word'[u].kind = "gone")
      BY <2>2, <2>3
    <3> QED
      BY <1>1, <1>4, <2>3, <2>5, <3>1, HeardTold
  <2> QED
    BY <2>4, <2>5
<1> QED
  BY <1>5, <1>6

LEMMA HeardSurroundings ==
  ASSUME TypeOK, NEW u \in Uplink, Heard(u),
         \/ RouteChanges \/ AdvertisementChanges \/ OthersChange
         \/ \E v \in Uplink : Readvertises(v)
  PROVE  Heard(u)'
<1>1. ASSUME NEW n \in Observation \cup Notice, n \notin News(u), Notify(<<n>>),
             UNCHANGED <<word, channel, inbox, lease, withdrawn>>
      PROVE  Heard(u)'
  <2>1. <<n>> \in Seq(Observation \cup Notice) /\ Len(<<n>>) = 1 /\ <<n>>[1] = n
    BY Single
  <2>2. \A i \in 2..Len(<<n>>) : <<n>>[i] \notin News(u)
    BY <2>1
  <2>3. word'[u] = word[u] /\ <<n>>[1] \notin News(u)
    BY <1>1, <2>1
  <2> QED
    BY <1>1, <2>1, <2>2, <2>3, HeardTold
<1>2. CASE RouteChanges
  <2>1. PICK p \in Prefix :
          /\ Change(<<[kind |-> "route", prefix |-> p, iface |-> None, gone |-> p \in discard]>>)
          /\ UNCHANGED <<addr, word>>
    BY <1>2 DEF RouteChanges
  <2> DEFINE n == [kind |-> "route", prefix |-> p, iface |-> None, gone |-> p \in discard]
  <2>2. n \in Observation \cup Notice /\ n \notin News(u)
    BY DEF Observation, News
  <2>3. Notify(<<n>>) /\ UNCHANGED <<word, channel, inbox, lease, withdrawn>>
    BY <2>1 DEF Change, beliefs
  <2> HIDE DEF n
  <2> QED
    BY <1>1, <2>2, <2>3
<1>3. CASE OthersChange
  <2> DEFINE n == [kind |-> "other"]
  <2>1. n \in Observation \cup Notice /\ n \notin News(u)
    BY NewsKinds DEF Notice
  <2>2. Notify(<<n>>) /\ UNCHANGED <<word, channel, inbox, lease, withdrawn>>
    BY <1>3 DEF OthersChange, Change, beliefs, kernel
  <2> HIDE DEF n
  <2> QED
    BY <1>1, <2>1, <2>2
<1>4. CASE AdvertisementChanges
  <2>1. PICK v \in Uplink, p \in Prefix :
          \/ Advertises(v, p)
          \/ \E lingers \in BOOLEAN : Withdraws(v, p, lingers)
          \/ Expires(v, p)
    BY <1>4 DEF AdvertisementChanges
  <2>2. UNCHANGED <<channel, inbox, lease, withdrawn>>
    BY <1>4 DEF AdvertisementChanges, beliefs
  <2>3. CASE Advertises(v, p)
    BY <2>2, <2>3, HeardAdvertises
  <2>4. ASSUME NEW lingers \in BOOLEAN, Withdraws(v, p, lingers)
        PROVE  Heard(u)'
    BY <2>2, <2>4, HeardWithdraws
  <2>5. CASE Expires(v, p)
    <3> DEFINE n == [kind |-> "addr"]
    <3>1. n \in Observation \cup Notice /\ n \notin News(u)
      BY NewsKinds DEF Notice
    <3>2. Notify(<<n>>) /\ UNCHANGED <<word, channel, inbox, lease, withdrawn>>
      BY <2>2, <2>5 DEF Expires
    <3> HIDE DEF n
    <3> QED
      BY <1>1, <3>1, <3>2
  <2> QED
    BY <2>1, <2>3, <2>4, <2>5
<1>5. ASSUME NEW v \in Uplink, Readvertises(v)
      PROVE  Heard(u)'
  <2>1. Head(addr[v]) \in Prefix
    BY <1>5 DEF Readvertises, TypeOK
  <2>2. Advertises(v, Head(addr[v])) /\ UNCHANGED <<channel, inbox, lease, withdrawn>>
    BY <1>5 DEF Readvertises, beliefs
  <2> QED
    BY <2>1, <2>2, HeardAdvertises
<1> QED
  BY <1>2, <1>3, <1>4, <1>5

\* What leaves the socket was its first; the rest ends as before.
LEMMA ReceivedLast ==
  ASSUME TypeOK, Received, NEW T
  PROVE  /\ LastIn(socket', T) \subseteq LastIn(socket, T)
         /\ Places(socket', T) = {} /\ Head(socket) \in T => LastIn(socket, T) = {Head(socket)}
         /\ Places(socket, T) = {} => Places(socket', T) = {} /\ Head(socket) \notin T
         /\ Head(socket) \notin T /\ Places(socket', T) = {} => Places(socket, T) = {}
  BY TailLast DEF Received, TypeOK

\* Resyncs are no messages of an uplink.
LEMMA ResyncLast ==
  ASSUME TypeOK, NEW u \in Uplink, inbox' = Append(inbox, Resync)
  PROVE  /\ Places(inbox', Mine(u)) = Places(inbox, Mine(u))
         /\ LastIn(inbox', Mine(u)) = LastIn(inbox, Mine(u))
<1>1. Resync \in Event /\ Resync \notin Mine(u)
  BY NewsKinds DEF Resync, Event
<1>2. inbox \in Seq(Event)
  BY DEF TypeOK
<1> QED
  BY <1>1, <1>2, AppendLast

\* What the watcher and the timer do.
LEMMA HeardWatcher ==
  ASSUME TypeOK, NEW u \in Uplink, Heard(u),
         Overruns \/ Fanout \/ Recheck \/ Ignore \/ Nameless \/ Ticks
  PROVE  Heard(u)'
<1>1. CASE Overruns \/ Ticks
  <2>1. /\ inbox' = Append(inbox, Resync)
        /\ UNCHANGED <<socket, channel, word, withdrawn, lease>>
    BY <1>1 DEF Overruns, Ticks, kernel, netlink, beliefs
  <2> QED
    BY <2>1, ResyncLast, HeardSame
<1>2. CASE Recheck
  <2>1. /\ Received /\ Head(socket).kind = "addr" /\ inbox' = Append(inbox, Resync)
        /\ UNCHANGED <<channel, word, withdrawn, lease>>
    BY <1>2 DEF Recheck, kernel, beliefs
  <2>2. Head(socket) \notin News(u)
    BY <2>1 DEF News
  <2> QED
    BY <2>1, <2>2, ReceivedLast, ResyncLast, HeardSame
<1>3. CASE Ignore
  <2>1. /\ Received /\ Head(socket).kind = "other"
        /\ UNCHANGED <<channel, inbox, word, withdrawn, lease>>
    BY <1>3 DEF Ignore, kernel, beliefs
  <2>2. Head(socket) \notin News(u)
    BY <2>1 DEF News
  <2> QED
    BY <2>1, <2>2, ReceivedLast, HeardSame
<1>4. CASE Fanout
  <2>1. /\ Received /\ Head(socket).kind \in {"route", "ra"}
        /\ channel'[u] = Append(channel[u], Head(socket))
        /\ UNCHANGED <<inbox, word, withdrawn, lease>>
    BY <1>4 DEF Fanout, kernel, beliefs
  <2>2. Head(socket) \in Observation /\ channel[u] \in Seq(Observation)
    <3>1. Head(socket) \in Observation \cup Notice
      BY <2>1, QueueOps DEF Received, TypeOK
    <3> QED
      BY <2>1, <3>1 DEF Notice, TypeOK
  <2>3. CASE Head(socket) \notin News(u)
    <3>1. /\ Places(channel'[u], News(u)) = Places(channel[u], News(u))
          /\ LastIn(channel'[u], News(u)) = LastIn(channel[u], News(u))
      BY <2>1, <2>2, <2>3, AppendLast
    <3> QED
      BY <2>1, <2>3, <3>1, ReceivedLast, HeardSame
  <2>4. CASE Head(socket) \in News(u)
    <3>1. /\ Places(channel'[u], News(u)) # {}
          /\ LastIn(channel'[u], News(u)) = {Head(socket)}
      BY <2>1, <2>2, <2>4, AppendLast
    <3>2. LastIn(socket', News(u)) \subseteq LastIn(socket, News(u))
      BY <2>1, ReceivedLast
    <3>3. Places(socket', News(u)) = {} => LastIn(socket, News(u)) = {Head(socket)}
      BY <2>1, <2>4, ReceivedLast
    <3> QED
      BY <2>1, <3>1, <3>2, <3>3 DEF Heard, Tells
  <2> QED
    BY <2>3, <2>4
<1>5. CASE Nameless
  <2> DEFINE v == Head(socket).iface
             On(s) == {i \in DOMAIN s : s[i].kind = "ra" /\ s[i].iface = v /\ s[i].prefix \in Match[v]}
             lost == word[v].lost \/ (On(socket) # {} /\ On(socket') = {})
  <2>1. /\ word' = [word EXCEPT ![v].lost = lost] /\ Received
        /\ UNCHANGED <<channel, inbox, withdrawn, lease>>
    BY <1>5, Zenon DEF Nameless, beliefs
  <2>2. /\ word'[u].prefix = word[u].prefix /\ word'[u].kind = word[u].kind
        /\ u # v => word'[u] = word[u]
        /\ u = v => word'[u].lost = lost
    <3>1. word[u] = [kind |-> word[u].kind, prefix |-> word[u].prefix, lost |-> word[u].lost]
      BY DEF TypeOK, Word
    <3> HIDE DEF lost, v
    <3> QED
      BY <2>1, <3>1 DEF TypeOK
  <2>3. word[u].lost => word'[u].lost
    BY <2>2
  <2>4. CASE Head(socket) \notin News(u)
    BY <2>1, <2>2, <2>3, <2>4, ReceivedLast, HeardSame
  <2>5. CASE Head(socket) \in News(u)
    <3>1. u = v /\ On(socket) # {}
      <4>1. 1 \in DOMAIN socket /\ socket[1] = Head(socket)
        BY <2>1 DEF Received, TypeOK
      <4> QED
        BY <2>5, <4>1 DEF News
    <3>2. word'[u].lost \/ On(socket') # {}
      BY <2>2, <3>1
    <3>3. On(socket') # {} => Places(socket', News(u)) # {}
      <4>1. socket' \in Seq(Observation \cup Notice)
        BY <2>1, QueueOps DEF Received, TypeOK
      <4>2. ASSUME NEW i \in On(socket')
            PROVE  i \in Places(socket', News(u))
        <5>1. i \in DOMAIN socket' /\ socket'[i] \in Observation \cup Notice
          BY <4>1
        <5> QED
          BY <3>1, <5>1 DEF Places, News, Notice
      <4> QED
        BY <4>2
    <3>4. LastIn(socket', News(u)) \subseteq LastIn(socket, News(u))
      BY <2>1, ReceivedLast
    <3> QED
      BY <2>2, <2>3, <3>2, <3>3, <3>4 DEF Heard, Tells
  <2> QED
    BY <2>4, <2>5
<1> QED
  BY <1>1, <1>2, <1>3, <1>4, <1>5

\* A source passes on what is news of its own uplink, and only that.
LEMMA HeardReports ==
  ASSUME TypeOK, NEW u \in Uplink, Heard(u), NEW v \in Uplink, Reports(v)
  PROVE  Heard(u)'
<1> DEFINE o == Head(channel[v])
<1>1. /\ channel[v] \in Seq(Observation) /\ channel[v] # <<>> /\ o \in Observation
      /\ inbox \in Seq(Event)
  BY DEF Reports, TypeOK
<1>2. /\ \/ Attribute(v, o) /\ inbox' = Append(inbox, Reported(v, o))
         \/ ~Attribute(v, o) /\ UNCHANGED inbox
      /\ channel' = [channel EXCEPT ![v] = Tail(channel[v])]
      /\ UNCHANGED <<socket, word, withdrawn, lease>>
  BY DEF Reports, kernel, netlink, beliefs
<1> HIDE DEF o
<1>3. /\ Reported(v, o) \in Event
      /\ Reported(v, o) \in Mine(v) /\ (u # v => Reported(v, o) \notin Mine(u))
      /\ Reported(v, o).prefix = o.prefix /\ Reported(v, o).gone = o.gone
  BY <1>1 DEF Reported, Event, Mine, Observation
<1>4. ASSUME u # v
      PROVE  Heard(u)'
  <2>1. channel'[u] = channel[u]
    BY <1>2, <1>4 DEF TypeOK
  <2>2. /\ Places(inbox', Mine(u)) = Places(inbox, Mine(u))
        /\ LastIn(inbox', Mine(u)) = LastIn(inbox, Mine(u))
    <3>1. CASE inbox' = Append(inbox, Reported(v, o))
      BY <1>1, <1>3, <1>4, <3>1, AppendLast
    <3>2. CASE UNCHANGED inbox
      BY <3>2
    <3> QED
      BY <1>2, <3>1, <3>2
  <2> QED
    BY <1>2, <2>1, <2>2, HeardSame
<1>5. ASSUME u = v
      PROVE  Heard(u)'
  <2>1. channel'[u] = Tail(channel[u]) /\ o = Head(channel[u])
    BY <1>2, <1>5 DEF TypeOK, o
  <2>2. /\ LastIn(channel'[u], News(u)) \subseteq LastIn(channel[u], News(u))
        /\ Places(channel'[u], News(u)) = {} /\ o \in News(u) => LastIn(channel[u], News(u)) = {o}
        /\ o \notin News(u) /\ Places(channel'[u], News(u)) = {} => Places(channel[u], News(u)) = {}
    BY <1>1, <1>5, <2>1, TailLast
  <2>3. CASE ~RA(u)
    BY <2>3 DEF Heard
  <2>4. CASE RA(u) /\ o \notin News(u)
    <3>1. UNCHANGED inbox
      BY <1>1, <1>2, <1>5, <2>4 DEF Attribute, News, RA
    <3> QED
      BY <1>2, <2>2, <2>4, <3>1, HeardSame
  <2>5. CASE RA(u) /\ o \in News(u)
    <3>1. inbox' = Append(inbox, Reported(u, o))
      BY <1>2, <1>5, <2>5 DEF Attribute, News, RA
    <3>2. Places(inbox', Mine(u)) # {} /\ LastIn(inbox', Mine(u)) = {Reported(u, o)}
      BY <1>1, <1>3, <1>5, <3>1, AppendLast
    <3>3. \A e \in LastIn(inbox', Mine(u)) : e.prefix = o.prefix /\ e.gone = o.gone
      BY <1>3, <1>5, <3>2
    <3> QED
      BY <1>2, <2>2, <2>5, <3>2, <3>3 DEF Heard, Tells
  <2> QED
    BY <2>3, <2>4, <2>5
<1> QED
  BY <1>4, <1>5

\* A message of the last word is heeded.
LEMMA HeardReceive ==
  ASSUME TypeOK, Sourced, NEW u \in Uplink, Heard(u), Receive
  PROVE  Heard(u)'
<1> DEFINE e == Head(inbox)
<1>1. /\ inbox # <<>> /\ inbox' = Tail(inbox) /\ inbox \in Seq(Event)
      /\ UNCHANGED <<socket, channel, word>>
  BY DEF Receive, kernel, netlink, TypeOK
<1>2. \/ e.type = "lease" /\ HandleLeaseWire(e)
      \/ e.type = "resync" /\ UNCHANGED <<withdrawn, lease>>
  BY DEF Receive, beliefs
<1>3. /\ e \in Event
      /\ e.type = "lease" => /\ e.uplink \in Uplink /\ e.prefix \in Match[e.uplink]
                             /\ e.gone \in BOOLEAN
  BY <1>1, FirstMessage
<1>4. /\ LastIn(inbox', Mine(u)) \subseteq LastIn(inbox, Mine(u))
      /\ Places(inbox', Mine(u)) = {} /\ e \in Mine(u) => LastIn(inbox, Mine(u)) = {e}
      /\ e \notin Mine(u) /\ Places(inbox', Mine(u)) = {} => Places(inbox, Mine(u)) = {}
  BY <1>1, TailLast
<1>5. e.type = "lease" => /\ withdrawn' = [withdrawn EXCEPT ![e.uplink] = e.gone]
                          /\ lease' = [lease EXCEPT ![e.uplink] =
                                         RecordLease(lease[e.uplink], e.prefix, e.gone)]
  <2>1. "lease" # "resync"
    OBVIOUS
  <2> QED
    BY <1>2, <2>1, Zenon DEF HandleLeaseWire
<1> HIDE DEF e
<1>6. ASSUME e \notin Mine(u)
      PROVE  Heard(u)'
  <2>1. withdrawn'[u] = withdrawn[u] /\ lease'[u] = lease[u]
    BY <1>2, <1>3, <1>5, <1>6 DEF Mine, TypeOK
  <2> QED
    BY <1>1, <1>4, <1>6, <2>1, HeardSame
<1>7. ASSUME e \in Mine(u)
      PROVE  Heard(u)'
  <2>1. e.type = "lease" /\ e.uplink = u
    BY <1>7 DEF Mine
  <2>2. /\ withdrawn'[u] = e.gone
        /\ lease'[u] = RecordLease(lease[u], e.prefix, e.gone)
    BY <1>5, <2>1 DEF TypeOK
  <2>3. e.prefix # None
    BY <1>3, <2>1, LeasesAssumption
  <2>4. e.gone => lease'[u] # e.prefix
    BY <2>2, <2>3 DEF RecordLease
  <2> QED
    BY <1>1, <1>4, <1>7, <2>2, <2>4 DEF Heard, Tells
<1> QED
  BY <1>6, <1>7

\* A pass finds no lease for an uplink whose prefix was withdrawn.
LEMMA HeardPass ==
  ASSUME TypeOK, NEW u \in Uplink, Heard(u), Pass
  PROVE  Heard(u)'
<1>1. UNCHANGED <<socket, channel, word, inbox, withdrawn>>
  BY PassFacts
<1>2. RA(u) /\ withdrawn[u] => lease'[u] = None
  <2>1. PICK routes, addrs : lease'[u] \in Observed(u, routes, addrs)
    BY PassFacts
  <2> QED
    BY <2>1 DEF Observed, Seedable, RA
<1>3. word[u].kind = "gone" => word[u].prefix # None
  BY LeasesAssumption DEF TypeOK, Word
<1> QED
  BY <1>1, <1>2, <1>3 DEF Heard, Tells

\* Whatever happens after a settled pass, there is something to read again.
LEMMA StillReadNext ==
  ASSUME TypeOK, StillRead, [Next]_vars
  PROVE  StillRead'
<1>1. ASSUME settled' = FALSE
      PROVE  StillRead'
  BY <1>1 DEF StillRead
<1>2. CASE RouteChanges \/ AdvertisementChanges \/ OthersChange \/ \E u \in Uplink : Readvertises(u)
  BY <1>1, <1>2 DEF RouteChanges, AdvertisementChanges, OthersChange, Readvertises, Change
<1>3. CASE Overruns \/ Fanout \/ Recheck \/ Ticks \/ Receive \/ \E u \in Uplink : Reports(u)
  BY <1>1, <1>3 DEF Overruns, Fanout, Recheck, Ticks, Receive, Reports
<1>4. CASE Ignore \/ Nameless
  <2>1. socket # <<>> /\ settled' = settled
    BY <1>4 DEF Ignore, Nameless, Received
  <2> QED
    BY <1>1, <2>1 DEF StillRead
<1>5. ASSUME UNCHANGED <<withdrawn, discard, addr>>, NEW u \in Uplink
      PROVE  Observed(u, discard, addr)' = Observed(u, discard, addr)
  BY <1>5 DEF Observed, Candidates
<1>6. CASE Pass
  <2>1. /\ inbox' = <<>>
        /\ UNCHANGED <<discard, addr, socket, channel, withdrawn>>
        /\ settled' => /\ socket = <<>> /\ \A u \in Uplink : channel[u] = <<>>
                       /\ \A u \in Uplink : lease'[u] \in Observed(u, discard, addr)
    BY <1>6, PassFacts
  <2> QED
    BY <1>5, <2>1 DEF StillRead
<1>7. CASE UNCHANGED vars
  <2>1. UNCHANGED <<discard, addr, socket, channel, inbox, lease, withdrawn, settled>>
    BY <1>7 DEF vars, kernel, netlink, beliefs
  <2> QED
    BY <1>5, <2>1 DEF StillRead
<1> QED
  BY <1>2, <1>3, <1>4, <1>6, <1>7 DEF Next

LEMMA LeaseInit ==
  Init => LeaseInv
<1> SUFFICES ASSUME Init PROVE LeaseInv
  OBVIOUS
<1>1. TypeOK /\ Sourced /\ StillRead
  BY TypeInit, SourcedInit DEF Init, StillRead
<1>2. ASSUME NEW u \in Uplink
      PROVE  Heard(u)
  <2>1. \A T : Places(<<>>, T) = {} /\ LastIn(<<>>, T) = {}
    BY DEF Places, LastIn, Highest
  <2>2. socket = <<>> /\ channel[u] = <<>>
    BY DEF Init
  <2>3. Places(inbox, Mine(u)) = {} /\ LastIn(inbox, Mine(u)) = {}
    <3>1. Resync \notin Mine(u)
      BY NewsKinds
    <3>2. inbox = <<Resync>> /\ \A i \in DOMAIN inbox : inbox[i] = Resync
      BY DEF Init
    <3> QED
      BY <3>1, <3>2 DEF Places, LastIn, Highest
  <2>4. withdrawn[u] = FALSE /\ (word[u].kind = "gone") = FALSE
    BY DEF Init
  <2>5. LastIn(socket, News(u)) = {} /\ LastIn(channel[u], News(u)) = {}
    BY <2>1, <2>2, Zenon
  <2> QED
    BY <2>3, <2>4, <2>5, Zenon DEF Heard
<1> QED
  BY <1>1, <1>2 DEF LeaseInv

LEMMA LeaseNext ==
  LeaseInv /\ [Next]_vars => LeaseInv'
<1> SUFFICES ASSUME LeaseInv, [Next]_vars PROVE LeaseInv'
  OBVIOUS
<1>1. TypeOK' /\ Sourced'
  BY TypedNext DEF LeaseInv
<1>2. StillRead'
  BY StillReadNext DEF LeaseInv
<1>3. ASSUME NEW u \in Uplink
      PROVE  Heard(u)'
  <2>1. TypeOK /\ Sourced /\ Heard(u)
    BY DEF LeaseInv
  <2>2. CASE UNCHANGED vars
    BY <2>1, <2>2, HeardSame DEF vars, kernel, netlink, beliefs
  <2> QED
    BY <2>1, <2>2, HeardSurroundings, HeardWatcher, HeardReports, HeardReceive, HeardPass DEF Next
<1> QED
  BY <1>1, <1>2, <1>3 DEF LeaseInv

LEMMA LeaseAlways ==
  Spec => []LeaseInv
  BY LeaseInit, LeaseNext, PTL DEF Spec

\* For any uplinks, prefixes and depths: what a router withdrew is not held again while
\* it has not advertised anew, however its word overtook reads on the way and whatever
\* address still shows the prefix.
THEOREM NothingComesBack ==
  Spec => []NoResurrection
<1>1. LeaseInv => NoResurrection
  <2> SUFFICES ASSUME LeaseInv, NEW u \in Uplink,
                      Arrived(u), word[u].kind = "gone", ~word[u].lost
               PROVE  lease[u] # word[u].prefix
    BY DEF NoResurrection
  <2>1. \A T : Places(<<>>, T) = {} /\ LastIn(<<>>, T) = {}
    BY DEF Places, LastIn, Highest
  <2>2. socket = <<>> /\ channel[u] = <<>> /\ Places(inbox, Mine(u)) = {}
    BY NewsKinds DEF Arrived, Places
  <2>3. RA(u)
    BY DEF LeaseInv, Sourced
  <2> QED
    BY <2>1, <2>2, <2>3 DEF LeaseInv, Heard
<1> QED
  BY <1>1, LeaseAlways, PTL

\* For any uplinks, prefixes and depths: once a pass has read everything and nothing is
\* under way, what is held is what the kernel shows, and an uplink that could hold
\* something and does not has had its prefix withdrawn or lost its router's last word.
THEOREM LeasesFollowTheKernel ==
  Spec => []FollowsTheKernel
<1>1. LeaseInv => FollowsTheKernel
  <2> SUFFICES ASSUME LeaseInv, settled, NEW u \in Uplink
               PROVE  /\ lease[u] \in Candidates(u, discard, addr) \cup {None}
                      /\ lease[u] = None => \/ Candidates(u, discard, addr) = {}
                                            \/ RA(u) /\ (word[u].kind = "gone" \/ word[u].lost)
    BY Zenon DEF FollowsTheKernel
  <2> DEFINE evidence == Candidates(u, discard, addr)
  <2>1. /\ socket = <<>> /\ inbox = <<>> /\ channel[u] = <<>>
        /\ lease[u] \in Observed(u, discard, addr)
    BY DEF LeaseInv, StillRead
  <2>2. evidence \subseteq Match[u] /\ None \notin evidence
    BY LeasesAssumption DEF Candidates
  <2>3. \/ lease[u] \in evidence
        \/ lease[u] = None /\ (evidence = {} \/ (SourceOf[u] # "route" /\ withdrawn[u]))
    BY <2>1 DEF Observed, Seedable
  <2>4. withdrawn[u] => SourceOf[u] # "static"
    BY DEF LeaseInv, Sourced
  <2>5. \A T : Places(<<>>, T) = {} /\ LastIn(<<>>, T) = {}
    BY DEF Places, LastIn, Highest
  <2>6. RA(u) /\ ~word[u].lost /\ withdrawn[u] => word[u].kind = "gone"
    BY <2>1, <2>5 DEF LeaseInv, Heard
  <2>7. SourceOf[u] \in {"route", "ra", "static"}
    BY LeasesAssumption
  <2> HIDE DEF evidence
  <2>8. /\ lease[u] \in evidence \cup {None}
        /\ lease[u] = None => \/ evidence = {}
                              \/ RA(u) /\ (word[u].kind = "gone" \/ word[u].lost)
    BY <2>2, <2>3, <2>4, <2>6, <2>7 DEF RA
  <2> QED
    BY <2>8 DEF evidence
<1> QED
  BY <1>1, LeaseAlways, PTL
=============================================================================
