------------------------------- MODULE Leases -------------------------------
(***************************************************************************)
(* How the reconciler comes to know the external prefix of each NPTv6      *)
(* uplink.                                                                 *)
(*                                                                         *)
(* Source: internal/prefix, internal/netlink (ipv6.go, socket.go),         *)
(* internal/reconcile (prefixwatch.go, absorb.go).                         *)
(*                                                                         *)
(* A prefix is heard of in two ways.  On the wire: the kernel's            *)
(* notifications go through a netlink socket that overruns, a watcher that *)
(* decodes them, one channel per source and the goroutine of the source,   *)
(* into the mailbox of the reconciler.  And by a read: every pass asks the *)
(* kernel for its discard routes and for the addresses of the uplinks, and *)
(* holds just the leases that are evidenced.  A notice of an address, and  *)
(* of an overrun, asks for a pass; it goes from the watcher straight to    *)
(* the mailbox, past what waits in the channels.                           *)
(*                                                                         *)
(* A prefix is a number.  What match_prefix and 2000::/3 let an uplink     *)
(* take for its own is Match; lifetimes are the order of addr[u], the      *)
(* freshest first.  A lease's length and source are left out.              *)
(***************************************************************************)
EXTENDS Naturals, Sequences, FiniteSets

CONSTANTS
  Uplink,        \* the uplinks nptv6 translates for
  Prefix,        \* prefixes an ISP may delegate or advertise
  SourceOf,      \* SourceOf[u]: "route", "ra" or "static"
  Match,         \* Match[u]: the prefixes that may be u's; of a static uplink, its own
  KernelRA,      \* the uplinks whose Router Advertisements the kernel handles
  SocketDepth,   \* bound: notifications the netlink socket holds
  ChannelDepth,  \* bound: observations a source's channel holds
  InboxDepth,    \* bound: messages the reconciler's mailbox holds
  MaxChanges,    \* bound: changes of the surroundings
  MaxFaults      \* bound: reads that fail and interfaces that go before a decode

None == 0

ASSUME LeasesAssumption ==
  /\ IsFiniteSet(Uplink) /\ None \notin Uplink
  /\ Prefix \subseteq Nat \ {None}
  /\ SourceOf \in [Uplink -> {"route", "ra", "static"}]
  /\ Match \in [Uplink -> SUBSET Prefix]
  /\ \A u \in Uplink : SourceOf[u] = "static" => \E p \in Prefix : Match[u] = {p}
  /\ KernelRA \subseteq Uplink
  /\ {SocketDepth, ChannelDepth, InboxDepth} \subseteq Nat \ {0}
  /\ MaxChanges \in Nat /\ MaxFaults \in Nat

VARIABLES
  discard,    \* kernel: the reject routes of the main table
  addr,       \* kernel: addr[u], prefixes of u's preferred addresses, freshest first
  socket,     \* the netlink socket: notifications not yet received
  congested,  \* kernel: the socket overran and has not been drained since
  overrun,    \* kernel: the overrun has not been told yet
  channel,    \* channel[u]: observations for the source of u
  inbox,      \* the reconciler's mailbox
  lease,      \* State.Prefixes.Leases[u], or None
  withdrawn,  \* State.Prefixes.Withdrawn[u]
  folding,    \* the reconciler has taken a message, and no pass has followed yet
  word,       \* history: the last Router Advertisement on a prefix u may take, and whether it was lost
  settled,    \* history: a pass just ended with every read answered and nothing under way
  changes,    \* changes of the surroundings so far
  faults      \* faults so far

kernel  == <<discard, addr, word>>
netlink == <<socket, congested, overrun>>
beliefs == <<lease, withdrawn>>
counts  == <<changes, faults>>
vars    == <<kernel, netlink, channel, inbox, beliefs, folding, settled, counts>>

Observation == [kind : {"route", "ra"}, prefix : Prefix, iface : Uplink \cup {None}, gone : BOOLEAN]
Notice      == [kind : {"addr", "other"}]
Event       == [type : {"lease"}, uplink : Uplink, prefix : Prefix, gone : BOOLEAN]
                 \cup [type : {"resync"}]
Word        == [kind : {"none"}, prefix : {None}, lost : BOOLEAN]
                 \cup [kind : {"live", "gone"}, prefix : Prefix, lost : BOOLEAN]

Resync == [type |-> "resync"]
RA(u)  == SourceOf[u] = "ra"

\* Nothing is known, and the first pass has been asked for.
Init ==
  /\ discard = {} /\ addr = [u \in Uplink |-> <<>>]
  /\ word = [u \in Uplink |-> [kind |-> "none", prefix |-> None, lost |-> FALSE]]
  /\ socket = <<>> /\ congested = FALSE /\ overrun = FALSE
  /\ channel = [u \in Uplink |-> <<>>]
  /\ inbox = <<Resync>>
  /\ lease = [u \in Uplink |-> None]
  /\ withdrawn = [u \in Uplink |-> FALSE]
  /\ folding = FALSE /\ settled = FALSE
  /\ changes = 0 /\ faults = 0

-----------------------------------------------------------------------------
(***************************************************************************)
(* The surroundings.                                                       *)
(***************************************************************************)

\* The socket takes the notifications there is room for.  The first it has no
\* room for marks it overrun; from then on it takes nothing until it is drained.
Taken(notices) == IF congested THEN 0
                  ELSE IF Len(socket) + Len(notices) <= SocketDepth THEN Len(notices)
                  ELSE SocketDepth - Len(socket)
Lost(notices)  == Taken(notices) < Len(notices)
Notify(notices) ==
  /\ socket' = socket \o SubSeq(notices, 1, Taken(notices))
  /\ congested' = (congested \/ Lost(notices))
  /\ overrun' = (overrun \/ (Lost(notices) /\ ~congested))

Change(notices) ==
  /\ changes < MaxChanges
  /\ changes' = changes + 1
  /\ settled' = FALSE
  /\ Notify(notices)
  /\ UNCHANGED <<faults, channel, inbox, beliefs, folding>>

\* A DHCPv6 client parks a delegation behind a reject route, or takes it away.
RouteChanges ==
  \E p \in Prefix :
    /\ Change(<<[kind |-> "route", prefix |-> p, iface |-> None, gone |-> p \in discard]>>)
    /\ discard' = IF p \in discard THEN discard \ {p} ELSE discard \cup {p}
    /\ UNCHANGED <<addr, word>>

\* The addresses of an uplink without the one of p, which is there once at most.
Without(s, p) ==
  LET at == {i \in DOMAIN s : s[i] = p} IN
  IF at = {} THEN s
  ELSE LET i == CHOOSE i \in at : TRUE IN SubSeq(s, 1, i - 1) \o SubSeq(s, i + 1, Len(s))

RANotice(u, p, gone) == [kind |-> "ra", prefix |-> p, iface |-> u, gone |-> gone]
Says(u, p, k, lost)  ==
  IF p \notin Match[u] THEN word
  ELSE [word EXCEPT ![u] = [kind |-> k, prefix |-> p, lost |-> lost]]

\* A Router Advertisement offers p.  Its address is, or becomes, the freshest.
\* A kernel that handles it says so; one that does not only tells of the address.
Advertises(u, p) ==
  LET ra == <<RANotice(u, p, FALSE)>>
      address == IF \E i \in DOMAIN addr[u] : addr[u][i] = p THEN <<>> ELSE <<[kind |-> "addr"]>>
      told == IF u \in KernelRA THEN ra \o address ELSE address
  IN /\ addr' = [addr EXCEPT ![u] = <<p>> \o Without(addr[u], p)]
     /\ word' = IF u \in KernelRA THEN Says(u, p, "live", Taken(told) = 0) ELSE word
     /\ Notify(told)

\* A Router Advertisement ends the lifetime of p.  Its address is deprecated, unless
\* another one, DHCPv6's for instance, keeps the prefix in view.
Withdraws(u, p, lingers) ==
  LET told == <<RANotice(u, p, TRUE)>>
  IN /\ addr' = IF lingers THEN addr
                ELSE [addr EXCEPT ![u] = Without(addr[u], p)]
     /\ word' = Says(u, p, "gone", Lost(told))
     /\ Notify(told)

\* The lifetime of p runs out with nobody saying so: its address is removed.
Expires(u, p) ==
  /\ addr' = [addr EXCEPT ![u] = Without(addr[u], p)]
  /\ addr' # addr
  /\ Notify(<<[kind |-> "addr"]>>)
  /\ UNCHANGED word

AdvertisementChanges ==
  \E u \in Uplink, p \in Prefix :
    /\ RA(u)
    /\ changes < MaxChanges
    /\ changes' = changes + 1
    /\ \/ Advertises(u, p)
       \/ \E lingers \in BOOLEAN : u \in KernelRA /\ Withdraws(u, p, lingers)
       \/ Expires(u, p)
    /\ settled' = FALSE
    /\ UNCHANGED <<discard, faults, channel, inbox, beliefs, folding>>

\* Notifications of routes, prefixes and addresses that are none of the watcher's.
OthersChange ==
  /\ Change(<<[kind |-> "other"]>>)
  /\ UNCHANGED kernel

\* Nothing that was heard of u is still on its way to the reconciler.
Arrived(u) == socket = <<>> /\ channel[u] = <<>> /\ \A i \in DOMAIN inbox : inbox[i] = Resync

\* Routers repeat what they offer, minutes apart.
Readvertises(u) ==
  /\ u \in KernelRA /\ RA(u) /\ addr[u] # <<>> /\ Head(addr[u]) \in Match[u] /\ Arrived(u)
  /\ word[u].kind = "gone" => word[u].prefix # Head(addr[u])
  /\ ~(word[u].kind = "live" /\ ~word[u].lost /\ word[u].prefix = Head(addr[u]))
  /\ Advertises(u, Head(addr[u]))
  /\ settled' = FALSE
  /\ UNCHANGED <<discard, counts, channel, inbox, beliefs, folding>>

-----------------------------------------------------------------------------
(***************************************************************************)
(* The watcher and the sources.                                            *)
(***************************************************************************)

HasRoom == Len(inbox) < InboxDepth

\* An overrun asks for a pass: what was lost will be read.
Overruns ==
  /\ overrun /\ HasRoom
  /\ overrun' = FALSE
  /\ inbox' = Append(inbox, Resync)
  /\ settled' = FALSE
  /\ UNCHANGED <<kernel, socket, congested, channel, beliefs, folding, counts>>

\* Recvfrom reports an overrun before it returns anything.
Received ==
  /\ ~overrun /\ socket # <<>>
  /\ socket' = Tail(socket)
  /\ congested' = (congested /\ socket' # <<>>)
  /\ UNCHANGED overrun

\* A reject route or an advertised prefix goes to every source.
Fanout ==
  /\ Received
  /\ Head(socket).kind \in {"route", "ra"}
  /\ \A u \in Uplink : Len(channel[u]) < ChannelDepth
  /\ channel' = [u \in Uplink |-> Append(channel[u], Head(socket))]
  /\ settled' = FALSE
  /\ UNCHANGED <<kernel, inbox, beliefs, folding, counts>>

\* An address only asks for a pass.
Recheck ==
  /\ Received
  /\ Head(socket).kind = "addr" /\ HasRoom
  /\ inbox' = Append(inbox, Resync)
  /\ settled' = FALSE
  /\ UNCHANGED <<kernel, channel, beliefs, folding, counts>>

Ignore ==
  /\ Received
  /\ Head(socket).kind = "other"
  /\ UNCHANGED <<kernel, channel, inbox, beliefs, folding, settled, counts>>

\* The interface of an advertised prefix is gone before its name is looked up.
Nameless ==
  /\ faults < MaxFaults /\ faults' = faults + 1
  /\ Received
  /\ Head(socket).kind = "ra"
  /\ LET u == Head(socket).iface
         On(s) == {i \in DOMAIN s : s[i].kind = "ra" /\ s[i].iface = u /\ s[i].prefix \in Match[u]}
     IN word' = [word EXCEPT ![u].lost = @ \/ (On(socket) # {} /\ On(socket') = {})]
  /\ UNCHANGED <<discard, addr, channel, inbox, beliefs, folding, settled, changes>>

\* A bug: any prefix of the interface will do.
AttributeAny(u, o) == o.kind = SourceOf[u] /\ (RA(u) => o.iface = u)

\* What a source takes for news of its own uplink.
Attribute(u, o) ==
  /\ o.kind = SourceOf[u]
  /\ RA(u) => o.iface = u
  /\ o.prefix \in Match[u]

Reported(u, o) == [type |-> "lease", uplink |-> u, prefix |-> o.prefix, gone |-> o.gone]

\* The source's goroutine takes an observation and, if it is its own, posts it.
Reports(u) ==
  /\ channel[u] # <<>>
  /\ LET o == Head(channel[u]) IN
       \/ Attribute(u, o) /\ HasRoom /\ inbox' = Append(inbox, Reported(u, o))
       \/ ~Attribute(u, o) /\ inbox' = inbox
  /\ channel' = [channel EXCEPT ![u] = Tail(@)]
  /\ settled' = FALSE
  /\ UNCHANGED <<kernel, netlink, beliefs, folding, counts>>

\* The timer asks for a pass, and is dropped when the mailbox is full.  It is slower
\* than the loop: a tick finds no turn under way and no other request waiting.
Ticks ==
  /\ ~folding /\ HasRoom /\ \A i \in DOMAIN inbox : inbox[i] # Resync
  /\ inbox' = Append(inbox, Resync)
  /\ settled' = FALSE
  /\ UNCHANGED <<kernel, netlink, channel, beliefs, folding, counts>>

-----------------------------------------------------------------------------
(***************************************************************************)
(* The reconciler.                                                         *)
(***************************************************************************)

\* What is held of an uplink after it was told of a prefix, or that it is gone.
RecordLease(held, p, gone) ==
  IF ~gone THEN p ELSE IF held = p THEN None ELSE held

\* A bug: one withdrawal is remembered for good.
Latched(e) ==
  /\ withdrawn' = [withdrawn EXCEPT ![e.uplink] = @ \/ e.gone]
  /\ lease' = [lease EXCEPT ![e.uplink] = RecordLease(@, e.prefix, e.gone)]

\* A change off the wire also says whether the uplink's prefix was withdrawn.
HandleLeaseWire(e) ==
  /\ withdrawn' = [withdrawn EXCEPT ![e.uplink] = e.gone]
  /\ lease' = [lease EXCEPT ![e.uplink] = RecordLease(@, e.prefix, e.gone)]

Receive ==
  /\ inbox # <<>>
  /\ LET e == Head(inbox) IN
       \/ e.type = "lease" /\ HandleLeaseWire(e)
       \/ e.type = "resync" /\ UNCHANGED beliefs
  /\ inbox' = Tail(inbox)
  /\ folding' = TRUE
  /\ settled' = FALSE
  /\ UNCHANGED <<kernel, netlink, channel, counts>>

\* A bug: a withdrawal does not keep a read from finding the address.
SeedableAlways(u, gone) == TRUE

\* Whether a read may give the uplink a lease.
Seedable(u, gone) == SourceOf[u] = "route" \/ ~gone

\* The prefixes a read shows for u: the reject routes of the types that could be
\* listed, and of an uplink's addresses the freshest.
Candidates(u, routes, addrs) ==
  CASE SourceOf[u] = "static" -> Match[u]
    [] SourceOf[u] = "route"  -> routes \cap Match[u]
    [] SourceOf[u] = "ra"     -> IF addrs[u] = <<>> THEN {} ELSE {Head(addrs[u])} \cap Match[u]

\* A bug: a lease that is not seen is kept.
ObservedOrHeld(u, routes, addrs) ==
  IF Candidates(u, routes, addrs) = {} THEN {lease[u]} ELSE Candidates(u, routes, addrs)

\* What a read finds evidence for; of several candidates, the last one listed.
Observed(u, routes, addrs) ==
  IF ~Seedable(u, withdrawn[u]) \/ Candidates(u, routes, addrs) = {} THEN {None}
  ELSE Candidates(u, routes, addrs)

\* Every source's lease is what the read finds: what it no longer finds is gone.
AbsorbLeases(routes, addrs) ==
  /\ lease' \in [Uplink -> Prefix \cup {None}]
  /\ \A u \in Uplink : lease'[u] \in Observed(u, routes, addrs)

\* A pass, when the mailbox is empty.  A list that cannot be read counts as empty.
Pass ==
  /\ folding /\ inbox = <<>>
  /\ \E hidden \in SUBSET discard, unread \in SUBSET {u \in Uplink : RA(u) /\ addr[u] # <<>>} :
       LET failed == hidden # {} \/ unread # {} IN
       /\ failed => faults < MaxFaults
       /\ faults' = IF failed THEN faults + 1 ELSE faults
       /\ AbsorbLeases(discard \ hidden, [u \in Uplink |-> IF u \in unread THEN <<>> ELSE addr[u]])
       /\ settled' = (~failed /\ socket = <<>> /\ ~overrun /\ \A u \in Uplink : channel[u] = <<>>)
  /\ folding' = FALSE
  /\ UNCHANGED <<kernel, netlink, channel, inbox, withdrawn, changes>>

Next ==
  \/ RouteChanges \/ AdvertisementChanges \/ OthersChange
  \/ Overruns \/ Fanout \/ Recheck \/ Ignore \/ Nameless
  \/ \E u \in Uplink : Readvertises(u) \/ Reports(u)
  \/ Ticks \/ Receive \/ Pass

Spec == Init /\ [][Next]_vars

\* Goroutines that can run do run, the timer fires again and again, and routers
\* repeat themselves.  Nothing is assumed of changes and faults.
Fairness ==
  /\ WF_vars(Overruns \/ Fanout \/ Recheck \/ Ignore)
  /\ \A u \in Uplink : WF_vars(Reports(u)) /\ WF_vars(Readvertises(u))
  /\ WF_vars(Ticks) /\ WF_vars(Receive \/ Pass)

FairSpec == Spec /\ Fairness

-----------------------------------------------------------------------------
(***************************************************************************)
(* Properties.                                                             *)
(***************************************************************************)

TypeOK ==
  /\ discard \subseteq Prefix
  /\ addr \in [Uplink -> Seq(Prefix)]
  /\ word \in [Uplink -> Word]
  /\ socket \in Seq(Observation \cup Notice) /\ Len(socket) <= SocketDepth
  /\ congested \in BOOLEAN /\ overrun \in BOOLEAN
  /\ channel \in [Uplink -> Seq(Observation)]
  /\ \A u \in Uplink : Len(channel[u]) <= ChannelDepth
  /\ inbox \in Seq(Event) /\ Len(inbox) <= InboxDepth
  /\ lease \in [Uplink -> Prefix \cup {None}]
  /\ \A u \in Uplink : lease[u] \in Match[u] \cup {None}
  /\ withdrawn \in [Uplink -> BOOLEAN]
  /\ folding \in BOOLEAN /\ settled \in BOOLEAN
  /\ changes \in 0..MaxChanges /\ faults \in 0..MaxFaults

\* Once everything has arrived and a pass has read everything, an uplink's lease is
\* one that the kernel evidences, and it holds none only if there is none to hold or
\* its router has withdrawn one (prefix/source.go:124-157, absorb.go:112-134).
FollowsTheKernel ==
  settled => \A u \in Uplink :
    LET evidence == Candidates(u, discard, addr) IN
    /\ lease[u] \in evidence \cup {None}
    /\ lease[u] = None => \/ evidence = {}
                          \/ RA(u) /\ (word[u].kind = "gone" \/ word[u].lost)

\* From the moment a router's withdrawal has arrived until the next advertisement,
\* no read brings the prefix back, whatever address still shows it
\* (prefixwatch.go:33-36, source.go:75-77).
NoResurrection ==
  \A u \in Uplink :
    Arrived(u) /\ word[u].kind = "gone" /\ ~word[u].lost => lease[u] # word[u].prefix

\* A withdrawal of another prefix than the one that is held does not cost an uplink
\* its lease (prefixwatch_test.go:98-113, README.md:512-520).
HeldThroughRenumber ==
  settled => \A u \in Uplink :
    /\ RA(u) /\ addr[u] # <<>> /\ ~word[u].lost
    /\ ~(word[u].kind = "gone" /\ word[u].prefix = Head(addr[u]))
    => lease[u] = Head(addr[u])

\* Whatever was lost or failed, an uplink comes to hold what the kernel evidences,
\* or nothing if that is what was withdrawn, and keeps it.
Agreed(u) ==
  LET evidence == Candidates(u, discard, addr)
      revoked  == RA(u) /\ word[u].kind = "gone" /\ word[u].prefix \in evidence
  IN \/ lease[u] \in evidence /\ (revoked => word[u].lost)
     \/ lease[u] = None /\ (evidence = {} \/ revoked)

Converges == \A u \in Uplink : <>[]Agreed(u)
=============================================================================
