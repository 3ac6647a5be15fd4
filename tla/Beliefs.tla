------------------------------- MODULE Beliefs -------------------------------
(***************************************************************************)
(* What health monitoring promises, with no mailbox, loop, probe or kernel *)
(* in sight: the abstract specification that Health implements.            *)
(*                                                                         *)
(* Of every uplink that is watched there is a verdict that its watch has   *)
(* given, and one that is believed.  Both begin as healthy.  A verdict is  *)
(* only given to turn the one before, and each one that is given is        *)
(* believed once and in its turn, unless the watch ends: then what it said *)
(* is forgotten, and what it still had to say is never heard.              *)
(***************************************************************************)
EXTENDS Naturals

CONSTANTS
  Key,   \* the uplinks that are probed
  Depth  \* how many verdicts can be on their way

VARIABLES
  watched,  \* the uplinks that are watched
  said,     \* those of them that their watch has declared failed
  held,     \* those of them that are believed to have failed
  owed      \* owed[k]: how many verdicts on k are given and not yet believed

vars == <<watched, said, held, owed>>

Turned(S, k) == IF k \in S THEN S \ {k} ELSE S \cup {k}

Init ==
  /\ watched = {} /\ said = {} /\ held = {}
  /\ owed = [k \in Key |-> 0]

\* The watch of k turns its verdict.
Give(k) ==
  /\ k \in watched
  /\ owed[k] < Depth
  /\ said' = Turned(said, k)
  /\ owed' = [owed EXCEPT ![k] = @ + 1]
  /\ UNCHANGED <<watched, held>>

\* The next verdict on k is believed.
Believe(k) ==
  /\ owed[k] > 0
  /\ held' = Turned(held, k)
  /\ owed' = [owed EXCEPT ![k] = @ - 1]
  /\ UNCHANGED <<watched, said>>

\* The watches of ended end, and then those of begun begin.
Rewatch(ended, begun) ==
  /\ ended \subseteq watched
  /\ begun \cap (watched \ ended) = {}
  /\ watched' = (watched \ ended) \cup begun
  /\ said' = said \ ended
  /\ held' = held \ ended
  /\ owed' = [k \in Key |-> IF k \in ended THEN 0 ELSE owed[k]]

Next ==
  \/ \E k \in Key : Give(k) \/ Believe(k)
  \/ \E ended, begun \in SUBSET Key : Rewatch(ended, begun)

Spec == Init /\ [][Next]_vars
=============================================================================
