----------------------------- MODULE MCRouting -----------------------------
EXTENDS Routing
\* The first uplink's address may be replaced; the second's link has no next hop.
Pools   == [u \in Uplink |-> IF u = 1 THEN {1, 3} ELSE {u}]
Hops    == [u \in Uplink |-> IF u = 1 THEN {1} ELSE {Direct}]
\* The interfaces appeared in the order of the configuration.
InOrder == {[u \in Uplink |-> u]}

\* What the theorem about settling passes asks of the constants.
ASSUME Apart == TextsApart
=============================================================================
