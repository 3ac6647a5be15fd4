----------------------------- MODULE MCSteering -----------------------------
EXTENDS Steering
L(p, n)    == [prefix |-> p, size |-> n]
Priorities == [u \in Uplink |-> IF u = 1 THEN <<"main", "guest">> ELSE <<"main">>]
Leases     == [u \in Uplink |-> IF u = 1 THEN {Unheld, L(5, 1), L(11, 4)} ELSE {Unheld, L(21, 0), L(30, 1)}]
C(s, n, i, k) == [steers |-> s, learns |-> n, inbound |-> i, leak |-> k]
Hops       == {<<h, h>> : h \in Hop}
ASSUME Apart == TextsApart
Mixed      == {C({1}, {2}, {1}, TRUE), C({}, {}, {2}, FALSE)}
=============================================================================
