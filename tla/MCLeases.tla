------------------------------ MODULE MCLeases ------------------------------
EXTENDS Leases
CONSTANTS r, a, s
Sources == [u \in Uplink |-> CASE u = r -> "route" [] u = a -> "ra" [] u = s -> "static"]
Matches == [u \in Uplink |-> CASE u = r -> {2} [] u = a -> {1, 2} [] u = s -> {2}]
=============================================================================
