------------------------------ MODULE MCClaims ------------------------------
EXTENDS Claims
SameIdent == [e \in Entry |-> 0]
=============================================================================
