----------------------------- MODULE MCFactors -----------------------------
EXTENDS Factors, TLC

\* An entry with the scopes of kAB serves a request for those of kA.
CoversScopes(j, k) == j = k \/ (j = "kAB" /\ k = "kA")

Symmetric == Permutations(Calls) \cup Permutations(Users)
=============================================================================
