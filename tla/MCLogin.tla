------------------------------ MODULE MCLogin ------------------------------
EXTENDS Login, TLC

Symmetric == Permutations(Auds) \cup Permutations(Users) \cup Permutations(Calls)
=============================================================================
