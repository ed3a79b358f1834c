---------------------------- MODULE MCAnonymous ----------------------------
EXTENDS Anonymous, TLC

Symmetric == Permutations(Calls)
=============================================================================
