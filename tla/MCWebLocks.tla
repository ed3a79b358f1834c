----------------------------- MODULE MCWebLocks -----------------------------
\* Four calls in two pages: three want one key (two of them in one page), one
\* wants another key.
EXTENDS WebLocks, TLC

CONSTANTS c1, c2, c3, c4, t1, t2, k1, k2

MCKeyOf == c1 :> k1 @@ c2 :> k1 @@ c3 :> k1 @@ c4 :> k2
MCTabOf == c1 :> t1 @@ c2 :> t1 @@ c3 :> t2 @@ c4 :> t2
=============================================================================
