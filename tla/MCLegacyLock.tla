---------------------------- MODULE MCLegacyLock ----------------------------
(* Page t1 takes two keys, one of them in two calls; page t2 competes for    *)
(* that key.                                                                *)
EXTENDS LegacyLock, TLC

CONSTANTS c1, c2, c3, c4, t1, t2, k1, k2

MCKeyOf == c1 :> k1 @@ c2 :> k1 @@ c3 :> k2 @@ c4 :> k1
MCTabOf == c1 :> t1 @@ c2 :> t1 @@ c3 :> t1 @@ c4 :> t2
=============================================================================
