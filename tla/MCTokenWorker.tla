--------------------------- MODULE MCTokenWorker ---------------------------
\* Keys kA and kAB share an audience, kAB with one scope more; kC has its own.
EXTENDS TokenWorker, TLC

CONSTANTS kA, kAB, kC, a1, a2, s1, s2

MCAudOf == [k \in Keys |-> IF k = kC THEN a2 ELSE a1]
MCScopeOf == [k \in Keys |-> IF k = kAB THEN {s1, s2} ELSE {s1}]

Rotating == [useMrrt |-> FALSE, onlineAccess |-> FALSE, dpop |-> FALSE,
             leeway |-> FALSE, lossy |-> FALSE,
             kinds |-> TokenKinds \cup {"revoke", "clear"}, calls |-> 3]

\* Offline tokens without and with MRRT, and online tokens with DPoP over a
\* network that loses answers.
MCProfiles ==
  {Rotating,
   [Rotating EXCEPT !.useMrrt = TRUE, !.leeway = TRUE, !.kinds = @ \ {"custom"}],
   [Rotating EXCEPT !.onlineAccess = TRUE, !.dpop = TRUE, !.lossy = TRUE, !.calls = 2]}

\* One refresh with an offline token and DPoP.
NonceProfiles == {[Rotating EXCEPT !.dpop = TRUE, !.kinds = {"refresh"}, !.calls = 1]}

Symmetric == Permutations(Calls)
=============================================================================
