--------------------------- MODULE MCSilentToken ---------------------------
\* Three cache keys: kA and kAB share an audience, and kAB has one scope more;
\* kC belongs to another audience.
EXTENDS SilentToken, TLC

CONSTANTS kA, kAB, kC, a1, a2, s1, s2

MCAudOf == [k \in Keys |-> IF k = kC THEN a2 ELSE a1]
MCScopeOf == [k \in Keys |-> IF k = kAB THEN {s1, s2} ELSE {s1}]

\* One login for kAB; the other keys have to be derived from it.
OneLogin == [k \in Keys |-> IF k = kAB THEN 1 ELSE 0]

\* With MRRT calls that multiply the interleavings are left out.
MCLoad ==
  [mrrt \in BOOLEAN |-> IF mrrt THEN [max |-> 3, requests |-> Keys \X {"on"}]
                        ELSE [max |-> 4, requests |-> (Keys \ {kC}) \X Modes]]

Symmetric == Permutations(Calls)
=============================================================================
