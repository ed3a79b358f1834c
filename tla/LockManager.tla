---------------------------- MODULE LockManager ----------------------------
(***************************************************************************)
(* What ILockManager.runWithLock (lock.ts) promises its callers, whichever *)
(* implementation getLockManager() picks: the callback runs while no other *)
(* callback of the same key runs, in any tab of the origin, and a caller   *)
(* that is turned away by the timeout never ran its callback.              *)
(* WebLocks and LegacyLock are shown to implement this specification.      *)
(***************************************************************************)
CONSTANTS
  Calls,      \* invocations of runWithLock, in all tabs
  KeyOf       \* the lock key each invocation asks for

VARIABLE
  phase       \* where each invocation is, as its caller could observe it

Settled == {"resolved", "rejected", "timedout"}

Init == phase = [c \in Calls |-> "idle"]

Request(c) ==
  /\ phase[c] = "idle"
  /\ phase' = [phase EXCEPT ![c] = "waiting"]

\* The callback starts: nobody else is inside a callback of that key.
Enter(c) ==
  /\ phase[c] = "waiting"
  /\ \A d \in Calls : phase[d] = "running" => KeyOf[d] # KeyOf[c]
  /\ phase' = [phase EXCEPT ![c] = "running"]

\* "Lock is automatically released when callback completes or throws": the
\* promise settles at once, or a little after the key is free ("released").
Exit(c, outcome) ==
  /\ phase[c] = "running"
  /\ phase' = [phase EXCEPT ![c] = outcome]

Settle(c, outcome) ==
  /\ phase[c] = "released"
  /\ phase' = [phase EXCEPT ![c] = outcome]

\* "Error if lock cannot be acquired within timeout": only a waiting call.
TimeOut(c) ==
  /\ phase[c] = "waiting"
  /\ phase' = [phase EXCEPT ![c] = "timedout"]

\* The pages of the calls in S are unloaded: their promises never settle.
Leave(S) ==
  phase' = [c \in Calls |-> IF c \in S /\ phase[c] \notin Settled
                            THEN "gone" ELSE phase[c]]

Next ==
  \/ \E c \in Calls :
       \/ Request(c)
       \/ Enter(c)
       \/ \E outcome \in {"released", "resolved", "rejected"} : Exit(c, outcome)
       \/ \E outcome \in {"resolved", "rejected"} : Settle(c, outcome)
       \/ TimeOut(c)
  \/ \E S \in SUBSET Calls : Leave(S)

Spec == Init /\ [][Next]_phase

-----------------------------------------------------------------------------
\* No two callbacks of one key overlap.
MutualExclusion ==
  \A c, d \in Calls :
    phase[c] = "running" /\ phase[d] = "running" /\ KeyOf[c] = KeyOf[d] => c = d
=============================================================================
