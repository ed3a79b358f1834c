------------------------------ MODULE WebLocks ------------------------------
(***************************************************************************)
(* WebLocksApiManager.runWithLock (lock.ts 29-56): a timer races the       *)
(* browser's grant, and the catch block decides between TimeoutError and   *)
(* the error of the callback by looking at the abort signal.               *)
(* navigator.locks is external: one holder per key in the whole origin, a  *)
(* request whose signal is aborted before its callback is invoked rejects  *)
(* with AbortError, a closed page gives its locks back.                    *)
(***************************************************************************)
EXTENDS Naturals

CONSTANTS
  Calls, Keys, Tabs,
  KeyOf,      \* lock key of each call
  TabOf,      \* the page that makes each call
  NoCall      \* a key nobody holds

ASSUME ConstantsAssumption ==
  /\ KeyOf \in [Calls -> Keys]
  /\ TabOf \in [Calls -> Tabs]
  /\ NoCall \notin Calls

VARIABLES
  pc,         \* control point of each call
  timer,      \* the setTimeout of each call; "fired" = signal aborted
  holder      \* browser: who holds each key

vars == <<pc, timer, holder>>

Settled == {"resolved", "rejected", "timedout"}

TypeOK ==
  /\ pc \in [Calls -> {"idle", "pending", "granted", "running", "gone"} \cup Settled]
  /\ timer \in [Calls -> {"none", "armed", "cleared", "fired"}]
  /\ holder \in [Keys -> Calls \cup {NoCall}]

Init ==
  /\ pc = [c \in Calls |-> "idle"]
  /\ timer = [c \in Calls |-> "none"]
  /\ holder = [k \in Keys |-> NoCall]

-----------------------------------------------------------------------------
\* A runWithLock that forgets to arm the timer.
RunWithLockNoTimer(c) ==
  /\ pc[c] = "idle"
  /\ pc' = [pc EXCEPT ![c] = "pending"]
  /\ UNCHANGED <<timer, holder>>

RunWithLock(c) ==
  /\ pc[c] = "idle"
  /\ pc' = [pc EXCEPT ![c] = "pending"]
  /\ timer' = [timer EXCEPT ![c] = "armed"]
  /\ UNCHANGED holder

\* The browser grants the key; the granted callback is queued, not yet run.
Grant(c) ==
  /\ pc[c] = "pending"
  /\ holder[KeyOf[c]] = NoCall
  /\ pc' = [pc EXCEPT ![c] = "granted"]
  /\ holder' = [holder EXCEPT ![KeyOf[c]] = c]
  /\ UNCHANGED timer

\* A late clearTimeout: the timer stays armed while the callback runs.
StartCallbackKeepsTimer(c) ==
  /\ pc[c] = "granted"
  /\ pc' = [pc EXCEPT ![c] = "running"]
  /\ UNCHANGED <<timer, holder>>

\* The granted callback: clearTimeout, then the caller's callback.
StartCallback(c) ==
  /\ pc[c] = "granted"
  /\ pc' = [pc EXCEPT ![c] = "running"]
  /\ timer' = [timer EXCEPT ![c] = "cleared"]
  /\ UNCHANGED holder

\* controller.abort(). Before the callback is invoked the request rejects
\* with AbortError, which the catch block turns into a TimeoutError.
TimerFires(c) ==
  /\ timer[c] = "armed"
  /\ timer' = [timer EXCEPT ![c] = "fired"]
  /\ IF pc[c] \in {"pending", "granted"}
     THEN /\ pc' = [pc EXCEPT ![c] = "timedout"]
          /\ holder' = [holder EXCEPT ![KeyOf[c]] =
                          IF holder[KeyOf[c]] = c THEN NoCall ELSE @]
     ELSE UNCHANGED <<pc, holder>>

CallbackReturns(c) ==
  /\ pc[c] = "running"
  /\ pc' = [pc EXCEPT ![c] = "resolved"]
  /\ holder' = [holder EXCEPT ![KeyOf[c]] = NoCall]
  /\ UNCHANGED timer

\* The browser releases the key and rethrows; the catch block clears the
\* timer and reports TimeoutError for an AbortError with an aborted signal.
\* The callback's own error may be an AbortError too (an aborted fetch).
CallbackThrows(c, name) ==
  /\ pc[c] = "running"
  /\ holder' = [holder EXCEPT ![KeyOf[c]] = NoCall]
  /\ timer' = [timer EXCEPT ![c] = IF @ = "armed" THEN "cleared" ELSE @]
  /\ pc' = [pc EXCEPT ![c] =
              IF timer[c] = "fired" /\ name = "AbortError"
              THEN "timedout" ELSE "rejected"]

\* The page is closed or crashes: its requests leave the browser's queue and
\* its locks are given back.
ClosePage(t) ==
  /\ \E c \in Calls : TabOf[c] = t /\ pc[c] \notin Settled \cup {"gone"}
  /\ pc' = [c \in Calls |-> IF TabOf[c] = t /\ pc[c] \notin Settled
                            THEN "gone" ELSE pc[c]]
  /\ timer' = [c \in Calls |-> IF TabOf[c] = t /\ timer[c] = "armed"
                               THEN "cleared" ELSE timer[c]]
  /\ holder' = [k \in Keys |-> IF holder[k] # NoCall /\ TabOf[holder[k]] = t
                               THEN NoCall ELSE holder[k]]

\* What the code and the browser do to a call that was made.
Progress(c) ==
  \/ StartCallback(c)
  \/ TimerFires(c)
  \/ CallbackReturns(c)
  \/ \E name \in {"AbortError", "Error"} : CallbackThrows(c, name)

Next ==
  \/ \E c \in Calls : RunWithLock(c) \/ Grant(c) \/ Progress(c)
  \/ \E t \in Tabs : ClosePage(t)

\* Timers fire, granted callbacks are invoked and the SDK's callbacks end
\* (every await in them is bounded by an HTTP or iframe timeout).
Fairness == \A c \in Calls : WF_vars(Progress(c))

Spec == Init /\ [][Next]_vars

FairSpec == Spec /\ Fairness

-----------------------------------------------------------------------------
\* The caller's view: a granted request whose callback is only queued waits.
phaseBar == [c \in Calls |-> IF pc[c] \in {"pending", "granted"}
                             THEN "waiting" ELSE pc[c]]

Abs == INSTANCE LockManager WITH phase <- phaseBar

\* Implements the promise of ILockManager: mutual exclusion per key, and a
\* TimeoutError only for a call whose callback never ran.
ImplementsLockManager == Abs!Spec

\* The browser holds a key exactly for the call that is between grant and
\* release: no key stays taken after its call settled, timed out or lost its
\* page (lock.ts 29-56, "Lock is automatically released").
HolderIsActive ==
  \A k \in Keys, c \in Calls :
    holder[k] = c <=> KeyOf[c] = k /\ pc[c] \in {"granted", "running"}

\* Every runWithLock call settles, or its page is gone: the timer bounds the
\* wait whatever the holder does.
EveryCallSettles ==
  \A c \in Calls : pc[c] = "pending" ~> pc[c] \in Settled \cup {"gone"}
=============================================================================
