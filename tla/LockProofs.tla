-------------------------- MODULE LockProofs --------------------------
(***************************************************************************)
(* For every set of calls, keys and pages, the two lock managers that      *)
(* getLockManager() chooses from implement LockManager: callbacks of one   *)
(* key never overlap and a TimeoutError means the callback never ran. For  *)
(* LegacyLockManager this is shown of the pages that are not restored, and *)
(* of all pages that its bookkeeping is consistent.                        *)
(***************************************************************************)
EXTENDS LegacyLock, TLAPS

\* A call that still tries has an attempt left.
AttemptLeft == \A c \in Calls : pc[c] \in {"idle", "acquiring"} => attempt[c] < RetryAttempts

Bookkeeping == TypeOK /\ AttemptLeft /\ ListenerCoversLocks /\ NoOrphanLock

\* The bookkeeping is right initially.
LEMMA InitBookkeeping == Init => Bookkeeping
BY ConstantsAssumption
   DEF Init, Bookkeeping, TypeOK, AttemptLeft, ListenerCoversLocks, NoOrphanLock, Settled, Releasing

\* Every step keeps it right, restored pages included.
LEMMA NextBookkeeping == Bookkeeping /\ [Next]_vars => Bookkeeping'
<1> SUFFICES ASSUME Bookkeeping, [Next]_vars PROVE Bookkeeping'
  OBVIOUS
<1> USE ConstantsAssumption
<1> USE DEF Bookkeeping, TypeOK, AttemptLeft, Settled, Releasing
<1>1. CASE UNCHANGED vars
  BY <1>1 DEF vars, ListenerCoversLocks, NoOrphanLock
<1>2. ASSUME NEW c \in Calls, RunWithLock(c) PROVE Bookkeeping'
  BY <1>2 DEF RunWithLock, ListenerCoversLocks, NoOrphanLock
<1>3. ASSUME NEW c \in Calls, Acquired(c) PROVE Bookkeeping'
  <2>1. TypeOK' /\ AttemptLeft'
    BY <1>3 DEF Acquired
  <2>2. ASSUME NEW t \in Tabs, activeLocks'[t] # {} PROVE listener'[t]
    <3>1. CASE t # TabOf[c]
      BY <1>3, <2>2, <3>1 DEF Acquired, ListenerCoversLocks
    <3>2. CASE t = TabOf[c] /\ activeLocks[t] = {}
      BY <1>3, <3>2 DEF Acquired
    <3>3. CASE t = TabOf[c] /\ activeLocks[t] # {}
      BY <1>3, <3>3 DEF Acquired, ListenerCoversLocks
    <3> QED
      BY <3>1, <3>2, <3>3
  <2>3. NoOrphanLock'
    BY <1>3 DEF Acquired, NoOrphanLock
  <2> QED
    BY <2>1, <2>2, <2>3 DEF ListenerCoversLocks
<1>4. ASSUME NEW c \in Calls, AcquireFails(c) PROVE Bookkeeping'
  BY <1>4 DEF AcquireFails, ListenerCoversLocks, NoOrphanLock
<1>5. ASSUME NEW c \in Calls, NEW outcome \in Releasing, CallbackSettles(c, outcome)
      PROVE Bookkeeping'
  BY <1>5 DEF CallbackSettles, Released, ListenerCoversLocks, NoOrphanLock
<1>6. ASSUME NEW c \in Calls, FinishRelease(c) PROVE Bookkeeping'
  BY <1>6 DEF FinishRelease, ListenerCoversLocks, NoOrphanLock
<1>7. ASSUME NEW t \in Tabs, PageHide(t) PROVE Bookkeeping'
  <2>1. TypeOK' /\ AttemptLeft'
    <3>1. owner' \in [Keys -> Tabs \cup {NoTab}] /\ activeLocks' \in [Tabs -> SUBSET Keys]
      BY <1>7 DEF PageHide, PagehideHandler, Released
    <3>2. listener' \in [Tabs -> BOOLEAN] /\ attempt' = attempt /\ restored' \subseteq Calls
      BY <1>7 DEF PageHide, OpenCalls
    <3>3. pc' = pc \/ pc' = [c \in Calls |-> IF c \in OpenCalls(t) THEN "gone" ELSE pc[c]]
      BY <1>7 DEF PageHide
    <3> QED
      BY <3>1, <3>2, <3>3
  <2>2. activeLocks'[t] = {}
    BY <1>7 DEF PageHide, PagehideHandler, ListenerCoversLocks
  <2>3. ListenerCoversLocks'
    <3> SUFFICES ASSUME NEW u \in Tabs, activeLocks'[u] # {} PROVE listener'[u]
      BY DEF ListenerCoversLocks
    <3>1. u # t
      BY <2>2
    <3>2. activeLocks'[u] = activeLocks[u] /\ listener'[u] = listener[u]
      BY <1>7, <3>1 DEF PageHide, PagehideHandler
    <3> QED
      BY <3>2 DEF ListenerCoversLocks
  <2>4. NoOrphanLock'
    BY <1>7, <2>2 DEF PageHide, PagehideHandler, Released, NoOrphanLock
  <2> QED
    BY <2>1, <2>3, <2>4
<1> QED
  BY <1>1, <1>2, <1>3, <1>4, <1>5, <1>6, <1>7 DEF Next, Progress

\* In every reachable state, restored pages or not.
THEOREM BookkeepingInvariant == Spec => []Bookkeeping
BY InitBookkeeping, NextBookkeeping, PTL DEF Spec

\* A page that holds keys always has its pagehide handler installed.
THEOREM ListenerInstalled == Spec => []ListenerCoversLocks
<1>1. Bookkeeping => ListenerCoversLocks
  BY DEF Bookkeeping
<1> QED
  BY <1>1, BookkeepingInvariant, PTL

\* No localStorage record outlives its callback or its page.
THEOREM LocksNotOrphaned == Spec => []NoOrphanLock
<1>1. Bookkeeping => NoOrphanLock
  BY DEF Bookkeeping
<1> QED
  BY <1>1, BookkeepingInvariant, PTL

-----------------------------------------------------------------------------
(* The pages that are not restored *)

Promised(c) == pc[c] = "running" /\ c \notin restored

HeldWhileRunning == \A c \in Calls : Promised(c) => owner[KeyOf[c]] = TabOf[c]

\* The calls of a page are restored together, save those that had settled.
RestoredTogether ==
  \A c, d \in Calls :
    c \in restored /\ d \notin restored /\ TabOf[c] = TabOf[d] => pc[d] \in Settled

RunsAlone ==
  \A c, d \in Calls : Promised(c) /\ Promised(d) /\ KeyOf[c] = KeyOf[d] => c = d

Exclusive == HeldWhileRunning /\ RestoredTogether /\ RunsAlone

\* A running callback of a page that is not restored owns its key alone.
LEMMA NextExclusive == Bookkeeping /\ Exclusive /\ [Next]_vars => Exclusive'
<1> SUFFICES ASSUME Bookkeeping, Exclusive, [Next]_vars PROVE Exclusive'
  OBVIOUS
<1> USE ConstantsAssumption
<1> USE DEF Bookkeeping, TypeOK, Settled, Releasing, Promised, Exclusive, HeldWhileRunning,
            RestoredTogether, RunsAlone
<1>1. CASE UNCHANGED vars
  BY <1>1 DEF vars
<1>2. ASSUME NEW c \in Calls, RunWithLock(c) PROVE Exclusive'
  BY <1>2 DEF RunWithLock
<1>3. ASSUME NEW c \in Calls, Acquired(c) PROVE Exclusive'
  BY <1>3 DEF Acquired
<1>4. ASSUME NEW c \in Calls, AcquireFails(c) PROVE Exclusive'
  BY <1>4 DEF AcquireFails
<1>5. ASSUME NEW c \in Calls, NEW outcome \in Releasing, CallbackSettles(c, outcome)
      PROVE Exclusive'
  BY <1>5 DEF CallbackSettles, Released
<1>6. ASSUME NEW c \in Calls, FinishRelease(c) PROVE Exclusive'
  BY <1>6 DEF FinishRelease
<1>7. ASSUME NEW t \in Tabs, PageHide(t) PROVE Exclusive'
  <2>1. \A d \in Calls : Promised(d)' => Promised(d) /\ TabOf[d] # t
    BY <1>7 DEF PageHide, OpenCalls
  <2>2. \A k \in Keys : owner[k] # t => owner'[k] = owner[k]
    BY <1>7 DEF PageHide, PagehideHandler, Released
  <2>3. HeldWhileRunning' /\ RunsAlone'
    BY <2>1, <2>2
  <2>4. RestoredTogether'
    BY <1>7 DEF PageHide, OpenCalls
  <2> QED
    BY <2>3, <2>4
<1> QED
  BY <1>1, <1>2, <1>3, <1>4, <1>5, <1>6, <1>7 DEF Next, Progress

\* A step of LegacyLock is then a step of the abstract lock manager or none.
LEMMA LegacyStepRefines == Bookkeeping /\ Exclusive /\ [Next]_vars => [Abs!Next]_phaseBar
<1> SUFFICES ASSUME Bookkeeping, Exclusive, [Next]_vars PROVE [Abs!Next]_phaseBar
  OBVIOUS
<1> USE ConstantsAssumption
<1> USE DEF Bookkeeping, TypeOK, Settled, Releasing, phaseBar
<1>1. CASE UNCHANGED vars
  BY <1>1 DEF vars
<1>2. ASSUME NEW c \in Calls, \E l : pc' = [pc EXCEPT ![c] = l], restored' = restored,
             c \in restored
      PROVE UNCHANGED phaseBar
  BY <1>2
<1>3. ASSUME NEW c \in Calls, RunWithLock(c), c \notin restored PROVE Abs!Request(c)
  BY <1>3 DEF RunWithLock, Abs!Request
<1>4. ASSUME NEW c \in Calls, Acquired(c), c \notin restored PROVE Abs!Enter(c)
  <2>1. phaseBar[c] = "waiting"
    BY <1>4 DEF Acquired
  <2>2. ASSUME NEW d \in Calls, phaseBar[d] = "running" PROVE KeyOf[d] # KeyOf[c]
    <3>1. Promised(d)
      BY <2>2 DEF Promised
    <3> QED
      BY <1>4, <3>1 DEF Acquired, Exclusive, HeldWhileRunning
  <2>3. pc' = [pc EXCEPT ![c] = "running"] /\ restored' = restored
    BY <1>4 DEF Acquired
  <2>4. phaseBar' = [phaseBar EXCEPT ![c] = "running"]
    BY <1>4, <2>3
  <2> QED
    BY <2>1, <2>2, <2>4 DEF Abs!Enter
<1>5. ASSUME NEW c \in Calls, AcquireFails(c), c \notin restored
      PROVE Abs!TimeOut(c) \/ UNCHANGED phaseBar
  <2>1. phaseBar[c] = "waiting" /\ restored' = restored
    BY <1>5 DEF AcquireFails
  <2>2. CASE pc' = [pc EXCEPT ![c] = "acquiring"]
    BY <1>5, <2>1, <2>2 DEF AcquireFails
  <2>3. CASE pc' = [pc EXCEPT ![c] = "timedout"]
    <3>1. phaseBar' = [phaseBar EXCEPT ![c] = "timedout"]
      BY <1>5, <2>1, <2>3
    <3> QED
      BY <2>1, <3>1 DEF Abs!TimeOut
  <2> QED
    BY <1>5, <2>2, <2>3 DEF AcquireFails
<1>6. ASSUME NEW c \in Calls, NEW outcome \in Releasing, CallbackSettles(c, outcome),
             c \notin restored
      PROVE Abs!Exit(c, "released")
  <2>1. pc[c] = "running" /\ pc' = [pc EXCEPT ![c] = outcome] /\ restored' = restored
    BY <1>6 DEF CallbackSettles
  <2>2. phaseBar' = [phaseBar EXCEPT ![c] = "released"]
    BY <1>6, <2>1
  <2> QED
    BY <1>6, <2>1, <2>2 DEF Abs!Exit
<1>7. ASSUME NEW c \in Calls, FinishRelease(c), c \notin restored
      PROVE \E outcome \in {"resolved", "rejected"} : Abs!Settle(c, outcome)
  <2>1. phaseBar[c] = "released" /\ restored' = restored
    BY <1>7 DEF FinishRelease
  <2>2. PICK outcome \in {"resolved", "rejected"} : pc' = [pc EXCEPT ![c] = outcome]
    BY <1>7 DEF FinishRelease
  <2>3. phaseBar' = [phaseBar EXCEPT ![c] = outcome]
    BY <1>7, <2>1, <2>2
  <2> QED
    BY <2>1, <2>3 DEF Abs!Settle
<1>8. ASSUME NEW t \in Tabs, PageHide(t) PROVE \E S \in SUBSET Calls : Abs!Leave(S)
  <2> DEFINE S == OpenCalls(t)
  <2>1. S \in SUBSET Calls
    BY DEF OpenCalls
  <2>2. \A c \in S : phaseBar[c] \notin Settled
    BY DEF OpenCalls
  <2>3. phaseBar' = [c \in Calls |-> IF c \in S THEN "gone" ELSE phaseBar[c]]
    BY <1>8 DEF PageHide, OpenCalls
  <2>4. Abs!Leave(S)
    BY <2>2, <2>3 DEF Abs!Leave, Abs!Settled
  <2> QED
    BY <2>1, <2>4 DEF Abs!Leave
<1>9. ASSUME NEW c \in Calls, RunWithLock(c) \/ Acquired(c) \/ Progress(c), c \in restored
      PROVE UNCHANGED phaseBar
  BY <1>2, <1>9 DEF RunWithLock, Acquired, Progress, AcquireFails, CallbackSettles, FinishRelease
<1> QED
  BY <1>1, <1>3, <1>4, <1>5, <1>6, <1>7, <1>8, <1>9 DEF Next, Progress, Abs!Next

\* The calls of pages that are not restored from the back/forward cache keep the
\* promise of ILockManager, whatever the calls of restored pages do.
THEOREM LegacyRefinement == Spec => ImplementsLockManager
<1>1. Init => Abs!Init
  BY DEF Init, Abs!Init, phaseBar, Releasing
<1>2. Init => Exclusive
  BY DEF Init, Exclusive, HeldWhileRunning, RestoredTogether, RunsAlone, Promised
<1>3. Spec => []Exclusive
  BY <1>2, NextExclusive, BookkeepingInvariant, PTL DEF Spec
<1> QED
  BY <1>1, <1>3, BookkeepingInvariant, LegacyStepRefines, PTL DEF Spec, ImplementsLockManager, Abs!Spec

-----------------------------------------------------------------------------
(* WebLocksApiManager, for the same calls, keys and pages *)

CONSTANT NoCall           \* a key nobody holds

VARIABLES timer, holder   \* of WebLocks; the control points are pc in both

W == INSTANCE WebLocks

\* The timer of a call whose callback runs has been cleared (lock.ts 44): a
\* later abort cannot disguise the callback's own error as a timeout.
TimerOffWhileRunning == \A c \in Calls : pc[c] = "running" => timer[c] = "cleared"

Granting == W!TypeOK /\ W!HolderIsActive /\ TimerOffWhileRunning

\* The invariant holds initially.
LEMMA InitGranting ==
  ASSUME NoCall \notin Calls PROVE W!Init => Granting
BY ConstantsAssumption DEF W!Init, Granting, W!TypeOK, W!HolderIsActive, TimerOffWhileRunning, W!Settled

\* Every step of the code, the browser and the timers keeps the invariant.
LEMMA NextGranting ==
  ASSUME NoCall \notin Calls PROVE Granting /\ [W!Next]_(W!vars) => Granting'
<1> SUFFICES ASSUME Granting, [W!Next]_(W!vars) PROVE Granting'
  OBVIOUS
<1> USE ConstantsAssumption
<1> USE DEF Granting, W!TypeOK, W!HolderIsActive, TimerOffWhileRunning, W!Settled
<1>1. CASE UNCHANGED W!vars
  BY <1>1 DEF W!vars
<1>2. ASSUME NEW c \in Calls, W!RunWithLock(c) PROVE Granting'
  BY <1>2 DEF W!RunWithLock
<1>3. ASSUME NEW c \in Calls, W!Grant(c) PROVE Granting'
  BY <1>3 DEF W!Grant
<1>4. ASSUME NEW c \in Calls, W!StartCallback(c) PROVE Granting'
  BY <1>4 DEF W!StartCallback
<1>5. ASSUME NEW c \in Calls, W!TimerFires(c) PROVE Granting'
  BY <1>5 DEF W!TimerFires
<1>6. ASSUME NEW c \in Calls, W!CallbackReturns(c) PROVE Granting'
  BY <1>6 DEF W!CallbackReturns
<1>7. ASSUME NEW c \in Calls, NEW name \in {"AbortError", "Error"}, W!CallbackThrows(c, name)
      PROVE Granting'
  BY <1>7 DEF W!CallbackThrows
<1>8. ASSUME NEW t \in Tabs, W!ClosePage(t) PROVE Granting'
  BY <1>8 DEF W!ClosePage
<1> QED
  BY <1>1, <1>2, <1>3, <1>4, <1>5, <1>6, <1>7, <1>8 DEF W!Next, W!Progress

\* The invariant holds in every reachable state.
THEOREM GrantingInvariant ==
  ASSUME NoCall \notin Calls PROVE W!Spec => []Granting
BY InitGranting, NextGranting, PTL DEF W!Spec

\* A key is held by exactly the call between its grant and its release.
THEOREM HoldersCorrect ==
  ASSUME NoCall \notin Calls PROVE W!Spec => []W!HolderIsActive
<1>1. Granting => W!HolderIsActive
  BY DEF Granting
<1> QED
  BY <1>1, GrantingInvariant, PTL

-----------------------------------------------------------------------------
\* Moving one call moves it alone in its caller's view.
LEMMA PhaseMoves ==
  ASSUME DOMAIN pc = Calls, NEW c \in Calls, NEW v, pc' = [pc EXCEPT ![c] = v]
  PROVE  W!phaseBar' =
           [W!phaseBar EXCEPT ![c] = IF v \in {"pending", "granted"} THEN "waiting" ELSE v]
<1>1. \A d \in Calls : pc'[d] = IF d = c THEN v ELSE pc[d]
  OBVIOUS
<1> QED
  BY <1>1 DEF W!phaseBar

\* Where a call is, its caller sees.
LEMMA PhaseAt ==
  ASSUME NEW c \in Calls
  PROVE  W!phaseBar[c] = IF pc[c] \in {"pending", "granted"} THEN "waiting" ELSE pc[c]
BY DEF W!phaseBar

\* A step of WebLocks is a step of the abstract lock manager or none.
LEMMA WebStepRefines ==
  ASSUME NoCall \notin Calls PROVE Granting /\ [W!Next]_(W!vars) => [W!Abs!Next]_(W!phaseBar)
<1> SUFFICES ASSUME Granting, [W!Next]_(W!vars) PROVE [W!Abs!Next]_(W!phaseBar)
  OBVIOUS
<1>0. DOMAIN pc = Calls
  BY DEF Granting, W!TypeOK
<1>1. CASE UNCHANGED W!vars
  BY <1>1 DEF W!vars, W!phaseBar
<1>2. ASSUME NEW c \in Calls, W!RunWithLock(c) PROVE W!Abs!Request(c)
  <2>1. pc[c] = "idle" /\ pc' = [pc EXCEPT ![c] = "pending"]
    BY <1>2 DEF W!RunWithLock
  <2>2. W!phaseBar[c] = "idle"
    BY <2>1, PhaseAt
  <2>3. W!phaseBar' = [W!phaseBar EXCEPT ![c] = "waiting"]
    BY <1>0, <2>1, PhaseMoves
  <2> QED
    BY <2>2, <2>3 DEF W!Abs!Request
<1>3. ASSUME NEW c \in Calls, W!Grant(c) PROVE UNCHANGED W!phaseBar
  <2>1. pc[c] = "pending" /\ pc' = [pc EXCEPT ![c] = "granted"]
    BY <1>3 DEF W!Grant
  <2>2. \A d \in Calls : pc'[d] = IF d = c THEN "granted" ELSE pc[d]
    BY <1>0, <2>1
  <2> QED
    BY <2>1, <2>2 DEF W!phaseBar
<1>4. ASSUME NEW c \in Calls, W!StartCallback(c) PROVE W!Abs!Enter(c)
  <2>1. pc[c] = "granted" /\ pc' = [pc EXCEPT ![c] = "running"]
    BY <1>4 DEF W!StartCallback
  <2>2. ASSUME NEW d \in Calls, pc[d] = "running" PROVE KeyOf[d] # KeyOf[c]
    <3>1. KeyOf[c] \in Keys
      BY ConstantsAssumption
    <3>2. KeyOf[d] = KeyOf[c] => holder[KeyOf[c]] = c /\ holder[KeyOf[c]] = d
      BY <2>1, <2>2, <3>1 DEF Granting, W!HolderIsActive
    <3> QED
      BY <2>1, <2>2, <3>2
  <2>3. \A d \in Calls : W!phaseBar[d] = "running" => pc[d] = "running"
    BY PhaseAt
  <2>4. W!phaseBar[c] = "waiting"
    BY <2>1, PhaseAt
  <2>5. W!phaseBar' = [W!phaseBar EXCEPT ![c] = "running"]
    BY <1>0, <2>1, PhaseMoves
  <2> QED
    BY <2>2, <2>3, <2>4, <2>5 DEF W!Abs!Enter
<1>5. ASSUME NEW c \in Calls, W!TimerFires(c) PROVE W!Abs!TimeOut(c) \/ UNCHANGED W!phaseBar
  <2>1. CASE pc[c] \in {"pending", "granted"}
    <3>1. W!phaseBar[c] = "waiting"
      BY <2>1, PhaseAt
    <3>2. pc' = [pc EXCEPT ![c] = "timedout"]
      BY <1>5, <2>1 DEF W!TimerFires
    <3>3. W!phaseBar' = [W!phaseBar EXCEPT ![c] = "timedout"]
      BY <1>0, <3>2, PhaseMoves
    <3> QED
      BY <3>1, <3>3 DEF W!Abs!TimeOut
  <2>2. CASE pc[c] \notin {"pending", "granted"}
    BY <1>5, <2>2 DEF W!TimerFires, W!phaseBar
  <2> QED
    BY <2>1, <2>2
<1>6. ASSUME NEW c \in Calls, NEW outcome \in {"resolved", "rejected"}, pc[c] = "running",
             pc' = [pc EXCEPT ![c] = outcome]
      PROVE  W!Abs!Exit(c, outcome)
  <2>1. W!phaseBar[c] = "running"
    BY <1>6, PhaseAt
  <2>2. W!phaseBar' = [W!phaseBar EXCEPT ![c] = outcome]
    BY <1>0, <1>6, PhaseMoves
  <2> QED
    BY <2>1, <2>2 DEF W!Abs!Exit
<1>7. ASSUME NEW c \in Calls,
             W!CallbackReturns(c) \/ \E name \in {"AbortError", "Error"} : W!CallbackThrows(c, name)
      PROVE  W!Abs!Exit(c, "resolved") \/ W!Abs!Exit(c, "rejected")
  <2>1. CASE W!CallbackReturns(c)
    BY <1>6, <2>1 DEF W!CallbackReturns
  <2>2. ASSUME NEW name, W!CallbackThrows(c, name) PROVE W!Abs!Exit(c, "rejected")
    <3>1. pc[c] = "running"
      BY <2>2 DEF W!CallbackThrows
    <3>2. timer[c] = "cleared"
      BY <3>1 DEF Granting, TimerOffWhileRunning
    <3>3. pc' = [pc EXCEPT ![c] = "rejected"]
      BY <2>2, <3>2 DEF W!CallbackThrows
    <3> QED
      BY <1>6, <3>1, <3>3
  <2> QED
    BY <1>7, <2>1, <2>2
<1>8. ASSUME NEW t \in Tabs, W!ClosePage(t) PROVE \E S \in SUBSET Calls : W!Abs!Leave(S)
  <2> DEFINE S == {c \in Calls : TabOf[c] = t}
  <2>1. pc' = [c \in Calls |-> IF TabOf[c] = t /\ pc[c] \notin W!Settled THEN "gone" ELSE pc[c]]
    BY <1>8 DEF W!ClosePage
  <2>2. W!phaseBar' = [c \in Calls |-> IF c \in S /\ W!phaseBar[c] \notin W!Abs!Settled
                                       THEN "gone" ELSE W!phaseBar[c]]
    BY <2>1 DEF W!phaseBar, W!Settled, W!Abs!Settled
  <2>3. W!Abs!Leave(S)
    BY <2>2 DEF W!Abs!Leave
  <2> QED
    BY <2>3
<1> QED
  BY <1>1, <1>2, <1>3, <1>4, <1>5, <1>7, <1>8 DEF W!Next, W!Progress, W!Abs!Next

\* WebLocksApiManager keeps the promise of ILockManager.
THEOREM WebRefinement ==
  ASSUME NoCall \notin Calls PROVE W!Spec => W!ImplementsLockManager
<1>1. W!Init => W!Abs!Init
  BY DEF W!Init, W!Abs!Init, W!phaseBar
<1> QED
  BY <1>1, GrantingInvariant, WebStepRefines, PTL DEF W!Spec, W!ImplementsLockManager, W!Abs!Spec
=============================================================================
