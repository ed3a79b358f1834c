----------------------------- MODULE LegacyLock -----------------------------
(***************************************************************************)
(* LegacyLockManager (lock.ts 59-109), one instance per page, on top of    *)
(* browser-tabs-lock: up to RetryAttempts acquisitions, the set of keys    *)
(* the page holds, and the pagehide listener that gives them back.         *)
(* browser-tabs-lock is external: acquireLock resolves true once the       *)
(* localStorage record of the key is this instance's, false after the      *)
(* timeout; releaseLock removes the record if it is this instance's.       *)
(***************************************************************************)
EXTENDS Naturals

CONSTANTS
  Calls, Keys, Tabs,
  KeyOf, TabOf,
  NoTab,           \* a key without a localStorage record
  RetryAttempts    \* 10 in the code

ASSUME ConstantsAssumption ==
  /\ KeyOf \in [Calls -> Keys]
  /\ TabOf \in [Calls -> Tabs]
  /\ NoTab \notin Tabs
  /\ RetryAttempts \in Nat \ {0}

VARIABLES
  pc,            \* control point of each call
  attempt,       \* acquireLock attempts each call has lost so far
  owner,         \* localStorage: the page that owns each key
  activeLocks,   \* per page: keys the manager believes it holds
  listener,      \* per page: is the pagehide handler installed
  restored       \* history: calls whose page was hidden and came back

vars == <<pc, attempt, owner, activeLocks, listener, restored>>

Settled == {"resolved", "rejected", "timedout"}

Releasing == {"resolving", "rejecting"}

TypeOK ==
  /\ pc \in [Calls -> {"idle", "acquiring", "running", "gone"} \cup Releasing \cup Settled]
  /\ attempt \in [Calls -> 0 .. RetryAttempts]
  /\ owner \in [Keys -> Tabs \cup {NoTab}]
  /\ activeLocks \in [Tabs -> SUBSET Keys]
  /\ listener \in [Tabs -> BOOLEAN]
  /\ restored \subseteq Calls

Init ==
  /\ pc = [c \in Calls |-> "idle"]
  /\ attempt = [c \in Calls |-> 0]
  /\ owner = [k \in Keys |-> NoTab]
  /\ activeLocks = [t \in Tabs |-> {}]
  /\ listener = [t \in Tabs |-> FALSE]
  /\ restored = {}

-----------------------------------------------------------------------------
RunWithLock(c) ==
  /\ pc[c] = "idle"
  /\ pc' = [pc EXCEPT ![c] = "acquiring"]
  /\ UNCHANGED <<attempt, owner, activeLocks, listener, restored>>

\* A caller that runs its callback although the last attempt failed.
AcquiredUnchecked(c) ==
  LET t == TabOf[c]
      k == KeyOf[c]
      locks == activeLocks[t] \cup {k}
  IN /\ pc[c] = "acquiring"
     /\ owner' = [owner EXCEPT ![k] = t]
     /\ activeLocks' = [activeLocks EXCEPT ![t] = locks]
     /\ listener' = [listener EXCEPT ![t] = @ \/ locks = {k}]
     /\ pc' = [pc EXCEPT ![c] = "running"]
     /\ attempt' = [attempt EXCEPT ![c] = 0]
     /\ UNCHANGED restored

\* acquireLock resolves true: the key joins activeLocks and the first key of
\* the page installs the handler (adding it twice is a no-op in the DOM). The
\* loop ends and its counter is forgotten.
Acquired(c) ==
  LET t == TabOf[c]
      k == KeyOf[c]
      locks == activeLocks[t] \cup {k}
  IN /\ pc[c] = "acquiring"
     /\ owner[k] = NoTab
     /\ owner' = [owner EXCEPT ![k] = t]
     /\ activeLocks' = [activeLocks EXCEPT ![t] = locks]
     /\ listener' = [listener EXCEPT ![t] = @ \/ locks = {k}]
     /\ pc' = [pc EXCEPT ![c] = "running"]
     /\ attempt' = [attempt EXCEPT ![c] = 0]
     /\ UNCHANGED restored

\* A loop that never gives up.
AcquireFailsForever(c) ==
  /\ pc[c] = "acquiring"
  /\ UNCHANGED vars

\* acquireLock resolves false: retry, or give up with a TimeoutError.
AcquireFails(c) ==
  /\ pc[c] = "acquiring"
  /\ attempt' = [attempt EXCEPT ![c] = @ + 1]
  /\ pc' = [pc EXCEPT ![c] = IF attempt[c] + 1 < RetryAttempts
                             THEN "acquiring" ELSE "timedout"]
  /\ UNCHANGED <<owner, activeLocks, listener, restored>>

Released(k, t) == IF owner[k] = t THEN NoTab ELSE owner[k]

\* The finally block up to its await: forget the key, then releaseLock, which
\* removes the record in the same task.
CallbackSettles(c, outcome) ==
  LET t == TabOf[c]
      k == KeyOf[c]
  IN /\ pc[c] = "running"
     /\ activeLocks' = [activeLocks EXCEPT ![t] = @ \ {k}]
     /\ owner' = [owner EXCEPT ![k] = Released(k, t)]
     /\ pc' = [pc EXCEPT ![c] = outcome]
     /\ UNCHANGED <<attempt, listener, restored>>

\* A finally block that drops the handler without looking at activeLocks.
FinishReleaseAlways(c) ==
  /\ pc[c] \in Releasing
  /\ listener' = [listener EXCEPT ![TabOf[c]] = FALSE]
  /\ pc' = [pc EXCEPT ![c] = IF @ = "resolving" THEN "resolved" ELSE "rejected"]
  /\ UNCHANGED <<attempt, owner, activeLocks, restored>>

\* After the await: the last key of the page removes the handler.
FinishRelease(c) ==
  /\ pc[c] \in Releasing
  /\ listener' = [listener EXCEPT ![TabOf[c]] = @ /\ activeLocks[TabOf[c]] # {}]
  /\ pc' = [pc EXCEPT ![c] = IF @ = "resolving" THEN "resolved" ELSE "rejected"]
  /\ UNCHANGED <<attempt, owner, activeLocks, restored>>

\* A handler that forgets the page's keys without giving the records back.
PagehideHandlerForgets(t) ==
  /\ owner' = owner
  /\ activeLocks' = [activeLocks EXCEPT ![t] = {}]

\* pagehideHandler: release every key of the page, then forget them.
PagehideHandler(t) ==
  /\ owner' = [k \in Keys |-> IF k \in activeLocks[t] THEN Released(k, t) ELSE owner[k]]
  /\ activeLocks' = [activeLocks EXCEPT ![t] = {}]

OpenCalls(t) == {c \in Calls : TabOf[c] = t /\ pc[c] \notin Settled}

\* The page is hidden. It is unloaded for good, or kept in the back/forward
\* cache and resumed with its callbacks where they were.
PageHide(t) ==
  /\ \E c \in OpenCalls(t) : pc[c] # "gone"
  /\ IF listener[t] THEN PagehideHandler(t) ELSE UNCHANGED <<owner, activeLocks>>
  /\ \/ /\ pc' = [c \in Calls |-> IF c \in OpenCalls(t) THEN "gone" ELSE pc[c]]
        /\ listener' = [listener EXCEPT ![t] = FALSE]
        /\ UNCHANGED restored
     \/ /\ restored' = restored \cup OpenCalls(t)
        /\ UNCHANGED <<pc, listener>>
  /\ UNCHANGED attempt

Progress(c) ==
  \/ AcquireFails(c)
  \/ \E outcome \in Releasing : CallbackSettles(c, outcome)
  \/ FinishRelease(c)

Next ==
  \/ \E c \in Calls : RunWithLock(c) \/ Acquired(c) \/ Progress(c)
  \/ \E t \in Tabs : PageHide(t)

\* acquireLock resolves within its timeout, the SDK's callbacks end and the
\* awaited releaseLock resolves.
Fairness == \A c \in Calls : WF_vars(Progress(c))

Spec == Init /\ [][Next]_vars

FairSpec == Spec /\ Fairness

-----------------------------------------------------------------------------
\* pagehideHandler gives the locks of a restored page away behind the back of
\* its callbacks, so its calls count as gone from then on.
phaseBar == [c \in Calls |-> IF c \in restored THEN "gone"
                             ELSE CASE pc[c] = "acquiring" -> "waiting"
                                    [] pc[c] \in Releasing -> "released"
                                    [] OTHER -> pc[c]]

Abs == INSTANCE LockManager WITH phase <- phaseBar

\* The calls of all pages that have not come back from the back/forward cache
\* keep ILockManager's promise (lock.ts 12-20), whatever restored pages do.
ImplementsLockManager == Abs!Spec

\* A page that holds keys can give them back when it is hidden: its handler is
\* installed, whatever the order in which its locks come and go (lock.ts 92-106).
ListenerCoversLocks == \A t \in Tabs : activeLocks[t] # {} => listener[t]

\* A localStorage record outlives neither its callback nor its page: the owner
\* still counts the key among its activeLocks.
NoOrphanLock == \A k \in Keys, t \in Tabs : owner[k] = t => k \in activeLocks[t]

\* Every runWithLock call settles or its page is gone: the retries are bounded.
EveryCallSettles ==
  \A c \in Calls : pc[c] = "acquiring" ~> pc[c] \in Settled \cup {"gone"}
=============================================================================
