---------------------------- MODULE LoginProofs ----------------------------
(* Proofs about Login, for every set of calls, audiences and users. *)
EXTENDS Login, TLAPS

People == Users \cup {NoUser}
AnyAnswer ==
  [flow : Nat, user : People,
   what : {"none", "code", "connect_code", "login_required", "mfa", "error"}]
Points == {"idle", "lockWait", "lockWaitOff", "iframeWait", "listening", "answered",
           "exchanging", "preparing", "completing", "settled", "gone"}

AnyReg == [flow : Nat, answer : AnyAnswer,
           via : {"none", "popup", "iframe", "login", "connect"}]

LocksTyped == audLock \in [Auds -> Calls \cup {NoCall}] /\ iframeLock \in Calls \cup {NoCall}

Control ==
  /\ pc \in [Calls -> Points]
  /\ reg \in [Calls -> AnyReg]
  /\ \A c \in Calls : pc[c] = "preparing" => reg[c].via \in {"login", "connect"}

\* The types the proofs below need.
Shape ==
  /\ cache \in [Auds -> People] /\ idUser \in People /\ session \in People
  /\ minted \in Nat
  /\ tx \in [flow : Nat, kind : {"none", "login", "connect"}, aud : Auds \cup {NoAud}]
  /\ messages \subseteq AnyAnswer /\ responses \subseteq AnyAnswer
  /\ windows \subseteq [flow : Nat, via : {"popup", "iframe"}]
  /\ authorizing \subseteq [flow : Nat, kind : {"login", "connect"}]
  /\ aud \in [Calls -> Auds \cup {NoAud}]
  /\ LocksTyped
  /\ Control

\* A call that listens in an iframe has a flow at work and holds the iframe lock.
\* OneIframe is not inductive alone: EnterIframeLock looks at the lock only.
IframeHeld ==
  \A c \in Calls : reg[c].via = "iframe" =>
    /\ pc[c] \in {"listening", "answered", "exchanging"}
    /\ iframeLock = c

\* Who holds a lock; stronger than LocksWhileSilent, which forgets which one.
LockHeld ==
  /\ \A c \in Calls, a \in Auds :
       audLock[a] = c => pc[c] = "iframeWait" \/ reg[c].via = "iframe"
  /\ \A c \in Calls : iframeLock = c => reg[c].via = "iframe"

USE ConstantsAssumption

-----------------------------------------------------------------------------
\* The initial state has the types.
LEMMA ShapeInit == Init => Shape
  BY DEF Init, Shape, LocksTyped, Control, Points, NoTx, NoAnswer, NoReg, People, AnyAnswer, AnyReg

\* No answer yet is an answer of its own kind.
LEMMA NoAnswerType == NoAnswer \in AnyAnswer
  BY DEF NoAnswer, AnyAnswer, People

\* A call at the start of its flow has a well-formed register.
LEMMA NewRegType ==
  ASSUME NEW f \in Nat, NEW v \in {"none", "popup", "iframe", "login", "connect"}
  PROVE  /\ [NoReg EXCEPT !.flow = f, !.via = v] \in AnyReg
         /\ [NoReg EXCEPT !.flow = f, !.via = v].via = v
  BY NoAnswerType DEF NoReg, AnyReg

\* The register of a call that has not begun, or is over.
LEMMA NoRegType == NoReg \in AnyReg /\ NoReg.via = "none" /\ NoTx.kind = "none"
  BY DEF NoReg, NoTx, AnyReg, NoAnswer, AnyAnswer, People

\* Releasing locks keeps their types.
LEMMA UnlockShape == ASSUME LocksTyped, NEW c \in Calls, Unlock(c) PROVE LocksTyped'
  BY DEF LocksTyped, Unlock

\* The end of a call keeps the types.
LEMMA SettleShape ==
  ASSUME Shape, NEW c \in Calls, Settle(c)
  PROVE  LocksTyped' /\ Control'
<1>1. LocksTyped'
  BY UnlockShape DEF Settle, Shape
<1>2. Control'
  BY NoRegType DEF Settle, Goto, Shape, Control, Points
<1> QED
  BY <1>1, <1>2

\* The start of a flow in a window keeps the types.
LEMMA OpenShape ==
  ASSUME Shape, NEW c \in Calls, NEW via \in {"popup", "iframe"}, Open(c, via)
  PROVE  /\ Control' /\ minted' \in Nat /\ messages' \subseteq AnyAnswer
         /\ windows' \subseteq [flow : Nat, via : {"popup", "iframe"}]
<1>1. minted' = minted + 1 /\ minted \in Nat /\ messages' = messages /\ messages \subseteq AnyAnswer
  BY DEF Open, Shape
<1>2. [NoReg EXCEPT !.flow = minted + 1, !.via = via] \in AnyReg
  <2>1. minted + 1 \in Nat /\ via \in {"none", "popup", "iframe", "login", "connect"}
    BY <1>1
  <2> QED
    BY <2>1, NewRegType
<1>3. Control'
  BY <1>2 DEF Open, Goto, Shape, Control, Points, NoReg
<1>4. windows' \subseteq [flow : Nat, via : {"popup", "iframe"}]
  BY <1>1 DEF Open, Shape, PopupWindows
<1> QED
  BY <1>1, <1>3, <1>4

\* The answer of a window or of a redirect is an answer.
LEMMA AnswerType ==
  ASSUME NEW f \in Nat, NEW u \in People,
         NEW w \in {"code", "connect_code", "login_required", "mfa", "error"}
  PROVE  [flow |-> f, what |-> w, user |-> u] \in AnyAnswer
  BY DEF AnyAnswer

\* Every action keeps the types.
LEMMA ShapeStep == Shape /\ [Next]_vars => Shape'
<1> SUFFICES ASSUME Shape, [Next]_vars PROVE Shape'
  OBVIOUS
<1> USE DEF storage, locks, window, server
<1>1. ASSUME NEW c \in Calls, Invoke(c) PROVE Shape'
  <2>1. ASSUME NEW a \in Auds, GetTokenSilently(c, a) PROVE Shape'
    BY <2>1 DEF GetTokenSilently, Goto, Shape, LocksTyped, Control, Points
  <2>2. ASSUME NEW a \in Auds, CheckSession(c, a) PROVE Shape'
    BY <2>2 DEF CheckSession, Goto, Shape, LocksTyped, Control, Points
  <2>3. ASSUME NEW a \in Auds, LoginWithPopup(c, a) PROVE Shape'
    <3>1. CASE Open(c, "popup")
      BY <2>3, <3>1, OpenShape DEF LoginWithPopup, Shape, LocksTyped
    <3>2. CASE Goto(c, "settled") /\ UNCHANGED <<window, minted, reg>>
      BY <2>3, <3>2 DEF LoginWithPopup, Goto, Shape, LocksTyped, Control, Points
    <3> QED
      BY <2>3, <3>1, <3>2 DEF LoginWithPopup
  <2>4. ASSUME NEW a \in Auds, NEW kind \in {"login", "connect"}, PrepareRedirect(c, a, kind)
        PROVE  Shape'
    <3>1. minted \in Nat
      BY DEF Shape
    <3>2. [NoReg EXCEPT !.flow = minted + 1, !.via = kind] \in AnyReg
      <4>1. minted + 1 \in Nat /\ kind \in {"none", "popup", "iframe", "login", "connect"}
        BY <3>1
      <4> QED
        BY <4>1, NewRegType
    <3>3. Control'
      BY <2>4, <3>2 DEF PrepareRedirect, Goto, Shape, Control, Points, NoReg
    <3> QED
      BY <2>4, <3>1, <3>3 DEF PrepareRedirect, Shape, LocksTyped
  <2>5. ASSUME NEW r \in responses, HandleRedirectCallback(c, r) PROVE Shape'
    <3>1. [flow |-> tx.flow, via |-> tx.kind, answer |-> r] \in AnyReg
      BY DEF Shape, AnyReg
    <3>2. Control'
      BY <2>5, <3>1 DEF HandleRedirectCallback, Goto, Shape, Control, Points
    <3> QED
      BY <2>5, <3>2 DEF HandleRedirectCallback, Shape, LocksTyped, NoTx
  <2>6. CASE Logout(c)
    BY <2>6 DEF Logout, ClearLocalSession, Goto, Shape, LocksTyped, Control, Points, People
  <2> QED
    BY <1>1, <2>1, <2>2, <2>3, <2>4, <2>5, <2>6 DEF Invoke
<1>2. ASSUME NEW c \in Calls, Progress(c) PROVE Shape'
  <2>1. CASE EnterLock(c)
    BY <2>1 DEF EnterLock, Goto, Shape, LocksTyped, Control, Points
  <2>2. CASE EnterIframeLock(c)
    BY <2>2, OpenShape DEF EnterIframeLock, Shape, LocksTyped
  <2>3. CASE \/ LockTimeout(c) \/ IframeTimeout(c) \/ PopupCancelled(c) \/ PopupTimeout(c)
             \/ RejectCode(c) \/ ExchangeFails(c) \/ PrepareFails(c) \/ CompleteAccount(c)
    BY <2>3, SettleShape DEF LockTimeout, IframeTimeout, PopupCancelled, PopupTimeout,
       RejectCode, ExchangeFails, PrepareFails, CompleteAccount, Shape
  <2>4. CASE TakeCode(c)
    BY <2>4 DEF TakeCode, Goto, Shape, LocksTyped, Control, Points
  <2>5. CASE RejectError(c)
    <3>1. CASE Settle(c) /\ UNCHANGED <<window, minted>>
      BY <2>5, <3>1, SettleShape DEF RejectError, StepUp, ClearLocalSession, Shape, People
    <3>2. CASE Open(c, "popup") /\ Unlock(c) /\ UNCHANGED storage
      BY <2>5, <3>2, OpenShape, UnlockShape DEF RejectError, Shape
    <3> QED
      BY <2>5, <3>1, <3>2 DEF RejectError, StepUp
  <2>6. CASE ExchangeSucceeds(c)
    <3>1. reg[c].answer.user \in People
      BY DEF Shape, Control, AnyReg, AnyAnswer
    <3>2. cache' \in [Auds -> People] /\ idUser' \in People
      BY <2>6, <3>1 DEF ExchangeSucceeds, Save, Shape, People
    <3> QED
      BY <2>6, <3>2, SettleShape DEF ExchangeSucceeds, Shape
  <2>7. CASE Redirect(c)
    <3>1. reg[c].flow \in Nat /\ reg[c].via \in {"login", "connect"}
      BY <2>7 DEF Redirect, Shape, Control, AnyReg
    <3>2. /\ tx' \in [flow : Nat, kind : {"none", "login", "connect"}, aud : Auds \cup {NoAud}]
          /\ authorizing' \subseteq [flow : Nat, kind : {"login", "connect"}]
      BY <2>7, <3>1 DEF Redirect, Shape
    <3> QED
      BY <2>7, <3>2, SettleShape DEF Redirect, Shape
  <2> QED
    BY <1>2, <2>1, <2>2, <2>3, <2>4, <2>5, <2>6, <2>7 DEF Progress
<1>3. CASE World
  <2>1. ASSUME NEW w \in windows, IframeAnswers(w) PROVE Shape'
    <3>1. w.flow \in Nat /\ session \in People
      BY DEF Shape
    <3>2. PICK what \in {"login_required", "code", "mfa"} :
            messages' = messages \cup {[flow |-> w.flow, what |-> what, user |-> session]}
      BY <2>1 DEF IframeAnswers
    <3>3. [flow |-> w.flow, what |-> what, user |-> session] \in AnyAnswer
      BY <3>1, <3>2, AnswerType
    <3>4. messages' \subseteq AnyAnswer
      BY <3>2, <3>3 DEF Shape
    <3> QED
      BY <2>1, <3>4 DEF IframeAnswers, Shape, LocksTyped, Control
  <2>2. ASSUME NEW w \in windows, PopupAnswers(w) PROVE Shape'
    <3>1. w.flow \in Nat /\ Users \subseteq People /\ NoUser \in People
      BY DEF Shape, People
    <3>2. PICK u \in People, what \in {"code", "error"} :
            /\ messages' = messages \cup {[flow |-> w.flow, what |-> what, user |-> u]}
            /\ session' \in {u, session}
      BY <2>2, <3>1 DEF PopupAnswers
    <3>3. [flow |-> w.flow, what |-> what, user |-> u] \in AnyAnswer
      BY <3>1, <3>2, AnswerType
    <3>4. messages' \subseteq AnyAnswer /\ session' \in People
      BY <3>2, <3>3 DEF Shape
    <3> QED
      BY <2>2, <3>4 DEF PopupAnswers, Shape, LocksTyped, Control
  <2>3. ASSUME NEW w \in windows, WindowCloses(w) PROVE Shape'
    BY <2>3 DEF WindowCloses, Shape, LocksTyped, Control
  <2>4. ASSUME NEW m \in messages, Deliver(m) PROVE Shape'
    <3>1. \A c \in Calls : [reg[c] EXCEPT !.answer = m] \in AnyReg
      BY DEF Shape, Control, AnyReg
    <3>2. Control'
      BY <2>4, <3>1 DEF Deliver, Shape, Control, Points, Listening
    <3> QED
      BY <2>4, <3>2 DEF Deliver, Shape, LocksTyped
  <2>5. ASSUME NEW p \in authorizing, RedirectAnswers(p) PROVE Shape'
    <3>1. p.flow \in Nat /\ Users \subseteq People /\ NoUser \in People
      BY DEF Shape, People
    <3>2. PICK u \in People, what \in {"code", "connect_code", "error"} :
            /\ responses' = responses \cup {[flow |-> p.flow, what |-> what, user |-> u]}
            /\ session' \in {u, session}
      BY <2>5, <3>1 DEF RedirectAnswers
    <3>3. [flow |-> p.flow, what |-> what, user |-> u] \in AnyAnswer
      BY <3>1, <3>2, AnswerType
    <3>4. responses' \subseteq AnyAnswer /\ session' \in People
      BY <3>2, <3>3 DEF Shape
    <3> QED
      BY <2>5, <3>4 DEF RedirectAnswers, Shape, LocksTyped, Control
  <2>6. ASSUME NEW a \in Auds, Expire(a) PROVE Shape'
    BY <2>6 DEF Expire, Shape, LocksTyped, Control, People
  <2>7. CASE Unload
    BY <2>7, NoRegType DEF Unload, Shape, LocksTyped, Control, People, Points
  <2> QED
    BY <1>3, <2>1, <2>2, <2>3, <2>4, <2>5, <2>6, <2>7 DEF World
<1>4. CASE UNCHANGED vars
  BY <1>4 DEF vars, Shape, LocksTyped, Control
<1> QED
  BY <1>1, <1>2, <1>3, <1>4 DEF Next

\* Only Save adds a token, and it clears those of another user.
LEMMA OneUserStep == Shape /\ OneUser /\ [Next]_vars => OneUser'
<1> SUFFICES ASSUME Shape, OneUser, [Next]_vars PROVE OneUser'
  OBVIOUS
<1> USE DEF Shape, LocksTyped, Control, AnyReg, Points, People, AnyAnswer, OneUser, storage, locks, window, server, NoReg, NoTx, NoAnswer,
            Goto, Settle, Unlock
<1>1. ASSUME NEW c \in Calls, Invoke(c) PROVE OneUser'
  <2>1. ASSUME NEW a \in Auds, GetTokenSilently(c, a) PROVE OneUser'
    BY <2>1 DEF GetTokenSilently
  <2>2. ASSUME NEW a \in Auds, CheckSession(c, a) PROVE OneUser'
    BY <2>2 DEF CheckSession
  <2>3. ASSUME NEW a \in Auds, LoginWithPopup(c, a) PROVE OneUser'
    BY <2>3 DEF LoginWithPopup, Open
  <2>4. ASSUME NEW a \in Auds, NEW kind \in {"login", "connect"}, PrepareRedirect(c, a, kind) PROVE OneUser'
    BY <2>4 DEF PrepareRedirect
  <2>5. ASSUME NEW r \in responses, HandleRedirectCallback(c, r) PROVE OneUser'
    BY <2>5 DEF HandleRedirectCallback, Accepted
  <2>6. CASE Logout(c)
    BY <2>6 DEF Logout, ClearLocalSession
  <2> QED
    BY <1>1, <2>1, <2>2, <2>3, <2>4, <2>5, <2>6 DEF Invoke
<1>2. ASSUME NEW c \in Calls, Progress(c) PROVE OneUser'
  <2>1. CASE EnterLock(c)
    BY <2>1 DEF EnterLock
  <2>2. CASE EnterIframeLock(c)
    BY <2>2 DEF EnterIframeLock, Open
  <2>3. CASE LockTimeout(c) \/ IframeTimeout(c) \/ PopupCancelled(c) \/ PopupTimeout(c)
    BY <2>3 DEF LockTimeout, IframeTimeout, PopupCancelled, PopupTimeout, Listening
  <2>4. CASE TakeCode(c)
    BY <2>4 DEF TakeCode, StateMatches
  <2>5. CASE RejectCode(c)
    BY <2>5 DEF RejectCode
  <2>6. CASE RejectError(c)
    BY <2>6 DEF RejectError, StepUp, Open, ClearLocalSession
  <2>7. CASE ExchangeSucceeds(c)
    BY <2>7 DEF ExchangeSucceeds, Save
  <2>8. CASE Redirect(c)
    BY <2>8 DEF Redirect
  <2>9. CASE ExchangeFails(c) \/ PrepareFails(c) \/ CompleteAccount(c)
    <3>1. CASE ExchangeFails(c)
      BY <3>1 DEF ExchangeFails
    <3>2. CASE PrepareFails(c)
      BY <3>2 DEF PrepareFails
    <3>3. CASE CompleteAccount(c)
      BY <3>3 DEF CompleteAccount
    <3> QED
      BY <2>9, <3>1, <3>2, <3>3
  <2> QED
    BY <1>2, <2>1, <2>2, <2>3, <2>4, <2>5, <2>6, <2>7, <2>8, <2>9 DEF Progress
<1>3. CASE World
  <2>1. ASSUME NEW w \in windows, IframeAnswers(w) PROVE OneUser'
    BY <2>1 DEF IframeAnswers
  <2>2. ASSUME NEW w \in windows, PopupAnswers(w) PROVE OneUser'
    BY <2>2 DEF PopupAnswers
  <2>3. ASSUME NEW w \in windows, WindowCloses(w) PROVE OneUser'
    BY <2>3 DEF WindowCloses
  <2>4. ASSUME NEW m \in messages, Deliver(m) PROVE OneUser'
    BY <2>4 DEF Deliver, Listening
  <2>5. ASSUME NEW p \in authorizing, RedirectAnswers(p) PROVE OneUser'
    BY <2>5 DEF RedirectAnswers
  <2>6. ASSUME NEW a \in Auds, Expire(a) PROVE OneUser'
    BY <2>6 DEF Expire
  <2>7. CASE Unload
    BY <2>7 DEF Unload
  <2> QED
    BY <1>3, <2>1, <2>2, <2>3, <2>4, <2>5, <2>6, <2>7 DEF World
<1>4. CASE UNCHANGED vars
  BY <1>4 DEF vars
<1> QED
  BY <1>1, <1>2, <1>3, <1>4 DEF Next

\* A code is taken in TakeCode and HandleRedirectCallback, behind a comparison of states.
LEMMA OwnCodeStep == Shape /\ OwnCode /\ [Next]_vars => OwnCode'
<1> SUFFICES ASSUME Shape, OwnCode, [Next]_vars PROVE OwnCode'
  OBVIOUS
<1> USE DEF Shape, LocksTyped, Control, AnyReg, Points, People, AnyAnswer, OwnCode, storage, locks, window, server, NoReg, NoTx, NoAnswer,
            Goto, Settle, Unlock
<1>1. ASSUME NEW c \in Calls, Invoke(c) PROVE OwnCode'
  <2>1. ASSUME NEW a \in Auds, GetTokenSilently(c, a) PROVE OwnCode'
    BY <2>1 DEF GetTokenSilently
  <2>2. ASSUME NEW a \in Auds, CheckSession(c, a) PROVE OwnCode'
    BY <2>2 DEF CheckSession
  <2>3. ASSUME NEW a \in Auds, LoginWithPopup(c, a) PROVE OwnCode'
    BY <2>3 DEF LoginWithPopup, Open
  <2>4. ASSUME NEW a \in Auds, NEW kind \in {"login", "connect"}, PrepareRedirect(c, a, kind) PROVE OwnCode'
    BY <2>4 DEF PrepareRedirect
  <2>5. ASSUME NEW r \in responses, HandleRedirectCallback(c, r) PROVE OwnCode'
    <3>1. CASE tx # NoTx /\ Accepted(r)
      <4>1. reg' = [reg EXCEPT ![c] = [flow |-> tx.flow, via |-> tx.kind, answer |-> r]]
        BY <2>5, <3>1 DEF HandleRedirectCallback
      <4>2. r.flow = tx.flow
        BY <3>1 DEF Accepted
      <4>3. \A d \in Calls \ {c} : pc'[d] = pc[d] /\ reg'[d] = reg[d]
        BY <2>5, <4>1 DEF HandleRedirectCallback
      <4> QED
        BY <4>1, <4>2, <4>3
    <3>2. CASE ~(tx # NoTx /\ Accepted(r))
      <4>1. pc' = [pc EXCEPT ![c] = "settled"] /\ reg' = reg
        BY <2>5, <3>2 DEF HandleRedirectCallback
      <4> QED
        BY <4>1
    <3> QED
      BY <3>1, <3>2
  <2>6. CASE Logout(c)
    BY <2>6 DEF Logout, ClearLocalSession
  <2> QED
    BY <1>1, <2>1, <2>2, <2>3, <2>4, <2>5, <2>6 DEF Invoke
<1>2. ASSUME NEW c \in Calls, Progress(c) PROVE OwnCode'
  <2>1. CASE EnterLock(c)
    BY <2>1 DEF EnterLock
  <2>2. CASE EnterIframeLock(c)
    BY <2>2 DEF EnterIframeLock, Open
  <2>3. CASE LockTimeout(c) \/ IframeTimeout(c) \/ PopupCancelled(c) \/ PopupTimeout(c)
    BY <2>3 DEF LockTimeout, IframeTimeout, PopupCancelled, PopupTimeout, Listening
  <2>4. CASE TakeCode(c)
    BY <2>4 DEF TakeCode, StateMatches
  <2>5. CASE RejectCode(c)
    BY <2>5 DEF RejectCode
  <2>6. CASE RejectError(c)
    BY <2>6 DEF RejectError, StepUp, Open, ClearLocalSession
  <2>7. CASE ExchangeSucceeds(c)
    BY <2>7 DEF ExchangeSucceeds, Save
  <2>8. CASE Redirect(c)
    BY <2>8 DEF Redirect
  <2>9. CASE ExchangeFails(c) \/ PrepareFails(c) \/ CompleteAccount(c)
    <3>1. CASE ExchangeFails(c)
      BY <3>1 DEF ExchangeFails
    <3>2. CASE PrepareFails(c)
      BY <3>2 DEF PrepareFails
    <3>3. CASE CompleteAccount(c)
      BY <3>3 DEF CompleteAccount
    <3> QED
      BY <2>9, <3>1, <3>2, <3>3
  <2> QED
    BY <1>2, <2>1, <2>2, <2>3, <2>4, <2>5, <2>6, <2>7, <2>8, <2>9 DEF Progress
<1>3. CASE World
  <2>1. ASSUME NEW w \in windows, IframeAnswers(w) PROVE OwnCode'
    BY <2>1 DEF IframeAnswers
  <2>2. ASSUME NEW w \in windows, PopupAnswers(w) PROVE OwnCode'
    BY <2>2 DEF PopupAnswers
  <2>3. ASSUME NEW w \in windows, WindowCloses(w) PROVE OwnCode'
    BY <2>3 DEF WindowCloses
  <2>4. ASSUME NEW m \in messages, Deliver(m) PROVE OwnCode'
    BY <2>4 DEF Deliver, Listening
  <2>5. ASSUME NEW p \in authorizing, RedirectAnswers(p) PROVE OwnCode'
    BY <2>5 DEF RedirectAnswers
  <2>6. ASSUME NEW a \in Auds, Expire(a) PROVE OwnCode'
    BY <2>6 DEF Expire
  <2>7. CASE Unload
    BY <2>7 DEF Unload
  <2> QED
    BY <1>3, <2>1, <2>2, <2>3, <2>4, <2>5, <2>6, <2>7 DEF World
<1>4. CASE UNCHANGED vars
  BY <1>4 DEF vars
<1> QED
  BY <1>1, <1>2, <1>3, <1>4 DEF Next

\* The end of a call, or of its silent part, gives its locks back.
LEMMA SettleLocks ==
  ASSUME Shape, IframeHeld, LockHeld, NEW c \in Calls, Unlock(c), reg'[c].via # "iframe",
         \A d \in Calls \ {c} : pc'[d] = pc[d] /\ reg'[d] = reg[d]
  PROVE  IframeHeld' /\ LockHeld'
<1>1. \A a \in Auds : audLock'[a] # c /\ (audLock'[a] # NoCall => audLock'[a] = audLock[a])
  BY ConstantsAssumption DEF Unlock
<1>2. iframeLock' # c /\ (iframeLock # c => iframeLock' = iframeLock)
  BY ConstantsAssumption DEF Unlock
<1>3. IframeHeld'
  BY <1>2 DEF IframeHeld
<1>4. LockHeld'
  BY <1>1, <1>2, ConstantsAssumption DEF LockHeld, Unlock
<1> QED
  BY <1>3, <1>4

\* A step that leaves the locks alone and changes only a call without locks,
\* which gets none of an iframe's.
LEMMA OutsideLocks ==
  ASSUME Shape, IframeHeld, LockHeld, NEW c \in Calls, UNCHANGED locks,
         pc[c] \in {"idle", "preparing", "completing"}, reg'[c].via # "iframe",
         \A d \in Calls \ {c} : pc'[d] = pc[d] /\ reg'[d] = reg[d]
  PROVE  IframeHeld' /\ LockHeld'
<1>1. reg[c].via # "iframe" /\ iframeLock # c /\ \A a \in Auds : audLock[a] # c
  BY DEF IframeHeld, LockHeld
<1> QED
  BY <1>1 DEF IframeHeld, LockHeld, locks

\* The locks follow the flows.
LEMMA LocksStep == Shape /\ IframeHeld /\ LockHeld /\ [Next]_vars => IframeHeld' /\ LockHeld'
<1> SUFFICES ASSUME Shape, IframeHeld, LockHeld, [Next]_vars PROVE IframeHeld' /\ LockHeld'
  OBVIOUS
<1>0. pc \in [Calls -> Points] /\ reg \in [Calls -> AnyReg]
  BY DEF Shape, Control
<1>1. ASSUME NEW c \in Calls, Invoke(c) PROVE IframeHeld' /\ LockHeld'
  <2>0. pc[c] = "idle" /\ reg[c].via # "iframe"
    BY <1>1 DEF Invoke, GetTokenSilently, CheckSession, LoginWithPopup, PrepareRedirect,
       HandleRedirectCallback, Logout, IframeHeld
  <2>1. UNCHANGED locks /\ \A d \in Calls \ {c} : pc'[d] = pc[d] /\ reg'[d] = reg[d]
    BY <1>0, <1>1 DEF Invoke, GetTokenSilently, CheckSession, LoginWithPopup, PrepareRedirect,
       HandleRedirectCallback, Logout, Open, Goto, locks
  <2>2. reg'[c].via # "iframe"
    <3>1. CASE \E a \in Auds : GetTokenSilently(c, a) \/ CheckSession(c, a)
      BY <2>0, <3>1 DEF GetTokenSilently, CheckSession
    <3>2. ASSUME NEW a \in Auds, LoginWithPopup(c, a) PROVE reg'[c].via # "iframe"
      BY <1>0, <2>0, <3>2, NewRegType DEF LoginWithPopup, Open, NoReg
    <3>3. ASSUME NEW a \in Auds, NEW kind \in {"login", "connect"}, PrepareRedirect(c, a, kind)
          PROVE  reg'[c].via # "iframe"
      BY <1>0, <3>3 DEF PrepareRedirect, NoReg
    <3>4. ASSUME NEW r \in responses, HandleRedirectCallback(c, r) PROVE reg'[c].via # "iframe"
      <4>1. tx.kind # "iframe"
        BY DEF Shape
      <4>2. \/ reg' = reg
            \/ reg' = [reg EXCEPT ![c] = [flow |-> tx.flow, via |-> tx.kind, answer |-> r]]
        BY <3>4 DEF HandleRedirectCallback
      <4> QED
        BY <1>0, <2>0, <4>1, <4>2
    <3>5. CASE Logout(c)
      BY <2>0, <3>5 DEF Logout
    <3> QED
      BY <1>1, <3>1, <3>2, <3>3, <3>4, <3>5 DEF Invoke
  <2> QED
    BY <2>0, <2>1, <2>2, OutsideLocks
<1>2. ASSUME NEW c \in Calls, Progress(c) PROVE IframeHeld' /\ LockHeld'
  <2>1. CASE EnterLock(c)
    <3>1. reg' = reg /\ iframeLock' = iframeLock /\ reg[c].via # "iframe"
      BY <2>1 DEF EnterLock, IframeHeld
    <3>2. \A d \in Calls \ {c} : pc'[d] = pc[d]
      BY <1>0, <2>1 DEF EnterLock, Goto
    <3>3. CASE pc' = [pc EXCEPT ![c] = "settled"] /\ audLock' = audLock
      <4>1. \A a \in Auds : audLock[a] # c
        BY <2>1, <3>1 DEF EnterLock, LockHeld
      <4> QED
        BY <3>1, <3>2, <3>3, <4>1 DEF IframeHeld, LockHeld
    <3>4. CASE /\ pc' = [pc EXCEPT ![c] = "iframeWait"]
               /\ audLock' = [audLock EXCEPT ![aud[c]] = c]
      <4>1. pc'[c] = "iframeWait"
        BY <1>0, <3>4
      <4>2. \A a \in Auds : audLock'[a] = audLock[a] \/ audLock'[a] = c
        BY <3>4 DEF Shape, LocksTyped
      <4> QED
        BY <3>1, <3>2, <4>1, <4>2 DEF IframeHeld, LockHeld
    <3> QED
      BY <2>1, <3>3, <3>4 DEF EnterLock, Goto
  <2>2. CASE EnterIframeLock(c)
    <3>1. /\ pc'[c] = "listening" /\ reg'[c].via = "iframe"
          /\ \A d \in Calls \ {c} : pc'[d] = pc[d] /\ reg'[d] = reg[d]
      BY <1>0, <2>2 DEF EnterIframeLock, Open, Goto, NoReg
    <3>2. iframeLock = NoCall /\ iframeLock' = c /\ audLock' = audLock
      BY <2>2 DEF EnterIframeLock
    <3> QED
      BY <3>1, <3>2, ConstantsAssumption DEF IframeHeld, LockHeld
  <2>3. CASE Settle(c)
    <3>1. Unlock(c) /\ reg'[c].via # "iframe"
      BY <1>0, <2>3, NoRegType DEF Settle
    <3>2. \A d \in Calls \ {c} : pc'[d] = pc[d] /\ reg'[d] = reg[d]
      BY <1>0, <2>3 DEF Settle, Goto
    <3> QED
      BY <3>1, <3>2, SettleLocks
  <2>4. CASE TakeCode(c)
    BY <1>0, <2>4 DEF TakeCode, Goto, IframeHeld, LockHeld, locks
  <2>5. CASE RejectError(c)
    <3>1. CASE Open(c, "popup") /\ Unlock(c)
      <4>1. reg'[c].via # "iframe" /\ \A d \in Calls \ {c} : pc'[d] = pc[d] /\ reg'[d] = reg[d]
        BY <1>0, <3>1 DEF Open, Goto, NoReg
      <4> QED
        BY <3>1, <4>1, SettleLocks
    <3> QED
      BY <2>3, <2>5, <3>1 DEF RejectError, StepUp
  <2> QED
    BY <1>2, <2>1, <2>2, <2>3, <2>4, <2>5 DEF Progress, LockTimeout, IframeTimeout,
       PopupCancelled, PopupTimeout, RejectCode, ExchangeSucceeds, ExchangeFails, Redirect,
       PrepareFails, CompleteAccount
<1>3. CASE World
  <2>1. ASSUME NEW m \in messages, Deliver(m) PROVE IframeHeld' /\ LockHeld'
    <3>1. \A c \in Calls : reg'[c].via = reg[c].via
      BY <1>0, <2>1 DEF Deliver, AnyReg
    <3>2. \A c \in Calls : pc'[c] = pc[c] \/ (pc[c] = "listening" /\ pc'[c] = "answered")
      BY <1>0, <2>1 DEF Deliver, Listening
    <3> QED
      BY <2>1, <3>1, <3>2 DEF Deliver, IframeHeld, LockHeld, locks
  <2>2. CASE Unload
    BY <2>2, NoRegType, ConstantsAssumption DEF Unload, IframeHeld, LockHeld
  <2>3. CASE UNCHANGED <<pc, reg, audLock, iframeLock>>
    BY <2>3 DEF IframeHeld, LockHeld
  <2> QED
    BY <1>3, <2>1, <2>2, <2>3 DEF World, IframeAnswers, PopupAnswers, WindowCloses,
       RedirectAnswers, Expire, locks
<1>4. CASE UNCHANGED vars
  BY <1>4 DEF vars, locks, IframeHeld, LockHeld
<1> QED
  BY <1>1, <1>2, <1>3, <1>4 DEF Next

-----------------------------------------------------------------------------
\* The types are invariant.
LEMMA ShapeInvariant == Spec => []Shape
  BY ShapeInit, ShapeStep, PTL DEF Spec

\* Tokens of two users never coexist in the cache: _requestToken's comparison
\* with the cached id token is enough, for any overlap of logins, silent
\* authentications, logouts and reloads.
THEOREM UsersApart == Spec => []OneUser
<1>1. Init => OneUser
  BY DEF Init, OneUser
<1> QED
  BY <1>1, ShapeInvariant, OneUserStep, PTL DEF Spec

\* A call exchanges only the code of its own flow, however many popups, iframes
\* and redirects answer.
THEOREM CodesOwned == Spec => []OwnCode
<1>1. Init => OwnCode
  BY DEF Init, OwnCode
<1> QED
  BY <1>1, ShapeInvariant, OwnCodeStep, PTL DEF Spec

\* The locks follow the flows in every reachable state.
LEMMA LocksInvariant == Spec => [](IframeHeld /\ LockHeld)
<1>1. Init => IframeHeld /\ LockHeld
  BY NoRegType, ConstantsAssumption DEF Init, IframeHeld, LockHeld
<1> QED
  BY <1>1, ShapeInvariant, LocksStep, PTL DEF Spec

\* A call that holds one of the two locks is silently authenticating: no popup is
\* open on its behalf.
THEOREM LocksSilent == Spec => []LocksWhileSilent
<1>1. Shape /\ IframeHeld /\ LockHeld => LocksWhileSilent
  BY DEF LockHeld, LocksWhileSilent
<1> QED
  BY <1>1, ShapeInvariant, LocksInvariant, PTL

\* The iframe lock admits one silent authentication of the page at a time.
THEOREM IframesExclude == Spec => []OneIframe
<1>1. IframeHeld => OneIframe
  BY DEF IframeHeld, OneIframe
<1> QED
  BY <1>1, LocksInvariant, PTL

-----------------------------------------------------------------------------
(* Codes are taken to an exchange once. A flow is spent when its code is   *)
(* taken; until then at most one call or the transaction stands for it.    *)

Pending == {"listening", "answered", "preparing"}

Exchanging == {"exchanging", "completing"}

FlowsFresh ==
  /\ redeemed \subseteq 1 .. minted
  /\ tx.flow \in 0 .. minted /\ tx.flow \notin redeemed /\ (tx # NoTx => tx.flow # 0)
  /\ \A c \in Calls : pc[c] \in Pending =>
       reg[c].flow \in 1 .. minted /\ reg[c].flow \notin redeemed /\ reg[c].flow # tx.flow
  /\ \A c, d \in Calls :
       pc[c] \in Pending /\ pc[d] \in Pending /\ reg[c].flow = reg[d].flow => c = d

\* What CodeOnce says of a step.
TakesFresh == \A c \in Calls : Took(c) => reg'[c].answer.flow \notin redeemed

\* A step by which no call begins to wait, and none takes a code, keeps the
\* flows apart.
LEMMA FlowsKept ==
  ASSUME FlowsFresh, UNCHANGED <<minted, redeemed, tx>>,
         \A d \in Calls : pc'[d] \in Pending => pc[d] \in Pending /\ reg'[d].flow = reg[d].flow,
         \A d \in Calls : pc'[d] \in Exchanging => pc[d] \in Exchanging
  PROVE  FlowsFresh' /\ TakesFresh
  BY DEF FlowsFresh, TakesFresh, Took, Exchanging

\* A new flow is one nobody else stands for.
LEMMA FlowMinted ==
  ASSUME FlowsFresh, minted \in Nat, NEW c \in Calls, UNCHANGED <<redeemed, tx>>,
         minted' = minted + 1, pc'[c] \in Pending, reg'[c].flow = minted + 1,
         \A d \in Calls \ {c} : pc'[d] = pc[d] /\ reg'[d] = reg[d]
  PROVE  FlowsFresh' /\ TakesFresh
<1>1. \A f \in 0 .. minted : f \in 0 .. minted' /\ f # minted + 1
  OBVIOUS
<1>2. 1 .. minted \subseteq 0 .. minted /\ minted + 1 \in 1 .. minted'
  OBVIOUS
<1>3. redeemed' \subseteq 1 .. minted' /\ minted + 1 \notin redeemed /\ minted + 1 # tx.flow
  BY <1>1 DEF FlowsFresh
<1>4. \A d \in Calls \ {c} : pc[d] \in Pending => reg[d].flow # minted + 1 /\ reg[d].flow \in 1 .. minted'
  BY <1>1, <1>2 DEF FlowsFresh
<1>5. FlowsFresh'
  BY <1>1, <1>3, <1>4, <1>2 DEF FlowsFresh
<1>6. TakesFresh
  BY DEF TakesFresh, Took, Pending
<1> QED
  BY <1>5, <1>6

\* Every step keeps the flows apart and takes fresh codes only.
LEMMA FlowsStep == ASSUME Shape, FlowsFresh, [Next]_vars PROVE FlowsFresh' /\ TakesFresh
<1>0. pc \in [Calls -> Points] /\ reg \in [Calls -> AnyReg] /\ minted \in Nat
  BY DEF Shape, Control
<1>s. ASSUME NEW c \in Calls, Settle(c), UNCHANGED <<minted, redeemed, tx>> PROVE FlowsFresh' /\ TakesFresh
  BY <1>0, <1>s, FlowsKept DEF Settle, Goto, Pending, Exchanging
<1>o. ASSUME NEW c \in Calls, NEW via, Open(c, via), UNCHANGED <<redeemed, tx>>
      PROVE  FlowsFresh' /\ TakesFresh
  <2>1. /\ minted' = minted + 1 /\ pc'[c] \in Pending /\ reg'[c].flow = minted + 1
        /\ \A d \in Calls \ {c} : pc'[d] = pc[d] /\ reg'[d] = reg[d]
    BY <1>0, <1>o DEF Open, Goto, Pending, NoReg
  <2> QED
    BY <1>0, <1>o, <2>1, FlowMinted
<1>1. ASSUME NEW c \in Calls, Invoke(c) PROVE FlowsFresh' /\ TakesFresh
  <2>1. CASE \E a \in Auds : GetTokenSilently(c, a) \/ CheckSession(c, a)
    BY <1>0, <2>1, FlowsKept DEF GetTokenSilently, CheckSession, Goto, Pending, Exchanging
  <2>2. ASSUME NEW a \in Auds, LoginWithPopup(c, a) PROVE FlowsFresh' /\ TakesFresh
    <3>1. CASE Open(c, "popup")
      BY <1>o, <2>2, <3>1 DEF LoginWithPopup
    <3>2. CASE Goto(c, "settled") /\ UNCHANGED <<window, minted, reg>>
      BY <1>0, <2>2, <3>2, FlowsKept DEF LoginWithPopup, Goto, Pending, Exchanging
    <3> QED
      BY <2>2, <3>1, <3>2 DEF LoginWithPopup
  <2>3. ASSUME NEW a \in Auds, NEW kind \in {"login", "connect"}, PrepareRedirect(c, a, kind)
        PROVE  FlowsFresh' /\ TakesFresh
    <3>1. /\ minted' = minted + 1 /\ pc'[c] \in Pending /\ reg'[c].flow = minted + 1
          /\ \A d \in Calls \ {c} : pc'[d] = pc[d] /\ reg'[d] = reg[d]
      BY <1>0, <2>3 DEF PrepareRedirect, Goto, Pending, NoReg
    <3> QED
      BY <1>0, <2>3, <3>1, FlowMinted DEF PrepareRedirect
  <2>4. ASSUME NEW r \in responses, HandleRedirectCallback(c, r) PROVE FlowsFresh' /\ TakesFresh
    <3>0. tx' = NoTx /\ minted' = minted /\ \A d \in Calls \ {c} : pc'[d] = pc[d] /\ reg'[d] = reg[d]
      BY <1>0, <2>4 DEF HandleRedirectCallback, Goto
    <3>1. CASE tx # NoTx /\ Accepted(r)
      <4>1. /\ reg'[c].answer.flow = tx.flow /\ pc'[c] \notin Pending
            /\ redeemed' = redeemed \cup {tx.flow}
        BY <1>0, <2>4, <3>1 DEF HandleRedirectCallback, Accepted, Goto, Pending
      <4>2. tx.flow # 0
        BY <2>4, <3>1 DEF FlowsFresh
      <4>3. tx'.flow = 0 /\ tx.flow \in 1 .. minted
        BY <1>0, <3>0, <4>2 DEF NoTx, FlowsFresh
      <4>4. TakesFresh
        BY <3>0, <4>1 DEF FlowsFresh, TakesFresh, Took
      <4>5. FlowsFresh'
        <5>1. redeemed' \subseteq 1 .. minted' /\ 0 \notin redeemed'
          <6>1. redeemed \subseteq 1 .. minted
            BY DEF FlowsFresh
          <6>2. \A f \in 1 .. minted : redeemed \cup {f} \subseteq 1 .. minted
            BY <6>1
          <6>3. redeemed' \subseteq 1 .. minted
            BY <4>1, <4>3, <6>2
          <6>4. 0 \notin 1 .. minted
            BY <1>0
          <6> QED
            BY <3>0, <6>3, <6>4
        <5>2. \A d \in Calls : pc'[d] \in Pending =>
                /\ pc[d] \in Pending /\ reg'[d] = reg[d]
                /\ reg[d].flow \in 1 .. minted /\ reg[d].flow \notin redeemed' /\ reg[d].flow # 0
          BY <1>0, <3>0, <4>1 DEF FlowsFresh
        <5> QED
          BY <1>0, <3>0, <4>3, <5>1, <5>2 DEF FlowsFresh
      <4> QED
        BY <4>4, <4>5
    <3>2. CASE ~(tx # NoTx /\ Accepted(r))
      <4>1. pc'[c] = "settled" /\ reg' = reg /\ redeemed' = redeemed
        BY <1>0, <2>4, <3>2 DEF HandleRedirectCallback, Goto
      <4> QED
        BY <1>0, <3>0, <4>1 DEF FlowsFresh, TakesFresh, Took, NoTx, Pending
    <3> QED
      BY <3>1, <3>2
  <2>5. CASE Logout(c)
    BY <1>0, <2>5, FlowsKept DEF Logout, Goto, Pending, Exchanging
  <2> QED
    BY <1>1, <2>1, <2>2, <2>3, <2>4, <2>5 DEF Invoke
<1>2. ASSUME NEW c \in Calls, Progress(c) PROVE FlowsFresh' /\ TakesFresh
  <2>1. CASE EnterLock(c)
    BY <1>0, <2>1, FlowsKept DEF EnterLock, Goto, Pending, Exchanging
  <2>2. CASE EnterIframeLock(c)
    BY <1>o, <2>2 DEF EnterIframeLock
  <2>3. CASE Settle(c) /\ UNCHANGED <<minted, redeemed, tx>>
    BY <1>s, <2>3
  <2>4. CASE TakeCode(c)
    <3>1. /\ pc[c] = "answered" /\ reg[c].answer.flow = reg[c].flow /\ pc'[c] = "exchanging"
          /\ redeemed' = redeemed \cup {reg[c].flow}
          /\ UNCHANGED <<minted, tx, reg>> /\ \A d \in Calls \ {c} : pc'[d] = pc[d]
      BY <1>0, <2>4 DEF TakeCode, StateMatches, Goto
    <3>2. pc[c] \in Pending /\ pc'[c] \notin Pending
      BY <3>1 DEF Pending
    <3> QED
      BY <1>0, <3>1, <3>2 DEF FlowsFresh, TakesFresh, Took
  <2>5. CASE RejectError(c)
    BY <1>o, <1>s, <2>5 DEF RejectError, StepUp
  <2>6. CASE Redirect(c)
    <3>1. /\ pc[c] \in Pending /\ pc'[c] = "settled" /\ tx'.flow = reg[c].flow
          /\ UNCHANGED <<minted, redeemed>> /\ \A d \in Calls \ {c} : pc'[d] = pc[d] /\ reg'[d] = reg[d]
      BY <1>0, <2>6 DEF Redirect, Settle, Goto, Pending
    <3> QED
      BY <1>0, <3>1 DEF FlowsFresh, TakesFresh, Took, Pending
  <2> QED
    BY <1>2, <2>1, <2>2, <2>3, <2>4, <2>5, <2>6 DEF Progress, LockTimeout, IframeTimeout,
       PopupCancelled, PopupTimeout, RejectCode, ExchangeSucceeds, ExchangeFails,
       PrepareFails, CompleteAccount
<1>3. CASE World
  <2>1. ASSUME NEW m \in messages, Deliver(m) PROVE FlowsFresh' /\ TakesFresh
    <3>1. \A d \in Calls : reg'[d].flow = reg[d].flow
      BY <1>0, <2>1 DEF Deliver, AnyReg
    <3>2. \A d \in Calls : pc'[d] = pc[d] \/ (pc[d] = "listening" /\ pc'[d] = "answered")
      BY <1>0, <2>1 DEF Deliver, Listening
    <3> QED
      BY <2>1, <3>1, <3>2, FlowsKept DEF Deliver, Pending, Exchanging
  <2>2. CASE Unload
    <3>1. \A d \in Calls : pc'[d] \in {"idle", "settled", "gone"}
      BY <2>2 DEF Unload
    <3> QED
      BY <2>2, <3>1, FlowsKept DEF Unload, Pending, Exchanging
  <2>3. CASE UNCHANGED <<minted, redeemed, tx, pc, reg>>
    BY <2>3, FlowsKept
  <2> QED
    BY <1>3, <2>1, <2>2, <2>3 DEF World, IframeAnswers, PopupAnswers, WindowCloses,
       RedirectAnswers, Expire
<1>4. CASE UNCHANGED vars
  BY <1>4, FlowsKept DEF vars
<1> QED
  BY <1>1, <1>2, <1>3, <1>4 DEF Next

\* No code is taken to an exchange twice, by any number of listeners, flows,
\* visits of callback URLs and reloads.
THEOREM CodesTakenOnce == Spec => CodeOnce
<1>1. Init => FlowsFresh
  BY DEF Init, FlowsFresh, NoTx, Pending
<1>2. Shape /\ FlowsFresh /\ [Next]_vars => FlowsFresh' /\ TakesFresh
  BY FlowsStep
<1>3. TakesFresh => [\A c \in Calls : Took(c) => reg'[c].answer.flow \notin redeemed]_vars
  BY DEF TakesFresh
<1> QED
  BY <1>1, <1>2, <1>3, ShapeInvariant, PTL DEF Spec, CodeOnce
=============================================================================
