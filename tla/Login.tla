------------------------------- MODULE Login -------------------------------
(***************************************************************************)
(* The flows that go through /authorize (Auth0Client.ts): popup login,     *)
(* silent authentication in an iframe under two locks, redirect login and  *)
(* account connection with their stored transaction, checkSession and      *)
(* logout, as overlapping calls in one page. All of them end in            *)
(* _requestToken, which stores one session in one cache.                   *)
(*                                                                         *)
(* A popup and an iframe answer by a message to the window, which every    *)
(* listener of the window receives (utils.ts); a flow is told apart by the *)
(* random state it minted, here a number. useRefreshTokens is off. A chain *)
(* that resumes runs to its next event: the cache is synchronous.          *)
(***************************************************************************)
EXTENDS Naturals, FiniteSets

CONSTANTS
  Calls,            \* invocations by the application
  Auds, NoAud,      \* audiences (with their scopes: cache keys)
  Users, NoUser,
  NoCall,           \* a lock nobody holds
  Interactive       \* interactiveErrorHandler: 'popup'

ASSUME ConstantsAssumption ==
  /\ Auds # {} /\ Users # {} /\ NoUser \notin Users /\ NoAud \notin Auds /\ NoCall \notin Calls
  /\ Interactive \in BOOLEAN

VARIABLES
  \* storage
  cache,        \* user of the access token cached for each audience
  idUser,       \* user of the cached id token
  cookie,       \* is.authenticated cookie
  tx,           \* the one stored transaction
  \* locks
  audLock, iframeLock,
  \* window
  windows,      \* popup and iframes that may still answer
  messages,     \* answers posted to the window, not yet delivered
  \* authorization server and browser history (external)
  minted,       \* flows started so far
  session,      \* user of the server's session
  authorizing,  \* redirects the user has still to answer
  responses,    \* callback URLs; the history can visit one again
  redeemed,     \* flows whose code was taken to an exchange
  \* calls
  pc, aud, reg

storage == <<cache, idUser, cookie>>
locks == <<audLock, iframeLock>>
window == <<windows, messages>>
server == <<session, authorizing, responses>>
vars == <<storage, tx, locks, window, minted, server, redeemed, pc, aud, reg>>

NoTx == [flow |-> 0, kind |-> "none", aud |-> NoAud]
NoAnswer == [flow |-> 0, what |-> "none", user |-> NoUser]

\* Local variables: the flow a call minted, where it listens, what it heard.
NoReg == [flow |-> 0, via |-> "none", answer |-> NoAnswer]

Init ==
  /\ cache = [a \in Auds |-> NoUser] /\ idUser = NoUser /\ cookie = FALSE
  /\ tx = NoTx
  /\ audLock = [a \in Auds |-> NoCall] /\ iframeLock = NoCall
  /\ windows = {} /\ messages = {}
  /\ minted = 0 /\ authorizing = {} /\ responses = {} /\ redeemed = {}
  /\ session \in Users \cup {NoUser}
  /\ pc = [c \in Calls |-> "idle"]
  /\ aud = [c \in Calls |-> NoAud]
  /\ reg = [c \in Calls |-> NoReg]

-----------------------------------------------------------------------------
(* Common parts *)

Goto(c, l) == pc' = [pc EXCEPT ![c] = l]

Listening == {c \in Calls : pc[c] = "listening"}

PopupWindows == {w \in windows : w.via = "popup"}

\* runWithLock releases on every way out.
Unlock(c) ==
  /\ audLock' = [a \in Auds |-> IF audLock[a] = c THEN NoCall ELSE audLock[a]]
  /\ iframeLock' = IF iframeLock = c THEN NoCall ELSE iframeLock

Settle(c) ==
  /\ Goto(c, "settled")
  /\ Unlock(c)
  /\ reg' = [reg EXCEPT ![c] = NoReg]

\* _clearLocalSession.
ClearLocalSession ==
  cache' = [a \in Auds |-> NoUser] /\ idUser' = NoUser /\ cookie' = FALSE

\* The page is left or reloaded: its promises, windows and locks are gone, and
\* a cache in memory too.
Unload ==
  /\ pc' = [c \in Calls |-> IF pc[c] \in {"idle", "settled"} THEN pc[c] ELSE "gone"]
  /\ reg' = [c \in Calls |-> NoReg]
  /\ audLock' = [a \in Auds |-> NoCall] /\ iframeLock' = NoCall
  /\ windows' = {} /\ messages' = {}
  /\ \/ UNCHANGED storage
     \/ cache' = [a \in Auds |-> NoUser] /\ idUser' = NoUser /\ UNCHANGED cookie
  /\ UNCHANGED <<tx, minted, server, redeemed, aud>>

\* _prepareAuthorizeUrl mints a state, and the flow's window is opened: an
\* iframe of its own, or the popup, whose name all popup flows share.
Open(c, via) ==
  LET w == [flow |-> minted + 1, via |-> via]
  IN /\ minted' = minted + 1
     /\ windows' = {w} \cup (IF via = "popup" THEN windows \ PopupWindows ELSE windows)
     /\ reg' = [reg EXCEPT ![c] = [NoReg EXCEPT !.flow = w.flow, !.via = via]]
     /\ Goto(c, "listening")
     /\ UNCHANGED messages

\* _requestToken without its check for another user.
SaveUnchecked(a, u) ==
  /\ cache' = [cache EXCEPT ![a] = u]
  /\ idUser' = u
  /\ cookie' = TRUE

\* _requestToken after a code exchange: another user's tokens are cleared, then
\* the id token, the entry and the cookie are saved.
Save(a, u) ==
  /\ cache' = [b \in Auds |-> IF b = a THEN u
                              ELSE IF idUser \in {u, NoUser} THEN cache[b] ELSE NoUser]
  /\ idUser' = u
  /\ cookie' = TRUE

-----------------------------------------------------------------------------
(* Silent authentication: getTokenSilently without refresh tokens *)

Cached(a) == cache[a] # NoUser /\ idUser # NoUser

\* cacheMode "on", "off" or "cache-only".
GetTokenSilently(c, a) ==
  /\ pc[c] = "idle"
  /\ aud' = [aud EXCEPT ![c] = a]
  /\ \/ Goto(c, IF Cached(a) THEN "settled" ELSE "lockWait")
     \/ Goto(c, "lockWaitOff")
     \/ Goto(c, "settled")
  /\ UNCHANGED <<storage, tx, locks, window, minted, server, redeemed, reg>>

\* checkSession asks for a token only if the cookie says there was a session.
CheckSession(c, a) ==
  /\ pc[c] = "idle"
  /\ aud' = [aud EXCEPT ![c] = a]
  /\ Goto(c, IF ~cookie \/ Cached(a) THEN "settled" ELSE "lockWait")
  /\ UNCHANGED <<storage, tx, locks, window, minted, server, redeemed, reg>>

\* The lock of the audience, and the second look into the cache.
EnterLock(c) ==
  /\ pc[c] \in {"lockWait", "lockWaitOff"}
  /\ audLock[aud[c]] = NoCall
  /\ IF pc[c] = "lockWait" /\ Cached(aud[c])
     THEN Goto(c, "settled") /\ UNCHANGED audLock
     ELSE Goto(c, "iframeWait") /\ audLock' = [audLock EXCEPT ![aud[c]] = c]
  /\ UNCHANGED <<storage, tx, iframeLock, window, minted, server, redeemed, aud, reg>>

\* Only the lock of the audience.
EnterIframeLockUnguarded(c) ==
  /\ pc[c] = "iframeWait"
  /\ iframeLock' = c
  /\ Open(c, "iframe")
  /\ UNCHANGED <<storage, tx, audLock, server, redeemed, aud>>

\* _getTokenFromIFrame: the client's iframe lock, then runIframe.
EnterIframeLock(c) ==
  /\ pc[c] = "iframeWait"
  /\ iframeLock = NoCall
  /\ iframeLock' = c
  /\ Open(c, "iframe")
  /\ UNCHANGED <<storage, tx, audLock, server, redeemed, aud>>

\* Only the lock of the audience is waited for with a timeout.
LockTimeoutFirstOnly(c) ==
  /\ pc[c] \in {"lockWait", "lockWaitOff"} /\ audLock[aud[c]] # NoCall
  /\ Settle(c)
  /\ UNCHANGED <<storage, tx, window, minted, server, redeemed, aud>>

\* One of the two locks was held too long.
LockTimeout(c) ==
  /\ \/ pc[c] \in {"lockWait", "lockWaitOff"} /\ audLock[aud[c]] # NoCall
     \/ pc[c] = "iframeWait" /\ iframeLock # NoCall
  /\ Settle(c)
  /\ UNCHANGED <<storage, tx, window, minted, server, redeemed, aud>>

\* runIframe's timer: reject, and remove the iframe at once.
IframeTimeout(c) ==
  /\ c \in Listening /\ reg[c].via = "iframe"
  /\ windows' = {w \in windows : w.flow # reg[c].flow}
  /\ Settle(c)
  /\ UNCHANGED <<storage, tx, messages, minted, server, redeemed, aud>>

-----------------------------------------------------------------------------
(* Popup *)

\* loginWithPopup, getTokenWithPopup; the browser may block the popup.
LoginWithPopup(c, a) ==
  /\ pc[c] = "idle"
  /\ aud' = [aud EXCEPT ![c] = a]
  /\ \/ Open(c, "popup")
     \/ Goto(c, "settled") /\ UNCHANGED <<window, minted, reg>>
  /\ UNCHANGED <<storage, tx, locks, server, redeemed>>

\* runPopup's poll finds the popup closed.
PopupCancelled(c) ==
  /\ c \in Listening /\ reg[c].via = "popup"
  /\ PopupWindows = {}
  /\ Settle(c)
  /\ UNCHANGED <<storage, tx, window, minted, server, redeemed, aud>>

\* runPopup's timer: the popup stays open.
PopupTimeout(c) ==
  /\ c \in Listening /\ reg[c].via = "popup"
  /\ Settle(c)
  /\ UNCHANGED <<storage, tx, window, minted, server, redeemed, aud>>

-----------------------------------------------------------------------------
(* The window's message event *)

\* Every listener takes the answer and stops listening; a popup's listener
\* closes the popup, unless closePopup is false.
Deliver(m) ==
  /\ m \in messages
  /\ messages' = messages \ {m}
  /\ \/ UNCHANGED windows
     \/ /\ \E c \in Listening : reg[c].via = "popup"
        /\ windows' = windows \ PopupWindows
  /\ pc' = [c \in Calls |-> IF c \in Listening THEN "answered" ELSE pc[c]]
  /\ reg' = [c \in Calls |-> IF c \in Listening THEN [reg[c] EXCEPT !.answer = m] ELSE reg[c]]
  /\ UNCHANGED <<storage, tx, locks, minted, server, redeemed, aud>>

\* No comparison of states.
StateMatchesAny(c) == TRUE

\* params.state === codeResult.state.
StateMatches(c) == reg[c].answer.flow = reg[c].flow

\* response.error is not set.
IsCode(m) == m.what = "code"

\* The code goes to _requestToken, with the flow's verifier and nonce.
TakeCode(c) ==
  /\ pc[c] = "answered"
  /\ IsCode(reg[c].answer) /\ StateMatches(c)
  /\ redeemed' = redeemed \cup {reg[c].answer.flow}
  /\ Goto(c, "exchanging")
  /\ UNCHANGED <<storage, tx, locks, window, minted, server, aud, reg>>

\* state_mismatch.
RejectCode(c) ==
  /\ pc[c] = "answered"
  /\ IsCode(reg[c].answer) /\ ~StateMatches(c)
  /\ Settle(c)
  /\ UNCHANGED <<storage, tx, window, minted, server, redeemed, aud>>

\* A step-up popup opened inside the lock's callback.
StepUpLocked(c) == Open(c, "popup") /\ UNCHANGED <<storage, locks>>

\* _handleInteractiveErrorWithPopup: the locks are released, the popup opened or
\* blocked.
StepUp(c) ==
  /\ \/ Open(c, "popup") /\ Unlock(c)
     \/ Settle(c) /\ UNCHANGED <<window, minted>>
  /\ UNCHANGED storage

\* _isInteractiveError: login_required with the description of an MFA step-up.
IsInteractiveError(answer) == answer.what = "mfa"

\* The error reaches the caller. login_required in the iframe flow logs out
\* locally, unless it asks for MFA and the popup handles that.
RejectError(c) ==
  /\ pc[c] = "answered"
  /\ ~IsCode(reg[c].answer)
  /\ IF reg[c].via = "iframe" /\ IsInteractiveError(reg[c].answer) /\ Interactive
     THEN StepUp(c)
     ELSE /\ IF reg[c].via = "iframe" /\ reg[c].answer.what \in {"login_required", "mfa"}
             THEN ClearLocalSession ELSE UNCHANGED storage
          /\ Settle(c)
          /\ UNCHANGED <<window, minted>>
  /\ UNCHANGED <<tx, server, redeemed, aud>>

\* The token endpoint answers; the caller of a popup or an iframe finds the
\* token just saved.
ExchangeSucceeds(c) ==
  /\ pc[c] = "exchanging"
  /\ Save(aud[c], reg[c].answer.user)
  /\ Settle(c)
  /\ UNCHANGED <<tx, window, minted, server, redeemed, aud>>

ExchangeFails(c) ==
  /\ pc[c] = "exchanging"
  /\ Settle(c)
  /\ UNCHANGED <<storage, tx, window, minted, server, redeemed, aud>>

-----------------------------------------------------------------------------
(* Redirect *)

\* loginWithRedirect and connectAccountWithRedirect up to their last await.
PrepareRedirect(c, a, kind) ==
  /\ pc[c] = "idle"
  /\ aud' = [aud EXCEPT ![c] = a]
  /\ minted' = minted + 1
  /\ reg' = [reg EXCEPT ![c] = [NoReg EXCEPT !.flow = minted + 1, !.via = kind]]
  /\ Goto(c, "preparing")
  /\ UNCHANGED <<storage, tx, locks, window, server, redeemed>>

\* The transaction is stored over any other, and the URL opened; when that
\* leaves the page, chains still run until Unload.
Redirect(c) ==
  /\ pc[c] = "preparing"
  /\ tx' = [flow |-> reg[c].flow, kind |-> reg[c].via, aud |-> aud[c]]
  /\ authorizing' = authorizing \cup {[flow |-> reg[c].flow, kind |-> reg[c].via]}
  /\ Settle(c)
  /\ UNCHANGED <<storage, window, minted, session, responses, redeemed, aud>>

\* connectAccount (or a transfer token) is refused.
PrepareFails(c) ==
  /\ pc[c] = "preparing"
  /\ Settle(c)
  /\ UNCHANGED <<storage, tx, window, minted, server, redeemed, aud>>

\* What the handlers of the two kinds accept.
Accepted(r) ==
  r.what = (IF tx.kind = "login" THEN "code" ELSE "connect_code") /\ r.flow = tx.flow

\* The transaction stays stored.
HandleRedirectCallbackKeeping(c, r) ==
  /\ pc[c] = "idle"
  /\ tx # NoTx
  /\ tx' = tx
  /\ aud' = [aud EXCEPT ![c] = tx.aud]
  /\ IF Accepted(r)
     THEN /\ reg' = [reg EXCEPT ![c] = [flow |-> tx.flow, via |-> tx.kind, answer |-> r]]
          /\ redeemed' = redeemed \cup {r.flow}
          /\ Goto(c, IF tx.kind = "login" THEN "exchanging" ELSE "completing")
     ELSE Goto(c, "settled") /\ UNCHANGED <<reg, redeemed>>
  /\ UNCHANGED <<storage, locks, window, minted, server>>

\* handleRedirectCallback for a callback URL, possibly an old one: there must
\* be a transaction, which is removed first.
HandleRedirectCallback(c, r) ==
  /\ pc[c] = "idle"
  /\ tx' = NoTx
  /\ aud' = [aud EXCEPT ![c] = tx.aud]
  /\ IF tx # NoTx /\ Accepted(r)
     THEN /\ reg' = [reg EXCEPT ![c] = [flow |-> tx.flow, via |-> tx.kind, answer |-> r]]
          /\ redeemed' = redeemed \cup {r.flow}
          /\ Goto(c, IF tx.kind = "login" THEN "exchanging" ELSE "completing")
     ELSE Goto(c, "settled") /\ UNCHANGED <<reg, redeemed>>
  /\ UNCHANGED <<storage, locks, window, minted, server>>

\* completeAccount ends, either way.
CompleteAccount(c) ==
  /\ pc[c] = "completing"
  /\ Settle(c)
  /\ UNCHANGED <<storage, tx, window, minted, server, redeemed, aud>>

\* logout: at the server too, or locally with openUrl: false.
Logout(c) ==
  /\ pc[c] = "idle"
  /\ ClearLocalSession
  /\ Goto(c, "settled")
  /\ session' \in {session, NoUser}
  /\ UNCHANGED <<tx, locks, window, minted, authorizing, responses, redeemed, aud, reg>>

-----------------------------------------------------------------------------
(* Server, user and time (external) *)

\* prompt=none: the server's session decides; a lost frame never answers.
IframeAnswers(w) ==
  /\ w \in windows /\ w.via = "iframe"
  /\ windows' = windows \ {w}
  /\ \E what \in IF session = NoUser THEN {"login_required"} ELSE {"code", "mfa"} :
       messages' = messages \cup {[flow |-> w.flow, what |-> what, user |-> session]}
  /\ UNCHANGED <<storage, tx, locks, minted, server, redeemed, pc, aud, reg>>

\* Someone logs in in the popup, or the server refuses.
PopupAnswers(w) ==
  /\ w \in PopupWindows
  /\ windows' = windows \ {w}
  /\ \/ \E u \in Users : /\ session' = u
                         /\ messages' = messages \cup {[flow |-> w.flow, what |-> "code", user |-> u]}
     \/ /\ messages' = messages \cup {[flow |-> w.flow, what |-> "error", user |-> NoUser]}
        /\ UNCHANGED session
  /\ UNCHANGED <<storage, tx, locks, minted, authorizing, responses, redeemed, pc, aud, reg>>

\* The user closes the popup, or the page removes an iframe nobody awaits.
WindowCloses(w) ==
  /\ w \in windows
  /\ w.via = "iframe" => ~\E c \in Listening : reg[c].flow = w.flow
  /\ windows' = windows \ {w}
  /\ UNCHANGED <<storage, tx, locks, messages, minted, server, redeemed, pc, aud, reg>>

RedirectAnswers(p) ==
  /\ p \in authorizing
  /\ authorizing' = authorizing \ {p}
  /\ \/ \E u \in Users :
          /\ session' = u
          /\ responses' = responses \cup
               {[flow |-> p.flow, what |-> IF p.kind = "login" THEN "code" ELSE "connect_code",
                 user |-> u]}
     \/ /\ responses' = responses \cup {[flow |-> p.flow, what |-> "error", user |-> NoUser]}
        /\ UNCHANGED session
  /\ UNCHANGED <<storage, tx, locks, window, minted, redeemed, pc, aud, reg>>

\* CacheManager.get removes an expired entry, as it has no refresh token.
Expire(a) ==
  /\ cache[a] # NoUser
  /\ cache' = [cache EXCEPT ![a] = NoUser]
  /\ UNCHANGED <<idUser, cookie, tx, locks, window, minted, server, redeemed, pc, aud, reg>>

-----------------------------------------------------------------------------
Invoke(c) ==
  \/ \E a \in Auds :
       \/ GetTokenSilently(c, a) \/ CheckSession(c, a) \/ LoginWithPopup(c, a)
       \/ \E kind \in {"login", "connect"} : PrepareRedirect(c, a, kind)
  \/ \E r \in responses : HandleRedirectCallback(c, r)
  \/ Logout(c)

Progress(c) ==
  \/ EnterLock(c) \/ LockTimeout(c) \/ EnterIframeLock(c)
  \/ IframeTimeout(c) \/ PopupCancelled(c) \/ PopupTimeout(c)
  \/ TakeCode(c) \/ RejectCode(c) \/ RejectError(c)
  \/ ExchangeSucceeds(c) \/ ExchangeFails(c)
  \/ Redirect(c) \/ PrepareFails(c) \/ CompleteAccount(c)

World ==
  \/ \E w \in windows : IframeAnswers(w) \/ PopupAnswers(w) \/ WindowCloses(w)
  \/ \E m \in messages : Deliver(m)
  \/ \E p \in authorizing : RedirectAnswers(p)
  \/ \E a \in Auds : Expire(a)
  \/ Unload

Next == (\E c \in Calls : Invoke(c) \/ Progress(c)) \/ World

Spec == Init /\ [][Next]_vars

-----------------------------------------------------------------------------
(* Properties *)

\* A call takes to the token endpoint only the code of the flow it started
\* itself, although every listener hears every message, late ones too, and old
\* callback URLs can be visited again (Auth0Client.ts 669, 856, 1542).
OwnCode ==
  \A c \in Calls : pc[c] \in {"exchanging", "completing"} => reg[c].answer.flow = reg[c].flow

Took(c) == pc[c] \notin {"exchanging", "completing"} /\ pc'[c] \in {"exchanging", "completing"}

\* No code is taken to an exchange twice: neither by two listeners of one
\* message nor by two visits of a callback URL (Auth0Client.ts 801-809).
CodeOnce == [][\A c \in Calls : Took(c) => reg'[c].answer.flow \notin redeemed]_vars

\* "clear the cache to prevent tokens from multiple users coexisting"
\* (Auth0Client.ts 1944): all cached tokens belong to the id token's user,
\* whatever logins and silent authentications overlap.
OneUser == \A a \in Auds : cache[a] \in {idUser, NoUser}

\* Locks are held during silent authentication only: no popup is ever open on
\* behalf of a call that holds one ("Lock is already released - safe to open
\* popup", Auth0Client.ts 1170).
LocksWhileSilent ==
  \A c \in Calls : c \in {audLock[a] : a \in Auds} \cup {iframeLock} =>
    pc[c] = "iframeWait" \/ reg[c].via = "iframe"

\* At most one silent authentication of the page is between the start of its
\* iframe and the save of its session (Auth0Client.ts 1472-1481).
OneIframe ==
  \A c, d \in Calls : reg[c].via = "iframe" /\ reg[d].via = "iframe" => c = d

\* No call is ever stuck, whatever it waits for: a lock held by a call that
\* itself waits for the other lock, a popup nobody answers, an iframe that never
\* loads (lock.ts 35, utils.ts 54, 111).
NoneStuck ==
  \A c \in Calls : pc[c] \notin {"idle", "settled", "gone"} => ENABLED Progress(c)
=============================================================================
