------------------------------ MODULE Passkey ------------------------------
(***************************************************************************)
(* Passkeys (passkey/PasskeyApiClient.ts and _requestTokenForPasskey of    *)
(* Auth0Client.ts): sign-up and login with a WebAuthn prompt between two   *)
(* requests. A sign-up whose e-mail or phone must be verified is kept as   *)
(* the tab's pending sign-up, which continueSignup takes up. A call's      *)
(* auth_session is the server's name of its attempt, signup the number of  *)
(* the sign-up it belongs to.                                              *)
(***************************************************************************)
EXTENDS Session

CONSTANT MaxSessions   \* bound on the authentication sessions of the server

ASSUME PasskeyAssumption == MaxSessions \in Nat

VARIABLES
  pending,    \* the pending sign-up of each tab
  sessions,   \* authentication sessions started so far (external)
  created     \* history: for each sign-up, the passkeys created for it

passkeyVars == <<pending, sessions, created>>

NoSignup == [auth_session |-> 0, signup |-> 0, key |-> "none", credential |-> FALSE]

PasskeyInit ==
  /\ pending = [t \in Tabs |-> NoSignup]
  /\ sessions = 0
  /\ created = [s \in 1 .. MaxSessions |-> 0]

SetPending(t, signup) == pending' = [pending EXCEPT ![t] = signup]

unchangedSession == <<now, cache, server, history, past>>

-----------------------------------------------------------------------------
(* signup, login and getTokenWithPasskey *)

PasskeySignup(c, t, k) ==
  /\ Start(c, t, "signup", k)
  /\ SetPending(t, NoSignup)
  /\ UNCHANGED <<unchangedSession, sessions, created>>

PasskeyLogin(c, t, k) ==
  /\ Start(c, t, "passkey", k)
  /\ UNCHANGED <<unchangedSession, passkeyVars>>

AwaitsChallenge(c) == call[c].pc = "sent" /\ call[c].kind \in {"signup", "passkey"}

\* The challenge arrives and the browser prompts.
ChallengeArrives(c) ==
  /\ AwaitsChallenge(c) /\ sessions < MaxSessions
  /\ sessions' = sessions + 1
  /\ call' = [call EXCEPT ![c].pc = "prompt", ![c].signup = sessions + 1]
  /\ UNCHANGED <<unchangedSession, pending, created>>

\* verificationRequired: the sign-up is kept and PasskeyVerificationRequiredError thrown.
VerificationRequired(c) ==
  /\ AwaitsChallenge(c) /\ call[c].kind = "signup" /\ sessions < MaxSessions
  /\ sessions' = sessions + 1
  /\ SetPending(call[c].tab, [auth_session |-> sessions + 1, signup |-> sessions + 1,
                              key |-> call[c].key, credential |-> FALSE])
  /\ Settle(c)
  /\ UNCHANGED <<unchangedSession, created>>

\* A credential for a challenge the application got with getSignupChallenge or
\* getLoginChallenge, which keep nothing, and prompted for itself.
GetTokenWithPasskey(c, t, k) ==
  /\ Start(c, t, "webauthn", k)
  /\ UNCHANGED <<unchangedSession, passkeyVars>>

-----------------------------------------------------------------------------
(* continueSignup *)

\* A code for each identifier is there; a call without one fails and keeps all.
ContinueWith(c, t) ==
  /\ call[c].pc = "idle" /\ pending[t] # NoSignup
  /\ call' = [call EXCEPT ![c] = [IdleCall EXCEPT !.pc = IF pending[t].credential THEN "sent" ELSE "prompt",
                !.kind = "continueSignup", !.tab = t, !.key = pending[t].key,
                !.auth_session = pending[t].auth_session, !.signup = pending[t].signup,
                !.credential = pending[t].credential]]

\* The pending sign-up is cleared only when the call is done.
ContinueSignupKeeps(c, t) ==
  /\ ContinueWith(c, t)
  /\ UNCHANGED <<unchangedSession, passkeyVars>>

\* The pending sign-up is cleared before the prompt.
ContinueSignup(c, t) ==
  /\ ContinueWith(c, t)
  /\ SetPending(t, NoSignup)
  /\ UNCHANGED <<unchangedSession, sessions, created>>

\* navigator.credentials.create or get answers and _requestTokenForPasskey is
\* called, which continueSignup follows up.
CredentialArrives(c) ==
  /\ call[c].pc = "prompt"
  /\ call' = [call EXCEPT ![c] =
       IF call[c].kind = "continueSignup" THEN [@ EXCEPT !.pc = "sent", !.credential = TRUE]
       ELSE [IdleCall EXCEPT !.pc = "sent", !.kind = "webauthn", !.tab = call[c].tab, !.key = call[c].key]]
  /\ created' = IF call[c].kind = "passkey" THEN created
                ELSE [created EXCEPT ![call[c].signup] = @ + 1]
  /\ UNCHANGED <<unchangedSession, pending, sessions>>

\* It throws or returns null: continueSignup restores what it took.
PromptCancelled(c) ==
  /\ call[c].pc = "prompt"
  /\ IF call[c].kind = "continueSignup"
     THEN SetPending(call[c].tab, [auth_session |-> call[c].auth_session, signup |-> call[c].signup,
                                   key |-> call[c].key, credential |-> FALSE])
     ELSE UNCHANGED pending
  /\ Settle(c)
  /\ UNCHANGED <<unchangedSession, sessions, created>>

\* A wrong code: the server starts another authentication session, under which
\* the sign-up stays pending with its credential.
WrongCode(c) ==
  /\ call[c].pc = "sent" /\ call[c].kind = "continueSignup" /\ sessions < MaxSessions
  /\ sessions' = sessions + 1
  /\ SetPending(call[c].tab, [auth_session |-> sessions + 1, signup |-> call[c].signup,
                              key |-> call[c].key, credential |-> call[c].credential])
  /\ Settle(c)
  /\ UNCHANGED <<unchangedSession, created>>

PasskeyReload(t) ==
  /\ Reload(t)
  /\ SetPending(t, NoSignup)
  /\ UNCHANGED <<sessions, created>>

-----------------------------------------------------------------------------
(* Properties *)

Continues(c) == call[c].kind = "continueSignup" /\ call[c].pc \in {"prompt", "sent"}

\* "Clear before any await so a concurrent call can't reuse the same session",
\* and a retry after a wrong code is "without a second biometric prompt"
\* (PasskeyApiClient.ts 333, 44): no two calls continue one authentication
\* session, and no sign-up creates two passkeys, over cancelled prompts, wrong
\* codes, new sign-ups and reloads.
SignupOnce ==
  /\ \A c, d \in Calls : Continues(c) /\ Continues(d) /\ call[c].auth_session = call[d].auth_session => c = d
  /\ \A s \in DOMAIN created : created[s] <= 1
=============================================================================
