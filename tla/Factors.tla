------------------------------ MODULE Factors ------------------------------
(***************************************************************************)
(* The session with everything that can start or renew it: codes, refresh  *)
(* tokens, token exchanges, MFA completions and passkeys, in any order.    *)
(***************************************************************************)
EXTENDS Mfa, Passkey

vars == <<sessionVars, mfaVars, passkeyVars>>

Init == SessionInit /\ MfaInit /\ PasskeyInit

\* Tokens the server can answer with (external).
AnswersTo(c, user) ==
  {Sound(VerifyOptions(c), user, x, now) : x \in Ceilings \cup {Absent}}
  \cup Deviations(VerifyOptions(c), user, Absent, now)

SessionStep ==
  \/ \E t \in Tabs : GetUser(t) \/ Logout(t)
  \/ \E c \in Calls, t \in Tabs, k \in Keys :
       \/ CodeArrives(c, t, k) \/ GetTokenSilently(c, t, k)
       \/ LoginWithCustomTokenExchange(c, t, k) \/ CustomTokenExchange(c, t, k)
  \/ \E c \in Calls : EnterLock(c) \/ TokenDelegated(c) \/ RequestFails(c) \/ SessionRefused(c)
  \/ Tick

MfaStep ==
  \/ \E c \in Calls : \E user \in AnswerUsers(c) : MfaRequired(c, user)
  \/ \E t \in Tabs, m \in MfaTokens : InspectChallenge(t, m)
  \/ \E c \in Calls, t \in Tabs, m \in MfaTokens : MfaVerify(c, t, m)
  \/ \E c \in Calls : call[c].mfa # 0 /\
       \E tok \in AnswersTo(c, challenges[call[c].mfa].user) : MfaVerified(c, tok)
  \/ \E c \in Calls : \E user \in AnswerUsers(c) : \E tok \in AnswersTo(c, user) : GrantIssued(c, tok)

PasskeyStep ==
  \/ \E c \in Calls, t \in Tabs, k \in Keys :
       PasskeySignup(c, t, k) \/ PasskeyLogin(c, t, k) \/ GetTokenWithPasskey(c, t, k)
  \/ \E c \in Calls, t \in Tabs : ContinueSignup(c, t)
  \/ \E c \in Calls :
       ChallengeArrives(c) \/ VerificationRequired(c) \/ CredentialArrives(c) \/ PromptCancelled(c) \/ WrongCode(c)

Next ==
  \/ SessionStep /\ UNCHANGED <<mfaVars, passkeyVars>>
  \/ MfaStep /\ UNCHANGED passkeyVars
  \/ PasskeyStep /\ UNCHANGED mfaVars
  \/ \E t \in Tabs : MfaReload(t) /\ PasskeyReload(t)

Spec == Init /\ [][Next]_vars
=============================================================================
