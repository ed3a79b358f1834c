-------------------------------- MODULE Mfa --------------------------------
(***************************************************************************)
(* Multi-factor authentication (mfa/): a grant that is answered with       *)
(* mfa_required leaves a context in the tab's MfaContextManager, keyed by  *)
(* the MFA token of the error, and the application completes the grant     *)
(* with verify. Contexts expire after a time to live.                      *)
(***************************************************************************)
EXTENDS Session

CONSTANTS
  Ttl,          \* DEFAULT_TTL_MS
  MaxMfaTokens  \* bound on the challenges of the server

ASSUME MfaAssumption == Ttl \in Nat /\ MaxMfaTokens \in Nat

VARIABLES
  contexts,   \* of each tab and MFA token: the request's key and when it was stored
  challenges  \* MFA tokens issued so far, in order (external): the user, the refresh
              \* token that was used up, the state, and whether another login or
              \* completion came between (history)

mfaVars == <<contexts, challenges>>

MfaTokens == 1 .. MaxMfaTokens

NoContext == [key |-> "none", createdAt |-> 0]

MfaInit ==
  /\ contexts = [t \in Tabs |-> [m \in MfaTokens |-> NoContext]]
  /\ challenges = <<>>

-----------------------------------------------------------------------------
(* MfaContextManager *)

Outdated(t, m) == contexts[t][m] # NoContext /\ now - contexts[t][m].createdAt > Ttl

\* set, with its cleanup.
SetContext(t, m, k) ==
  contexts' = [contexts EXCEPT ![t] =
    [n \in MfaTokens |-> IF n = m THEN [key |-> k, createdAt |-> now]
                         ELSE IF Outdated(t, n) THEN NoContext ELSE contexts[t][n]]]

\* get: an outdated context is deleted.
GetContext(t, m) == IF Outdated(t, m) THEN NoContext ELSE contexts[t][m]

DropOutdated(t, m) == contexts' = [contexts EXCEPT ![t][m] = GetContext(t, m)]

-----------------------------------------------------------------------------
(* The grants that can be challenged: those without a code *)

\* The entry a call would find now has another refresh token than the one sent.
Overtaken(c) == \E k \in Found(call[c].key) : entries[k].refresh_token # Exchanged(c)

\* mfa_required: a refresh token that was sent is used up all the same.
MfaRequired(c, user) ==
  LET m == Len(challenges) + 1
  IN  /\ call[c].pc = "sent" /\ call[c].kind \in Grants \cup {"delegate"}
      /\ m \in MfaTokens /\ Exchanged(c) \notin spent
      /\ challenges' = Append(challenges, [user |-> user, exchanged |-> Exchanged(c),
                                           state |-> "open", overtaken |-> Overtaken(c)])
      /\ spent' = spent \cup ({Exchanged(c)} \ {0})
      /\ IF CodeGrant(c) THEN UNCHANGED contexts ELSE SetContext(call[c].tab, m, call[c].key)
      /\ Settle(c)
      /\ UNCHANGED <<now, cache, minted, owner, history, past>>

\* getAuthenticators and getEnrollmentFactors look the context up; enroll and
\* challenge keep no state at all.
InspectChallenge(t, m) ==
  /\ Outdated(t, m)
  /\ DropOutdated(t, m)
  /\ UNCHANGED <<sessionVars, challenges>>

-----------------------------------------------------------------------------
(* verify and _requestTokenForMfa *)

\* The token of the entry is not looked up.
PreviousNone(k) == {0}

\* The refresh token of the entry that is found for a key, before the request.
Previous(k) ==
  IF Found(k) = {} THEN {0} ELSE {entries[j].refresh_token : j \in Found(k)}

MfaVerify(c, t, m) ==
  /\ m <= Len(challenges) /\ call[c].pc = "idle"
  /\ IF GetContext(t, m) = NoContext
     THEN Settle(c)
     ELSE \E rt \in Previous(contexts[t][m].key) :
            call' = [call EXCEPT ![c] = [IdleCall EXCEPT !.pc = "sent", !.kind = "verify", !.tab = t,
                       !.key = contexts[t][m].key, !.refresh_token = rt, !.mfa = m]]
  /\ DropOutdated(t, m)
  /\ UNCHANGED <<now, cache, server, history, past, challenges>>

\* The context is removed once the tokens are stored; the server accepts a
\* challenge once.
MfaVerified(c, tok) ==
  LET m == call[c].mfa
  IN  /\ call[c].kind = "verify" /\ challenges[m].state = "open"
      /\ TokenIssued(c, tok)
      /\ challenges' = [n \in DOMAIN challenges |->
           IF n = m THEN [challenges[n] EXCEPT !.state = IF Accepted(c, tok) THEN "completed" ELSE "wasted"]
           ELSE [challenges[n] EXCEPT !.overtaken = TRUE]]
      /\ contexts' = IF Accepted(c, tok) THEN [contexts EXCEPT ![call[c].tab][m] = NoContext] ELSE contexts

\* Tokens of the other methods; a login while a challenge is open is noted.
GrantIssued(c, tok) ==
  /\ call[c].kind # "verify"
  /\ TokenIssued(c, tok)
  /\ challenges' = [m \in DOMAIN challenges |->
                      [challenges[m] EXCEPT !.overtaken = @ \/ ~Renewal(c)]]
  /\ UNCHANGED contexts

MfaReload(t) ==
  /\ Reload(t)
  /\ contexts' = [contexts EXCEPT ![t] = [m \in MfaTokens |-> NoContext]]
  /\ UNCHANGED challenges

-----------------------------------------------------------------------------
(* Properties *)

\* A refresh refused with mfa_required has used up its refresh token; once the
\* challenge is completed no entry keeps it, lest "their next refresh trips
\* reuse detection" (Auth0Client.ts 2431-2435), unless a login or the completion of another
\* challenge came between.
MfaRotates ==
  \A m \in DOMAIN challenges :
    LET challenge == challenges[m]
    IN  challenge.state = "completed" /\ ~challenge.overtaken /\ challenge.exchanged # 0
        => \A k \in Keys : entries[k].refresh_token # challenge.exchanged
=============================================================================
