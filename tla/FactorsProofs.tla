--------------------------- MODULE FactorsProofs ---------------------------
(***************************************************************************)
(* The session under everything that can start or renew it, for every      *)
(* number of calls, tabs, users and keys, and whatever the limits on MFA   *)
(* challenges and sign-ups: whose tokens are in the cache, which ceiling   *)
(* applies, who continues a sign-up, and where a refresh token stays that  *)
(* a challenge has used up.                                                *)
(***************************************************************************)
EXTENDS Factors, TLAPS

Subs == Users \cup {"none"}

Kinds == {"none", "login", "silent", "exchange", "delegate", "verify", "webauthn", "continueSignup",
          "signup", "passkey"}

Call ==
  [pc : {"idle", "lockWait", "sent", "prompt", "settled"}, kind : Kinds, tab : Tabs \cup {"none"},
   key : Keys \cup {"none"}, refresh_token : Nat, mfa : Nat, auth_session : Nat,
   signup : Nat, credential : BOOLEAN]

Token == [sub : Subs, refresh_token : Nat]

Challenge == [user : Subs, exchanged : Nat, state : {"open", "completed", "wasted"}, overtaken : BOOLEAN]

\* A call that waits for something knows its tab and its key.
Waits(r) ==
  /\ r.pc \in {"lockWait", "sent", "prompt"} => r.tab \in Tabs /\ r.key \in Keys
  /\ r.pc = "lockWait" => r.kind = "silent"
  /\ r.pc = "prompt" => r.kind \in {"signup", "passkey", "continueSignup"}

Placed == \A c \in Calls : Waits(call[c])

\* A completion under way is that of a challenge.
Challenged == \A c \in Calls : call[c].pc = "sent" /\ call[c].kind = "verify" =>
                                 call[c].mfa \in DOMAIN challenges

Typed ==
  /\ now \in Nat
  /\ DOMAIN userCache = Tabs
  /\ entries \in [Keys -> Token]
  /\ call \in [Calls -> Call] /\ Placed
  /\ minted \in Nat
  /\ contexts \in [Tabs -> [MfaTokens -> [key : Keys \cup {"none"}, createdAt : Nat]]]
  /\ challenges \in Seq(Challenge)
  /\ pending \in [Tabs -> [auth_session : Nat, signup : Nat, key : Keys \cup {"none"}, credential : BOOLEAN]]
  /\ \A t \in Tabs : pending[t] # NoSignup => pending[t].key \in Keys
  /\ \A t \in Tabs, m \in MfaTokens : contexts[t][m] # NoContext => contexts[t][m].key \in Keys
  /\ sessions \in Nat /\ created \in [1 .. MaxSessions -> Nat]
  /\ Challenged

-----------------------------------------------------------------------------
(* Types *)

\* The fixed records.
LEMMA BlankTyped ==
  /\ IdleCall \in Call /\ SettledCall \in Call /\ NoTokens \in [Keys -> Token]
  /\ SettledCall.pc = "settled" /\ SettledCall.kind = "none" /\ IdleCall.pc = "idle" /\ IdleCall.kind = "none"
  /\ SettledCall.refresh_token = 0 /\ IdleCall.refresh_token = 0
BY DEF IdleCall, SettledCall, Call, NoTokens, Token, Subs, Kinds

\* The lock settles a call or leaves it what it was.
LEMMA EnterLockDoes ==
  ASSUME call \in [Calls -> Call], NEW c \in Calls, EnterLock(c)
  PROVE  call[c].pc = "lockWait" /\ (call'[c] = SettledCall \/ call'[c].kind = call[c].kind)
<1>1. ASSUME Settle(c) PROVE call'[c] = SettledCall
  BY <1>1 DEF Settle
<1>2. ASSUME call' = [call EXCEPT ![c].pc = "sent"] PROVE call'[c].kind = call[c].kind
  BY <1>2 DEF Call
<1>3. ASSUME NEW rt, call' = [call EXCEPT ![c].pc = "sent", ![c].refresh_token = rt]
      PROVE  call'[c].kind = call[c].kind
  BY <1>3 DEF Call
<1> QED
  BY <1>1, <1>2, <1>3 DEF EnterLock

\* The server answers for the user it was asked about, if with a user at all.
LEMMA AnswerUser ==
  ASSUME NEW c, NEW user, NEW tok \in AnswersTo(c, user)
  PROVE  tok.sub \in {user, "none"}
BY DEF AnswersTo, Sound, Deviations

\* Initially everything is empty.
LEMMA InitTyped == Init => Typed
BY BlankTyped, PasskeyAssumption
   DEF Init, SessionInit, MfaInit, PasskeyInit, Typed, Placed, Waits, Challenged, NoContext, NoSignup

CallsTyped == call \in [Calls -> Call] /\ Placed

\* One call moves on.
LEMMA PutCall ==
  ASSUME CallsTyped, NEW c \in Calls, NEW r \in Call, call' = [call EXCEPT ![c] = r], Waits(r)
  PROVE  /\ CallsTyped' /\ call'[c] = r
         /\ \A d \in Calls \ {c} : call'[d] = call[d]
BY DEF CallsTyped, Placed

\* A call begins.
LEMMA StartTyped ==
  ASSUME CallsTyped, NEW c \in Calls, NEW t \in Tabs, NEW k \in Keys, NEW kind \in Kinds, Start(c, t, kind, k)
  PROVE  CallsTyped'
<1> DEFINE r == [IdleCall EXCEPT !.pc = "sent", !.kind = kind, !.tab = t, !.key = k]
<1>1. r \in Call /\ r.tab = t /\ r.key = k /\ Waits(r)
  BY DEF IdleCall, Call, Subs, Waits
<1> QED
  BY <1>1, PutCall DEF Start

\* A call ends.
LEMMA SettleTyped ==
  ASSUME CallsTyped, NEW c \in Calls, Settle(c)
  PROVE  CallsTyped'
<1>1. Waits(SettledCall)
  BY BlankTyped DEF Waits
<1> QED
  BY <1>1, BlankTyped, PutCall DEF Settle

\* The steps of a silent call.
LEMMA SilentTyped ==
  ASSUME Typed, NEW c \in Calls
  PROVE  /\ \A t \in Tabs, k \in Keys : GetTokenSilently(c, t, k) => CallsTyped'
         /\ EnterLock(c) => CallsTyped'
<1>0. CallsTyped
  BY DEF Typed, CallsTyped
<1>1. ASSUME NEW t \in Tabs, NEW k \in Keys, GetTokenSilently(c, t, k) PROVE CallsTyped'
  <2> DEFINE r == [IdleCall EXCEPT !.pc = "lockWait", !.kind = "silent", !.tab = t, !.key = k]
  <2>1. r \in Call /\ r.tab = t /\ r.key = k /\ Waits(r)
    BY DEF IdleCall, Call, Subs, Kinds, Waits
  <2>2. CASE call' = [call EXCEPT ![c] = r]
    BY <1>0, <2>1, <2>2, PutCall
  <2> QED
    BY <1>0, <1>1, <2>2, SettleTyped DEF GetTokenSilently
<1>2. ASSUME EnterLock(c) PROVE CallsTyped'
  <2>1. call[c] \in Call /\ call[c].pc = "lockWait" /\ call[c].tab \in Tabs /\ call[c].key \in Keys
    BY <1>0, <1>2 DEF EnterLock, CallsTyped, Placed, Waits
  <2>2. CASE call' = [call EXCEPT ![c].pc = "sent"]
    <3> DEFINE r == [call[c] EXCEPT !.pc = "sent"]
    <3>1. r \in Call /\ r.tab = call[c].tab /\ r.key = call[c].key /\ Waits(r)
      BY <2>1 DEF Call, Waits
    <3>2. call' = [call EXCEPT ![c] = r]
      BY <1>0, <2>2 DEF CallsTyped
    <3> QED
      BY <1>0, <2>1, <3>1, <3>2, PutCall
  <2>3. ASSUME NEW k \in Found(call[c].key),
               call' = [call EXCEPT ![c].pc = "sent", ![c].refresh_token = entries[k].refresh_token]
        PROVE  CallsTyped'
    <3> DEFINE r == [call[c] EXCEPT !.pc = "sent", !.refresh_token = entries[k].refresh_token]
    <3>1. entries[k] \in Token
      BY DEF Typed, Found
    <3>2. r \in Call /\ r.tab = call[c].tab /\ r.key = call[c].key /\ Waits(r)
      BY <2>1, <3>1 DEF Call, Token, Waits
    <3>3. call' = [call EXCEPT ![c] = r]
      BY <1>0, <2>3 DEF CallsTyped
    <3> QED
      BY <1>0, <2>1, <3>2, <3>3, PutCall
  <2> QED
    BY <1>0, <1>2, <2>2, <2>3, SettleTyped DEF EnterLock
<1> QED
  BY <1>1, <1>2

\* The step that begins the completion of a challenge.
LEMMA VerifyTyped ==
  ASSUME Typed, NEW c \in Calls, NEW t \in Tabs, NEW m \in MfaTokens, MfaVerify(c, t, m)
  PROVE  CallsTyped'
<1>0. CallsTyped /\ m \in Nat
  BY DEF Typed, CallsTyped, MfaTokens
<1>1. CASE Settle(c)
  BY <1>0, <1>1, SettleTyped
<1>2. ASSUME GetContext(t, m) # NoContext, NEW rt \in Previous(contexts[t][m].key),
             call' = [call EXCEPT ![c] = [IdleCall EXCEPT !.pc = "sent", !.kind = "verify", !.tab = t,
                       !.key = contexts[t][m].key, !.refresh_token = rt, !.mfa = m]]
      PROVE  CallsTyped'
  <2>1. contexts[t][m].key \in Keys
    BY <1>2 DEF Typed, GetContext
  <2>2. rt \in Nat
    BY DEF Previous, Found, Typed, Token
  <2> DEFINE r == [IdleCall EXCEPT !.pc = "sent", !.kind = "verify", !.tab = t,
                     !.key = contexts[t][m].key, !.refresh_token = rt, !.mfa = m]
  <2>3. r \in Call /\ r.tab = t /\ r.key = contexts[t][m].key /\ Waits(r)
    BY <1>0, <2>1, <2>2 DEF IdleCall, Call, Subs, Kinds, Waits
  <2> QED
    BY <1>0, <1>2, <2>1, <2>3, PutCall
<1> QED
  BY <1>1, <1>2 DEF MfaVerify

\* The steps of a call that prompts.
LEMMA PromptTyped ==
  ASSUME Typed, NEW c \in Calls
  PROVE  /\ ChallengeArrives(c) => CallsTyped'
         /\ CredentialArrives(c) => CallsTyped'
         /\ \A t \in Tabs : ContinueWith(c, t) => CallsTyped'
<1>0. CallsTyped /\ call[c] \in Call /\ sessions + 1 \in Nat
  BY DEF Typed, CallsTyped
<1>1. ASSUME ChallengeArrives(c) PROVE CallsTyped'
  <2> DEFINE r == [call[c] EXCEPT !.pc = "prompt", !.signup = sessions + 1]
  <2>0. call[c].tab \in Tabs /\ call[c].key \in Keys /\ call[c].kind \in {"signup", "passkey"}
    BY <1>0, <1>1 DEF CallsTyped, Placed, Waits, ChallengeArrives, AwaitsChallenge
  <2>1. r \in Call /\ Waits(r)
    BY <1>0, <2>0 DEF Call, Waits
  <2>2. call' = [call EXCEPT ![c] = r]
    BY <1>0, <1>1 DEF CallsTyped, ChallengeArrives
  <2> QED
    BY <1>0, <2>1, <2>2, PutCall
<1>2. ASSUME CredentialArrives(c) PROVE CallsTyped'
  <2> DEFINE r == IF call[c].kind = "continueSignup" THEN [call[c] EXCEPT !.pc = "sent", !.credential = TRUE]
                  ELSE [IdleCall EXCEPT !.pc = "sent", !.kind = "webauthn", !.tab = call[c].tab, !.key = call[c].key]
  <2>1. call[c].tab \in Tabs /\ call[c].key \in Keys
    BY <1>0, <1>2 DEF CallsTyped, Placed, Waits, CredentialArrives
  <2>2. r \in Call /\ r.tab = call[c].tab /\ r.key = call[c].key /\ Waits(r)
    BY <1>0, <2>1 DEF Call, IdleCall, Subs, Kinds, Waits
  <2>3. call' = [call EXCEPT ![c] = r]
    BY <1>0, <1>2 DEF CallsTyped, CredentialArrives
  <2> QED
    BY <1>0, <2>1, <2>2, <2>3, PutCall
<1>3. ASSUME NEW t \in Tabs, ContinueWith(c, t) PROVE CallsTyped'
  <2> DEFINE r == [IdleCall EXCEPT !.pc = IF pending[t].credential THEN "sent" ELSE "prompt",
                     !.kind = "continueSignup", !.tab = t, !.key = pending[t].key,
                     !.auth_session = pending[t].auth_session, !.signup = pending[t].signup,
                     !.credential = pending[t].credential]
  <2>1. pending[t].key \in Keys /\ pending[t].auth_session \in Nat /\ pending[t].signup \in Nat
        /\ pending[t].credential \in BOOLEAN
    BY <1>3 DEF Typed, ContinueWith
  <2>2. r \in Call /\ r.tab = t /\ r.key = pending[t].key /\ Waits(r)
    BY <2>1 DEF Call, IdleCall, Subs, Kinds, Waits
  <2> QED
    BY <1>0, <1>3, <2>1, <2>2, PutCall DEF ContinueWith
<1> QED
  BY <1>1, <1>2, <1>3

\* A reload.
LEMMA ReloadTyped ==
  ASSUME CallsTyped, NEW t, Reload(t)
  PROVE  CallsTyped'
BY BlankTyped DEF CallsTyped, Placed, Waits, Reload

\* What is saved is a user's token.
LEMMA SaveTyped ==
  ASSUME Typed, NEW c \in Calls, NEW tok, tok.sub \in Subs, SaveEntry(c, tok)
  PROVE  entries' \in [Keys -> Token] /\ DOMAIN userCache' = Tabs
<1> DEFINE kept == IF SwitchesUser(c, tok) THEN NoTokens ELSE entries
           token == [sub |-> tok.sub, refresh_token |-> IF UseRefreshTokens THEN minted + 1 ELSE 0]
           saved == [kept EXCEPT ![call[c].key] = token]
<1>1. kept \in [Keys -> Token] /\ token \in Token
  BY BlankTyped DEF Typed, Token
<1>2. saved \in [Keys -> Token]
  BY <1>1
<1>3. Propagate(saved, call[c].refresh_token, token.refresh_token) \in [Keys -> Token]
  <2> HIDE DEF saved, kept
  <2> QED
    BY <1>1, <1>2 DEF Propagate, Token
<1>4. entries' \in {kept, Propagate(saved, call[c].refresh_token, token.refresh_token)}
  BY DEF SaveEntry
<1>5. DOMAIN userCache' = Tabs
  BY DEF SaveEntry, Typed
<1> QED
  BY <1>1, <1>3, <1>4, <1>5

\* Tokens are issued.
LEMMA IssuedTyped ==
  ASSUME Typed, NEW c \in Calls, NEW tok, tok.sub \in Subs, TokenIssued(c, tok)
  PROVE  /\ entries' \in [Keys -> Token] /\ DOMAIN userCache' = Tabs /\ CallsTyped'
         /\ minted' \in Nat /\ now' = now
<1>1. CallsTyped
  BY DEF Typed, CallsTyped
<1>2. entries' \in [Keys -> Token] /\ DOMAIN userCache' = Tabs
  BY SaveTyped DEF Typed, TokenIssued, cache
<1> QED
  BY <1>1, <1>2, SettleTyped DEF TokenIssued, Typed

\* Whom an answer can be for.
LEMMA AnswerUsersTyped ==
  ASSUME Typed, NEW c \in Calls, NEW user \in AnswerUsers(c), NEW tok \in AnswersTo(c, user)
  PROVE  user \in Subs /\ tok.sub \in Subs
<1>1. user \in Subs
  BY DEF AnswerUsers, Typed, Call, Subs
<1> QED
  BY <1>1, AnswerUser DEF Subs

MfaTyped ==
  /\ contexts \in [Tabs -> [MfaTokens -> [key : Keys \cup {"none"}, createdAt : Nat]]]
  /\ challenges \in Seq(Challenge)
  /\ \A t \in Tabs, m \in MfaTokens : contexts[t][m] # NoContext => contexts[t][m].key \in Keys

PasskeyTyped ==
  /\ pending \in [Tabs -> [auth_session : Nat, signup : Nat, key : Keys \cup {"none"}, credential : BOOLEAN]]
  /\ \A t \in Tabs : pending[t] # NoSignup => pending[t].key \in Keys
  /\ sessions \in Nat /\ created \in [1 .. MaxSessions -> Nat]

\* A sequence is mapped to another.
LEMMA MapSeq ==
  ASSUME NEW S, NEW s \in Seq(S), NEW f, f = [n \in DOMAIN s |-> f[n]], \A n \in DOMAIN s : f[n] \in S
  PROVE  f \in Seq(S) /\ DOMAIN f = DOMAIN s
<1>1. DOMAIN s = 1 .. Len(s) /\ Len(s) \in Nat
  OBVIOUS
<1>2. f = [n \in 1 .. Len(s) |-> f[n]] /\ \A n \in 1 .. Len(s) : f[n] \in S
  BY <1>1
<1> QED
  BY <1>1, <1>2

SessionTyped == now \in Nat /\ DOMAIN userCache = Tabs /\ entries \in [Keys -> Token] /\ minted \in Nat

\* The parts of the type invariant.
LEMMA TypedParts ==
  /\ Typed <=> SessionTyped /\ CallsTyped /\ MfaTyped /\ PasskeyTyped /\ Challenged
  /\ Typed' <=> SessionTyped' /\ CallsTyped' /\ MfaTyped' /\ PasskeyTyped' /\ Challenged'
BY DEF Typed, SessionTyped, CallsTyped, MfaTyped, PasskeyTyped

\* A local session is cleared.
LEMMA ClearTyped ==
  ASSUME Typed, NEW t, ClearLocalSession(t)
  PROVE  DOMAIN userCache' = Tabs /\ entries' \in [Keys -> Token]
BY BlankTyped DEF Typed, ClearLocalSession

\* The steps of the session.
LEMMA SessionStepTyped ==
  ASSUME Typed, SessionStep
  PROVE  SessionTyped' /\ CallsTyped'
<1>0. SessionTyped /\ CallsTyped
  BY TypedParts
<1> USE DEF SessionTyped
<1>1. ASSUME NEW t \in Tabs, GetUser(t) PROVE SessionTyped' /\ CallsTyped'
  <2>1. CallsTyped'
    BY <1>0, <1>1 DEF GetUser, CallsTyped, Placed, Waits
  <2> QED
    BY <1>0, <1>1, <2>1, ClearTyped DEF GetUser, GetIdTokenFromCache, server
<1>2. ASSUME NEW t \in Tabs, Logout(t) PROVE SessionTyped' /\ CallsTyped'
  <2>1. CallsTyped'
    BY <1>0, <1>2 DEF Logout, CallsTyped, Placed, Waits
  <2> QED
    BY <1>0, <1>2, <2>1, ClearTyped DEF Logout, server
<1>3. ASSUME NEW c \in Calls, NEW t \in Tabs, NEW k \in Keys,
             \/ CodeArrives(c, t, k) \/ LoginWithCustomTokenExchange(c, t, k) \/ CustomTokenExchange(c, t, k)
      PROVE SessionTyped' /\ CallsTyped'
  <2>1. CallsTyped'
    BY <1>0, <1>3, StartTyped DEF CodeArrives, LoginWithCustomTokenExchange, CustomTokenExchange, Kinds
  <2> QED
    BY <1>0, <1>3, <2>1 DEF CodeArrives, LoginWithCustomTokenExchange, CustomTokenExchange, cache, server
<1>4. ASSUME NEW c \in Calls, NEW t \in Tabs, NEW k \in Keys, GetTokenSilently(c, t, k)
      PROVE SessionTyped' /\ CallsTyped'
  BY <1>0, <1>4, SilentTyped, ClearTyped DEF GetTokenSilently, GetIdTokenFromCache, cache, server
<1>5. ASSUME NEW c \in Calls, EnterLock(c) PROVE SessionTyped' /\ CallsTyped'
  BY <1>0, <1>5, SilentTyped DEF EnterLock, GetIdTokenFromCache, server
<1>6. ASSUME NEW c \in Calls, TokenDelegated(c) \/ RequestFails(c) PROVE SessionTyped' /\ CallsTyped'
  BY <1>0, <1>6, SettleTyped DEF TokenDelegated, RequestFails, cache, server
<1>7. ASSUME NEW c \in Calls, SessionRefused(c) PROVE SessionTyped' /\ CallsTyped'
  BY <1>0, <1>7, SettleTyped, ClearTyped DEF SessionRefused, server
<1>8. ASSUME Tick PROVE SessionTyped' /\ CallsTyped'
  <2>1. CallsTyped'
    BY <1>0, <1>8 DEF Tick, CallsTyped, Placed, Waits
  <2> QED
    BY <1>0, <1>8, <2>1 DEF Tick, cache, server
<1> QED
  BY <1>1, <1>2, <1>3, <1>4, <1>5, <1>6, <1>7, <1>8 DEF SessionStep

\* The steps of MFA.
LEMMA MfaStepTyped ==
  ASSUME Typed, MfaStep
  PROVE  SessionTyped' /\ CallsTyped' /\ MfaTyped'
<1>0. SessionTyped /\ CallsTyped /\ MfaTyped /\ Challenged /\ NoContext \in [key : Keys \cup {"none"}, createdAt : Nat]
  BY TypedParts DEF NoContext
<1>1. ASSUME NEW t \in Tabs, NEW m \in MfaTokens, DropOutdated(t, m), UNCHANGED challenges PROVE MfaTyped'
  <2>1. GetContext(t, m) \in {NoContext, contexts[t][m]}
    BY DEF GetContext
  <2> QED
    BY <1>0, <1>1, <2>1 DEF DropOutdated, MfaTyped
<1>2. ASSUME NEW c \in Calls, NEW user \in AnswerUsers(c), MfaRequired(c, user)
      PROVE  SessionTyped' /\ CallsTyped' /\ MfaTyped'
  <2>1. user \in Subs /\ call[c] \in Call /\ call[c].tab \in Tabs /\ call[c].key \in Keys /\ now \in Nat
    BY <1>0, <1>2 DEF AnswerUsers, CallsTyped, Placed, Waits, Call, Subs, MfaRequired, SessionTyped
  <2>2. challenges' \in Seq(Challenge)
    <3> DEFINE x == [user |-> user, exchanged |-> Exchanged(c), state |-> "open", overtaken |-> Overtaken(c)]
    <3>0. Overtaken(c) \in BOOLEAN
      BY DEF Overtaken
    <3>1. x \in Challenge
      BY <2>1, <3>0 DEF Challenge, Exchanged, Call
    <3> QED
      BY <1>0, <1>2, <3>1 DEF MfaRequired, MfaTyped
  <2>3. ASSUME NEW m \in MfaTokens, SetContext(call[c].tab, m, call[c].key)
        PROVE  /\ contexts' \in [Tabs -> [MfaTokens -> [key : Keys \cup {"none"}, createdAt : Nat]]]
               /\ \A t \in Tabs, n \in MfaTokens : contexts'[t][n] # NoContext => contexts'[t][n].key \in Keys
    <3> DEFINE t == call[c].tab
               f == [n \in MfaTokens |-> IF n = m THEN [key |-> call[c].key, createdAt |-> now]
                                         ELSE IF Outdated(t, n) THEN NoContext ELSE contexts[t][n]]
    <3>1. /\ f \in [MfaTokens -> [key : Keys \cup {"none"}, createdAt : Nat]]
          /\ \A n \in MfaTokens : f[n] # NoContext => f[n].key \in Keys
      BY <1>0, <2>1 DEF MfaTyped
    <3>2. contexts' = [contexts EXCEPT ![t] = f]
      BY <2>3 DEF SetContext
    <3> HIDE DEF f
    <3> QED
      BY <1>0, <2>1, <3>1, <3>2 DEF MfaTyped
  <2>4. MfaTyped'
    BY <1>0, <1>2, <2>2, <2>3 DEF MfaTyped, MfaRequired
  <2>5. CallsTyped'
    BY <1>0, <1>2, SettleTyped DEF MfaRequired
  <2> QED
    BY <1>0, <1>2, <2>4, <2>5 DEF MfaRequired, SessionTyped, cache
<1>3. ASSUME NEW t \in Tabs, NEW m \in MfaTokens, InspectChallenge(t, m)
      PROVE  SessionTyped' /\ CallsTyped' /\ MfaTyped'
  BY <1>0, <1>1, <1>3 DEF InspectChallenge, SessionTyped, CallsTyped, Placed, Waits, sessionVars, cache, server
<1>4. ASSUME NEW c \in Calls, NEW t \in Tabs, NEW m \in MfaTokens, MfaVerify(c, t, m)
      PROVE  SessionTyped' /\ CallsTyped' /\ MfaTyped'
  BY <1>0, <1>1, <1>4, VerifyTyped DEF MfaVerify, SessionTyped, cache, server
<1>5. ASSUME NEW c \in Calls, NEW tok \in AnswersTo(c, challenges[call[c].mfa].user), MfaVerified(c, tok)
      PROVE  SessionTyped' /\ CallsTyped' /\ MfaTyped'
  <2> DEFINE m == call[c].mfa
             f == [n \in DOMAIN challenges |->
               IF n = m THEN [challenges[n] EXCEPT !.state = IF Accepted(c, tok) THEN "completed" ELSE "wasted"]
               ELSE [challenges[n] EXCEPT !.overtaken = TRUE]]
  <2>1. tok.sub \in Subs
    <3>1. challenges[m] \in Challenge
      BY <1>0, <1>5 DEF MfaTyped, MfaVerified, Challenged, TokenIssued
    <3>2. challenges[m].user \in Subs
      BY <3>1 DEF Challenge
    <3> QED
      BY <1>5, <3>2, AnswerUser DEF Subs
  <2>2. challenges' \in Seq(Challenge)
    <3>1. \A n \in DOMAIN challenges : challenges[n] \in Challenge
      BY <1>0 DEF MfaTyped
    <3>2. \A n \in DOMAIN challenges : f[n] \in Challenge
      BY <3>1 DEF Challenge
    <3>3. f \in Seq(Challenge)
      <4>1. f = [n \in DOMAIN challenges |-> f[n]] /\ challenges \in Seq(Challenge)
        BY <1>0 DEF MfaTyped
      <4> HIDE DEF f
      <4> QED
        BY <3>2, <4>1, MapSeq
    <3> QED
      BY <1>5, <3>3 DEF MfaVerified
  <2>3. MfaTyped'
    <3>1. \/ contexts' = contexts
          \/ contexts' = [contexts EXCEPT ![call[c].tab][m] = NoContext]
      BY <1>5 DEF MfaVerified
    <3>2. call[c].tab \in Tabs
      BY <1>0, <1>5 DEF CallsTyped, Placed, Waits, MfaVerified, TokenIssued
    <3>3. CASE contexts' = [contexts EXCEPT ![call[c].tab][m] = NoContext]
      <4> DEFINE t == call[c].tab
                 g == [contexts[t] EXCEPT ![m] = NoContext]
      <4>1. contexts' = [contexts EXCEPT ![t] = g]
        BY <1>0, <3>2, <3>3 DEF MfaTyped
      <4>2. /\ g \in [MfaTokens -> [key : Keys \cup {"none"}, createdAt : Nat]]
            /\ \A n \in MfaTokens : g[n] \in {contexts[t][n], NoContext}
        BY <1>0, <3>2 DEF MfaTyped
      <4> HIDE DEF g
      <4> QED
        BY <1>0, <2>2, <3>2, <4>1, <4>2 DEF MfaTyped
    <3> QED
      BY <1>0, <2>2, <3>1, <3>3 DEF MfaTyped
  <2> QED
    BY <1>5, <2>1, <2>3, IssuedTyped DEF MfaVerified, SessionTyped, Typed
<1>6. ASSUME NEW c \in Calls, NEW user \in AnswerUsers(c), NEW tok \in AnswersTo(c, user), GrantIssued(c, tok)
      PROVE  SessionTyped' /\ CallsTyped' /\ MfaTyped'
  <2> DEFINE f == [n \in DOMAIN challenges |-> [challenges[n] EXCEPT !.overtaken = @ \/ ~Renewal(c)]]
  <2>1. \A n \in DOMAIN challenges : challenges[n] \in Challenge
    BY <1>0 DEF MfaTyped
  <2>2. \A n \in DOMAIN challenges : f[n] \in Challenge
    BY <2>1 DEF Challenge
  <2>3. f \in Seq(Challenge)
    <3>1. f = [n \in DOMAIN challenges |-> f[n]] /\ challenges \in Seq(Challenge)
      BY <1>0 DEF MfaTyped
    <3> HIDE DEF f
    <3> QED
      BY <2>2, <3>1, MapSeq
  <2>4. MfaTyped'
    BY <1>0, <1>6, <2>3 DEF GrantIssued, MfaTyped
  <2> QED
    BY <1>6, <2>4, IssuedTyped, AnswerUsersTyped DEF GrantIssued, SessionTyped, Typed
<1> QED
  BY <1>2, <1>3, <1>4, <1>5, <1>6 DEF MfaStep

\* The steps of passkeys.
LEMMA PasskeyStepTyped ==
  ASSUME Typed, PasskeyStep
  PROVE  SessionTyped' /\ CallsTyped' /\ PasskeyTyped'
<1>0. /\ SessionTyped /\ CallsTyped /\ PasskeyTyped
      /\ NoSignup \in [auth_session : Nat, signup : Nat, key : Keys \cup {"none"}, credential : BOOLEAN]
  BY TypedParts DEF NoSignup
<1>1. UNCHANGED unchangedSession => SessionTyped'
  BY <1>0 DEF SessionTyped, unchangedSession, cache, server
<1>2. UNCHANGED passkeyVars => PasskeyTyped'
  BY <1>0 DEF PasskeyTyped, passkeyVars
\* A sign-up is kept or dropped.
<1>3. ASSUME NEW t \in Tabs, NEW x \in [auth_session : Nat, signup : Nat, key : Keys \cup {"none"}, credential : BOOLEAN],
             x = NoSignup \/ x.key \in Keys, SetPending(t, x), sessions' \in Nat, UNCHANGED created
      PROVE  PasskeyTyped'
  BY <1>0, <1>3 DEF PasskeyTyped, SetPending
<1>4. ASSUME NEW c \in Calls, NEW t \in Tabs, NEW k \in Keys, PasskeySignup(c, t, k)
      PROVE  SessionTyped' /\ CallsTyped' /\ PasskeyTyped'
  <2>1. CallsTyped'
    BY <1>0, <1>4, StartTyped DEF PasskeySignup, Kinds
  <2> QED
    BY <1>0, <1>1, <1>3, <1>4, <2>1 DEF PasskeySignup, PasskeyTyped
<1>5. ASSUME NEW c \in Calls, NEW t \in Tabs, NEW k \in Keys, PasskeyLogin(c, t, k) \/ GetTokenWithPasskey(c, t, k)
      PROVE  SessionTyped' /\ CallsTyped' /\ PasskeyTyped'
  <2>1. CallsTyped'
    BY <1>0, <1>5, StartTyped DEF PasskeyLogin, GetTokenWithPasskey, Kinds
  <2> QED
    BY <1>0, <1>1, <1>2, <1>5, <2>1 DEF PasskeyLogin, GetTokenWithPasskey
<1>6. ASSUME NEW c \in Calls, NEW t \in Tabs, ContinueSignup(c, t)
      PROVE  SessionTyped' /\ CallsTyped' /\ PasskeyTyped'
  BY <1>0, <1>1, <1>3, <1>6, PromptTyped DEF ContinueSignup, PasskeyTyped
<1>7. ASSUME NEW c \in Calls, ChallengeArrives(c)
      PROVE  SessionTyped' /\ CallsTyped' /\ PasskeyTyped'
  <2>1. PasskeyTyped'
    BY <1>0, <1>7 DEF PasskeyTyped, ChallengeArrives
  <2> QED
    BY <1>1, <1>7, <2>1, PromptTyped DEF ChallengeArrives
<1>8. ASSUME NEW c \in Calls, VerificationRequired(c) \/ PromptCancelled(c) \/ WrongCode(c)
      PROVE  SessionTyped' /\ CallsTyped' /\ PasskeyTyped'
  <2>1. /\ call[c] \in Call /\ call[c].tab \in Tabs /\ call[c].key \in Keys
        /\ call[c].auth_session \in Nat /\ call[c].signup \in Nat /\ call[c].credential \in BOOLEAN
    BY <1>0, <1>8 DEF CallsTyped, Placed, Waits, Call, VerificationRequired, PromptCancelled, WrongCode, AwaitsChallenge
  <2>2. CallsTyped' /\ SessionTyped'
    BY <1>0, <1>1, <1>8, SettleTyped DEF VerificationRequired, PromptCancelled, WrongCode
  <2>3. sessions' \in Nat /\ created' = created /\ sessions + 1 \in Nat
    BY <1>0, <1>8 DEF VerificationRequired, PromptCancelled, WrongCode, PasskeyTyped
  <2>4. ASSUME NEW a \in Nat, NEW s \in Nat, NEW b \in BOOLEAN,
               SetPending(call[c].tab, [auth_session |-> a, signup |-> s, key |-> call[c].key, credential |-> b])
        PROVE  PasskeyTyped'
    BY <1>3, <2>1, <2>3, <2>4
  <2>5. ASSUME UNCHANGED pending PROVE PasskeyTyped'
    BY <1>0, <2>3, <2>5 DEF PasskeyTyped
  <2>6. PasskeyTyped'
    BY <1>8, <2>1, <2>3, <2>4, <2>5 DEF VerificationRequired, PromptCancelled, WrongCode
  <2> QED
    BY <2>2, <2>6
<1>9. ASSUME NEW c \in Calls, CredentialArrives(c)
      PROVE  SessionTyped' /\ CallsTyped' /\ PasskeyTyped'
  <2>1. created' \in [1 .. MaxSessions -> Nat]
    <3> DEFINE s == call[c].signup
    <3>1. CASE created' = [created EXCEPT ![s] = @ + 1]
      <4>1. created' = [i \in 1 .. MaxSessions |-> IF i = s THEN created[i] + 1 ELSE created[i]]
        BY <1>0, <3>1 DEF PasskeyTyped
      <4>2. \A i \in 1 .. MaxSessions : created[i] \in Nat /\ created[i] + 1 \in Nat
        BY <1>0 DEF PasskeyTyped
      <4> QED
        BY <4>1, <4>2
    <3> QED
      BY <1>0, <1>9, <3>1 DEF CredentialArrives, PasskeyTyped
  <2> QED
    BY <1>0, <1>1, <1>9, <2>1, PromptTyped DEF CredentialArrives, PasskeyTyped
<1> QED
  BY <1>4, <1>5, <1>6, <1>7, <1>8, <1>9 DEF PasskeyStep

\* A record of a call that nobody else's business hangs on.
Plain(r) ==
  /\ r.refresh_token = 0 /\ r.pc # "prompt"
  /\ r.pc = "sent" => r.kind \notin {"silent", "verify", "continueSignup"}
  /\ r.pc \in {"sent", "lockWait"} => r.kind # "continueSignup"
  /\ r.kind = "signup" => r.credential = FALSE

\* What can become of a call.
LEMMA CallSteps ==
  ASSUME Typed, Next, NEW d \in Calls
  PROVE  \/ call'[d] = call[d]
         \/ Plain(call'[d])
         \/ EnterLock(d) /\ UNCHANGED <<mfaVars, passkeyVars>>
         \/ \E t \in Tabs, m \in MfaTokens : MfaVerify(d, t, m) /\ UNCHANGED passkeyVars
         \/ ChallengeArrives(d) /\ UNCHANGED mfaVars
         \/ CredentialArrives(d) /\ UNCHANGED mfaVars
         \/ \E t \in Tabs : ContinueSignup(d, t) /\ UNCHANGED mfaVars
<1> DEFINE Goal ==
         \/ call'[d] = call[d]
         \/ Plain(call'[d])
         \/ EnterLock(d) /\ UNCHANGED <<mfaVars, passkeyVars>>
         \/ \E t \in Tabs, m \in MfaTokens : MfaVerify(d, t, m) /\ UNCHANGED passkeyVars
         \/ ChallengeArrives(d) /\ UNCHANGED mfaVars
         \/ CredentialArrives(d) /\ UNCHANGED mfaVars
         \/ \E t \in Tabs : ContinueSignup(d, t) /\ UNCHANGED mfaVars
<1>0. call \in [Calls -> Call] /\ Plain(SettledCall)
  BY BlankTyped DEF Typed, Plain
<1>1. ASSUME NEW c \in Calls, Settle(c) PROVE call'[d] = call[d] \/ Plain(call'[d])
  BY <1>0, <1>1 DEF Settle
<1>2. ASSUME NEW c \in Calls, NEW t, NEW k, NEW kind \in Kinds \ {"silent", "verify", "continueSignup"}, Start(c, t, kind, k)
      PROVE  call'[d] = call[d] \/ Plain(call'[d])
  BY <1>0, <1>2 DEF Start, Plain, IdleCall
<1>3. ASSUME SessionStep, UNCHANGED <<mfaVars, passkeyVars>> PROVE Goal
  <2>1. ASSUME NEW c \in Calls, NEW t \in Tabs, NEW k \in Keys, GetTokenSilently(c, t, k)
        PROVE  call'[d] = call[d] \/ Plain(call'[d])
    <3> DEFINE r == [IdleCall EXCEPT !.pc = "lockWait", !.kind = "silent", !.tab = t, !.key = k]
    <3>1. Plain(r)
      BY DEF Plain, IdleCall
    <3>2. CASE call' = [call EXCEPT ![c] = r]
      BY <1>0, <3>1, <3>2
    <3> QED
      BY <1>1, <2>1, <3>2 DEF GetTokenSilently
  <2>2. ASSUME NEW c \in Calls, EnterLock(c) PROVE call'[d] = call[d] \/ EnterLock(d)
    BY <1>0, <2>2 DEF EnterLock, Settle
  <2>3. ASSUME NEW c \in Calls, TokenDelegated(c) \/ RequestFails(c) \/ SessionRefused(c)
        PROVE  call'[d] = call[d] \/ Plain(call'[d])
    BY <1>1, <2>3 DEF TokenDelegated, RequestFails, SessionRefused
  <2>4. ASSUME NEW c \in Calls, NEW t \in Tabs, NEW k \in Keys,
               \/ CodeArrives(c, t, k) \/ LoginWithCustomTokenExchange(c, t, k) \/ CustomTokenExchange(c, t, k)
        PROVE  call'[d] = call[d] \/ Plain(call'[d])
    BY <1>2, <2>4 DEF CodeArrives, LoginWithCustomTokenExchange, CustomTokenExchange, Kinds
  <2>5. ASSUME Tick \/ \E t \in Tabs : GetUser(t) \/ Logout(t) PROVE call' = call
    BY <2>5 DEF Tick, GetUser, Logout
  <2> QED
    BY <1>3, <2>1, <2>2, <2>3, <2>4, <2>5 DEF SessionStep
<1>4. ASSUME MfaStep, UNCHANGED passkeyVars PROVE Goal
  <2>1. ASSUME NEW c \in Calls, NEW user, MfaRequired(c, user) PROVE call'[d] = call[d] \/ Plain(call'[d])
    BY <1>1, <2>1 DEF MfaRequired
  <2>2. ASSUME NEW c \in Calls, NEW tok, TokenIssued(c, tok) PROVE call'[d] = call[d] \/ Plain(call'[d])
    BY <1>1, <2>2 DEF TokenIssued
  <2>3. ASSUME NEW c \in Calls, NEW t \in Tabs, NEW m \in MfaTokens, MfaVerify(c, t, m)
        PROVE  call'[d] = call[d] \/ MfaVerify(d, t, m)
    BY <1>0, <2>3 DEF MfaVerify, Settle
  <2>4. ASSUME NEW t, NEW m, InspectChallenge(t, m) PROVE call' = call
    BY <2>4 DEF InspectChallenge, sessionVars
  <2> QED
    BY <1>4, <2>1, <2>2, <2>3, <2>4 DEF MfaStep, MfaVerified, GrantIssued
<1>5. ASSUME PasskeyStep, UNCHANGED mfaVars PROVE Goal
  <2>1. ASSUME NEW c \in Calls, NEW t \in Tabs, NEW k \in Keys,
               PasskeySignup(c, t, k) \/ PasskeyLogin(c, t, k) \/ GetTokenWithPasskey(c, t, k)
        PROVE  call'[d] = call[d] \/ Plain(call'[d])
    BY <1>2, <2>1 DEF PasskeySignup, PasskeyLogin, GetTokenWithPasskey, Kinds
  <2>2. ASSUME NEW c \in Calls, NEW t \in Tabs, ContinueSignup(c, t) PROVE call'[d] = call[d] \/ ContinueSignup(d, t)
    BY <1>0, <2>2 DEF ContinueSignup, ContinueWith
  <2>3. ASSUME NEW c \in Calls, ChallengeArrives(c) PROVE call'[d] = call[d] \/ ChallengeArrives(d)
    BY <1>0, <2>3 DEF ChallengeArrives
  <2>4. ASSUME NEW c \in Calls, CredentialArrives(c) PROVE call'[d] = call[d] \/ CredentialArrives(d)
    BY <1>0, <2>4 DEF CredentialArrives
  <2>5. ASSUME NEW c \in Calls, VerificationRequired(c) \/ PromptCancelled(c) \/ WrongCode(c)
        PROVE  call'[d] = call[d] \/ Plain(call'[d])
    BY <1>1, <2>5 DEF VerificationRequired, PromptCancelled, WrongCode
  <2> QED
    BY <1>5, <2>1, <2>2, <2>3, <2>4, <2>5 DEF PasskeyStep
<1>6. ASSUME NEW t, Reload(t) PROVE call'[d] = call[d] \/ Plain(call'[d])
  BY <1>0, <1>6 DEF Reload
<1> QED
  BY <1>3, <1>4, <1>5, <1>6 DEF Next, MfaReload

\* Every step keeps the types.
LEMMA NextTyped == Typed /\ [Next]_vars => Typed'
<1>1. ASSUME Typed, Next PROVE Typed'
  <2>1. Challenged'
    <3> SUFFICES ASSUME NEW d \in Calls, call'[d].pc = "sent", call'[d].kind = "verify"
                 PROVE  call'[d].mfa \in DOMAIN challenges'
      BY DEF Challenged
    <3>1. DOMAIN challenges \subseteq DOMAIN challenges'
      <4>1. UNCHANGED mfaVars => challenges' = challenges
        BY DEF mfaVars
      <4>2. ASSUME MfaStep PROVE DOMAIN challenges \subseteq DOMAIN challenges'
        <5>1. ASSUME NEW c \in Calls, NEW user, MfaRequired(c, user) PROVE DOMAIN challenges \subseteq DOMAIN challenges'
          BY <1>1, <5>1 DEF MfaRequired, Typed
        <5>2. ASSUME NEW t, NEW m, InspectChallenge(t, m) PROVE challenges' = challenges
          BY <5>2 DEF InspectChallenge
        <5>3. ASSUME NEW c, NEW t, NEW m, MfaVerify(c, t, m) PROVE challenges' = challenges
          BY <5>3 DEF MfaVerify
        <5>4. ASSUME NEW c, NEW tok, MfaVerified(c, tok) \/ GrantIssued(c, tok) PROVE DOMAIN challenges' = DOMAIN challenges
          BY <5>4 DEF MfaVerified, GrantIssued
        <5> QED
          BY <4>2, <5>1, <5>2, <5>3, <5>4 DEF MfaStep
      <4>3. \A t : MfaReload(t) => challenges' = challenges
        BY DEF MfaReload
      <4> QED
        BY <1>1, <4>1, <4>2, <4>3 DEF Next
    <3>2. CASE call'[d] = call[d]
      BY <1>1, <3>1, <3>2 DEF Typed, Challenged
    <3>3. CASE Plain(call'[d])
      BY <3>3 DEF Plain
    <3>4. ASSUME NEW t \in Tabs, NEW m \in MfaTokens, MfaVerify(d, t, m) PROVE call'[d].mfa \in DOMAIN challenges'
      <4>1. call'[d] = SettledCall \/ call'[d].mfa = m
        BY <1>1, <3>4 DEF MfaVerify, Settle, Typed, IdleCall
      <4>2. m \in DOMAIN challenges
        <5>1. DOMAIN challenges = 1 .. Len(challenges) /\ Len(challenges) \in Nat
          BY <1>1 DEF Typed
        <5>2. m <= Len(challenges)
          BY <3>4 DEF MfaVerify
        <5>3. m \in 1 .. MaxMfaTokens
          BY DEF MfaTokens
        <5> QED
          BY <5>1, <5>2, <5>3, MfaAssumption
      <4> QED
        BY <3>1, <4>1, <4>2, BlankTyped
    <3>5. CASE EnterLock(d)
      <4>1. call[d].pc = "lockWait" /\ (call'[d] = SettledCall \/ call'[d].kind = call[d].kind)
        BY <1>1, <3>5, EnterLockDoes DEF Typed
      <4> QED
        BY <1>1, <4>1, BlankTyped DEF Typed, Placed, Waits
    <3>6. CASE ChallengeArrives(d)
      BY <1>1, <3>6 DEF ChallengeArrives, Typed, Call
    <3>7. CASE CredentialArrives(d)
      <4>1. call'[d].kind \in {"continueSignup", "webauthn"}
        BY <1>1, <3>7 DEF CredentialArrives, Typed, Call, IdleCall
      <4> QED
        BY <4>1
    <3>8. ASSUME NEW t, ContinueSignup(d, t) PROVE call'[d].kind = "continueSignup"
      BY <1>1, <3>8 DEF ContinueSignup, ContinueWith, Typed, IdleCall
    <3> QED
      BY <1>1, <3>2, <3>3, <3>4, <3>5, <3>6, <3>7, <3>8, CallSteps
  <2>2. CASE SessionStep /\ UNCHANGED <<mfaVars, passkeyVars>>
    BY <1>1, <2>1, <2>2, SessionStepTyped, TypedParts DEF MfaTyped, PasskeyTyped, mfaVars, passkeyVars
  <2>3. CASE MfaStep /\ UNCHANGED passkeyVars
    BY <1>1, <2>1, <2>3, MfaStepTyped, TypedParts DEF PasskeyTyped, passkeyVars
  <2>4. CASE PasskeyStep /\ UNCHANGED mfaVars
    BY <1>1, <2>1, <2>4, PasskeyStepTyped, TypedParts DEF MfaTyped, mfaVars
  <2>5. ASSUME NEW t \in Tabs, MfaReload(t), PasskeyReload(t) PROVE Typed'
    <3>1. CallsTyped'
      BY <1>1, <2>5, ReloadTyped, TypedParts DEF MfaReload
    <3>2. SessionTyped'
      BY <1>1, <2>5, TypedParts DEF SessionTyped, MfaReload, Reload, server
    <3>3. MfaTyped'
      BY <1>1, <2>5, TypedParts DEF MfaTyped, MfaReload, NoContext
    <3>4. PasskeyTyped'
      BY <1>1, <2>5, TypedParts DEF PasskeyTyped, PasskeyReload, SetPending, NoSignup
    <3> QED
      BY <2>1, <3>1, <3>2, <3>3, <3>4, TypedParts
  <2> QED
    BY <1>1, <2>2, <2>3, <2>4, <2>5 DEF Next
<1>2. ASSUME Typed, UNCHANGED vars PROVE Typed'
  BY <1>2 DEF vars, sessionVars, cache, server, mfaVars, passkeyVars, Typed, Placed, Waits, Challenged
<1> QED
  BY <1>1, <1>2

-----------------------------------------------------------------------------
(* The session: its user and its ceiling *)

\* A step that leaves the session alone; at most a tab takes the ID token over
\* into memory, or forgets it.
Looks ==
  /\ UNCHANGED <<stored, entries, limit, late, crossed, past>>
  /\ \/ UNCHANGED userCache
     \/ \E t \in Tabs, x \in {stored, NoEntry} : userCache' = [userCache EXCEPT ![t] = x]

Clears == past' = past /\ \E t \in Tabs : ClearLocalSession(t)

Saves(c, tok) ==
  /\ call[c].tab \in Tabs /\ tok.sub \in Subs /\ past' = past
  /\ Verify(VerifyOptions(c), tok, now) /\ SaveEntry(c, tok)

\* What can become of the session.
LEMMA SessionSteps ==
  ASSUME Typed, Next
  PROVE  \/ Looks
         \/ \E t \in Tabs : GetUser(t)
         \/ Clears
         \/ \E c \in Calls : \E tok : Saves(c, tok)
<1> USE DEF Looks
<1>1. ASSUME UNCHANGED <<cache, history, past>> PROVE Looks
  BY <1>1 DEF cache, history
<1>2. ASSUME NEW c \in Calls, EnterLock(c) PROVE Looks
  <2>1. call[c].tab \in Tabs
    BY <1>2 DEF EnterLock, Typed, Placed, Waits
  <2> QED
    BY <1>2, <2>1 DEF EnterLock, GetIdTokenFromCache, GetIdToken, history
<1>3. ASSUME SessionStep PROVE Looks \/ Clears \/ \E t \in Tabs : GetUser(t)
  <2>1. ASSUME NEW t \in Tabs, Logout(t) PROVE Clears
    BY <2>1 DEF Logout, Clears
  <2>2. ASSUME NEW c \in Calls, NEW t \in Tabs, NEW k \in Keys,
               \/ CodeArrives(c, t, k) \/ LoginWithCustomTokenExchange(c, t, k) \/ CustomTokenExchange(c, t, k)
        PROVE  Looks
    BY <1>1, <2>2 DEF CodeArrives, LoginWithCustomTokenExchange, CustomTokenExchange
  <2>3. ASSUME NEW c \in Calls, NEW t \in Tabs, NEW k \in Keys, GetTokenSilently(c, t, k)
        PROVE  Looks \/ Clears
    BY <1>1, <2>3 DEF GetTokenSilently, GetIdTokenFromCache, GetIdToken, Clears, history
  <2>4. ASSUME NEW c \in Calls, TokenDelegated(c) \/ RequestFails(c) PROVE Looks
    BY <1>1, <2>4 DEF TokenDelegated, RequestFails
  <2>5. ASSUME NEW c \in Calls, SessionRefused(c) PROVE Clears
    <3>1. call[c].tab \in Tabs
      BY <2>5 DEF SessionRefused, Typed, Placed, Waits
    <3> QED
      BY <2>5, <3>1 DEF SessionRefused, Clears
  <2>6. ASSUME Tick PROVE Looks
    BY <1>1, <2>6 DEF Tick
  <2> QED
    BY <1>2, <1>3, <2>1, <2>2, <2>3, <2>4, <2>5, <2>6 DEF SessionStep
<1>4. ASSUME NEW c \in Calls, NEW tok, TokenIssued(c, tok), tok.sub \in Subs PROVE Looks \/ Saves(c, tok)
  <2>1. call[c].tab \in Tabs /\ past' = past
    BY <1>4 DEF TokenIssued, Typed, Placed, Waits
  <2> QED
    BY <1>1, <1>4, <2>1 DEF TokenIssued, Saves
<1>5. ASSUME MfaStep PROVE Looks \/ \E c \in Calls : \E tok : Saves(c, tok)
  <2>1. ASSUME NEW c \in Calls, NEW user, MfaRequired(c, user) PROVE Looks
    BY <1>1, <2>1 DEF MfaRequired
  <2>2. ASSUME NEW t, NEW m, InspectChallenge(t, m) PROVE Looks
    BY <1>1, <2>2 DEF InspectChallenge, sessionVars
  <2>3. ASSUME NEW c, NEW t, NEW m, MfaVerify(c, t, m) PROVE Looks
    BY <1>1, <2>3 DEF MfaVerify
  <2>4. ASSUME NEW c \in Calls, NEW tok \in AnswersTo(c, challenges[call[c].mfa].user), MfaVerified(c, tok)
        PROVE  Looks \/ Saves(c, tok)
    <3>1. challenges[call[c].mfa] \in Challenge
      BY <2>4 DEF MfaVerified, Typed, Challenged, TokenIssued
    <3>2. tok.sub \in Subs
      BY <3>1, AnswerUser DEF Challenge, Subs
    <3> QED
      BY <1>4, <2>4, <3>2 DEF MfaVerified
  <2>5. ASSUME NEW c \in Calls, NEW user \in AnswerUsers(c), NEW tok \in AnswersTo(c, user), GrantIssued(c, tok)
        PROVE  Looks \/ Saves(c, tok)
    BY <1>4, <2>5, AnswerUsersTyped DEF GrantIssued
  <2> QED
    BY <1>5, <2>1, <2>2, <2>3, <2>4, <2>5 DEF MfaStep
<1>6. ASSUME PasskeyStep PROVE Looks
  <2>1. UNCHANGED unchangedSession => Looks
    BY <1>1 DEF unchangedSession
  <2> QED
    BY <1>6, <2>1
       DEF PasskeyStep, PasskeySignup, PasskeyLogin, GetTokenWithPasskey, ContinueSignup, ChallengeArrives,
           VerificationRequired, CredentialArrives, PromptCancelled, WrongCode
<1>7. ASSUME NEW t \in Tabs, MfaReload(t) PROVE Looks
  BY <1>7 DEF MfaReload, Reload, history
<1> QED
  BY <1>3, <1>5, <1>6, <1>7 DEF Next

\* With refresh tokens, the session keeps the ceiling of its login through
\* renewals, completions, reloads and the logins of others.
THEOREM CeilingKept ==
  ASSUME UseRefreshTokens
  PROVE  Spec => []CeilingPinned
<1>1. Init => CeilingPinned
  BY DEF Init, SessionInit, CeilingPinned
<1>2. Typed /\ CeilingPinned /\ [Next]_vars => CeilingPinned'
  <2>1. ASSUME Typed, CeilingPinned, Next PROVE CeilingPinned'
    <3>1. CASE Looks
      BY <2>1, <3>1 DEF Looks, CeilingPinned
    <3>2. ASSUME NEW t \in Tabs, GetUser(t) PROVE CeilingPinned'
      BY <2>1, <3>2 DEF GetUser, ClearLocalSession, history, CeilingPinned
    <3>3. CASE Clears
      BY <3>3 DEF Clears, ClearLocalSession, CeilingPinned
    <3>4. ASSUME NEW c \in Calls, NEW tok, Saves(c, tok) PROVE CeilingPinned'
      <4>1. CASE ExpiryValid(Pinned(c, tok), tok.iat)
        <5>1. /\ stored' = [sub |-> tok.sub, ceiling |-> Pinned(c, tok)]
              /\ limit' = IF ~Renewal(c) /\ (CodeGrant(c) \/ stored.ceiling = Absent)
                          THEN tok.session_expiry ELSE limit
              /\ late' = IF stored = NoEntry THEN Renewal(c) ELSE late /\ ~CodeGrant(c)
          BY <3>4, <4>1 DEF Saves, SaveEntry
        <5>2. stored'.ceiling = Pinned(c, tok)
          BY <5>1
        <5>3. CASE Renewal(c)
          <6>1. ~CodeGrant(c) /\ limit' = limit
            BY <5>1, <5>3 DEF Renewal, CodeGrant
          <6>2. CASE stored = NoEntry
            BY <5>1, <5>3, <6>2 DEF CeilingPinned
          <6>3. ASSUME stored # NoEntry, limit # Absent, ~late PROVE Pinned(c, tok) = limit
            BY <2>1, <6>1, <6>3 DEF CeilingPinned, Pinned
          <6> QED
            BY <5>1, <5>2, <6>1, <6>2, <6>3 DEF CeilingPinned
        <5>4. CASE ~Renewal(c) /\ (CodeGrant(c) \/ stored.ceiling = Absent)
          BY <5>1, <5>2, <5>4 DEF CeilingPinned, Pinned
        <5>5. CASE ~Renewal(c) /\ ~CodeGrant(c) /\ stored.ceiling # Absent
          <6>1. stored # NoEntry
            BY <5>5 DEF NoEntry
          <6> QED
            BY <2>1, <5>1, <5>2, <5>5, <6>1 DEF CeilingPinned, Pinned
        <5> QED
          BY <5>3, <5>4, <5>5
      <4>2. CASE ~ExpiryValid(Pinned(c, tok), tok.iat)
        BY <2>1, <3>4, <4>2 DEF Saves, SaveEntry, history, CeilingPinned
      <4> QED
        BY <4>1, <4>2
    <3> QED
      BY <2>1, <3>1, <3>2, <3>3, <3>4, SessionSteps
  <2>2. ASSUME CeilingPinned, UNCHANGED vars PROVE CeilingPinned'
    BY <2>2 DEF vars, sessionVars, cache, history, CeilingPinned
  <2> QED
    BY <2>1, <2>2
<1> QED
  BY <1>1, <1>2, InitTyped, NextTyped, PTL DEF Spec

\* What a tab has in memory is the ID token in the cache.
InStep == \A t \in Tabs : userCache[t] \in {stored, NoEntry}

\* In an application with one tab, getUser returns no user past the ceiling of
\* the ID token in the cache, whatever the tab has in memory.
THEOREM CeilingEnforced ==
  ASSUME \A s, t \in Tabs : s = t
  PROVE  Spec => []NoUserPastCeiling
<1> DEFINE Inv == past = FALSE /\ InStep
<1>1. Init => Inv
  BY DEF Init, SessionInit, InStep
<1>2. Typed /\ Inv /\ [Next]_vars => Inv'
  <2>1. ASSUME Typed, Inv, Next PROVE Inv'
    <3>0. DOMAIN userCache = Tabs
      BY <2>1 DEF Typed
    <3>1. CASE Looks
      BY <2>1, <3>0, <3>1 DEF Looks, InStep
    <3>2. ASSUME NEW t \in Tabs, GetUser(t) PROVE Inv'
      <4>1. CASE SessionCeilingReached(t)
        BY <2>1, <3>0, <3>2, <4>1 DEF GetUser, ClearLocalSession, InStep
      <4>2. CASE ~SessionCeilingReached(t)
        <5>1. ~(stored.ceiling # Absent /\ now >= stored.ceiling - ExpiryLeeway)
          <6>1. userCache[t] \in {stored, NoEntry}
            BY <2>1 DEF InStep
          <6> QED
            BY <4>2, <6>1 DEF SessionCeilingReached, GetIdToken
        <5> QED
          BY <2>1, <3>0, <3>2, <4>2, <5>1 DEF GetUser, GetIdTokenFromCache, GetIdToken, InStep
      <4> QED
        BY <4>1, <4>2
    <3>3. CASE Clears
      BY <2>1, <3>0, <3>3 DEF Clears, ClearLocalSession, InStep
    <3>4. ASSUME NEW c \in Calls, NEW tok, Saves(c, tok) PROVE Inv'
      <4>1. call[c].tab \in Tabs /\ past' = past /\ userCache' = [userCache EXCEPT ![call[c].tab] = stored']
        BY <3>4 DEF Saves, SaveEntry
      <4> QED
        BY <2>1, <3>0, <4>1 DEF InStep
    <3> QED
      BY <2>1, <3>1, <3>2, <3>3, <3>4, SessionSteps
  <2>2. ASSUME Inv, UNCHANGED vars PROVE Inv'
    BY <2>2 DEF vars, sessionVars, cache, InStep
  <2> QED
    BY <2>1, <2>2
<1>3. Inv => NoUserPastCeiling
  BY DEF NoUserPastCeiling
<1> HIDE DEF Inv
<1> QED
  BY <1>1, <1>2, <1>3, InitTyped, NextTyped, PTL DEF Spec

-----------------------------------------------------------------------------
(* Sign-ups *)

\* The calls that will create a passkey for a sign-up, or have done so.
InSignup(c) == Continues(c) \/ (call[c].pc = "prompt" /\ call[c].kind = "signup")

Kept(t) == pending[t] # NoSignup

\* A sign-up that has begun; without a credential nothing was created for it.
Begun(x) == x.signup \in 1 .. sessions /\ (x.credential = FALSE => created[x.signup] = 0)

Counted ==
  /\ sessions <= MaxSessions
  /\ \A s \in 1 .. MaxSessions : created[s] <= 1 /\ (s > sessions => created[s] = 0)

Holders ==
  /\ \A c \in Calls : InSignup(c) => Begun(call[c])
  /\ \A c \in Calls : InSignup(c) /\ call[c].pc = "prompt" => call[c].credential = FALSE
  /\ \A c \in Calls : Continues(c) => call[c].auth_session \in 1 .. sessions
  /\ \A c \in Calls : call[c].kind = "signup" => call[c].credential = FALSE
  /\ \A t \in Tabs : Kept(t) => Begun(pending[t]) /\ pending[t].auth_session \in 1 .. sessions

\* A sign-up is in one place, and so is an authentication session.
Apart ==
  /\ \A c, d \in Calls : InSignup(c) /\ InSignup(d) /\ call[c].signup = call[d].signup => c = d
  /\ \A c \in Calls, t \in Tabs : InSignup(c) /\ Kept(t) => call[c].signup # pending[t].signup
  /\ \A s, t \in Tabs : Kept(s) /\ Kept(t) /\ pending[s].signup = pending[t].signup => s = t
  /\ \A c, d \in Calls : Continues(c) /\ Continues(d) /\ call[c].auth_session = call[d].auth_session => c = d
  /\ \A c \in Calls, t \in Tabs : Continues(c) /\ Kept(t) => call[c].auth_session # pending[t].auth_session
  /\ \A s, t \in Tabs : Kept(s) /\ Kept(t) /\ pending[s].auth_session = pending[t].auth_session => s = t

Signups == Counted /\ Holders /\ Apart

\* Calls and sign-ups go on as they are, or are given up.
Rests ==
  /\ UNCHANGED <<sessions, created>>
  /\ \A t \in Tabs : pending'[t] \in {pending[t], NoSignup}
  /\ \A d \in Calls : \/ call'[d] = call[d]
                      \/ ~InSignup(d)' /\ (call'[d].kind = "signup" => call'[d].credential = FALSE)

\* What can become of sign-ups.
LEMMA SignupSteps ==
  ASSUME Typed, Next
  PROVE  \/ Rests
         \/ \E c \in Calls, t \in Tabs : ContinueSignup(c, t)
         \/ \E c \in Calls : \/ ChallengeArrives(c) \/ VerificationRequired(c) \/ CredentialArrives(c)
                             \/ PromptCancelled(c) \/ WrongCode(c)
<1>0. call \in [Calls -> Call] /\ pending = [t \in Tabs |-> pending[t]]
  BY DEF Typed
<1>1. \A d \in Calls : Plain(call'[d]) => ~InSignup(d)' /\ (call'[d].kind = "signup" => call'[d].credential = FALSE)
  BY DEF Plain, InSignup, Continues
<1>2. ASSUME NEW d \in Calls, EnterLock(d) PROVE call'[d].kind \in {"none", "silent"}
  <2>1. call[d] \in Call /\ call[d].kind = "silent"
    BY <1>0, <1>2 DEF EnterLock, Typed, Placed, Waits
  <2>2. call'[d] = SettledCall \/ call'[d].kind = call[d].kind
    BY <1>0, <1>2, EnterLockDoes
  <2> QED
    BY <2>1, <2>2, BlankTyped
<1>3. ASSUME NEW d \in Calls, NEW t \in Tabs, NEW m \in MfaTokens, MfaVerify(d, t, m)
      PROVE  call'[d].kind \in {"none", "verify"}
  <2>1. call'[d] = SettledCall \/ call'[d].kind = "verify"
    BY <1>0, <1>3 DEF MfaVerify, Settle, IdleCall
  <2> QED
    BY <2>1, BlankTyped
<1> DEFINE Prompts == \/ \E c \in Calls, t \in Tabs : ContinueSignup(c, t)
                      \/ \E c \in Calls : ChallengeArrives(c) \/ CredentialArrives(c)
<1>4. ASSUME ~Prompts, NEW d \in Calls
      PROVE  \/ call'[d] = call[d]
             \/ ~InSignup(d)' /\ (call'[d].kind = "signup" => call'[d].credential = FALSE)
  <2>1. ASSUME call'[d].kind \in {"none", "silent", "verify"} PROVE ~InSignup(d)'
    BY <2>1 DEF InSignup, Continues
  <2> QED
    BY <1>1, <1>2, <1>3, <1>4, <2>1, CallSteps
<1>5. ASSUME UNCHANGED passkeyVars, ~Prompts PROVE Rests
  <2>1. UNCHANGED <<pending, sessions, created>>
    BY <1>5 DEF passkeyVars
  <2> QED
    BY <1>4, <1>5, <2>1 DEF Rests
<1>6. ASSUME NEW t \in Tabs, SetPending(t, NoSignup), UNCHANGED <<sessions, created>>, ~Prompts PROVE Rests
  <2>1. \A s \in Tabs : pending'[s] \in {pending[s], NoSignup}
    BY <1>0, <1>6 DEF SetPending
  <2> QED
    BY <1>4, <1>6, <2>1 DEF Rests
<1>7. ASSUME PasskeyStep, ~Prompts
      PROVE  Rests \/ \E c \in Calls : VerificationRequired(c) \/ PromptCancelled(c) \/ WrongCode(c)
  <2>1. ASSUME NEW c, NEW t \in Tabs, NEW k, PasskeySignup(c, t, k) PROVE Rests
    BY <1>6, <1>7, <2>1 DEF PasskeySignup
  <2>2. ASSUME NEW c, NEW t \in Tabs, NEW k, PasskeyLogin(c, t, k) \/ GetTokenWithPasskey(c, t, k) PROVE Rests
    BY <1>5, <1>7, <2>2 DEF PasskeyLogin, GetTokenWithPasskey
  <2> QED
    BY <1>7, <2>1, <2>2 DEF PasskeyStep
<1>8. ASSUME NEW t \in Tabs, PasskeyReload(t), ~Prompts PROVE Rests
  BY <1>6, <1>8 DEF PasskeyReload
<1> QED
  BY <1>5, <1>7, <1>8 DEF Next

\* Every step keeps a sign-up in one place.
LEMMA NextSignups ==
  ASSUME Typed, Next, Signups
  PROVE  Signups'
<1>0. /\ call \in [Calls -> Call] /\ sessions \in Nat /\ MaxSessions \in Nat
      /\ created \in [1 .. MaxSessions -> Nat]
      /\ pending = [t \in Tabs |-> pending[t]]
  BY PasskeyAssumption DEF Typed
<1> USE DEF Signups
<1>1. CASE Rests
  <2>1. Counted'
    BY <1>1 DEF Rests, Counted
  <2>2. /\ \A d \in Calls : InSignup(d)' => InSignup(d) /\ call'[d] = call[d]
        /\ \A d \in Calls : Continues(d)' => Continues(d) /\ call'[d] = call[d]
        /\ \A t \in Tabs : Kept(t)' => Kept(t) /\ pending'[t] = pending[t]
    BY <1>1 DEF Rests, InSignup, Continues, Kept
  <2>3. Holders'
    BY <1>1, <2>2 DEF Rests, Holders, Begun
  <2>4. Apart'
    BY <2>2 DEF Apart
  <2> QED
    BY <2>1, <2>3, <2>4
<1>2. ASSUME NEW c \in Calls, NEW t \in Tabs, ContinueSignup(c, t) PROVE Signups'
  <2>1. /\ Kept(t) /\ UNCHANGED <<sessions, created>> /\ call[c].pc = "idle"
        /\ \A d \in Calls \ {c} : call'[d] = call[d]
        /\ \A s \in Tabs \ {t} : pending'[s] = pending[s]
        /\ pending'[t] = NoSignup
    BY <1>0, <1>2 DEF ContinueSignup, ContinueWith, SetPending, Kept
  <2>2. /\ call'[c].pc = IF pending[t].credential THEN "sent" ELSE "prompt"
        /\ call'[c].kind = "continueSignup" /\ call'[c].auth_session = pending[t].auth_session
        /\ call'[c].signup = pending[t].signup /\ call'[c].credential = pending[t].credential
    BY <1>0, <1>2 DEF ContinueSignup, ContinueWith, IdleCall
  <2>3. pending[t].credential \in BOOLEAN
    BY DEF Typed
  <2>4. Counted'
    BY <2>1 DEF Counted
  <2>5. /\ \A d \in Calls \ {c} : (InSignup(d)' <=> InSignup(d)) /\ (Continues(d)' <=> Continues(d))
        /\ \A s \in Tabs : Kept(s)' <=> s # t /\ Kept(s)
        /\ InSignup(c)' /\ Continues(c)'
        /\ call'[c].pc = "prompt" => call'[c].credential = FALSE
    BY <2>1, <2>2, <2>3 DEF InSignup, Continues, Kept
  <2>6. Begun(pending[t]) /\ pending[t].auth_session \in 1 .. sessions
    BY <2>1 DEF Holders
  <2>7. Holders'
    BY <2>1, <2>2, <2>5, <2>6 DEF Holders, Begun
  <2>8. Apart'
    BY <2>1, <2>2, <2>5 DEF Apart
  <2> QED
    BY <2>4, <2>7, <2>8
<1>3. ASSUME NEW c \in Calls, ChallengeArrives(c) PROVE Signups'
  <2>1. /\ UNCHANGED <<pending, created>> /\ sessions' = sessions + 1 /\ sessions < MaxSessions
        /\ call[c].kind \in {"signup", "passkey"} /\ call[c].pc = "sent"
        /\ \A d \in Calls \ {c} : call'[d] = call[d]
    BY <1>0, <1>3 DEF ChallengeArrives, AwaitsChallenge
  <2>2. /\ call'[c].pc = "prompt" /\ call'[c].kind = call[c].kind /\ call'[c].signup = sessions + 1
        /\ call'[c].credential = call[c].credential
    BY <1>0, <1>3 DEF ChallengeArrives, Call
  <2>3. Counted'
    BY <1>0, <2>1 DEF Counted
  <2>4. /\ \A d \in Calls \ {c} : (InSignup(d)' <=> InSignup(d)) /\ (Continues(d)' <=> Continues(d))
        /\ \A s \in Tabs : Kept(s)' <=> Kept(s)
        /\ ~Continues(c)' /\ (InSignup(c)' => call[c].kind = "signup")
    BY <2>1, <2>2 DEF InSignup, Continues, Kept
  <2>5. created[sessions + 1] = 0 /\ \A x : Begun(x) => x.signup # sessions + 1 /\ x.signup \in 1 .. sessions'
    BY <1>0, <2>1 DEF Counted, Begun
  <2>6. Holders'
    BY <1>0, <2>1, <2>2, <2>4, <2>5 DEF Holders, Begun
  <2>7. Apart'
    BY <2>1, <2>2, <2>4, <2>5 DEF Apart, Holders
  <2> QED
    BY <2>3, <2>6, <2>7
<1>4. ASSUME NEW c \in Calls, VerificationRequired(c) PROVE Signups'
  <2> DEFINE t == call[c].tab
  <2>1. /\ UNCHANGED created /\ sessions' = sessions + 1 /\ sessions < MaxSessions
        /\ t \in Tabs /\ call'[c] = SettledCall
        /\ \A d \in Calls \ {c} : call'[d] = call[d]
        /\ \A s \in Tabs \ {t} : pending'[s] = pending[s]
        /\ pending'[t].auth_session = sessions + 1 /\ pending'[t].signup = sessions + 1
        /\ pending'[t].credential = FALSE
    BY <1>0, <1>4 DEF VerificationRequired, AwaitsChallenge, Settle, SetPending, Typed, Placed, Waits
  <2>2. Counted'
    BY <1>0, <2>1 DEF Counted
  <2>3. /\ \A d \in Calls : (InSignup(d)' <=> d # c /\ InSignup(d)) /\ (Continues(d)' <=> d # c /\ Continues(d))
        /\ \A s \in Tabs \ {t} : Kept(s)' <=> Kept(s)
    BY <2>1, BlankTyped DEF InSignup, Continues, Kept
  <2>4. created[sessions + 1] = 0
    BY <1>0, <2>1 DEF Counted
  <2>5. Holders'
    BY <1>0, <2>1, <2>3, <2>4, BlankTyped DEF Holders, Begun
  <2>6. /\ \A d \in Calls : InSignup(d) => call[d].signup # sessions + 1
        /\ \A d \in Calls : Continues(d) => call[d].auth_session # sessions + 1
        /\ \A s \in Tabs : Kept(s) => pending[s].signup # sessions + 1 /\ pending[s].auth_session # sessions + 1
    BY <1>0, <2>1, <2>4 DEF Holders, Begun
  <2>7. Apart'
    BY <2>1, <2>3, <2>6 DEF Apart
  <2> QED
    BY <2>2, <2>5, <2>7
<1>5. ASSUME NEW c \in Calls, CredentialArrives(c) PROVE Signups'
  <2> DEFINE n == call[c].signup
  <2>1. /\ UNCHANGED <<pending, sessions>> /\ call[c].pc = "prompt"
        /\ call[c].kind \in {"signup", "passkey", "continueSignup"}
        /\ \A d \in Calls \ {c} : call'[d] = call[d]
    BY <1>0, <1>5 DEF CredentialArrives, Typed, Placed, Waits
  <2>2. /\ call[c].kind = "continueSignup" =>
             /\ call'[c].pc = "sent" /\ call'[c].kind = "continueSignup" /\ call'[c].credential = TRUE
             /\ call'[c].signup = n /\ call'[c].auth_session = call[c].auth_session
        /\ call[c].kind # "continueSignup" => call'[c].kind = "webauthn" /\ call'[c].pc = "sent"
    BY <1>0, <1>5 DEF CredentialArrives, Call, IdleCall
  <2>3. /\ \A d \in Calls \ {c} : (InSignup(d)' <=> InSignup(d)) /\ (Continues(d)' <=> Continues(d))
        /\ \A s \in Tabs : Kept(s)' <=> Kept(s)
        /\ InSignup(c) <=> call[c].kind # "passkey"
        /\ (InSignup(c)' <=> call[c].kind = "continueSignup") /\ (Continues(c)' <=> call[c].kind = "continueSignup")
    BY <2>1, <2>2 DEF InSignup, Continues, Kept
  <2>4. CASE call[c].kind = "passkey"
    <3>1. created' = created
      BY <1>5, <2>4 DEF CredentialArrives
    <3>2. Counted'
      BY <2>1, <3>1 DEF Counted
    <3>3. Holders'
      BY <2>1, <2>2, <2>3, <2>4, <3>1 DEF Holders, Begun
    <3>4. Apart'
      BY <2>1, <2>2, <2>3, <2>4 DEF Apart
    <3> QED
      BY <3>2, <3>3, <3>4
  <2>5. CASE call[c].kind # "passkey"
    <3>1. n \in 1 .. sessions /\ n \in 1 .. MaxSessions /\ created[n] = 0
      BY <1>0, <2>1, <2>3, <2>5 DEF Holders, Begun, Counted
    <3>2. /\ created'[n] = 1 /\ \A s \in 1 .. MaxSessions : s # n => created'[s] = created[s]
      BY <1>0, <1>5, <2>5, <3>1 DEF CredentialArrives
    <3>3. Counted'
      BY <1>0, <2>1, <3>1, <3>2 DEF Counted
    <3>4. \A s : s \in 1 .. sessions /\ s # n => s \in 1 .. sessions' /\ created'[s] = created[s]
      BY <1>0, <2>1, <3>2 DEF Counted
    <3>5. Holders'
      <4>1. \A d \in Calls : InSignup(d)' => Begun(call[d])'
        <5>1. ASSUME NEW d \in Calls, InSignup(d)', d # c PROVE Begun(call[d])'
          <6>1. InSignup(d) /\ call'[d] = call[d] /\ call[d].signup # n
            BY <2>1, <2>3, <2>5, <5>1 DEF Apart
          <6> QED
            BY <3>4, <6>1 DEF Holders, Begun
        <5>2. ASSUME InSignup(c)' PROVE Begun(call[c])'
          BY <2>1, <2>2, <2>3, <3>1, <5>2 DEF Begun
        <5> QED
          BY <5>1, <5>2
      <4>2. \A t \in Tabs : Kept(t)' => Begun(pending[t])' /\ pending'[t].auth_session \in 1 .. sessions'
        <5> SUFFICES ASSUME NEW t \in Tabs, Kept(t)'
                     PROVE  Begun(pending[t])' /\ pending'[t].auth_session \in 1 .. sessions'
          OBVIOUS
        <5>1. Kept(t) /\ pending'[t] = pending[t] /\ pending[t].signup # n
          BY <2>1, <2>3, <2>5 DEF Apart
        <5> QED
          BY <2>1, <3>4, <5>1 DEF Holders, Begun
      <4>3. \A d \in Calls : InSignup(d)' /\ call'[d].pc = "prompt" => call'[d].credential = FALSE
        BY <2>1, <2>2, <2>3 DEF Holders
      <4>4. \A d \in Calls : Continues(d)' => call'[d].auth_session \in 1 .. sessions'
        <5>1. Continues(c)' => Continues(c)
          BY <2>1, <2>3 DEF Continues
        <5> QED
          BY <2>1, <2>2, <2>3, <5>1 DEF Holders
      <4>5. \A d \in Calls : call'[d].kind = "signup" => call'[d].credential = FALSE
        BY <2>1, <2>2 DEF Holders
      <4> QED
        BY <4>1, <4>2, <4>3, <4>4, <4>5 DEF Holders
    <3>6. Apart'
      BY <2>1, <2>2, <2>3, <2>5 DEF Apart, Continues, InSignup
    <3> QED
      BY <3>3, <3>5, <3>6
  <2> QED
    BY <2>4, <2>5
<1>6. ASSUME NEW c \in Calls, PromptCancelled(c) PROVE Signups'
  <2> DEFINE t == call[c].tab
  <2>1. /\ UNCHANGED <<sessions, created>> /\ t \in Tabs /\ call[c].pc = "prompt" /\ call'[c] = SettledCall
        /\ \A d \in Calls \ {c} : call'[d] = call[d]
        /\ \A s \in Tabs \ {t} : pending'[s] = pending[s]
    BY <1>0, <1>6 DEF PromptCancelled, Settle, SetPending, Typed, Placed, Waits
  <2>2. \/ pending'[t] = pending[t]
        \/ /\ Continues(c) /\ pending'[t].auth_session = call[c].auth_session
           /\ pending'[t].signup = call[c].signup /\ pending'[t].credential = FALSE
    BY <1>0, <1>6, <2>1 DEF PromptCancelled, SetPending, Continues
  <2>3. Counted'
    BY <2>1 DEF Counted
  <2>4. /\ \A d \in Calls : (InSignup(d)' <=> d # c /\ InSignup(d)) /\ (Continues(d)' <=> d # c /\ Continues(d))
        /\ \A s \in Tabs \ {t} : Kept(s)' <=> Kept(s)
        /\ Continues(c) => InSignup(c)
    BY <2>1, BlankTyped DEF InSignup, Continues, Kept
  <2>5. CASE pending'[t] = pending[t]
    <3>0. \A s \in Tabs : pending'[s] = pending[s] /\ (Kept(s)' <=> Kept(s))
      BY <2>1, <2>5 DEF Kept
    <3>1. Holders'
      BY <2>1, <2>4, <3>0, BlankTyped DEF Holders, Begun
    <3>2. Apart'
      BY <2>1, <2>4, <3>0 DEF Apart
    <3> QED
      BY <2>3, <3>1, <3>2
  <2>6. CASE /\ Continues(c) /\ pending'[t].auth_session = call[c].auth_session
             /\ pending'[t].signup = call[c].signup /\ pending'[t].credential = FALSE
    <3>1. Holders'
      BY <2>1, <2>4, <2>6, BlankTyped DEF Holders, Begun
    <3>2. Apart'
      BY <2>1, <2>4, <2>6 DEF Apart
    <3> QED
      BY <2>3, <3>1, <3>2
  <2> QED
    BY <2>2, <2>5, <2>6
<1>7. ASSUME NEW c \in Calls, WrongCode(c) PROVE Signups'
  <2> DEFINE t == call[c].tab
  <2>1. /\ UNCHANGED created /\ sessions' = sessions + 1 /\ sessions < MaxSessions
        /\ t \in Tabs /\ Continues(c) /\ call'[c] = SettledCall
        /\ \A d \in Calls \ {c} : call'[d] = call[d]
        /\ \A s \in Tabs \ {t} : pending'[s] = pending[s]
        /\ pending'[t].auth_session = sessions + 1 /\ pending'[t].signup = call[c].signup
        /\ pending'[t].credential = call[c].credential
    BY <1>0, <1>7 DEF WrongCode, Settle, SetPending, Continues, Typed, Placed, Waits
  <2>2. Counted'
    BY <1>0, <2>1 DEF Counted
  <2>3. /\ \A d \in Calls : (InSignup(d)' <=> d # c /\ InSignup(d)) /\ (Continues(d)' <=> d # c /\ Continues(d))
        /\ \A s \in Tabs \ {t} : Kept(s)' <=> Kept(s)
        /\ InSignup(c)
    BY <2>1, BlankTyped DEF InSignup, Continues, Kept
  <2>4. Holders'
    BY <1>0, <2>1, <2>3, BlankTyped DEF Holders, Begun
  <2>5. Apart'
    <3>1. \A s \in Tabs : Kept(s) => pending[s].auth_session # sessions + 1 /\ pending[s].signup # call[c].signup
      BY <1>0, <2>3 DEF Holders, Apart
    <3>2. \A d \in Calls : Continues(d) => call[d].auth_session # sessions + 1
      BY <1>0 DEF Holders
    <3> QED
      BY <2>1, <2>3, <3>1, <3>2 DEF Apart
  <2> QED
    BY <2>2, <2>4, <2>5
<1> QED
  BY <1>1, <1>2, <1>3, <1>4, <1>5, <1>6, <1>7, SignupSteps

\* No two calls continue one authentication session and no sign-up creates two
\* passkeys, for any number of calls, tabs, cancelled prompts and wrong codes.
THEOREM SignupsOnce == Spec => []SignupOnce
<1>1. Init => Signups
  BY PasskeyAssumption
     DEF Init, SessionInit, PasskeyInit, IdleCall, Signups, Counted, Holders, Apart, InSignup, Continues, Kept
<1>2. Typed /\ Signups /\ [Next]_vars => Signups'
  <2>1. ASSUME Signups, UNCHANGED vars PROVE Signups'
    BY <2>1
       DEF vars, sessionVars, passkeyVars, Signups, Counted, Holders, Apart, InSignup, Continues, Kept, Begun
  <2> QED
    BY <2>1, NextSignups
<1>3. Typed /\ Signups => SignupOnce
  BY DEF Typed, Signups, Counted, Apart, SignupOnce
<1> QED
  BY <1>1, <1>2, <1>3, InitTyped, NextTyped, PTL DEF Spec

-----------------------------------------------------------------------------
(* Challenges and the refresh tokens they used up *)

Held(x) == \E k \in Keys : entries[k].refresh_token = x

\* A challenge that nothing has overtaken and whose refresh token is still kept.
Live(m) ==
  /\ m \in DOMAIN challenges /\ ~challenges[m].overtaken
  /\ challenges[m].exchanged # 0 /\ Held(challenges[m].exchanged)

Silent(c) == call[c].pc = "sent" /\ call[c].kind = "silent"

Completes(c) == call[c].pc = "sent" /\ call[c].kind = "verify"

\* Found, as a function of the entries.
Finds(tokens, k) ==
  LET found == {j \in Keys : tokens[j].sub # "none" /\ Covers(j, k)}
  IN  IF k \in found THEN {k} ELSE found

\* Whatever is found for a key has this refresh token, and something is.
Holds(tokens, k, x) == Finds(tokens, k) # {} /\ \A j \in Finds(tokens, k) : tokens[j].refresh_token = x

\* Every refresh token was issued, and that of a challenge is spent.
Ledger ==
  /\ \A k \in Keys : entries[k].refresh_token <= minted
  /\ \A c \in Calls : call[c].refresh_token <= minted
  /\ \A m \in DOMAIN challenges :
       challenges[m].exchanged <= minted /\ (challenges[m].exchanged # 0 => challenges[m].exchanged \in spent)
  /\ ~UseRefreshTokens => minted = 0

\* The lock admits one silent call, which still finds an entry while its refresh
\* token is kept.
Lookups ==
  /\ \A c, d \in Calls : Silent(c) /\ Silent(d) => c = d
  /\ \A t \in Tabs, m \in MfaTokens : contexts[t][m] # NoContext => m \in DOMAIN challenges
  /\ \A c \in Calls : Silent(c) /\ call[c].refresh_token # 0 /\ Held(call[c].refresh_token)
                        => Finds(entries, call[c].key) # {}

\* The completion of a live challenge finds its refresh token, in the entry that
\* its context names and in the call that sends it.
Carried ==
  /\ \A m \in DOMAIN challenges : Live(m) => challenges[m].state # "completed"
  /\ \A t \in Tabs, m \in MfaTokens :
       Live(m) /\ contexts[t][m] # NoContext => Holds(entries, contexts[t][m].key, challenges[m].exchanged)
  /\ \A c \in Calls : Completes(c) /\ Live(call[c].mfa)
                        => call[c].refresh_token = challenges[call[c].mfa].exchanged
  /\ \A c \in Calls, m \in DOMAIN challenges : Silent(c) /\ Live(m) =>
       \E j \in Finds(entries, call[c].key) : entries[j].refresh_token = call[c].refresh_token

\* A silent call enters the lock.
Entered(d) ==
  /\ UNCHANGED <<entries, minted, spent, challenges>> /\ call'[d].key = call[d].key
  /\ \A c \in Calls : ~Silent(c)
  /\ \A c \in Calls \ {d} : call'[c] = call[c]
  /\ \/ ~UseRefreshTokens
     \/ \E k \in Found(call[d].key) : call'[d].refresh_token = entries[k].refresh_token

\* A completion is sent.
Verifies(d, t, m) ==
  /\ UNCHANGED <<entries, minted, spent, challenges>>
  /\ contexts[t][m] # NoContext /\ call'[d].mfa = m
  /\ call'[d].refresh_token \in Previous(contexts[t][m].key)

\* Where the calls under way, and the refresh tokens of calls, come from.
LEMMA CallOrigins ==
  ASSUME Typed, Next, NEW d \in Calls
  PROVE  /\ Silent(d)' => call'[d] = call[d] \/ Entered(d)
         /\ Completes(d)' => call'[d] = call[d] \/ \E t \in Tabs, m \in MfaTokens : Verifies(d, t, m)
         /\ \/ call'[d].refresh_token \in {0, call[d].refresh_token}
            \/ minted' = minted /\ \E k \in Keys : call'[d].refresh_token = entries[k].refresh_token
<1>0. call \in [Calls -> Call] /\ call[d] \in Call
  BY DEF Typed
<1>1. CASE call'[d] = call[d]
  BY <1>1
<1>2. CASE Plain(call'[d])
  BY <1>2 DEF Plain, Silent, Completes
<1>3. CASE EnterLock(d) /\ UNCHANGED <<mfaVars, passkeyVars>>
  <2>1. /\ call[d].kind = "silent" /\ UNCHANGED <<entries, minted, spent, challenges>>
        /\ \A c \in Calls : ~Silent(c)
        /\ \A c \in Calls \ {d} : call'[c] = call[c]
    BY <1>0, <1>3 DEF EnterLock, Settle, Typed, Placed, Waits, Silent, server, mfaVars
  <2>2. CASE call'[d] = SettledCall
    BY <2>2, BlankTyped DEF Silent, Completes
  <2>3. CASE call' = [call EXCEPT ![d].pc = "sent"] /\ ~UseRefreshTokens
    <3>1. /\ call'[d].key = call[d].key /\ call'[d].kind = "silent"
          /\ call'[d].refresh_token = call[d].refresh_token
      BY <1>0, <2>1, <2>3 DEF Call
    <3> QED
      BY <2>1, <2>3, <3>1 DEF Entered, Completes
  <2>4. ASSUME NEW k \in Found(call[d].key),
               call' = [call EXCEPT ![d].pc = "sent", ![d].refresh_token = entries[k].refresh_token]
        PROVE  /\ Silent(d)' => Entered(d)
               /\ ~Completes(d)'
               /\ \E j \in Keys : call'[d].refresh_token = entries[j].refresh_token
    <3>1. /\ call'[d].key = call[d].key /\ call'[d].kind = "silent"
          /\ call'[d].refresh_token = entries[k].refresh_token
      BY <1>0, <2>1, <2>4 DEF Call
    <3>2. k \in Keys
      BY DEF Found
    <3> QED
      BY <2>1, <3>1, <3>2 DEF Entered, Completes
  <2> QED
    BY <1>0, <1>3, <2>1, <2>2, <2>3, <2>4 DEF EnterLock, Settle
<1>4. ASSUME NEW t \in Tabs, NEW m \in MfaTokens, MfaVerify(d, t, m)
      PROVE  /\ ~Silent(d)'
             /\ Completes(d)' => Verifies(d, t, m)
             /\ \/ call'[d].refresh_token = 0
                \/ minted' = minted /\ \E k \in Keys : call'[d].refresh_token = entries[k].refresh_token
  <2>1. UNCHANGED <<entries, minted, spent, challenges>>
    BY <1>4 DEF MfaVerify, cache, server
  <2>2. CASE call'[d] = SettledCall
    BY <2>2, BlankTyped DEF Silent, Completes
  <2>3. ASSUME GetContext(t, m) # NoContext, NEW rt \in Previous(contexts[t][m].key),
               call' = [call EXCEPT ![d] = [IdleCall EXCEPT !.pc = "sent", !.kind = "verify", !.tab = t,
                         !.key = contexts[t][m].key, !.refresh_token = rt, !.mfa = m]]
        PROVE  /\ ~Silent(d)' /\ Verifies(d, t, m)
               /\ \/ call'[d].refresh_token = 0
                  \/ \E k \in Keys : call'[d].refresh_token = entries[k].refresh_token
    <3>1. call'[d].kind = "verify" /\ call'[d].refresh_token = rt /\ call'[d].mfa = m
      BY <1>0, <2>3 DEF IdleCall
    <3>2. contexts[t][m] # NoContext
      BY <2>3 DEF GetContext
    <3>3. rt = 0 \/ \E k \in Keys : rt = entries[k].refresh_token
      BY DEF Previous, Found
    <3> QED
      BY <2>1, <3>1, <3>2, <3>3 DEF Silent, Verifies
  <2> QED
    BY <1>0, <1>4, <2>1, <2>2, <2>3 DEF MfaVerify, Settle
<1>5. CASE ChallengeArrives(d)
  BY <1>0, <1>5 DEF ChallengeArrives, Call, Silent, Completes
<1>6. CASE CredentialArrives(d)
  <2>1. call'[d].kind \in {"continueSignup", "webauthn"} /\ call'[d].refresh_token \in {0, call[d].refresh_token}
    BY <1>0, <1>6 DEF CredentialArrives, Call, IdleCall
  <2> QED
    BY <2>1 DEF Silent, Completes
<1>7. ASSUME NEW t \in Tabs, ContinueSignup(d, t)
      PROVE  ~Silent(d)' /\ ~Completes(d)' /\ call'[d].refresh_token = 0
  BY <1>0, <1>7 DEF ContinueSignup, ContinueWith, IdleCall, Silent, Completes
<1> QED
  BY <1>1, <1>2, <1>3, <1>4, <1>5, <1>6, <1>7, CallSteps

\* The tokens a save leaves, if these were kept.
Rewrites(c, kept) ==
  LET old == call[c].refresh_token
      new == IF UseRefreshTokens THEN minted + 1 ELSE 0
  IN  /\ entries'[call[c].key].refresh_token = new /\ entries'[call[c].key].sub # "none"
      /\ \A k \in Keys \ {call[c].key} :
           /\ entries'[k].sub = kept[k].sub
           /\ entries'[k].refresh_token = IF old # 0 /\ kept[k].refresh_token = old THEN new
                                          ELSE kept[k].refresh_token

\* What an answer with tokens leaves in the cache.
LEMMA IssuedEntries ==
  ASSUME Typed, NEW c \in Calls, NEW tok, TokenIssued(c, tok)
  PROVE  /\ call[c].key \in Keys /\ call'[c] = SettledCall
         /\ Accepted(c, tok) => /\ Rewrites(c, IF SwitchesUser(c, tok) THEN NoTokens ELSE entries)
                               /\ entries'[call[c].key].sub = tok.sub /\ tok.sub # "none"
         /\ ~Accepted(c, tok) => entries' \in {entries, NoTokens} /\ (~CodeGrant(c) => entries' = entries)
<1> DEFINE kept == IF SwitchesUser(c, tok) THEN NoTokens ELSE entries
           new == IF UseRefreshTokens THEN minted + 1 ELSE 0
           token == [sub |-> tok.sub, refresh_token |-> new]
           saved == [kept EXCEPT ![call[c].key] = token]
           T == [sub : Subs \cup {tok.sub}, refresh_token : Nat]
<1>1. call[c].key \in Keys /\ call'[c] = SettledCall
  BY DEF TokenIssued, Typed, Placed, Waits, Settle
<1>2. ASSUME Accepted(c, tok) PROVE Rewrites(c, kept) /\ entries'[call[c].key].sub = tok.sub /\ tok.sub # "none"
  <2>1. entries' = Propagate(saved, call[c].refresh_token, new) /\ tok.sub # "none"
    BY <1>2 DEF TokenIssued, SaveEntry, Accepted, Verify, IssuedForClient
  <2>2. kept \in [Keys -> T] /\ token \in T /\ token.refresh_token = new /\ token.sub = tok.sub
    BY BlankTyped DEF Typed, Token
  <2> HIDE DEF kept, token, new, T
  <2>3. saved \in [Keys -> T] /\ saved[call[c].key] = token /\ \A k \in Keys \ {call[c].key} : saved[k] = kept[k]
    BY <1>1, <2>2
  <2> HIDE DEF saved
  <2>4. \A k \in Keys :
          /\ entries'[k].sub = saved[k].sub
          /\ entries'[k].refresh_token = IF call[c].refresh_token # 0 /\ saved[k].refresh_token = call[c].refresh_token
                                         THEN new ELSE saved[k].refresh_token
    BY <2>1, <2>3 DEF Propagate, T
  <2> QED
    BY <1>1, <2>1, <2>2, <2>3, <2>4 DEF Rewrites, new
<1>3. ASSUME ~Accepted(c, tok) PROVE entries' \in {entries, NoTokens} /\ (~CodeGrant(c) => entries' = entries)
  BY <1>3 DEF TokenIssued, SaveEntry, Accepted, SwitchesUser, cache
<1> QED
  BY <1>1, <1>2, <1>3

\* A step that changes neither tokens nor challenges.
Quiet ==
  /\ UNCHANGED <<entries, minted, spent, challenges>>
  /\ \A t \in Tabs, m \in MfaTokens : contexts'[t][m] \in {contexts[t][m], NoContext}

\* A step that empties the cache.
Wipes == entries' = NoTokens /\ UNCHANGED <<minted, spent, challenges, contexts>>

\* What can become of tokens and challenges.
LEMMA RotationSteps ==
  ASSUME Typed, Next
  PROVE  \/ Quiet
         \/ Wipes
         \/ \E c \in Calls : \E user : MfaRequired(c, user)
         \/ \E c \in Calls : \E tok : MfaVerified(c, tok) \/ GrantIssued(c, tok)
<1> USE DEF Quiet, Wipes, cache, server, mfaVars
<1>0. contexts \in [Tabs -> [MfaTokens -> [key : Keys \cup {"none"}, createdAt : Nat]]]
  BY DEF Typed
<1>1. ASSUME SessionStep, UNCHANGED mfaVars PROVE Quiet \/ Wipes
  <2>1. ASSUME NEW t \in Tabs, GetUser(t) \/ Logout(t) PROVE Quiet \/ Wipes
    BY <1>1, <2>1 DEF GetUser, Logout, ClearLocalSession
  <2>2. ASSUME NEW c \in Calls, NEW t \in Tabs, NEW k \in Keys,
               \/ CodeArrives(c, t, k) \/ LoginWithCustomTokenExchange(c, t, k) \/ CustomTokenExchange(c, t, k)
        PROVE  Quiet
    BY <1>1, <2>2 DEF CodeArrives, LoginWithCustomTokenExchange, CustomTokenExchange
  <2>3. ASSUME NEW c \in Calls, NEW t \in Tabs, NEW k \in Keys, GetTokenSilently(c, t, k) PROVE Quiet \/ Wipes
    BY <1>1, <2>3 DEF GetTokenSilently, ClearLocalSession
  <2>4. ASSUME NEW c \in Calls, EnterLock(c) \/ TokenDelegated(c) \/ RequestFails(c) PROVE Quiet
    BY <1>1, <2>4 DEF EnterLock, TokenDelegated, RequestFails
  <2>5. ASSUME NEW c \in Calls, SessionRefused(c) PROVE Wipes
    BY <1>1, <2>5 DEF SessionRefused, ClearLocalSession
  <2>6. ASSUME Tick PROVE Quiet
    BY <1>1, <2>6 DEF Tick
  <2> QED
    BY <1>1, <2>1, <2>2, <2>3, <2>4, <2>5, <2>6 DEF SessionStep
<1>2. ASSUME NEW t \in Tabs, NEW m \in MfaTokens, DropOutdated(t, m), UNCHANGED <<cache, server, challenges>>
      PROVE  Quiet
  <2>1. GetContext(t, m) \in {contexts[t][m], NoContext}
    BY DEF GetContext
  <2>2. \A s \in Tabs, n \in MfaTokens : contexts'[s][n] \in {contexts[s][n], NoContext}
    BY <1>0, <1>2, <2>1 DEF DropOutdated
  <2> QED
    BY <1>2, <2>2
<1>3. ASSUME MfaStep
      PROVE  \/ Quiet
             \/ \E c \in Calls : \E user : MfaRequired(c, user)
             \/ \E c \in Calls : \E tok : MfaVerified(c, tok) \/ GrantIssued(c, tok)
  <2>1. ASSUME NEW t \in Tabs, NEW m \in MfaTokens, InspectChallenge(t, m) PROVE Quiet
    BY <1>2, <2>1 DEF InspectChallenge, sessionVars
  <2>2. ASSUME NEW c, NEW t \in Tabs, NEW m \in MfaTokens, MfaVerify(c, t, m) PROVE Quiet
    BY <1>2, <2>2 DEF MfaVerify
  <2> HIDE DEF Quiet
  <2> QED
    BY <1>3, <2>1, <2>2 DEF MfaStep
<1>4. ASSUME PasskeyStep, UNCHANGED mfaVars PROVE Quiet
  <2>1. UNCHANGED unchangedSession => Quiet
    BY <1>4 DEF unchangedSession
  <2> HIDE DEF Quiet
  <2> QED
    BY <1>4, <2>1
       DEF PasskeyStep, PasskeySignup, PasskeyLogin, GetTokenWithPasskey, ContinueSignup, ChallengeArrives,
           VerificationRequired, CredentialArrives, PromptCancelled, WrongCode
<1>5. ASSUME NEW t \in Tabs, MfaReload(t) PROVE Quiet
  BY <1>0, <1>5 DEF MfaReload, Reload
<1> HIDE DEF Quiet, Wipes
<1> QED
  BY <1>1, <1>3, <1>4, <1>5 DEF Next

\* Which tokens are kept after an answer.
LEMMA IssuedTokens ==
  ASSUME Typed, Ledger, NEW c \in Calls, NEW tok, TokenIssued(c, tok)
  PROVE  /\ minted <= minted' /\ spent \subseteq spent' /\ (~UseRefreshTokens => minted' = minted)
         /\ \A k \in Keys : entries'[k].refresh_token <= minted'
         /\ \A x \in Nat \ {0} : x <= minted /\ Held(x)' => Held(x)
<1>0. /\ minted \in Nat /\ minted' = (IF UseRefreshTokens THEN minted + 1 ELSE minted) /\ spent \subseteq spent'
      /\ \A k \in Keys : entries[k].refresh_token \in Nat /\ NoTokens[k].refresh_token = 0
  BY DEF Typed, Token, TokenIssued, NoTokens
<1> DEFINE kept == IF SwitchesUser(c, tok) THEN NoTokens ELSE entries
           new == IF UseRefreshTokens THEN minted + 1 ELSE 0
<1>1. \A k \in Keys : entries'[k].refresh_token \in {entries[k].refresh_token, 0, new}
  <2>1. CASE Accepted(c, tok)
    <3>1. Rewrites(c, kept) /\ call[c].key \in Keys
      BY <2>1, IssuedEntries
    <3>2. \A k \in Keys : kept[k].refresh_token \in {entries[k].refresh_token, 0}
      BY <1>0
    <3> HIDE DEF kept
    <3> QED
      BY <3>1, <3>2 DEF Rewrites
  <2>2. CASE ~Accepted(c, tok)
    BY <1>0, <2>2, IssuedEntries
  <2> QED
    BY <2>1, <2>2
<1>2. \A k \in Keys : entries'[k].refresh_token <= minted'
  BY <1>0, <1>1 DEF Ledger
<1>3. \A x \in Nat \ {0} : x <= minted /\ Held(x)' => Held(x)
  BY <1>0, <1>1 DEF Held
<1> QED
  BY <1>0, <1>2, <1>3

\* A new challenge is put at the end.
LEMMA NewChallenge ==
  ASSUME Typed, NEW c \in Calls, NEW user, MfaRequired(c, user)
  PROVE  LET m == Len(challenges) + 1
         IN  /\ DOMAIN challenges' = DOMAIN challenges \cup {m} /\ m \notin DOMAIN challenges /\ m \in MfaTokens
             /\ \A n \in DOMAIN challenges : challenges'[n] = challenges[n]
             /\ challenges'[m].exchanged = Exchanged(c) /\ challenges'[m].state = "open"
             /\ challenges'[m].overtaken = Overtaken(c)
             /\ call'[c] = SettledCall
             /\ UNCHANGED <<entries, minted>> /\ spent' = spent \cup ({Exchanged(c)} \ {0})
BY DEF Typed, MfaRequired, Settle, cache

\* Every step keeps the ledger, and no token or challenge comes back to life.
LEMMA NextLedger ==
  ASSUME Typed, Ledger, Next
  PROVE  /\ Ledger'
         /\ \A m \in DOMAIN challenges : Live(m)' => Live(m)
         /\ \A m \in DOMAIN challenges : m \in DOMAIN challenges' /\ challenges'[m].exchanged = challenges[m].exchanged
         /\ \A x \in Nat \ {0} : x <= minted /\ Held(x)' => Held(x)
<1>0. /\ minted \in Nat /\ \A k \in Keys : entries[k].refresh_token \in Nat
      /\ \A d \in Calls : call[d].refresh_token \in Nat
      /\ \A m \in DOMAIN challenges : challenges[m] \in Challenge /\ challenges[m].exchanged \in Nat
  <2>1. \A m \in DOMAIN challenges : challenges[m] \in Challenge
    BY DEF Typed
  <2>2. \A m \in DOMAIN challenges : challenges[m].exchanged \in Nat
    BY <2>1 DEF Challenge
  <2> QED
    BY <2>1, <2>2 DEF Typed, Token, Call
<1> DEFINE Stays(m) == /\ m \in DOMAIN challenges' /\ challenges'[m].exchanged = challenges[m].exchanged
                       /\ challenges[m].overtaken => challenges'[m].overtaken
           Tokens == /\ minted <= minted' /\ minted' \in Nat /\ spent \subseteq spent'
                     /\ ~UseRefreshTokens => minted' = minted
                     /\ \A k \in Keys : entries'[k].refresh_token <= minted'
                     /\ \A x \in Nat \ {0} : x <= minted /\ Held(x)' => Held(x)
           New(m) == challenges'[m].exchanged <= minted' /\ (challenges'[m].exchanged # 0 => challenges'[m].exchanged \in spent')
<1>1. Tokens /\ (\A m \in DOMAIN challenges : Stays(m)) /\ (\A m \in DOMAIN challenges' : m \in DOMAIN challenges \/ New(m))
  <2>1. CASE Quiet
    BY <1>0, <2>1 DEF Quiet, Held, Ledger
  <2>2. CASE Wipes
    <3>1. \A k \in Keys : entries'[k].refresh_token = 0
      BY <2>2 DEF Wipes, NoTokens
    <3> QED
      BY <1>0, <2>2, <3>1 DEF Wipes, Held
  <2>3. ASSUME NEW c \in Calls, NEW user, MfaRequired(c, user)
        PROVE  Tokens /\ (\A m \in DOMAIN challenges : Stays(m)) /\ (\A m \in DOMAIN challenges' : m \in DOMAIN challenges \/ New(m))
    <3>1. Exchanged(c) \in {0, call[c].refresh_token}
      BY DEF Exchanged
    <3>2. Tokens
      BY <1>0, <2>3, NewChallenge DEF Ledger, Held
    <3>3. \A m \in DOMAIN challenges : Stays(m)
      BY <2>3, NewChallenge
    <3>4. \A m \in DOMAIN challenges' : m \in DOMAIN challenges \/ New(m)
      BY <1>0, <2>3, <3>1, NewChallenge DEF Ledger
    <3> QED
      BY <3>2, <3>3, <3>4
  <2>4. ASSUME NEW c \in Calls, NEW tok, MfaVerified(c, tok) \/ GrantIssued(c, tok)
        PROVE  Tokens /\ (\A m \in DOMAIN challenges : Stays(m)) /\ (\A m \in DOMAIN challenges' : m \in DOMAIN challenges \/ New(m))
    <3>1. TokenIssued(c, tok)
      BY <2>4 DEF MfaVerified, GrantIssued
    <3>2. Tokens
      <4>1. minted' \in Nat
        BY <1>0, <3>1 DEF TokenIssued
      <4> QED
        BY <3>1, <4>1, IssuedTokens
    <3>3. DOMAIN challenges' = DOMAIN challenges
      BY <2>4 DEF MfaVerified, GrantIssued
    <3>4. \A m \in DOMAIN challenges : Stays(m)
      <4> SUFFICES ASSUME NEW m \in DOMAIN challenges PROVE Stays(m)
        OBVIOUS
      <4>1. CASE MfaVerified(c, tok)
        <5>1. challenges'[m] = IF m = call[c].mfa
                THEN [challenges[m] EXCEPT !.state = IF Accepted(c, tok) THEN "completed" ELSE "wasted"]
                ELSE [challenges[m] EXCEPT !.overtaken = TRUE]
          BY <4>1 DEF MfaVerified
        <5> QED
          BY <1>0, <3>3, <5>1 DEF Challenge
      <4>2. CASE GrantIssued(c, tok)
        <5>1. challenges'[m] = [challenges[m] EXCEPT !.overtaken = @ \/ ~Renewal(c)]
          BY <4>2 DEF GrantIssued
        <5> QED
          BY <1>0, <3>3, <5>1 DEF Challenge
      <4> QED
        BY <2>4, <4>1, <4>2
    <3> QED
      BY <3>2, <3>3, <3>4
  <2> HIDE DEF Tokens, Stays, New
  <2> QED
    BY <2>1, <2>2, <2>3, <2>4, RotationSteps
<1>2. \A m \in DOMAIN challenges : m \in DOMAIN challenges' /\ challenges'[m].exchanged = challenges[m].exchanged
  BY <1>1
<1>3. \A m \in DOMAIN challenges : challenges[m].overtaken => challenges'[m].overtaken
  BY <1>1
<1>4. \A d \in Calls : call'[d].refresh_token <= minted'
  <2> SUFFICES ASSUME NEW d \in Calls PROVE call'[d].refresh_token <= minted'
    OBVIOUS
  <2>1. \/ call'[d].refresh_token \in {0, call[d].refresh_token}
        \/ \E k \in Keys : call'[d].refresh_token = entries[k].refresh_token
    BY CallOrigins
  <2> QED
    BY <1>0, <1>1, <2>1 DEF Ledger
<1>5. \A m \in DOMAIN challenges' :
        challenges'[m].exchanged <= minted' /\ (challenges'[m].exchanged # 0 => challenges'[m].exchanged \in spent')
  <2> SUFFICES ASSUME NEW m \in DOMAIN challenges'
               PROVE  challenges'[m].exchanged <= minted' /\ (challenges'[m].exchanged # 0 => challenges'[m].exchanged \in spent')
    OBVIOUS
  <2>1. CASE m \in DOMAIN challenges
    <3>1. /\ challenges[m].exchanged <= minted /\ (challenges[m].exchanged # 0 => challenges[m].exchanged \in spent)
          /\ challenges[m].exchanged \in Nat /\ challenges'[m].exchanged = challenges[m].exchanged
      BY <1>0, <1>2, <2>1 DEF Ledger
    <3> QED
      BY <1>0, <1>1, <3>1
  <2> QED
    BY <1>1, <2>1
<1>6. Ledger'
  BY <1>0, <1>1, <1>4, <1>5 DEF Ledger
<1>7. ASSUME NEW m \in DOMAIN challenges, Live(m)' PROVE Live(m)
  <2>1. /\ ~challenges[m].overtaken /\ challenges'[m].exchanged # 0
        /\ challenges'[m].exchanged = challenges[m].exchanged
    BY <1>7, <1>2, <1>3, Zenon DEF Live
  <2>2. \E k \in Keys : entries'[k].refresh_token = challenges'[m].exchanged
    BY <1>7 DEF Live, Held
  <2>3. challenges[m].exchanged \in Nat \ {0} /\ challenges[m].exchanged <= minted
    BY <1>0, <2>1 DEF Ledger
  <2>4. \A x \in Nat \ {0} : x <= minted /\ (\E k \in Keys : entries'[k].refresh_token = x) => Held(x)
    BY <1>1 DEF Held
  <2>5. Held(challenges[m].exchanged)
    BY <2>1, <2>2, <2>3, <2>4
  <2> QED
    BY <2>1, <2>5 DEF Live
<1> QED
  BY <1>1, <1>6, <1>7, <1>2

\* A new challenge leaves its request's key in its context.
LEMMA SetContexts ==
  ASSUME Typed, NEW c \in Calls, NEW user, MfaRequired(c, user), NEW t \in Tabs, NEW m \in MfaTokens
  PROVE  \/ contexts'[t][m] \in {contexts[t][m], NoContext}
         \/ m = Len(challenges) + 1 /\ contexts'[t][m].key = call[c].key
<1>1. call[c].tab \in Tabs /\ contexts \in [Tabs -> [MfaTokens -> [key : Keys \cup {"none"}, createdAt : Nat]]]
  BY DEF MfaRequired, Typed, Placed, Waits
<1>2. CASE SetContext(call[c].tab, Len(challenges) + 1, call[c].key)
  <2> DEFINE s == call[c].tab
             f == [n \in MfaTokens |-> IF n = Len(challenges) + 1 THEN [key |-> call[c].key, createdAt |-> now]
                                       ELSE IF Outdated(s, n) THEN NoContext ELSE contexts[s][n]]
  <2>1. contexts' = [contexts EXCEPT ![s] = f]
    BY <1>2 DEF SetContext
  <2>2. f[m] \in {contexts[s][m], NoContext} \/ (m = Len(challenges) + 1 /\ f[m].key = call[c].key)
    OBVIOUS
  <2> HIDE DEF f
  <2> QED
    BY <1>1, <2>1, <2>2
<1> QED
  BY <1>2 DEF MfaRequired

\* A lookup finds more, not less, when a token is added.
LEMMA FindsMore ==
  ASSUME NEW c, call[c].key \in Keys, Rewrites(c, entries), NEW k \in Keys, Finds(entries, k) # {}
  PROVE  Finds(entries', k) # {}
<1>1. \A j \in Keys : entries[j].sub # "none" => entries'[j].sub # "none"
  BY DEF Rewrites
<1> QED
  BY <1>1 DEF Finds

\* Every step keeps what silent calls and contexts rely on.
LEMMA NextLookups ==
  ASSUME Typed, Ledger, Lookups, Next
  PROVE  Lookups'
<1>0. /\ call \in [Calls -> Call] /\ minted \in Nat
      /\ \A d \in Calls : call[d].refresh_token \in Nat
      /\ \A k : Found(k) = Finds(entries, k)
  BY DEF Typed, Call, Found, Finds
<1>1. ASSUME NEW c \in Calls, NEW d \in Calls, Silent(c)', Silent(d)' PROVE c = d
  <2>1. CASE Entered(c)
    BY <1>1, <2>1 DEF Entered, Silent
  <2>2. CASE Entered(d)
    BY <1>1, <2>2 DEF Entered, Silent
  <2>3. CASE call'[c] = call[c] /\ call'[d] = call[d]
    BY <1>1, <2>3 DEF Lookups, Silent
  <2> QED
    BY <1>1, <2>1, <2>2, <2>3, CallOrigins
<1>2. ASSUME NEW t \in Tabs, NEW m \in MfaTokens, contexts'[t][m] # NoContext PROVE m \in DOMAIN challenges'
  <2>1. CASE contexts[t][m] # NoContext
    BY <2>1, NextLedger DEF Lookups
  <2>2. CASE contexts[t][m] = NoContext
    <3>1. CASE Quiet \/ Wipes
      BY <1>2, <2>2, <3>1 DEF Quiet, Wipes
    <3>2. ASSUME NEW c \in Calls, NEW user, MfaRequired(c, user) PROVE m \in DOMAIN challenges'
      <4>1. m = Len(challenges) + 1
        BY <1>2, <2>2, <3>2, SetContexts
      <4> QED
        BY <3>2, <4>1, NewChallenge
    <3>3. ASSUME NEW c \in Calls, NEW tok, MfaVerified(c, tok) \/ GrantIssued(c, tok) PROVE FALSE
      <4>1. CASE contexts' = contexts
        BY <1>2, <2>2, <4>1
      <4>2. CASE contexts' = [contexts EXCEPT ![call[c].tab][call[c].mfa] = NoContext]
        <5>1. contexts \in [Tabs -> [MfaTokens -> [key : Keys \cup {"none"}, createdAt : Nat]]]
          BY DEF Typed
        <5> QED
          BY <1>2, <2>2, <4>2, <5>1
      <4> QED
        BY <3>3, <4>1, <4>2 DEF MfaVerified, GrantIssued
    <3> QED
      BY <3>1, <3>2, <3>3, RotationSteps
  <2> QED
    BY <2>1, <2>2
<1>3. ASSUME NEW d \in Calls, Silent(d)', call'[d].refresh_token # 0, Held(call[d].refresh_token)'
      PROVE  Finds(entries', call'[d].key) # {}
  <2>1. CASE Entered(d)
    <3>1. call'[d].refresh_token <= minted' /\ minted' = minted
      BY <2>1, NextLedger DEF Ledger, Entered
    <3>2. UseRefreshTokens
      <4>1. call'[d].refresh_token \in Nat
        BY NextTyped DEF Typed, Call
      <4> QED
        BY <1>0, <1>3, <3>1, <4>1 DEF Ledger
    <3> QED
      BY <1>0, <2>1, <3>2 DEF Entered
  <2>2. CASE call'[d] = call[d]
    <3> DEFINE x == call[d].refresh_token
               k == call[d].key
    <3>0. x \in Nat \ {0} /\ x <= minted /\ k \in Keys
      BY <1>0, <1>3, <2>2 DEF Ledger, Typed, Placed, Waits, Silent
    <3>1. \E j \in Keys : entries'[j].refresh_token = x
      BY <1>3, <2>2 DEF Held
    <3>2. Held(x)
      <4>1. \A y \in Nat \ {0} : y <= minted /\ (\E j \in Keys : entries'[j].refresh_token = y) => Held(y)
        BY NextLedger DEF Held
      <4> QED
        BY <3>0, <3>1, <4>1
    <3>3. Finds(entries, k) # {}
      BY <1>3, <2>2, <3>0, <3>2 DEF Lookups, Silent
    <3>4. CASE entries' = entries
      BY <2>2, <3>3, <3>4
    <3>5. CASE Wipes
      BY <3>0, <3>1, <3>5 DEF Wipes, NoTokens
    <3>6. ASSUME NEW c \in Calls, NEW tok, TokenIssued(c, tok) PROVE Finds(entries', k) # {}
      <4>1. CASE Accepted(c, tok) /\ ~SwitchesUser(c, tok)
        BY <3>0, <3>3, <3>6, <4>1, IssuedEntries, FindsMore
      <4>2. CASE Accepted(c, tok) /\ SwitchesUser(c, tok)
        <5>1. Rewrites(c, NoTokens) /\ call[c].key \in Keys
          BY <3>6, <4>2, IssuedEntries
        <5>2. \A j \in Keys : entries'[j].refresh_token \in {0, minted + 1}
          BY <5>1 DEF Rewrites, NoTokens
        <5> QED
          BY <1>0, <3>0, <3>1, <5>2
      <4>3. CASE entries' = NoTokens
        BY <3>0, <3>1, <4>3 DEF NoTokens
      <4> QED
        BY <3>3, <3>6, <4>1, <4>2, <4>3, IssuedEntries
    <3>7. ASSUME NEW c \in Calls, NEW user, MfaRequired(c, user) PROVE entries' = entries
      BY <3>7, NewChallenge
    <3> QED
      BY <2>2, <3>4, <3>5, <3>6, <3>7, RotationSteps DEF Quiet, MfaVerified, GrantIssued
  <2> QED
    BY <1>3, <2>1, <2>2, CallOrigins
<1> QED
  BY <1>1, <1>2, <1>3 DEF Lookups

\* No key is covered by two others.
OneCover ==
  \A i, j, k \in Keys : i # k /\ j # k /\ Covers(i, k) /\ Covers(j, k) => i = j

\* The renewal of another entry changes nothing for a live challenge.
LEMMA HoldsOn ==
  ASSUME Typed, Ledger, OneCover, NEW c \in Calls, call[c].key \in Keys, Rewrites(c, entries),
         NEW x \in Nat \ {0}, x <= minted, call[c].refresh_token # x,
         NEW i \in Finds(entries, call[c].key), entries[i].refresh_token = call[c].refresh_token,
         NEW k \in Keys, Holds(entries, k, x)
  PROVE  Holds(entries', k, x)
<1> DEFINE n == call[c].key
<1>0. \A j \in Keys : Covers(j, j)
  BY SessionAssumption
<1>1. /\ \A j \in Keys \ {n} : entries'[j].sub = entries[j].sub
      /\ \A j \in Keys \ {n} : entries[j].refresh_token = x => entries'[j].refresh_token = x
    BY DEF Rewrites
<1>2. i \in Keys /\ Finds(entries, k) \subseteq Keys
  BY DEF Finds
<1>3. n \notin Finds(entries, k)
  <2>1. SUFFICES ASSUME n \in Finds(entries, k) PROVE FALSE
    OBVIOUS
  <2>2. entries[n].refresh_token = x /\ entries[n].sub # "none"
    BY <2>1 DEF Holds, Finds
  <2>3. i = n
    BY <1>0, <2>2 DEF Finds
  <2> QED
    BY <2>2, <2>3
<1>4. n # k
  BY DEF Holds
<1>5. CASE entries[k].sub # "none"
  <2>1. Finds(entries, k) = {k} /\ Finds(entries', k) = {k}
    BY <1>0, <1>1, <1>4, <1>5 DEF Finds
  <2> QED
    BY <1>1, <1>4, <2>1 DEF Holds
<1>6. CASE entries[k].sub = "none"
  <2>1. PICK j \in Finds(entries, k) : entries[j].refresh_token = x
    BY DEF Holds
  <2>2. j \in Keys /\ j # k /\ Covers(j, k) /\ j # n
    BY <1>3, <1>6 DEF Finds
  <2>3. ~Covers(n, k)
    BY <1>4, <2>2 DEF OneCover
  <2>4. Finds(entries', k) = Finds(entries, k)
    BY <1>1, <1>4, <1>6, <2>3 DEF Finds
  <2>5. \A l \in Finds(entries, k) : l \in Keys \ {n} /\ entries[l].refresh_token = x
    BY <1>2, <1>3 DEF Holds
  <2> QED
    BY <1>1, <2>4, <2>5 DEF Holds
<1> QED
  BY <1>5, <1>6

\* After the completion of a challenge its refresh token is kept nowhere.
LEMMA Completed ==
  ASSUME Typed, Ledger, Carried, NEW c \in Calls, NEW tok, MfaVerified(c, tok), NEW m \in DOMAIN challenges, Live(m)'
  PROVE  ~Accepted(c, tok) /\ UNCHANGED <<entries, contexts>> /\ challenges'[m].state \in {challenges[m].state, "wasted"}
<1>0. /\ TokenIssued(c, tok) /\ ~CodeGrant(c) /\ Completes(c) /\ challenges[m] \in Challenge
      /\ call[c].mfa \in DOMAIN challenges
  BY DEF MfaVerified, CodeGrant, TokenIssued, Completes, Typed, Challenged
<1>1. m = call[c].mfa
  <2>1. SUFFICES ASSUME m # call[c].mfa PROVE FALSE
    OBVIOUS
  <2>2. challenges'[m] = [challenges[m] EXCEPT !.overtaken = TRUE]
    BY <2>1 DEF MfaVerified
  <2>3. challenges'[m].overtaken = TRUE
    BY <1>0, <2>2 DEF Challenge
  <2> QED
    BY <2>3 DEF Live
<1>2. /\ challenges'[m].exchanged = challenges[m].exchanged /\ challenges'[m].overtaken = challenges[m].overtaken
      /\ challenges'[m].state = IF Accepted(c, tok) THEN "completed" ELSE "wasted"
  BY <1>0, <1>1 DEF MfaVerified, Challenge
<1>3. ~Accepted(c, tok)
  <2>1. SUFFICES ASSUME Accepted(c, tok) PROVE FALSE
    OBVIOUS
  <2> DEFINE e == challenges[m].exchanged
  <2>2. e \in Nat \ {0} /\ e <= minted /\ minted \in Nat
    BY <1>0, <1>2 DEF Live, Ledger, Typed, Challenge
  <2>3. Rewrites(c, entries) /\ call[c].key \in Keys
    BY <1>0, <2>1, IssuedEntries DEF SwitchesUser
  <2>4. \E k \in Keys : entries'[k].refresh_token = e
    BY <1>2 DEF Live, Held
  <2>5. Held(e)
    <3>1. \A y \in Nat \ {0} : y <= minted /\ (\E j \in Keys : entries'[j].refresh_token = y) => Held(y)
      BY <1>0, IssuedTokens DEF Held
    <3> QED
      BY <2>2, <2>4, <3>1
  <2>6. Live(m)
    BY <1>2, <2>2, <2>5 DEF Live
  <2>7. call[c].refresh_token = e
    BY <1>0, <1>1, <2>6 DEF Carried
  <2>8. \A k \in Keys : entries'[k].refresh_token # e
    BY <2>2, <2>3, <2>7 DEF Rewrites
  <2> QED
    BY <2>4, <2>8
<1> QED
  BY <1>0, <1>2, <1>3, IssuedEntries DEF MfaVerified

\* Every step keeps live challenges and their refresh tokens together.
LEMMA NextCarried ==
  ASSUME Typed, Ledger, Lookups, Carried, OneCover, Next
  PROVE  Carried'
<1>0. /\ minted \in Nat /\ \A k : Found(k) = Finds(entries, k)
      /\ \A m \in DOMAIN challenges : challenges[m].exchanged \in Nat
  <2>1. \A m \in DOMAIN challenges : challenges[m] \in Challenge
    BY DEF Typed
  <2> QED
    BY <2>1 DEF Typed, Found, Finds, Challenge
<1>1. ASSUME NEW m \in DOMAIN challenges, Live(m)
      PROVE  /\ UseRefreshTokens /\ challenges[m].exchanged \in Nat \ {0}
             /\ challenges[m].exchanged <= minted /\ challenges[m].exchanged \in spent
  BY <1>0, <1>1 DEF Live, Ledger
<1>2. \A m \in DOMAIN challenges : Live(m)' => Live(m) /\ challenges'[m].exchanged = challenges[m].exchanged
  BY NextLedger
<1>3. ASSUME NEW c \in Calls, NEW user, MfaRequired(c, user), NEW m, m = Len(challenges) + 1, Live(m)'
      PROVE  Silent(c) /\ Holds(entries, call[c].key, challenges'[m].exchanged)
  <2> DEFINE e == challenges'[m].exchanged
  <2>1. e # 0 /\ e = Exchanged(c) /\ ~Overtaken(c) /\ entries' = entries /\ (\E k \in Keys : entries'[k].refresh_token = e)
    <3>1. e # 0 /\ ~challenges'[m].overtaken /\ (\E k \in Keys : entries'[k].refresh_token = e)
      BY <1>3 DEF Live, Held
    <3>2. e = Exchanged(c) /\ challenges'[m].overtaken = Overtaken(c) /\ entries' = entries
      BY <1>3, NewChallenge
    <3> QED
      BY <3>1, <3>2, Zenon
  <2>2. Silent(c) /\ call[c].refresh_token = e
    BY <1>3, <2>1 DEF Exchanged, Silent, MfaRequired
  <2>3. Finds(entries, call[c].key) # {}
    BY <2>1, <2>2 DEF Lookups, Held
  <2>4. \A j \in Finds(entries, call[c].key) : entries[j].refresh_token = e
    BY <1>0, <2>1 DEF Overtaken
  <2> QED
    BY <2>2, <2>3, <2>4 DEF Holds
<1>4. ASSUME NEW c \in Calls, NEW tok, GrantIssued(c, tok), NEW m \in DOMAIN challenges, Live(m)'
      PROVE  /\ Silent(c) /\ TokenIssued(c, tok) /\ ~CodeGrant(c) /\ call[c].refresh_token \notin spent
             /\ challenges'[m].state = challenges[m].state /\ contexts' = contexts
             /\ call[c].key \in Keys /\ call'[c] = SettledCall
             /\ entries' = entries \/ Rewrites(c, entries)
  <2>0. challenges[m] \in Challenge /\ TokenIssued(c, tok)
    BY <1>4 DEF Typed, GrantIssued
  <2>1. challenges'[m] = [challenges[m] EXCEPT !.overtaken = @ \/ ~Renewal(c)]
    BY <1>4 DEF GrantIssued
  <2>2. challenges'[m].state = challenges[m].state /\ (~Renewal(c) => challenges'[m].overtaken)
    BY <2>0, <2>1 DEF Challenge
  <2>3. Renewal(c)
    BY <1>4, <2>2 DEF Live
  <2>4. Silent(c)
    BY <1>4, <2>0, <2>3 DEF Renewal, GrantIssued, Silent, TokenIssued
  <2>5. ~CodeGrant(c)
    BY <1>1, <1>2, <1>4, <2>4 DEF CodeGrant, Silent
  <2>6. call[c].refresh_token \notin spent
    BY <2>0, <2>4 DEF TokenIssued, Exchanged, Silent
  <2>7. call[c].key \in Keys /\ call'[c] = SettledCall /\ (entries' = entries \/ Rewrites(c, entries))
    BY <2>0, <2>5, IssuedEntries DEF SwitchesUser
  <2> QED
    BY <1>4, <2>0, <2>2, <2>4, <2>5, <2>6, <2>7 DEF GrantIssued
<1>5. ASSUME Wipes, NEW m \in DOMAIN challenges, Live(m)' PROVE FALSE
  BY <1>0, <1>5 DEF Wipes, Live, Held, NoTokens
<1>6. ASSUME NEW m \in DOMAIN challenges', Live(m)' PROVE challenges'[m].state # "completed"
  <2>1. ASSUME NEW c \in Calls, NEW user, MfaRequired(c, user) PROVE challenges'[m].state # "completed"
    <3>1. CASE m \in DOMAIN challenges
      BY <1>2, <1>6, <2>1, <3>1, NewChallenge DEF Carried
    <3>2. CASE m \notin DOMAIN challenges
      BY <2>1, <3>2, NewChallenge
    <3> QED
      BY <3>1, <3>2
  <2>2. CASE Quiet
    BY <1>2, <1>6, <2>2 DEF Carried, Quiet
  <2>3. CASE Wipes
    BY <1>5, <1>6, <2>3 DEF Wipes
  <2>4. ASSUME NEW c \in Calls, NEW tok, MfaVerified(c, tok) PROVE challenges'[m].state # "completed"
    <3>1. m \in DOMAIN challenges
      BY <2>4 DEF MfaVerified
    <3> QED
      BY <1>2, <1>6, <2>4, <3>1, Completed DEF Carried
  <2>5. ASSUME NEW c \in Calls, NEW tok, GrantIssued(c, tok) PROVE challenges'[m].state # "completed"
    <3>1. m \in DOMAIN challenges
      BY <2>5 DEF GrantIssued
    <3> QED
      BY <1>2, <1>4, <1>6, <2>5, <3>1 DEF Carried
  <2> QED
    BY <2>1, <2>2, <2>3, <2>4, <2>5, RotationSteps
<1>7. ASSUME NEW t \in Tabs, NEW m \in MfaTokens, Live(m)', contexts'[t][m] # NoContext
      PROVE  Holds(entries', contexts'[t][m].key, challenges'[m].exchanged)
  <2> DEFINE Goal == Holds(entries', contexts'[t][m].key, challenges'[m].exchanged)
  <2>0. m \in DOMAIN challenges'
    BY <1>7 DEF Live
  <2>1. ASSUME m \in DOMAIN challenges, entries' = entries, contexts'[t][m] = contexts[t][m] PROVE Goal
    BY <1>2, <1>7, <2>1 DEF Carried
  <2>2. ASSUME NEW c \in Calls, NEW user, MfaRequired(c, user) PROVE Goal
    <3>1. CASE m \in DOMAIN challenges
      <4>1. contexts'[t][m] = contexts[t][m]
        BY <1>7, <2>2, <3>1, SetContexts, NewChallenge
      <4> QED
        BY <2>1, <2>2, <3>1, <4>1, NewChallenge
    <3>2. CASE m \notin DOMAIN challenges
      <4>1. m = Len(challenges) + 1 /\ entries' = entries
        BY <2>0, <2>2, <3>2, NewChallenge
      <4>2. contexts[t][m] = NoContext
        BY <3>2 DEF Lookups
      <4>3. contexts'[t][m].key = call[c].key
        BY <1>7, <2>2, <4>2, SetContexts
      <4> QED
        BY <1>3, <1>7, <2>2, <4>1, <4>3
    <3> QED
      BY <3>1, <3>2
  <2>3. CASE Quiet
    BY <1>7, <2>0, <2>1, <2>3 DEF Quiet
  <2>4. CASE Wipes
    BY <1>5, <1>7, <2>0, <2>4 DEF Wipes
  <2>5. ASSUME NEW c \in Calls, NEW tok, MfaVerified(c, tok) PROVE Goal
    <3>1. m \in DOMAIN challenges
      BY <2>0, <2>5 DEF MfaVerified
    <3> QED
      BY <1>7, <2>1, <2>5, <3>1, Completed
  <2>6. ASSUME NEW c \in Calls, NEW tok, GrantIssued(c, tok) PROVE Goal
    <3>1. m \in DOMAIN challenges
      BY <2>0, <2>6 DEF GrantIssued
    <3>2. /\ Silent(c) /\ call[c].refresh_token \notin spent /\ contexts' = contexts
          /\ call[c].key \in Keys /\ (entries' = entries \/ Rewrites(c, entries))
      BY <1>4, <1>7, <2>6, <3>1
    <3>3. Live(m) /\ challenges'[m].exchanged = challenges[m].exchanged
      BY <1>2, <1>7, <3>1
    <3> DEFINE e == challenges[m].exchanged
               k == contexts[t][m].key
    <3>4. e \in Nat \ {0} /\ e <= minted /\ call[c].refresh_token # e
      BY <1>1, <3>1, <3>2, <3>3
    <3>5. k \in Keys /\ Holds(entries, k, e)
      BY <1>7, <3>2, <3>3 DEF Carried, Typed
    <3>6. PICK i \in Finds(entries, call[c].key) : entries[i].refresh_token = call[c].refresh_token
      BY <3>1, <3>2, <3>3 DEF Carried
    <3>7. ASSUME Rewrites(c, entries) PROVE Holds(entries', k, e)
      <4> HIDE DEF e, k
      <4> QED
        BY <3>2, <3>4, <3>5, <3>6, <3>7, HoldsOn
    <3> QED
      BY <3>2, <3>3, <3>5, <3>7
  <2> QED
    BY <2>2, <2>3, <2>4, <2>5, <2>6, RotationSteps
<1>8. ASSUME NEW d \in Calls, Completes(d)', Live(call[d].mfa)'
      PROVE  call'[d].refresh_token = challenges'[call'[d].mfa].exchanged
  <2> DEFINE m == call'[d].mfa
  <2>0. \A n : n = m => Live(n)'
    BY <1>8 DEF Live, Held
  <2>1. CASE call'[d] = call[d]
    <3>1. Completes(d) /\ m = call[d].mfa /\ m \in DOMAIN challenges
      BY <1>8, <2>1 DEF Completes, Typed, Challenged
    <3>2. Live(call[d].mfa) /\ challenges'[m].exchanged = challenges[m].exchanged
      <4> HIDE DEF m
      <4> QED
        BY <1>2, <2>0, <3>1
    <3> QED
      BY <2>1, <3>1, <3>2 DEF Carried
  <2>2. ASSUME NEW t \in Tabs, NEW n \in MfaTokens, Verifies(d, t, n)
        PROVE  call'[d].refresh_token = challenges'[m].exchanged
    <3>1. /\ m = n /\ n \in DOMAIN challenges /\ contexts[t][n] # NoContext
          /\ call'[d].refresh_token \in Previous(contexts[t][n].key)
      BY <2>2 DEF Verifies, Lookups
    <3>2. Live(n) /\ challenges'[n].exchanged = challenges[n].exchanged
      <4> HIDE DEF m
      <4> QED
        BY <1>2, <2>0, <3>1
    <3>3. Holds(entries, contexts[t][n].key, challenges[n].exchanged)
      BY <3>1, <3>2 DEF Carried
    <3> QED
      BY <1>0, <3>1, <3>2, <3>3 DEF Holds, Previous
  <2> QED
    BY <1>8, <2>1, <2>2, CallOrigins
<1>9. ASSUME NEW d \in Calls, NEW m \in DOMAIN challenges', Silent(d)', Live(m)'
      PROVE  \E j \in Finds(entries', call'[d].key) : entries'[j].refresh_token = call'[d].refresh_token
  <2> DEFINE Goal == \E j \in Finds(entries', call'[d].key) : entries'[j].refresh_token = call'[d].refresh_token
  <2>1. CASE Entered(d)
    <3>1. m \in DOMAIN challenges /\ entries' = entries
      BY <2>1 DEF Entered
    <3>2. UseRefreshTokens
      BY <1>1, <1>2, <1>9, <3>1
    <3> QED
      BY <1>0, <2>1, <3>1, <3>2 DEF Entered
  <2>2. CASE call'[d] = call[d]
    <3>0. Silent(d) /\ \A c \in Calls : Silent(c) => c = d
      BY <1>9, <2>2 DEF Silent, Lookups
    <3>1. ASSUME m \in DOMAIN challenges, entries' = entries PROVE Goal
      BY <1>2, <1>9, <2>2, <3>0, <3>1 DEF Carried
    <3>2. ASSUME NEW c \in Calls, Silent(c), call'[c] = SettledCall PROVE FALSE
      BY <1>9, <3>0, <3>2, BlankTyped DEF Silent
    <3>3. ASSUME NEW c \in Calls, NEW user, MfaRequired(c, user) PROVE Goal
      <4>1. CASE m \in DOMAIN challenges
        BY <3>1, <3>3, <4>1, NewChallenge
      <4>2. CASE m = Len(challenges) + 1
        <5>1. Silent(c) /\ call'[c] = SettledCall
          BY <1>3, <1>9, <3>3, <4>2, NewChallenge
        <5> QED
          BY <3>2, <5>1
      <4> QED
        BY <3>3, <4>1, <4>2, NewChallenge
    <3>4. CASE Wipes
      BY <1>5, <1>9, <3>4 DEF Wipes
    <3>5. ASSUME NEW c \in Calls, NEW tok, MfaVerified(c, tok) PROVE Goal
      <4>1. m \in DOMAIN challenges
        BY <3>5 DEF MfaVerified
      <4> QED
        BY <1>9, <3>1, <3>5, <4>1, Completed
    <3>6. ASSUME NEW c \in Calls, NEW tok, GrantIssued(c, tok) PROVE FALSE
      <4>1. m \in DOMAIN challenges
        BY <3>6 DEF GrantIssued
      <4> QED
        BY <1>4, <1>9, <3>2, <3>6, <4>1
    <3>7. CASE Quiet
      BY <3>1, <3>7 DEF Quiet
    <3> QED
      BY <3>3, <3>4, <3>5, <3>6, <3>7, RotationSteps
  <2> QED
    BY <1>9, <2>1, <2>2, CallOrigins
<1> QED
  BY <1>6, <1>7, <1>8, <1>9 DEF Carried

\* Where no key is covered by two others, a refresh token that a challenge has
\* used up is kept nowhere once the challenge is completed, unless a login or
\* another completion came between: for any number of calls, tabs, challenges
\* and keys.
THEOREM ChallengesRotate ==
  ASSUME OneCover
  PROVE  Spec => []MfaRotates
<1> DEFINE Inv == Ledger /\ Lookups /\ Carried
<1>1. Init => Inv
  BY DEF Init, SessionInit, MfaInit, IdleCall, NoTokens, Ledger, Lookups, Carried, Silent, Completes, Live
<1>2. Typed /\ Inv /\ [Next]_vars => Inv'
  <2>1. ASSUME Inv, UNCHANGED vars PROVE Inv'
    BY <2>1 DEF vars, sessionVars, cache, server, mfaVars, Ledger, Lookups, Carried, Silent, Completes, Live, Held
  <2> QED
    BY <2>1, NextLedger, NextLookups, NextCarried
<1>3. Inv => MfaRotates
  BY DEF Carried, Live, Held, MfaRotates
<1> HIDE DEF Inv
<1> QED
  BY <1>1, <1>2, <1>3, InitTyped, NextTyped, PTL DEF Spec

-----------------------------------------------------------------------------
(* Whose refresh token an entry holds *)

\* Every refresh token has an owner, and only renewals and completions carry one.
Owners ==
  /\ owner \in Seq(Subs) /\ Len(owner) = minted
  /\ \A c \in Calls : call[c].refresh_token # 0 => call[c].kind \in {"silent", "verify"}

\* An answer with tokens; that to a refresh token is for its owner.
Answered(c, tok) ==
  /\ TokenIssued(c, tok) /\ tok.sub \in Subs
  /\ call[c].kind = "silent" /\ call[c].refresh_token # 0 => tok.sub \in {owner[call[c].refresh_token], "none"}

\* What can become of entries and owners.
LEMMA OwnerSteps ==
  ASSUME Typed, Next
  PROVE  \/ UNCHANGED <<entries, crossed, minted, owner>>
         \/ entries' = NoTokens /\ UNCHANGED <<minted, owner>>
         \/ \E c \in Calls : \E tok : Answered(c, tok)
<1> DEFINE Idles == UNCHANGED <<entries, crossed, minted, owner>>
           Empties == entries' = NoTokens /\ UNCHANGED <<minted, owner>>
<1>1. ASSUME UNCHANGED <<cache, server, history>> PROVE Idles
  BY <1>1 DEF cache, server, history
<1>2. ASSUME SessionStep PROVE Idles \/ Empties
  <2>1. ASSUME NEW t \in Tabs, GetUser(t) \/ Logout(t) PROVE Idles \/ Empties
    BY <2>1 DEF GetUser, Logout, ClearLocalSession, server, history
  <2>2. ASSUME NEW c \in Calls, NEW t \in Tabs, NEW k \in Keys,
               \/ CodeArrives(c, t, k) \/ LoginWithCustomTokenExchange(c, t, k) \/ CustomTokenExchange(c, t, k)
        PROVE  Idles
    BY <1>1, <2>2 DEF CodeArrives, LoginWithCustomTokenExchange, CustomTokenExchange
  <2>3. ASSUME NEW c \in Calls, NEW t \in Tabs, NEW k \in Keys, GetTokenSilently(c, t, k) PROVE Idles \/ Empties
    BY <2>3 DEF GetTokenSilently, ClearLocalSession, cache, server, history
  <2>4. ASSUME NEW c \in Calls, EnterLock(c) PROVE Idles
    BY <2>4 DEF EnterLock, server, history
  <2>5. ASSUME NEW c \in Calls, TokenDelegated(c) \/ RequestFails(c) PROVE Idles
    BY <1>1, <2>5 DEF TokenDelegated, RequestFails
  <2>6. ASSUME NEW c \in Calls, SessionRefused(c) PROVE Empties
    BY <2>6 DEF SessionRefused, ClearLocalSession, server
  <2>7. ASSUME Tick PROVE Idles
    BY <1>1, <2>7 DEF Tick
  <2> HIDE DEF Idles, Empties
  <2> QED
    BY <1>2, <2>1, <2>2, <2>3, <2>4, <2>5, <2>6, <2>7 DEF SessionStep
<1>3. ASSUME MfaStep PROVE Idles \/ \E c \in Calls : \E tok : Answered(c, tok)
  <2>1. ASSUME NEW c \in Calls, NEW user, MfaRequired(c, user) PROVE Idles
    BY <2>1 DEF MfaRequired, cache, history
  <2>2. ASSUME NEW t, NEW m, InspectChallenge(t, m) PROVE Idles
    BY <1>1, <2>2 DEF InspectChallenge, sessionVars
  <2>3. ASSUME NEW c, NEW t, NEW m, MfaVerify(c, t, m) PROVE Idles
    BY <1>1, <2>3 DEF MfaVerify
  <2>4. ASSUME NEW c \in Calls, NEW tok \in AnswersTo(c, challenges[call[c].mfa].user), MfaVerified(c, tok)
        PROVE  Answered(c, tok)
    <3>1. challenges[call[c].mfa] \in Challenge /\ call[c].kind = "verify" /\ TokenIssued(c, tok)
      BY <2>4 DEF MfaVerified, Typed, Challenged, TokenIssued
    <3>2. tok.sub \in Subs
      BY <3>1, AnswerUser DEF Challenge, Subs
    <3> QED
      BY <3>1, <3>2 DEF Answered
  <2>5. ASSUME NEW c \in Calls, NEW user \in AnswerUsers(c), NEW tok \in AnswersTo(c, user), GrantIssued(c, tok)
        PROVE  Answered(c, tok)
    <3>1. tok.sub \in Subs /\ tok.sub \in {user, "none"} /\ TokenIssued(c, tok)
      BY <2>5, AnswerUsersTyped, AnswerUser DEF GrantIssued
    <3>2. call[c].kind = "silent" /\ call[c].refresh_token # 0 => owner[call[c].refresh_token] = user
      BY DEF AnswerUsers, Exchanged
    <3> QED
      BY <3>1, <3>2 DEF Answered
  <2> HIDE DEF Idles
  <2> QED
    BY <1>3, <2>1, <2>2, <2>3, <2>4, <2>5 DEF MfaStep
<1>4. ASSUME PasskeyStep PROVE Idles
  <2>1. UNCHANGED unchangedSession => Idles
    BY <1>1 DEF unchangedSession
  <2> HIDE DEF Idles
  <2> QED
    BY <1>4, <2>1
       DEF PasskeyStep, PasskeySignup, PasskeyLogin, GetTokenWithPasskey, ContinueSignup, ChallengeArrives,
           VerificationRequired, CredentialArrives, PromptCancelled, WrongCode
<1>5. ASSUME NEW t \in Tabs, MfaReload(t) PROVE Idles
  BY <1>5 DEF MfaReload, Reload, server, history
<1> HIDE DEF Idles, Empties
<1>6. Idles \/ Empties \/ \E c \in Calls : \E tok : Answered(c, tok)
  BY <1>2, <1>3, <1>4, <1>5 DEF Next
<1> QED
  BY <1>6 DEF Idles, Empties

\* A call that carries a refresh token is a renewal or a completion.
LEMMA CarriersKept ==
  ASSUME Typed, Owners, Next, NEW d \in Calls, call'[d].refresh_token # 0
  PROVE  call'[d].kind \in {"silent", "verify"}
<1>0. call \in [Calls -> Call] /\ call[d] \in Call
  BY DEF Typed
<1>1. CASE call'[d] = call[d]
  BY <1>1 DEF Owners
<1>2. CASE Plain(call'[d])
  BY <1>2 DEF Plain
<1>3. CASE EnterLock(d)
  <2>1. call[d].kind = "silent"
    BY <1>3 DEF EnterLock, Typed, Placed, Waits
  <2> QED
    BY <1>0, <1>3, <2>1, EnterLockDoes, BlankTyped
<1>4. ASSUME NEW t, NEW m, MfaVerify(d, t, m) PROVE call'[d] = SettledCall \/ call'[d].kind = "verify"
  BY <1>0, <1>4 DEF MfaVerify, Settle, IdleCall
<1>5. CASE ChallengeArrives(d)
  BY <1>0, <1>5 DEF ChallengeArrives, Owners, Call
<1>6. CASE CredentialArrives(d)
  <2>1. \/ call'[d].refresh_token = call[d].refresh_token /\ call'[d].kind = call[d].kind
        \/ call'[d].refresh_token = 0
    BY <1>0, <1>6 DEF CredentialArrives, Call, IdleCall
  <2> QED
    BY <2>1 DEF Owners
<1>7. ASSUME NEW t, ContinueSignup(d, t) PROVE call'[d].refresh_token = 0
  BY <1>0, <1>7 DEF ContinueSignup, ContinueWith, IdleCall
<1> QED
  BY <1>1, <1>2, <1>3, <1>4, <1>5, <1>6, <1>7, BlankTyped, CallSteps

\* The owners after an answer.
LEMMA AnsweredOwners ==
  ASSUME Typed, Owners, NEW c \in Calls, NEW tok, Answered(c, tok)
  PROVE  /\ owner' \in Seq(Subs) /\ Len(owner') = minted'
         /\ \A x \in Nat \ {0} : x <= minted => owner'[x] = owner[x]
         /\ UseRefreshTokens => owner'[minted + 1] = tok.sub
<1>1. /\ owner \in Seq(Subs) /\ Len(owner) = minted /\ minted \in Nat /\ tok.sub \in Subs
      /\ owner' = IF UseRefreshTokens THEN Append(owner, tok.sub) ELSE owner
      /\ minted' = IF UseRefreshTokens THEN minted + 1 ELSE minted
  BY DEF Typed, Owners, Answered, TokenIssued
<1>2. CASE UseRefreshTokens
  BY <1>1, <1>2
<1>3. CASE ~UseRefreshTokens
  BY <1>1, <1>3
<1> QED
  BY <1>2, <1>3

\* An answer leaves every entry a refresh token of its own user.
LEMMA AnsweredEntries ==
  ASSUME Typed, Ledger, Owners, TokenOwner, NEW c \in Calls, NEW tok, Answered(c, tok)
  PROVE  TokenOwner'
<1>0. /\ TokenIssued(c, tok) /\ minted \in Nat /\ call[c].key \in Keys /\ call[c].refresh_token \in Nat
      /\ \A k \in Keys : entries[k].refresh_token \in Nat /\ entries[k].refresh_token <= minted
      /\ \A k \in Keys : NoTokens[k].refresh_token = 0
      /\ call[c].refresh_token <= minted
  BY IssuedEntries DEF Answered, Typed, Token, Call, Ledger, NoTokens
<1>1. CASE ~Accepted(c, tok)
  <2>1. crossed' = crossed /\ entries' \in {entries, NoTokens}
    BY <1>0, <1>1, IssuedEntries DEF TokenIssued, SaveEntry, Accepted, history
  <2> QED
    BY <1>0, <2>1, AnsweredOwners DEF TokenOwner
<1>2. CASE Accepted(c, tok)
  <2> SUFFICES ASSUME ~crossed', NEW k \in Keys, entries'[k].refresh_token # 0
               PROVE  owner'[entries'[k].refresh_token] = entries'[k].sub
    BY DEF TokenOwner
  <2> DEFINE kept == IF SwitchesUser(c, tok) THEN NoTokens ELSE entries
             old == call[c].refresh_token
             new == IF UseRefreshTokens THEN minted + 1 ELSE 0
  <2>1. /\ entries'[call[c].key].refresh_token = new /\ entries'[call[c].key].sub = tok.sub /\ tok.sub # "none"
        /\ \A j \in Keys \ {call[c].key} :
             /\ entries'[j].sub = kept[j].sub
             /\ entries'[j].refresh_token = IF old # 0 /\ kept[j].refresh_token = old THEN new
                                            ELSE kept[j].refresh_token
    BY <1>0, <1>2, IssuedEntries DEF Rewrites
  <2>2. kept = NoTokens \/ (kept = entries /\ ~crossed /\ (call[c].kind = "verify" /\ old # 0 => owner[old] = tok.sub))
    BY <1>0, <1>2 DEF TokenIssued, SaveEntry, Accepted
  <2>3. kept[k].refresh_token # 0 => kept[k] = entries[k] /\ owner[kept[k].refresh_token] = kept[k].sub
    BY <1>0, <2>2 DEF TokenOwner
  <2>4. kept[k].refresh_token # 0 /\ old # 0 => owner[old] = tok.sub
    <3>1. call[c].kind = "silent" /\ old # 0 => owner[old] = tok.sub
      BY <2>1 DEF Answered
    <3>2. old # 0 => call[c].kind \in {"silent", "verify"}
      BY DEF Owners
    <3> QED
      BY <1>0, <2>2, <3>1, <3>2
  <2> HIDE DEF kept, old
  <2>5. CASE k = call[c].key
    BY <2>1, <2>5, AnsweredOwners DEF new
  <2>6. CASE k # call[c].key /\ ~(old # 0 /\ kept[k].refresh_token = old)
    <3>1. entries'[k].refresh_token = kept[k].refresh_token /\ entries'[k].sub = kept[k].sub
      BY <2>1, <2>6
    <3>2. kept[k].refresh_token \in Nat \ {0} /\ kept[k].refresh_token <= minted
      BY <1>0, <2>3, <3>1
    <3> QED
      BY <2>3, <3>1, <3>2, AnsweredOwners
  <2>7. CASE k # call[c].key /\ old # 0 /\ kept[k].refresh_token = old
    <3>1. entries'[k].refresh_token = new /\ entries'[k].sub = kept[k].sub /\ new # 0
      BY <2>1, <2>7
    <3>2. kept[k].sub = tok.sub
      BY <2>3, <2>4, <2>7
    <3> QED
      BY <3>1, <3>2, AnsweredOwners DEF new
  <2> QED
    BY <2>5, <2>6, <2>7
<1> QED
  BY <1>1, <1>2

\* Each entry holds a refresh token of the user of its access token, whatever is
\* answered after another user's login, by any number of calls in any tabs: a
\* rotated refresh token only replaces the one it was exchanged for
\* (Auth0Client.ts 1726-1727).
THEOREM TokensOwned == Spec => []TokenOwner
<1> DEFINE Inv == Ledger /\ Owners /\ TokenOwner
<1>1. Init => Inv
  <2> SUFFICES ASSUME Init PROVE Inv
    OBVIOUS
  <2>1. Ledger /\ TokenOwner
    BY DEF Init, SessionInit, MfaInit, IdleCall, NoTokens, Ledger, TokenOwner
  <2>2. Owners
    BY DEF Init, SessionInit, IdleCall, Owners
  <2> QED
    BY <2>1, <2>2
<1>2. Typed /\ Inv /\ [Next]_vars => Inv'
  <2>1. ASSUME Inv, UNCHANGED vars PROVE Inv'
    BY <2>1 DEF vars, sessionVars, cache, server, history, mfaVars, Ledger, Owners, TokenOwner
  <2>2. ASSUME Typed, Inv, Next PROVE Inv'
    <3>1. Ledger' /\ \A d \in Calls : call'[d].refresh_token # 0 => call'[d].kind \in {"silent", "verify"}
      BY <2>2, NextLedger, CarriersKept
    <3>2. CASE UNCHANGED <<entries, crossed, minted, owner>>
      BY <2>2, <3>1, <3>2 DEF Owners, TokenOwner
    <3>3. CASE entries' = NoTokens /\ UNCHANGED <<minted, owner>>
      BY <2>2, <3>1, <3>3 DEF Owners, TokenOwner, NoTokens
    <3>4. ASSUME NEW c \in Calls, NEW tok, Answered(c, tok) PROVE Inv'
      <4>1. TokenOwner'
        BY <2>2, <3>4, AnsweredEntries
      <4> QED
        BY <2>2, <3>1, <3>4, <4>1, AnsweredOwners DEF Owners
    <3> QED
      BY <2>2, <3>2, <3>3, <3>4, OwnerSteps
  <2> QED
    BY <2>1, <2>2
<1>3. Inv => TokenOwner
  OBVIOUS
<1> HIDE DEF Inv
<1> QED
  BY <1>1, <1>2, <1>3, InitTyped, NextTyped, PTL DEF Spec
=============================================================================
