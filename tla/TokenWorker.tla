---------------------------- MODULE TokenWorker ----------------------------
(***************************************************************************)
(* The token worker (worker/token.worker.ts): refresh tokens live in its   *)
(* memory only, and every request to the token endpoint goes through it.   *)
(* A page posts messages (worker.utils.ts), the worker routes them in      *)
(* order, and each asynchronous handler then runs on its own up to its     *)
(* next await. The page's side is getJSON (http.ts), with its retries on   *)
(* network failures and its one retry with a fresh DPoP nonce, called by   *)
(* the token requests, revokeRefreshToken and logout of Auth0Client.ts.    *)
(***************************************************************************)
EXTENDS Naturals, Sequences, FiniteSets

CONSTANTS
  Calls,          \* invocations by the application
  Keys,           \* "audience|scope" keys of the worker's store
  AudOf, ScopeOf,
  Profiles,       \* configurations to explore, each with its bounds
  RetryCount      \* DEFAULT_SILENT_TOKEN_RETRY_COUNT

\* "code": an authorization code (popup, iframe); "refresh": getTokenSilently;
\* "mfa": completion of an MFA challenge; "custom": a token exchange whose
\* result is not stored; "revoke": revokeRefreshToken; "clear": logout.
TokenKinds == {"code", "refresh", "mfa", "custom"}

\* useMrrt, online refresh tokens and DPoP of the client; leeway: does the
\* server still exchange a spent refresh token; lossy: can the answer to a
\* delivered request be lost; the kinds of invocation and their number.
Profile == [useMrrt : BOOLEAN, onlineAccess : BOOLEAN, dpop : BOOLEAN,
            leeway : BOOLEAN, lossy : BOOLEAN,
            kinds : SUBSET (TokenKinds \cup {"revoke", "clear"}), calls : Nat]

ASSUME ConstantsAssumption ==
  /\ IsFiniteSet(Keys) /\ Keys # {} /\ DOMAIN AudOf = Keys /\ DOMAIN ScopeOf = Keys
  /\ RetryCount \in Nat \ {0}
  /\ Profiles \subseteq Profile /\ Profiles # {}

VARIABLES
  \* worker
  store,      \* refreshTokens: the token under each key, 0 = none
  latest,     \* refreshTokens["latest_refresh_token"]
  inbox,      \* calls whose message is on its way to the worker
  \* page
  pc,         \* where each call is: in the page, on its way, in the worker
  req,        \* its arguments
  reg,        \* its local variables, in the page and in the worker
  challenges, \* MFA challenges the application can complete
  \* authorization server (external)
  issued,     \* refresh tokens issued so far, which are the numbers up to it
  spent, revoked,
  \* configuration, chosen once
  profile

server == <<issued, spent, revoked, profile>>
vars == <<store, latest, inbox, pc, req, reg, challenges, server>>

NoAnswer == [kind |-> "none", rt |-> 0]

\* The handler's refresh token, getJSON's failed attempts and isDpopRetry, the
\* answer under way, and the tokens revoke has still to visit.
NoReg == [rt |-> 0, tries |-> 0, again |-> FALSE, answer |-> NoAnswer, rts |-> {}]

FirstKey == CHOOSE k \in Keys : TRUE

Init ==
  /\ profile \in Profiles
  /\ store = [k \in Keys |-> IF k = FirstKey THEN 1 ELSE 0]
  /\ latest = IF profile.useMrrt THEN 1 ELSE 0
  /\ inbox = <<>>
  /\ pc = [c \in Calls |-> "idle"]
  /\ req = [c \in Calls |-> [kind |-> "none", key |-> FirstKey, bound |-> 0]]
  /\ reg = [c \in Calls |-> NoReg]
  /\ challenges = {}
  /\ issued = 1
  /\ spent = {} /\ revoked = {}

Goto(c, l) == pc' = [pc EXCEPT ![c] = l]

\* sendMessage.
Post(c) == Goto(c, "posted") /\ inbox' = Append(inbox, c)

\* port.postMessage: the call's own port, so answers never mix.
Reply(c, kind, rt) ==
  /\ Goto(c, "replied")
  /\ reg' = [reg EXCEPT ![c].answer = [kind |-> kind, rt |-> rt]]

-----------------------------------------------------------------------------
(* The page starts a call *)

\* getTokenSilently refreshes under the lock of its audience.
LockFree(k) ==
  \A d \in Calls : req[d].kind = "refresh" /\ AudOf[req[d].key] = AudOf[k]
                     => pc[d] \in {"idle", "settled"}

Start(c, r) ==
  /\ pc[c] = "idle"
  /\ Cardinality({d \in Calls : pc[d] # "idle"}) < profile.calls
  /\ r.kind \in profile.kinds
  /\ req' = [req EXCEPT ![c] = r]
  /\ Post(c)
  /\ UNCHANGED <<store, latest, reg, challenges, server>>

RequestToken(c, kind, k) ==
  /\ kind = "refresh" => LockFree(k)
  /\ Start(c, [kind |-> kind, key |-> k, bound |-> 0])

\* _requestTokenForMfa, for the challenge that refused the exchange of rt.
RequestTokenForMfa(c, k, rt) ==
  /\ <<k, rt>> \in challenges
  /\ Start(c, [kind |-> "mfa", key |-> k, bound |-> rt])

RevokeRefreshToken(c, k) == Start(c, [kind |-> "revoke", key |-> k, bound |-> 0])

\* logout: _clearLocalSession empties the page's cache, then the worker.
Logout(c) == Start(c, [kind |-> "clear", key |-> FirstKey, bound |-> 0])

-----------------------------------------------------------------------------
(* The worker *)

\* checkDownscoping: some stored token of the audience covers these scopes.
Downscoping(k) ==
  \E j \in Keys : store[j] # 0 /\ AudOf[j] = AudOf[k] /\ ScopeOf[k] \subseteq ScopeOf[j]

\* A completion of MFA that does not capture the token it will rotate.
TokenForRefreshOnly(kind, k) ==
  IF kind # "refresh" THEN 0
  ELSE IF store[k] = 0 /\ profile.useMrrt /\ ~Downscoping(k) THEN latest ELSE store[k]

\* The refresh token a handler works with, 0 = undefined.
TokenFor(kind, k) ==
  CASE kind = "refresh" -> IF store[k] = 0 /\ profile.useMrrt /\ ~Downscoping(k)
                           THEN latest ELSE store[k]
    [] kind = "mfa"     -> IF store[k] = 0 /\ profile.useMrrt THEN latest ELSE store[k]
    [] OTHER            -> 0

\* getRefreshTokensByAudience.
TokensOf(a) == {store[j] : j \in {i \in Keys : AudOf[i] = a}} \ {0}

\* messageRouter, and the handler up to its first await.
RouteToken(c) ==
  LET rt == TokenFor(req[c].kind, req[c].key)
  IN /\ req[c].kind \in TokenKinds
     /\ IF req[c].kind = "refresh" /\ rt = 0
        THEN Reply(c, "missing", 0)
        ELSE Goto(c, "fetching") /\ reg' = [reg EXCEPT ![c].rt = rt]
     /\ UNCHANGED <<store, latest>>

RouteRevoke(c) ==
  /\ req[c].kind = "revoke"
  /\ reg' = [reg EXCEPT ![c].rts = TokensOf(AudOf[req[c].key])]
  /\ Goto(c, "revoking")
  /\ UNCHANGED <<store, latest>>

RouteClear(c) ==
  /\ req[c].kind = "clear"
  /\ store' = [k \in Keys |-> 0] /\ latest' = 0
  /\ Reply(c, "ok", 0)

MessageRouter ==
  /\ inbox # <<>>
  /\ inbox' = Tail(inbox)
  /\ LET c == Head(inbox) IN RouteToken(c) \/ RouteRevoke(c) \/ RouteClear(c)
  /\ UNCHANGED <<req, challenges, server>>

\* The fetch rejects or wait(timeout) wins the race.
FetchFails(c) ==
  /\ pc[c] \in {"fetching", "revFetching"} \/ (profile.lossy /\ pc[c] \in {"responded", "revDone"})
  /\ Reply(c, "error", 0)
  /\ UNCHANGED <<store, latest, inbox, req, challenges, server>>

\* response.json() throws.
BodyUnreadable(c) ==
  /\ profile.lossy /\ pc[c] = "responded"
  /\ Reply(c, "fail", 0)
  /\ UNCHANGED <<store, latest, inbox, req, challenges, server>>

\* The new refresh token is dropped.
RememberNothing(c) == UNCHANGED <<store, latest>>

\* An answer without refresh token evicts an online one too.
RememberEvicting(c) ==
  /\ store' = [store EXCEPT ![req[c].key] = reg[c].answer.rt]
  /\ latest' = IF profile.useMrrt /\ reg[c].answer.rt # 0 THEN reg[c].answer.rt ELSE latest

\* The worker's memory after an answer of whatever status: a refresh token
\* replaces the key's (and with MRRT the one sent, wherever it is stored), and
\* none evicts the key's unless it is an online one.
Remember(c) ==
  LET new == reg[c].answer.rt
      keys == {req[c].key} \cup
              {j \in Keys : profile.useMrrt /\ store[j] # 0 /\ store[j] = reg[c].rt}
  IN IF req[c].kind = "custom" \/ (new = 0 /\ profile.onlineAccess)
     THEN UNCHANGED <<store, latest>>
     ELSE IF new # 0
     THEN /\ store' = [j \in Keys |-> IF j \in keys THEN new ELSE store[j]]
          /\ latest' = IF profile.useMrrt THEN new ELSE latest
     ELSE /\ store' = [store EXCEPT ![req[c].key] = 0]
          /\ UNCHANGED latest

\* A result that is not stored goes to the page with its refresh token.
StoreAnswerExposing(c) ==
  /\ pc[c] = "responded"
  /\ Remember(c)
  /\ Reply(c, reg[c].answer.kind, IF req[c].kind = "custom" THEN reg[c].answer.rt ELSE 0)
  /\ UNCHANGED <<inbox, req, challenges, server>>

\* The page gets the answer without the refresh token.
StoreAnswer(c) ==
  /\ pc[c] = "responded"
  /\ Remember(c)
  /\ Reply(c, reg[c].answer.kind, 0)
  /\ UNCHANGED <<inbox, req, challenges, server>>

\* revokeMessageHandler: one request after the other.
RevokeNext(c) ==
  /\ pc[c] = "revoking"
  /\ \/ reg[c].rts = {} /\ Reply(c, "ok", 0)
     \/ \E rt \in reg[c].rts :
          /\ reg' = [reg EXCEPT ![c].rt = rt, ![c].rts = @ \ {rt}]
          /\ Goto(c, "revFetching")
  /\ UNCHANGED <<store, latest, inbox, req, challenges, server>>

\* Deletes the keys of the audience only.
DeleteTokenOfAudience(c) ==
  /\ pc[c] = "revDone"
  /\ store' = [j \in Keys |-> IF store[j] = reg[c].rt /\ AudOf[j] = AudOf[req[c].key]
                              THEN 0 ELSE store[j]]
  /\ Goto(c, "revoking")
  /\ UNCHANGED <<latest, inbox, req, reg, challenges, server>>

\* deleteRefreshTokensByValue.
DeleteToken(c) ==
  /\ pc[c] = "revDone"
  /\ store' = [j \in Keys |-> IF store[j] = reg[c].rt THEN 0 ELSE store[j]]
  /\ latest' = IF latest = reg[c].rt THEN 0 ELSE latest
  /\ Goto(c, "revoking")
  /\ UNCHANGED <<inbox, req, reg, challenges, server>>

-----------------------------------------------------------------------------
(* The authorization server (external) *)

Accepts(rt) == rt \notin revoked /\ (rt \in spent => profile.leeway)

\* A code starts a session; an exchange rotates offline tokens and returns no
\* new one for online tokens; the completion of a challenge rotates the token
\* whose exchange was refused.
Grants(c) ==
  LET old == IF req[c].kind = "mfa" THEN req[c].bound ELSE reg[c].rt
      rotates == req[c].kind \in {"code", "custom"} \/ ~profile.onlineAccess
  IN /\ pc[c] = "fetching"
     /\ req[c].kind = "refresh" => Accepts(old)
     /\ spent' = IF rotates /\ req[c].kind \in {"refresh", "mfa"} THEN spent \cup {old} ELSE spent
     /\ issued' = IF rotates THEN issued + 1 ELSE issued
     /\ reg' = [reg EXCEPT ![c].answer =
                  [kind |-> "ok", rt |-> IF rotates THEN issued + 1 ELSE 0]]
     /\ Goto(c, "responded")
     /\ UNCHANGED <<store, latest, inbox, req, challenges, revoked, profile>>

Refuses(c, why) ==
  /\ pc[c] = "fetching"
  /\ why = "nonce" => profile.dpop
  /\ why = "mfa" => req[c].kind = "refresh"
  /\ reg' = [reg EXCEPT ![c].answer = [kind |-> why, rt |-> 0]]
  /\ Goto(c, "responded")
  /\ UNCHANGED <<store, latest, inbox, req, challenges, server>>

Revokes(c) ==
  /\ pc[c] = "revFetching"
  /\ revoked' = revoked \cup {reg[c].rt}
  /\ Goto(c, "revDone")
  /\ UNCHANGED <<store, latest, inbox, req, reg, challenges, issued, spent, profile>>

-----------------------------------------------------------------------------
(* The page receives the reply *)

Settle(c) == Goto(c, "settled") /\ UNCHANGED inbox

\* A retry with a fresh nonce that does not remember it is one.
NonceAnswersEndlessly(c) ==
  /\ reg[c].answer.kind = "nonce"
  /\ reg' = [reg EXCEPT ![c].answer = NoAnswer]
  /\ Post(c)
  /\ UNCHANGED <<req, challenges>>

\* use_dpop_nonce: repeat the call once, isDpopRetry set.
NonceAnswers(c) ==
  /\ reg[c].answer.kind = "nonce"
  /\ IF reg[c].again
     THEN Settle(c) /\ UNCHANGED reg
     ELSE /\ reg' = [reg EXCEPT ![c] = [NoReg EXCEPT !.again = TRUE]]
          /\ Post(c)
  /\ UNCHANGED <<req, challenges>>

\* sendMessage rejects: getJSON tries again; revokeToken does not.
ErrorAnswers(c) ==
  /\ reg[c].answer.kind = "error"
  /\ IF req[c].kind \in TokenKinds /\ reg[c].tries + 1 < RetryCount
     THEN /\ reg' = [reg EXCEPT ![c] = [NoReg EXCEPT !.again = reg[c].again,
                                                     !.tries = reg[c].tries + 1]]
          /\ Post(c)
     ELSE Settle(c) /\ UNCHANGED reg
  /\ UNCHANGED <<req, challenges>>

RefusalAnswers(c) ==
  /\ reg[c].answer.kind \in {"missing", "fail", "mfa"}
  /\ challenges' = IF reg[c].answer.kind = "mfa"
                   THEN challenges \cup {<<req[c].key, reg[c].rt>>} ELSE challenges
  /\ Settle(c)
  /\ UNCHANGED <<req, reg>>

\* _requestToken saves the access token in the page.
TokenAnswers(c) ==
  /\ reg[c].answer.kind = "ok" /\ req[c].kind \in TokenKinds
  /\ Settle(c)
  /\ UNCHANGED <<req, reg, challenges>>

\* revokeRefreshToken ends, in online mode with _clearLocalSession.
DoneAnswers(c) ==
  /\ reg[c].answer.kind = "ok" /\ req[c].kind \in {"revoke", "clear"}
  /\ IF req[c].kind = "revoke" /\ profile.onlineAccess
     THEN /\ req' = [req EXCEPT ![c].kind = "clear"]
          /\ reg' = [reg EXCEPT ![c] = NoReg]
          /\ Post(c)
     ELSE Settle(c) /\ UNCHANGED <<req, reg>>
  /\ UNCHANGED challenges

Receive(c) ==
  /\ pc[c] = "replied"
  /\ \/ NonceAnswers(c) \/ ErrorAnswers(c) \/ RefusalAnswers(c)
     \/ TokenAnswers(c) \/ DoneAnswers(c)
  /\ UNCHANGED <<store, latest, server>>

-----------------------------------------------------------------------------
Invoke(c) ==
  \/ \E kind \in {"code", "refresh", "custom"}, k \in Keys : RequestToken(c, kind, k)
  \/ \E k \in Keys : RevokeRefreshToken(c, k)
  \/ \E ch \in challenges : RequestTokenForMfa(c, ch[1], ch[2])
  \/ Logout(c)

Handle(c) ==
  \/ FetchFails(c) \/ BodyUnreadable(c) \/ StoreAnswer(c)
  \/ RevokeNext(c) \/ DeleteToken(c) \/ Receive(c)

Serve(c) == Grants(c) \/ (\E why \in {"nonce", "mfa", "fail"} : Refuses(c, why)) \/ Revokes(c)

Next == MessageRouter \/ \E c \in Calls : Invoke(c) \/ Handle(c) \/ Serve(c)

Spec == Init /\ [][Next]_vars

-----------------------------------------------------------------------------
(* Properties *)

Quiet == \A c \in Calls : pc[c] \in {"idle", "settled"}

Stored == {store[k] : k \in Keys} \cup {latest}

\* "tokens never touch the main thread" (references/pitfalls.md 5): no reply
\* carries a refresh token, on any path of any handler.
TokensStayInWorker == \A c \in Calls : pc[c] = "replied" => reg[c].answer.rt = 0

\* No answer with a rotated token is lost: getJSON would repeat the request
\* with the token that the lost answer has replaced.
NothingLost == profile.lossy => profile.onlineAccess

\* Without MRRT no request leaves with a refresh token that an earlier
\* exchange has spent, whatever else the worker handles meanwhile.
NoReplay ==
  ~profile.useMrrt /\ NothingLost =>
    \A c \in Calls : pc[c] = "fetching" /\ req[c].kind = "refresh" => reg[c].rt \notin spent

Used(kind) == \E c \in Calls : req[c].kind = kind

\* The refresh token that a request to the server rotates.
Exchanged(c) == IF req[c].kind = "mfa" THEN req[c].bound ELSE reg[c].rt

\* The server exchanged one refresh token for two invocations: within its
\* leeway, or for a challenge and a refresh that went on beside it.
ExchangedTwice ==
  \E c, d \in Calls :
    /\ c # d /\ {req[c].kind, req[d].kind} \subseteq {"refresh", "mfa"}
    /\ reg[c].answer.kind = "ok" /\ reg[d].answer.kind = "ok"
    /\ Exchanged(c) = Exchanged(d)

\* With MRRT an MFA completion fans out from the latest token, which is not
\* the challenge's where there is more than one chain of tokens.
Forked == profile.useMrrt /\ Used("mfa") /\ (Used("code") \/ ExchangedTwice)

\* When nothing is under way no stored token is spent: the rotation, also the
\* one of an MFA completion, reached every key, the latest one included
\* (token.worker.ts 133-138, 190-192).
StoredUnspent == Quiet /\ NothingLost /\ ~Forked => Stored \cap spent = {}

\* When nothing is under way no stored token is one the server revoked, unless
\* the answer to a revocation was lost.
RevokedForgotten == Quiet /\ ~profile.lossy => Stored \cap revoked = {}

Clearing == inbox # <<>> /\ inbox' = Tail(inbox) /\ req[Head(inbox)].kind = "clear"

\* Only logout and revokeRefreshToken take an online refresh token out of the
\* worker; no answer of the token endpoint does (token.worker.ts 198-202).
OnlineTokenKept ==
  [][profile.onlineAccess =>
       \A k \in Keys : store[k] # 0 /\ store'[k] = 0 /\ ~Clearing => store[k] \in revoked]_vars

\* The retry with a fresh DPoP nonce reaches the server: it never ends for
\* want of the refresh token that the first try had (http.ts 217-223).
NonceRetrySent ==
  (\A d \in Calls : req[d].kind \notin {"clear", "revoke"}) =>
    \A c \in Calls : pc[c] = "settled" /\ reg[c].again => reg[c].answer.kind # "missing"

\* What a call has still to do: attempts of getJSON, messages of the method and
\* steps of the handler, in this order of weight.
Attempts(c) == (IF reg[c].again THEN 0 ELSE RetryCount + 1) + RetryCount - reg[c].tries

Stage(c) ==
  CASE pc[c] = "posted"      -> 3 * Cardinality(Keys) + 5
    [] pc[c] = "fetching"    -> 3
    [] pc[c] = "responded"   -> 2
    [] pc[c] = "revoking"    -> 3 * Cardinality(reg[c].rts) + 2
    [] pc[c] = "revFetching" -> 3 * Cardinality(reg[c].rts) + 4
    [] pc[c] = "revDone"     -> 3 * Cardinality(reg[c].rts) + 3
    [] pc[c] = "replied"     -> 1
    [] OTHER                 -> 0

Weight == 3 * Cardinality(Keys) + 6

Rank(c) ==
  IF pc[c] = "settled" THEN 0
  ELSE Stage(c) + Weight * (Attempts(c) + IF req[c].kind = "revoke" THEN 2 * RetryCount + 2 ELSE 0)

Moves(c) == <<pc[c], reg[c], req[c]>>' # <<pc[c], reg[c], req[c]>>

Queued(c) == Cardinality({i \in DOMAIN inbox : inbox[i] = c})

\* Every call ends, whatever the server and the network do: each step of a call
\* leaves it less to do, retries included (http.ts 160-183, 217-234), and a call
\* on its way to the worker is in its queue once.
CallsEnd ==
  [][\A c \in Calls :
       /\ pc[c] \notin {"idle", "settled"} /\ Moves(c) => Rank(c)' < Rank(c)
       /\ Queued(c)' = IF pc'[c] = "posted" THEN 1 ELSE 0]_vars
=============================================================================
