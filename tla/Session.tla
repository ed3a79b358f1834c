------------------------------ MODULE Session ------------------------------
(***************************************************************************)
(* The local session (Auth0Client.ts): the shared ID token entry with its  *)
(* session ceiling, the copy of it each tab keeps in memory (userCache),   *)
(* the entries of the token cache and the cookies; _requestToken with the  *)
(* methods that use it, getUser and logout. An answer is handled in one    *)
(* step: its awaits are microtasks. Locks and lost answers are the matter  *)
(* of SilentToken, worker and DPoP keys that of TokenWorker and Dpop.      *)
(***************************************************************************)
EXTENDS IdToken, Sequences

CONSTANTS
  Calls, Tabs,
  Users,             \* the sub claims
  Keys,              \* cache keys of one audience
  Covers(_, _),      \* does an entry of the first key hold the second one's scopes
  Ceilings,          \* session_expiry values of the server
  ExpiryLeeway,      \* SESSION_EXPIRY_LEEWAY_SECONDS
  MaxAge,            \* authorizationParams.max_age or Absent
  Organization,      \* authorizationParams.organization or "none"
  UseRefreshTokens,  \* options.useRefreshTokens
  MaxTime            \* bound on the clock

ASSUME SessionAssumption ==
  /\ "none" \notin Users /\ UseRefreshTokens \in BOOLEAN
  /\ \A k \in Keys : Covers(k, k)
  /\ Ceilings \subseteq Nat /\ ExpiryLeeway \in Nat /\ MaxTime \in Nat

VARIABLES
  now,
  stored,       \* the ID token entry of the cache
  userCache,    \* each tab's copy of it
  entries,      \* access token entries of the cache
  cookies,      \* auth0.<id>.is.authenticated and the organization hint
  call,         \* control point and registers of each call
  minted,       \* refresh tokens issued so far, which are the numbers up to it (external)
  spent,        \* those that were exchanged (external)
  owner,        \* the user each of them was issued to, in order (external)
  \* history
  limit,        \* the ceiling of the session's login, Absent = none
  late,         \* did the session begin with a renewal that was sent in an earlier one
  crossed,      \* did an MFA completion replace the refresh token of another user
  past          \* was a user returned past the ceiling

cache == <<stored, userCache, entries, cookies>>
server == <<minted, spent, owner>>
history == <<limit, late, crossed>>
sessionVars == <<now, cache, call, server, history, past>>

NoEntry == [sub |-> "none", ceiling |-> Absent]

NoTokens == [k \in Keys |-> [sub |-> "none", refresh_token |-> 0]]

NoCookies == [authenticated |-> FALSE, org |-> "none"]

IdleCall == [pc |-> "idle", kind |-> "none", tab |-> "none", key |-> "none",
             refresh_token |-> 0, mfa |-> 0, auth_session |-> 0, signup |-> 0, credential |-> FALSE]

SessionInit ==
  /\ now = 0
  /\ stored = NoEntry /\ userCache = [t \in Tabs |-> NoEntry]
  /\ entries = NoTokens /\ cookies = NoCookies
  /\ call = [c \in Calls |-> IdleCall]
  /\ minted = 0 /\ spent = {} /\ owner = <<>>
  /\ limit = Absent /\ late = FALSE /\ crossed = FALSE /\ past = FALSE

-----------------------------------------------------------------------------
(* The cache *)

\* _clearLocalSession of a tab; the copies of other tabs stay.
ClearLocalSession(t) ==
  /\ stored' = NoEntry /\ entries' = NoTokens /\ cookies' = NoCookies
  /\ userCache' = [userCache EXCEPT ![t] = NoEntry]
  /\ limit' = Absent /\ late' = FALSE /\ crossed' = FALSE

\* cacheManager.getIdToken: access token entries are stored without an ID token,
\* so that looking one up by scope instead finds none.
GetIdToken == stored

\* The ceiling of the entry in the cache is not looked at.
SessionCeilingReachedInMemory(t) ==
  LET ceiling == userCache[t].ceiling
  IN  ceiling # Absent /\ now >= ceiling - ExpiryLeeway

\* The entry in memory, or else the one in the cache.
SessionCeilingReached(t) ==
  LET ceiling == (IF userCache[t] # NoEntry THEN userCache[t] ELSE GetIdToken).ceiling
  IN  ceiling # Absent /\ now >= ceiling - ExpiryLeeway

\* The entry cacheManager.get finds for a key: that of the key or of one that
\* covers its scopes.
Found(k) ==
  LET found == {j \in Keys : entries[j].sub # "none" /\ Covers(j, k)}
  IN  IF k \in found THEN {k} ELSE found

\* _getIdTokenFromCache takes the entry of the cache over into memory.
GetIdTokenFromCache(t) == userCache' = [userCache EXCEPT ![t] = GetIdToken]

-----------------------------------------------------------------------------
(* The methods *)

Start(c, t, kind, k) ==
  /\ call[c].pc = "idle"
  /\ call' = [call EXCEPT ![c] = [IdleCall EXCEPT !.pc = "sent", !.kind = kind, !.tab = t, !.key = k]]

SettledCall == [IdleCall EXCEPT !.pc = "settled"]

Settle(c) == call' = [call EXCEPT ![c] = SettledCall]

\* getUser, getIdTokenClaims and isAuthenticated.
GetUser(t) ==
  /\ IF SessionCeilingReached(t)
     THEN ClearLocalSession(t) /\ UNCHANGED past
     ELSE /\ GetIdTokenFromCache(t)
          /\ UNCHANGED history
          /\ past' = (past \/ (stored.ceiling # Absent /\ now >= stored.ceiling - ExpiryLeeway))
          /\ UNCHANGED <<stored, entries, cookies>>
  /\ UNCHANGED <<now, call, server>>

\* The code of a popup or of a redirect is exchanged.
CodeArrives(c, t, k) ==
  /\ Start(c, t, "login", k)
  /\ UNCHANGED <<now, cache, server, history, past>>

\* Undefined past the ceiling; a cached token that is still good; or the lock.
GetTokenSilently(c, t, k) ==
  /\ call[c].pc = "idle"
  /\ \/ /\ SessionCeilingReached(t)
        /\ ClearLocalSession(t)
        /\ Settle(c)
     \/ /\ ~SessionCeilingReached(t)
        /\ call' = [call EXCEPT ![c] = [IdleCall EXCEPT !.pc = "lockWait", !.kind = "silent",
                                                        !.tab = t, !.key = k]]
        /\ UNCHANGED <<cache, history>>
     \/ /\ ~SessionCeilingReached(t) /\ Found(k) # {}
        /\ GetIdTokenFromCache(t)
        /\ Settle(c)
        /\ UNCHANGED <<stored, entries, cookies, history>>
  /\ UNCHANGED <<now, server, past>>

\* Inside the lock of the audience: a token another call has fetched, or a
\* request with the refresh token that is found, or without one by an iframe.
EnterLock(c) ==
  /\ call[c].pc = "lockWait"
  /\ \A d \in Calls : ~(call[d].kind = "silent" /\ call[d].pc = "sent")
  /\ \/ /\ Found(call[c].key) # {}
        /\ GetIdTokenFromCache(call[c].tab)
        /\ Settle(c)
     \/ /\ ~UseRefreshTokens
        /\ call' = [call EXCEPT ![c].pc = "sent"]
        /\ UNCHANGED userCache
     \/ /\ UseRefreshTokens
        /\ \E k \in Found(call[c].key) :
             call' = [call EXCEPT ![c].pc = "sent", ![c].refresh_token = entries[k].refresh_token]
        /\ UNCHANGED userCache
     \/ /\ UseRefreshTokens /\ Found(call[c].key) = {}     \* MissingRefreshTokenError
        /\ Settle(c)
        /\ UNCHANGED userCache
  /\ UNCHANGED <<now, stored, entries, cookies, server, history, past>>

LoginWithCustomTokenExchange(c, t, k) ==
  /\ Start(c, t, "exchange", k)
  /\ UNCHANGED <<now, cache, server, history, past>>

\* The tokens go to the caller only.
CustomTokenExchange(c, t, k) ==
  /\ Start(c, t, "delegate", k)
  /\ UNCHANGED <<now, cache, server, history, past>>

Logout(t) ==
  /\ ClearLocalSession(t)
  /\ UNCHANGED <<now, call, server, past>>

-----------------------------------------------------------------------------
(* _requestToken, from its answer on *)

CodeGrant(c) == call[c].kind = "login" \/ (call[c].kind = "silent" /\ ~UseRefreshTokens)

\* An MFA completion that finds no entry is a login.
Renewal(c) == call[c].kind = "silent" \/ (call[c].kind = "verify" /\ call[c].refresh_token # 0)

VerifyOptions(c) ==
  [nonce |-> IF CodeGrant(c) THEN 1 ELSE Absent,
   max_age |-> MaxAge,
   organization |-> IF CodeGrant(c) \/ call[c].kind \in {"exchange", "delegate"} THEN Organization ELSE "none"]

\* The refresh token a call sends.
Exchanged(c) == IF call[c].kind = "silent" THEN call[c].refresh_token ELSE 0

\* Users the server can answer for (external): that of the refresh token.
AnswerUsers(c) == {user \in Users : Exchanged(c) # 0 => owner[Exchanged(c)] = user}

\* Every entry with a refresh token gets the new one.
PropagateToAll(tokens, old, new) ==
  [k \in Keys |-> IF old # 0 /\ tokens[k].refresh_token # 0
                  THEN [tokens[k] EXCEPT !.refresh_token = new] ELSE tokens[k]]

\* Every entry with the refresh token that was exchanged gets the new one.
Propagate(tokens, old, new) ==
  [k \in Keys |-> IF old # 0 /\ tokens[k].refresh_token = old
                  THEN [tokens[k] EXCEPT !.refresh_token = new] ELSE tokens[k]]

SwitchesUser(c, tok) == CodeGrant(c) /\ stored.sub \notin {"none", tok.sub}

\* The ceiling of the answer is taken.
PinnedNever(c, tok) == tok.session_expiry

Pinned(c, tok) ==
  IF CodeGrant(c) \/ stored.ceiling = Absent THEN tok.session_expiry ELSE stored.ceiling

\* The organization hint: of the request, or of the token.
ProcessOrgHint(c, tok) ==
  LET organization == VerifyOptions(c).organization
  IN  IF organization # "none" THEN organization ELSE tok.org_id

Accepted(c, tok) == Verify(VerifyOptions(c), tok, now) /\ ExpiryValid(Pinned(c, tok), tok.iat)

\* A verified token: another user's session is cleared, the ceiling is pinned
\* and validated, then everything is stored.
SaveEntry(c, tok) ==
  LET t == call[c].tab
      kept == IF SwitchesUser(c, tok) THEN NoTokens ELSE entries
      entry == [sub |-> tok.sub, ceiling |-> Pinned(c, tok)]
      token == [sub |-> tok.sub, refresh_token |-> IF UseRefreshTokens THEN minted + 1 ELSE 0]
  IN  IF ExpiryValid(entry.ceiling, tok.iat)
      THEN /\ stored' = entry
           /\ userCache' = [userCache EXCEPT ![t] = entry]
           /\ entries' = Propagate([kept EXCEPT ![call[c].key] = token],
                                   call[c].refresh_token, token.refresh_token)
           /\ cookies' = [authenticated |-> TRUE, org |-> ProcessOrgHint(c, tok)]
           /\ limit' = IF ~Renewal(c) /\ (CodeGrant(c) \/ stored.ceiling = Absent)
                       THEN tok.session_expiry ELSE limit
           /\ late' = IF stored = NoEntry THEN Renewal(c) ELSE late /\ ~CodeGrant(c)
           /\ crossed' = IF kept = NoTokens THEN FALSE
                         ELSE \/ crossed
                              \/ /\ call[c].kind = "verify" /\ call[c].refresh_token # 0
                                 /\ owner[call[c].refresh_token] # tok.sub
      ELSE /\ stored' = IF SwitchesUser(c, tok) THEN NoEntry ELSE stored
           /\ userCache' = [userCache EXCEPT ![t] = stored']
           /\ entries' = kept
           /\ UNCHANGED <<cookies, history>>

Grants == {"login", "silent", "exchange", "verify", "webauthn", "continueSignup"}

\* The server issues tokens; a refresh token is used up by it.
TokenIssued(c, tok) ==
  /\ call[c].pc = "sent" /\ call[c].kind \in Grants
  /\ Exchanged(c) \notin spent
  /\ minted' = IF UseRefreshTokens THEN minted + 1 ELSE minted
  /\ spent' = spent \cup ({Exchanged(c)} \ {0})
  /\ owner' = IF UseRefreshTokens THEN Append(owner, tok.sub) ELSE owner
  /\ IF Verify(VerifyOptions(c), tok, now)
     THEN SaveEntry(c, tok)
     ELSE UNCHANGED <<cache, history>>
  /\ Settle(c)
  /\ UNCHANGED <<now, past>>

\* The answer to customTokenExchange.
TokenDelegated(c) ==
  /\ call[c].pc = "sent" /\ call[c].kind = "delegate"
  /\ Settle(c)
  /\ UNCHANGED <<now, cache, server, history, past>>

\* An error of the network or of the server, such as a refresh token used up.
RequestFails(c) ==
  /\ call[c].pc = "sent"
  /\ Settle(c)
  /\ UNCHANGED <<now, cache, server, history, past>>

\* login_required of an iframe, or a blocked user: the session is cleared.
SessionRefused(c) ==
  /\ call[c].pc = "sent" /\ call[c].kind = "silent"
  /\ ClearLocalSession(call[c].tab)
  /\ Settle(c)
  /\ UNCHANGED <<now, server, past>>

Tick ==
  /\ now < MaxTime /\ now' = now + 1
  /\ UNCHANGED <<cache, call, server, history, past>>

\* What a tab keeps in memory is lost, with its calls.
Reload(t) ==
  /\ userCache' = [userCache EXCEPT ![t] = NoEntry]
  /\ call' = [c \in Calls |-> IF call[c].tab = t THEN SettledCall ELSE call[c]]
  /\ UNCHANGED <<now, stored, entries, cookies, server, history, past>>

-----------------------------------------------------------------------------
(* Properties *)

\* "The ceiling is pinned to the value set at initial login. Silent token
\* refreshes cannot extend it" (examples/session-expiry-ipsie.md 39): over
\* renewals, MFA completions, reloads and other users' logins the session keeps
\* the ceiling of its login, unless it began with a renewal that arrived after
\* the session it was sent in had been cleared.
CeilingPinned == stored # NoEntry /\ limit # Absent /\ ~late => stored.ceiling = limit

\* "After ceiling is reached const user = await auth0.getUser(); returns
\* undefined" (examples/session-expiry-ipsie.md 32-33), whatever the tab holds
\* in memory.
NoUserPastCeiling == ~past

\* "Propagates a rotated refresh token to every cache entry that still holds the
\* previous one" (Auth0Client.ts 1726-1727), and to no other: each entry holds a
\* refresh token of the user of its access token, also when a renewal is answered
\* after another user's login, unless an MFA completion replaced a refresh token
\* of another user than its own.
TokenOwner ==
  ~crossed => \A k \in Keys : entries[k].refresh_token # 0 => owner[entries[k].refresh_token] = entries[k].sub
=============================================================================
