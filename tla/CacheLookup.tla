---------------------------- MODULE CacheLookup ----------------------------
(***************************************************************************)
(* What the cache answers: the scopes of a request (scope.ts), the key an  *)
(* entry is stored under and found by (cache/shared.ts, cache-manager.ts), *)
(* and the scope arithmetic of multi-resource refresh tokens               *)
(* (Auth0Client.utils.ts), over a custom cache with a key manifest. One    *)
(* request is under way at a time, and its cache accesses are those of     *)
(* KeyManifest. A scope string is the set of its words.                    *)
(***************************************************************************)
EXTENDS KeyManifest

CONSTANTS
  Audiences,      \* audiences a request can name; "none" = it names none
  MethodScopes,   \* scopes a request can add
  AuthScopes,     \* authorizationParams.scope of the client: [form, of]
  SessionScope,   \* "offline_access" or "online_access"
  UseMrrt,
  Fallback        \* useRefreshTokensFallback

ASSUME LookupAssumption ==
  /\ Serial /\ {UseMrrt, Fallback} \subseteq BOOLEAN
  /\ SessionScope \in {"offline_access", "online_access"}
  /\ AuthScopes.form \in {"string", "object"}
  /\ AuthScopes.form = "string" => DOMAIN AuthScopes.of = {"default"}

VARIABLES
  entries,    \* what is stored under each key
  req         \* the request under way

lookupVars == <<vars, entries, req>>

-----------------------------------------------------------------------------
(* Scopes and keys *)

\* injectDefaultScopes.
Base == {"openid", SessionScope}

Scope ==
  IF AuthScopes.form = "string"
  THEN [a \in {"default"} |-> Base \cup AuthScopes.of[a]]
  ELSE [a \in {"default"} \cup DOMAIN AuthScopes.of |->
          Base \cup (IF a \in DOMAIN AuthScopes.of THEN AuthScopes.of[a] ELSE {})]

ScopesToRequest(method, audience) ==
  (IF audience \in DOMAIN Scope THEN Scope[audience] ELSE Scope["default"]) \cup method

\* A key, and what CacheKey.fromKey reads from the key of the ID token.
CacheKey(audience, scope) ==
  [audience |-> IF audience = "none" THEN "default" ELSE audience, scope |-> scope]

IdKey == [audience |-> "@@user@@", scope |-> {}]

RequestKeys == {CacheKey(a, ScopesToRequest(s, a)) : a \in Audiences, s \in MethodScopes}

ASSUME KeysAssumption ==
  RequestKeys \cup {IdKey} \subseteq Keys /\ \A k \in Keys : k.audience # "none"

\* matchExistingCacheKey takes the first of these keys.
MatchExistingCacheKey(key) ==
  {k \in manifest : k.scope # {} /\ k.audience = key.audience /\ key.scope \subseteq k.scope}

\* borrowed (history): the refresh token it was got with was stored for another
\* audience, or for fewer scopes.
NoEntry == [granted |-> {}, refresh_token |-> FALSE, fresh |-> FALSE, borrowed |-> FALSE]

\* The keys getEntryWithRefreshToken goes through.
WithRefreshToken == {k \in manifest \cap stored : entries[k].refresh_token}

-----------------------------------------------------------------------------
(* Multi-resource refresh tokens *)

\* The scope to ask for: not less than what the refresh token was issued with.
\* A request without audience is not that of the entry stored as "default".
ScopeToRequest(audience, scope, cached) ==
  IF UseMrrt /\ cached.audience = audience /\ scope \subseteq cached.scope THEN cached.scope ELSE scope

\* Only another audience counts.
IsRefreshWithMrrtAudience(audience, scope, cached) == cached.audience # audience

IsRefreshWithMrrt(audience, scope, cached) ==
  cached.audience # audience \/ ~(scope \subseteq cached.scope)

MissingScopes(asked, granted) ==
  (IF SessionScope = "online_access" THEN asked \ {"online_access"} ELSE asked) \ granted

-----------------------------------------------------------------------------
NoRequest == [phase |-> "none", audience |-> "none", key |-> IdKey, cached |-> IdKey,
              gets |-> 1, asked |-> {}, answer |-> NoEntry, silent |-> FALSE]

LookupInit ==
  /\ Init
  /\ entries = [k \in Keys |-> NoEntry]
  /\ req = NoRequest

Idle == \A p \in Procs : pc[p] = "idle"

Goto(phase) == req' = [req EXCEPT !.phase = phase]

\* Entries go with their keys.
Follows == entries' = [k \in Keys |-> IF k \in stored' THEN entries[k] ELSE NoEntry]

Request(phase, audience, key) ==
  /\ Idle /\ req.phase = "none"
  /\ req' = [NoRequest EXCEPT !.phase = phase, !.audience = audience, !.key = key]
  /\ UNCHANGED <<vars, entries>>

Login(audience, s) ==
  Request("authorize", audience, CacheKey(audience, ScopesToRequest(s, audience)))

GetToken(audience, s) ==
  Request("lookup", audience, CacheKey(audience, ScopesToRequest(s, audience)))

\* The key whose entry get takes, if any: that of the request or a match, which
\* may be one that CacheManager.remove has left in the manifest.
Resolved ==
  IF req.key \in stored THEN {req.key} ELSE MatchExistingCacheKey(req.key)

\* get finds a token that is still good.
Hit(k) ==
  /\ Idle /\ req.phase = "lookup" /\ k \in Resolved \cap stored
  /\ entries[k].fresh
  /\ req' = [req EXCEPT !.phase = "served", !.answer = entries[k]]
  /\ UNCHANGED <<vars, entries>>

Refresh(k) ==
  req' = [req EXCEPT !.phase = "send", !.cached = k,
                     !.asked = ScopeToRequest(req.audience, req.key.scope, k)]

\* An expired entry with a refresh token is stripped of the rest.
Strip(k) ==
  /\ Idle /\ req.phase = "lookup" /\ k \in Resolved \cap stored
  /\ ~entries[k].fresh /\ entries[k].refresh_token
  /\ entries' = [entries EXCEPT ![k].granted = {}]
  /\ Refresh(k)
  /\ UNCHANGED vars

\* MissingRefreshTokenError, or the iframe.
GiveUp == IF Fallback THEN Goto("iframe") ELSE req' = NoRequest

\* One without is removed; getTokenSilently looks the request up before the
\* lock, inside it, and for the refresh token.
Drop(p, k) ==
  /\ Idle /\ req.phase = "lookup" /\ k \in Resolved \cap stored
  /\ ~entries[k].fresh /\ ~entries[k].refresh_token
  /\ GetExpired(p, k)
  /\ IF req.gets < 3 THEN req' = [req EXCEPT !.gets = @ + 1] ELSE GiveUp
  /\ UNCHANGED entries

Missed == req.phase = "lookup" /\ (Resolved = {} \/ Resolved \ stored # {})

\* With MRRT any entry's refresh token will do.
Borrow(k) ==
  /\ Idle /\ Missed /\ UseMrrt /\ k \in WithRefreshToken
  /\ Refresh(k)
  /\ UNCHANGED <<vars, entries>>

NothingFound ==
  /\ Idle /\ Missed /\ (UseMrrt => WithRefreshToken = {})
  /\ GiveUp
  /\ UNCHANGED <<vars, entries>>

-----------------------------------------------------------------------------
(* The authorization server (external) *)

\* What is granted: any part of it if the refresh token is borrowed, where
\* online_access is never echoed, and otherwise all, since only the borrowed
\* ones matter here. A login may come without refresh token.
Answer(granted, refresh_token) ==
  LET exchange == req.phase = "send"
      own == req.cached.audience = req.key.audience /\ req.key.scope \subseteq req.cached.scope
  IN  /\ req.phase \in {"authorize", "iframe", "send"}
      /\ IF exchange /\ ~own THEN granted \subseteq req.asked \ {"online_access"}
         ELSE granted = (IF exchange THEN req.asked ELSE req.key.scope)
      /\ exchange => refresh_token
      /\ req' = [req EXCEPT !.phase = "saveId", !.silent = exchange,
                   !.answer = [granted |-> granted, refresh_token |-> refresh_token, fresh |-> TRUE,
                               borrowed |-> exchange /\ ~own]]
      /\ UNCHANGED <<vars, entries>>

\* A network failure, or a refused refresh token, after which an iframe may follow.
AnswerFails ==
  /\ req.phase \in {"authorize", "iframe", "send"}
  /\ req' \in {NoRequest} \cup {r \in {[req EXCEPT !.phase = "iframe"]} : req.phase = "send" /\ Fallback}
  /\ UNCHANGED <<vars, entries>>

\* A blocked user, or login_required of an iframe: the session is cleared.
SessionRefused(p) ==
  /\ req.phase \in {"iframe", "send"}
  /\ Clear(p)
  /\ req' = NoRequest
  /\ UNCHANGED entries

-----------------------------------------------------------------------------
(* The answer is saved *)

SaveIdToken(p) ==
  /\ Idle /\ req.phase = "saveId"
  /\ Set(p, IdKey)
  /\ Goto("saveEntry")
  /\ UNCHANGED entries

SaveEntry(p) ==
  /\ Idle /\ req.phase = "saveEntry"
  /\ Set(p, req.key)
  /\ entries' = [entries EXCEPT ![req.key] = req.answer]
  /\ Goto("check")

\* A token that lacks scopes is fetched again by an iframe, or removed.
Check ==
  LET lacks == /\ UseMrrt /\ req.silent
               /\ IsRefreshWithMrrt(req.audience, req.key.scope, req.cached)
               /\ MissingScopes(req.asked, req.answer.granted) # {}
  IN  /\ Idle /\ req.phase = "check"
      /\ Goto(IF ~lacks THEN "served" ELSE IF Fallback THEN "iframe" ELSE "remove")
      /\ UNCHANGED <<vars, entries>>

RemoveNarrow(p) ==
  /\ Idle /\ req.phase = "remove"
  /\ Remove(p, req.key)
  /\ Follows
  /\ req' = NoRequest

Return ==
  /\ req.phase = "served"
  /\ req' = NoRequest
  /\ UNCHANGED <<vars, entries>>

-----------------------------------------------------------------------------
\* The rest of an operation on the manifest.
ManifestStep(p) ==
  /\ AddGet(p) \/ AddSet(p) \/ RemoveExpired(p) \/ RemoveGet(p) \/ RemoveSet(p)
     \/ ClearKey(p) \/ ClearManifest(p)
  /\ Follows
  /\ UNCHANGED req

\* logout.
ClearAll(p) ==
  /\ req.phase = "none"
  /\ Clear(p)
  /\ UNCHANGED <<entries, req>>

\* Passing of time (external).
Expire(k) ==
  /\ Idle /\ req.phase = "none" /\ entries[k].fresh
  /\ entries' = [entries EXCEPT ![k].fresh = FALSE]
  /\ UNCHANGED <<vars, req>>

LookupNext ==
  \/ \E a \in Audiences, s \in MethodScopes : Login(a, s) \/ GetToken(a, s)
  \/ \E k \in Keys : Hit(k) \/ Strip(k) \/ Borrow(k) \/ Expire(k)
  \/ NothingFound \/ AnswerFails \/ Check \/ Return
  \/ \E granted \in SUBSET (req.key.scope \cup req.asked), rt \in BOOLEAN :
       Base \subseteq granted \cup {"online_access"} /\ Answer(granted, rt)
  \/ \E p \in Procs :
       \/ \E k \in Keys : Drop(p, k)
       \/ SaveIdToken(p) \/ SaveEntry(p) \/ RemoveNarrow(p)
       \/ ManifestStep(p) \/ ClearAll(p) \/ SessionRefused(p)

LookupSpec == LookupInit /\ [][LookupNext]_lookupVars

-----------------------------------------------------------------------------
(* Properties *)

\* "In order to return a token with all requested scopes when using MRRT"
\* (Auth0Client.ts 1656): a token got with the refresh token of another
\* audience or of fewer scopes, when it is returned now or found later under a
\* covering key, has every scope of the request it is returned for.
ScopesHonoured ==
  req.phase = "served" /\ req.answer.borrowed
    => req.key.scope \ {"online_access"} \subseteq req.answer.granted
=============================================================================
