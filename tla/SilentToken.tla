---------------------------- MODULE SilentToken ----------------------------
(***************************************************************************)
(* getTokenSilently with refresh tokens (Auth0Client.ts), as run by any    *)
(* number of calls in any number of tabs of one client over one shared     *)
(* cache: the in-flight map (promise-utils.ts), the two cache checks, the  *)
(* lock per audience, the exchange, the save and the propagation of the    *)
(* rotated refresh token (cache-manager.ts) -- against logout() and        *)
(* revokeRefreshToken(), which take no lock.                               *)
(*                                                                         *)
(* Configuration modelled: useRefreshTokens, no worker,                    *)
(* useRefreshTokensFallback off; useMrrt is chosen once, online access is  *)
(* a constant.                                                             *)
(* The lock is the abstract one of LockManager.                            *)
(***************************************************************************)
EXTENDS Naturals, FiniteSets

CONSTANTS
  Tabs, Calls,    \* pages, and invocations of getTokenSilently
  Ops,            \* invocations of logout and revokeRefreshToken
  Modes,          \* cacheModes in use
  Keys,           \* cache keys: an audience and a scope set each
  AudOf, ScopeOf,
  LoginRt,        \* refresh token of the login that filled each key, 0 = none
  MrrtSettings,   \* values of useMrrt to be looked at
  OnlineAccess,
  Leeway,         \* server: is a spent multi-resource refresh token still exchanged
  Lossy,          \* network: may the answer to a delivered request be lost
  Interleaved,    \* do storage accesses of different processes interleave
  Load,           \* for each value of useMrrt the bound on the invocations, and the
                  \* keys and cacheModes of the calls
  NoCall          \* a lock nobody holds

Procs == Calls \cup Ops
Auds == {AudOf[k] : k \in Keys}
LoginKeys == {k \in Keys : LoginRt[k] # 0}

ASSUME ConstantsAssumption ==
  /\ Calls \cap Ops = {} /\ NoCall \notin Calls
  /\ Modes \subseteq {"on", "off", "cache-only"}
  /\ IsFiniteSet(Keys) /\ Keys # {} /\ Tabs # {} /\ Modes # {}
  /\ DOMAIN AudOf = Keys /\ DOMAIN ScopeOf = Keys
  /\ LoginRt \in [Keys -> Nat]
  /\ {LoginRt[k] : k \in LoginKeys} = 1 .. Cardinality(LoginKeys)
  /\ {OnlineAccess, Leeway, Lossy, Interleaved} \subseteq BOOLEAN
  /\ MrrtSettings \subseteq BOOLEAN
  /\ \A mrrt \in MrrtSettings : Load[mrrt].requests \subseteq Keys \X Modes

VARIABLES
  \* shared storage (ICache) and its lock
  cache,      \* entry of each key
  idToken,    \* is there an id-token entry
  lock,       \* holder of getTokenSilently's lock of each audience
  \* authorization server (external)
  issued,     \* exchanges so far: names the newest access and refresh token
  spent,      \* refresh tokens that were exchanged
  revoked,    \* refresh tokens that were revoked
  grants,     \* <<access token, key it was issued for>>
  useMrrt,    \* are refresh tokens multi-resource ones (also the client's option)
  \* processes
  pc,         \* control point of each process
  req,        \* of each call: its arguments, and whose promise it shares
  result,     \* of each call: what its promise settled with
  reg         \* of each process: its local variables

server == <<issued, spent, revoked, grants, useMrrt>>
vars == <<cache, idToken, lock, server, pc, req, result, reg>>

NoEntry == [at |-> 0, exp |-> "none", rt |-> 0]

\* Local variables: the key and entry last read, the keys a storage loop has
\* still to visit and the refresh tokens it swaps, the access token received
\* and whether it lacks scopes, and the refresh tokens still to revoke.
NoReg == [key |-> CHOOSE k \in Keys : TRUE, entry |-> NoEntry, todo |-> {},
          old |-> 0, new |-> 0, at |-> 0, narrow |-> FALSE, rts |-> {}]

Entry == [at : Nat, exp : {"none", "fresh", "due", "expired"}, rt : Nat]

\* "lead" is the call whose promise this one shares (itself, normally) and
\* "since" the newest token when that call started.
Request == [tab : Tabs, key : Keys, mode : Modes, lead : Calls, since : Nat]

-----------------------------------------------------------------------------
(* The cache, as CacheManager sees it *)

Present(k) == cache[k].exp # "none"

PresentKeys == {k \in Keys : Present(k)}

\* A match that forgets the scopes.
MatchesAudience(j, k) == AudOf[j] = AudOf[k]

\* matchExistingCacheKey: same audience and at least the requested scopes.
Matches(j, k) == AudOf[j] = AudOf[k] /\ ScopeOf[k] \subseteq ScopeOf[j]

\* CacheManager.get reads the exact key if it is there, else the first match
\* in the storage's key order, which is arbitrary.
Candidates(k) ==
  IF Present(k) THEN {k} ELSE {j \in PresentKeys : Matches(j, k)}

\* getEntryWithRefreshToken: with MRRT any entry's refresh token will do.
MrrtCandidates == {j \in PresentKeys : useMrrt /\ cache[j].rt # 0}

\* expiresAt - adjustment < now; "due" is within 60 s of expiring.
Expired(e, adjustment) ==
  e.exp \in (IF adjustment = 60 THEN {"due", "expired"} ELSE {"expired"})

\* modifiedCachedEntry, or the removal of an expired entry without token.
StrippedEntry(e) == IF e.rt = 0 THEN NoEntry ELSE [e EXCEPT !.at = 0]

-----------------------------------------------------------------------------
(* Processes *)

\* Points where a process awaits an event of its own: a lock, an answer.
Waiting == {"idle", "joined", "lockWait", "sent", "answered", "revSent",
            "revoked", "settled", "failed"}

\* Points reached in the task of the application that made the call.
Starting == {"idle", "check1", "strip1", "wipe", "revNext"}

\* In one page a promise chain runs to its next event undisturbed, except by
\* chains that were started in the same task: their awaits alternate. Storage
\* that is asynchronous, or shared with another page, lets everybody in.
Turn(p) ==
  Interleaved \/ \A q \in Procs \ {p} : pc[q] \in Waiting \/ {pc[p], pc[q]} \subseteq Starting

At(p, l) == pc[p] = l /\ Turn(p)

Goto(p, l) == pc' = [pc EXCEPT ![p] = l] /\ UNCHANGED <<lock, result>>

Forget(p) == reg' = [reg EXCEPT ![p] = NoReg]

\* The promise of call c settles, and with it that of every call sharing it;
\* runWithLock gives the lock back; the in-flight map forgets the promise.
SettleLeaderOnly(c, outcome, at) ==
  /\ pc' = [pc EXCEPT ![c] = "settled"]
  /\ result' = [result EXCEPT ![c] = [outcome |-> outcome, at |-> at]]
  /\ lock' = [a \in Auds |-> IF lock[a] = c THEN NoCall ELSE lock[a]]
  /\ Forget(c)

Settle(c, outcome, at) ==
  LET sharing == {d \in Calls : pc[d] = "joined" /\ req[d].lead = c} \cup {c}
  IN /\ pc' = [p \in Procs |-> IF p \in sharing THEN "settled" ELSE pc[p]]
     /\ result' = [d \in Calls |-> IF d \in sharing
                                   THEN [outcome |-> outcome, at |-> at] ELSE result[d]]
     /\ lock' = [a \in Auds |-> IF lock[a] = c THEN NoCall ELSE lock[a]]
     /\ Forget(c)

\* _clearLocalSession lists the keys to remove.
StartWipe(p) ==
  /\ reg' = [reg EXCEPT ![p] = [NoReg EXCEPT !.todo = PresentKeys]]
  /\ idToken' = FALSE
  /\ Goto(p, "wipe")

Init ==
  /\ cache = [k \in Keys |-> IF k \in LoginKeys
                             THEN [at |-> LoginRt[k], exp |-> "fresh", rt |-> LoginRt[k]]
                             ELSE NoEntry]
  /\ idToken = TRUE
  /\ lock = [a \in Auds |-> NoCall]
  /\ issued = Cardinality(LoginKeys)
  /\ spent = {} /\ revoked = {}
  /\ grants = {<<LoginRt[k], k>> : k \in LoginKeys}
  /\ useMrrt \in MrrtSettings
  /\ pc = [p \in Procs |-> "idle"]
  /\ req = [c \in Calls |-> [tab |-> CHOOSE t \in Tabs : TRUE, key |-> NoReg.key,
                             mode |-> CHOOSE m \in Modes : TRUE, lead |-> c, since |-> 0]]
  /\ result = [c \in Calls |-> [outcome |-> "pending", at |-> 0]]
  /\ reg = [p \in Procs |-> NoReg]

\* Time passes for one entry.
Expire(k) ==
  /\ cache[k].exp \in {"fresh", "due"}
  /\ cache' = [cache EXCEPT ![k].exp = IF @ = "fresh" THEN "due" ELSE "expired"]
  /\ UNCHANGED <<idToken, lock, server, pc, req, result, reg>>

-----------------------------------------------------------------------------
(* getTokenSilently *)

\* An in-flight map whose key leaves out the cacheMode.
SameFlightAnyMode(r, s) == r.tab = s.tab /\ r.key = s.key

\* Key of the in-flight map: audience, scope and cacheMode, per page.
SameFlight(r, s) == r.tab = s.tab /\ r.key = s.key /\ r.mode = s.mode

\* singlePromise, then _getTokenSilently up to its first await.
GetTokenSilently(c, t, k, m) ==
  LET r == [tab |-> t, key |-> k, mode |-> m, lead |-> c, since |-> issued]
      flying == {d \in Calls : /\ pc[d] \notin {"idle", "joined", "settled"}
                               /\ SameFlight(req[d], r)}
  IN /\ At(c, "idle")
     /\ IF flying # {}
        THEN \E d \in flying :
               /\ req' = [req EXCEPT ![c] = [r EXCEPT !.lead = d, !.since = req[d].since]]
               /\ Goto(c, "joined")
        ELSE /\ req' = [req EXCEPT ![c] = r]
             /\ Goto(c, IF m = "off" THEN "lockWait" ELSE "check1")
     /\ UNCHANGED <<cache, idToken, server, reg>>

\* The cache had no token for the call.
CheckMissed(c) ==
  IF pc[c] \in {"check2", "strip2"} THEN Goto(c, "readRt") /\ Forget(c)
  ELSE IF req[c].mode = "cache-only" THEN Settle(c, "none", 0)
  ELSE Goto(c, "lockWait") /\ Forget(c)

\* _getEntryFromCache, before the lock and again under it.
CheckCache(c) ==
  /\ At(c, "check1") \/ At(c, "check2")
  /\ \/ /\ Candidates(req[c].key) = {}
        /\ CheckMissed(c)
     \/ \E j \in Candidates(req[c].key) :
          IF Expired(cache[j], 60)
          THEN /\ reg' = [reg EXCEPT ![c].key = j, ![c].entry = cache[j]]
               /\ Goto(c, IF pc[c] = "check1" THEN "strip1" ELSE "strip2")
          ELSE IF idToken THEN Settle(c, "token", cache[j].at) ELSE CheckMissed(c)
  /\ UNCHANGED <<cache, idToken, server, req>>

\* CacheManager.get writes back, stripped, the expired entry that it read.
StripExpired(c) ==
  /\ At(c, "strip1") \/ At(c, "strip2")
  /\ cache' = [cache EXCEPT ![reg[c].key] = StrippedEntry(reg[c].entry)]
  /\ CheckMissed(c)
  /\ UNCHANGED <<idToken, server, req>>

\* A lock that does not exclude.
EnterLockUnguarded(c) ==
  /\ At(c, "lockWait")
  /\ lock' = [lock EXCEPT ![AudOf[req[c].key]] = c]
  /\ pc' = [pc EXCEPT ![c] = IF req[c].mode = "off" THEN "readRt" ELSE "check2"]
  /\ UNCHANGED <<cache, idToken, server, req, result, reg>>

\* runWithLock grants the lock of the audience.
EnterLock(c) ==
  /\ At(c, "lockWait")
  /\ lock[AudOf[req[c].key]] = NoCall
  /\ lock' = [lock EXCEPT ![AudOf[req[c].key]] = c]
  /\ pc' = [pc EXCEPT ![c] = IF req[c].mode = "off" THEN "readRt" ELSE "check2"]
  /\ UNCHANGED <<cache, idToken, server, req, result, reg>>

\* runWithLock throws TimeoutError: somebody else held the lock too long.
LockTimeout(c) ==
  /\ At(c, "lockWait")
  /\ lock[AudOf[req[c].key]] # NoCall
  /\ Settle(c, "error", 0)
  /\ UNCHANGED <<cache, idToken, server, req>>

\* The request leaves with the refresh token found under key j, or there is
\* none and the call fails with MissingRefreshTokenError.
SendExchange(c, j, e) ==
  IF e.rt # 0
  THEN /\ reg' = [reg EXCEPT ![c] = [NoReg EXCEPT !.key = j, !.old = e.rt]]
       /\ Goto(c, "sent")
  ELSE Settle(c, "error", 0)

\* _getTokenUsingRefreshToken looks for a refresh token, without adjustment.
ReadRefreshToken(c) ==
  LET found == IF Candidates(req[c].key) # {} THEN Candidates(req[c].key) ELSE MrrtCandidates
  IN /\ At(c, "readRt")
     /\ \/ /\ found = {}
           /\ Settle(c, "error", 0)
        \/ \E j \in found :
             IF Expired(cache[j], 0) /\ Candidates(req[c].key) # {}
             THEN /\ reg' = [reg EXCEPT ![c].key = j, ![c].entry = cache[j]]
                  /\ Goto(c, "strip3")
             ELSE SendExchange(c, j, cache[j])
     /\ UNCHANGED <<cache, idToken, server, req>>

StripAndSend(c) ==
  /\ At(c, "strip3")
  /\ cache' = [cache EXCEPT ![reg[c].key] = StrippedEntry(reg[c].entry)]
  /\ SendExchange(c, reg[c].key, StrippedEntry(reg[c].entry))
  /\ UNCHANGED <<idToken, server, req>>

-----------------------------------------------------------------------------
(* The token endpoint (external): rotates refresh tokens unless they are    *)
(* online ones, refuses revoked and (outside its leeway) spent ones.        *)

Accepts(rt) == rt \notin revoked /\ (rt \in spent => Leeway /\ useMrrt)

\* With MRRT the refresh token may not cover all the scopes asked for, and the
\* access token is then too narrow for its key.
Exchange(c, narrow) ==
  /\ Accepts(reg[c].old)
  /\ issued' = issued + 1
  /\ grants' = grants \cup (IF narrow THEN {} ELSE {<<issued + 1, req[c].key>>})
  /\ spent' = IF OnlineAccess THEN spent ELSE spent \cup {reg[c].old}
  /\ UNCHANGED <<revoked, useMrrt>>

\* An answer whose missing refresh token is saved as it came.
ExchangeSucceedsEvicting(c) ==
  /\ pc[c] = "sent"
  /\ Exchange(c, FALSE)
  /\ reg' = [reg EXCEPT ![c].new = IF OnlineAccess THEN 0 ELSE issued + 1, ![c].at = issued + 1]
  /\ Goto(c, "answered")
  /\ UNCHANGED <<cache, idToken, req>>

ExchangeSucceeds(c) ==
  /\ pc[c] = "sent"
  /\ \E narrow \in {FALSE, useMrrt /\ ~Matches(reg[c].key, req[c].key)} :
       /\ Exchange(c, narrow)
       /\ reg' = [reg EXCEPT ![c].new = IF OnlineAccess THEN reg[c].old ELSE issued + 1,
                             ![c].narrow = narrow, ![c].at = issued + 1]
  /\ Goto(c, "answered")
  /\ UNCHANGED <<cache, idToken, req>>

\* oauthToken throws: refused by the server, lost on the way there, or (Lossy)
\* answered but the answer was lost or its id token rejected.
ExchangeFails(c) ==
  /\ At(c, "sent")
  /\ UNCHANGED server \/ (Lossy /\ Exchange(c, FALSE))
  /\ Settle(c, "error", 0)
  /\ UNCHANGED <<cache, idToken, req>>

\* The user is blocked: logout({ openUrl: false }) before rethrowing.
ExchangeBlocked(c) ==
  /\ At(c, "sent")
  /\ StartWipe(c)
  /\ UNCHANGED <<cache, server, req>>

\* _saveEntryInCache: the id token first.
SaveIdToken(c) ==
  /\ At(c, "answered")
  /\ idToken' = TRUE
  /\ Goto(c, "save")
  /\ UNCHANGED <<cache, server, req, reg>>

\* A save that leaves the other entries with the spent refresh token.
SaveEntryOnly(c) ==
  /\ At(c, "save")
  /\ cache' = [cache EXCEPT ![req[c].key] =
                 [at |-> reg[c].at, exp |-> "fresh", rt |-> reg[c].new]]
  /\ Goto(c, "rewrite")
  /\ UNCHANGED <<idToken, server, req, reg>>

\* ... then the entry, under the key asked for; _propagateRotatedRefreshToken
\* lists the keys to rewrite, none for online tokens, which do not rotate.
SaveEntry(c) ==
  /\ At(c, "save")
  /\ cache' = [cache EXCEPT ![req[c].key] =
                 [at |-> reg[c].at, exp |-> "fresh", rt |-> reg[c].new]]
  /\ reg' = [reg EXCEPT ![c].todo =
               IF OnlineAccess THEN {} ELSE PresentKeys \cup {req[c].key}]
  /\ Goto(c, "rewrite")
  /\ UNCHANGED <<idToken, server, req>>

-----------------------------------------------------------------------------
(* Storage loops: updateEntry and stripRefreshToken, then clear *)

\* An updateEntry that ignores useMrrt.
RewritesOldOnly(p, rt) == rt # 0 /\ rt = reg[p].old

\* updateEntry's condition; stripRefreshToken (an op's) swaps exact matches.
Rewrites(p, rt) == rt # 0 /\ ((useMrrt /\ p \in Calls) \/ rt = reg[p].old)

RewriteRead(p) ==
  /\ At(p, "rewrite")
  /\ \E k \in reg[p].todo :
       LET left == reg[p].todo \ {k}
       IN IF Rewrites(p, cache[k].rt)
          THEN /\ reg' = [reg EXCEPT ![p].todo = left, ![p].key = k,
                                     ![p].entry = [cache[k] EXCEPT !.rt = reg[p].new]]
               /\ Goto(p, "rewriteSet")
          ELSE /\ reg' = [reg EXCEPT ![p].todo = left]
               /\ UNCHANGED <<pc, lock, result>>
  /\ UNCHANGED <<cache, idToken, server, req>>

RewriteSet(p) ==
  /\ At(p, "rewriteSet")
  /\ cache' = [cache EXCEPT ![reg[p].key] = reg[p].entry]
  /\ reg' = [reg EXCEPT ![p].key = NoReg.key, ![p].entry = NoEntry]
  /\ Goto(p, "rewrite")
  /\ UNCHANGED <<idToken, server, req>>

\* The call returns its token, or drops the entry and throws
\* MissingScopesError when the token does not cover the scopes asked for.
FinishExchange(c) ==
  /\ At(c, "rewrite")
  /\ reg[c].todo = {}
  /\ IF reg[c].narrow
     THEN /\ cache' = [cache EXCEPT ![req[c].key] = NoEntry]
          /\ Settle(c, "error", 0)
     ELSE /\ Settle(c, "token", reg[c].at)
          /\ UNCHANGED cache
  /\ UNCHANGED <<idToken, server, req>>

\* CacheManager.clear removes the keys it listed one by one; the id token goes
\* with the first of them.
WipeKey(p) ==
  /\ At(p, "wipe")
  /\ \E k \in reg[p].todo :
       /\ cache' = [cache EXCEPT ![k] = NoEntry]
       /\ reg' = [reg EXCEPT ![p].todo = @ \ {k}]
  /\ UNCHANGED <<idToken, lock, server, pc, req, result>>

WipeDone(p) ==
  /\ At(p, "wipe")
  /\ reg[p].todo = {}
  /\ IF p \in Calls THEN Settle(p, "error", 0) ELSE Goto(p, "settled") /\ Forget(p)
  /\ UNCHANGED <<cache, idToken, server, req>>

-----------------------------------------------------------------------------
(* logout and revokeRefreshToken: no lock *)

Logout(o) ==
  /\ At(o, "idle")
  /\ StartWipe(o)
  /\ UNCHANGED <<cache, server, req>>

\* getRefreshTokensByAudience.
RevokeRefreshToken(o, a) ==
  /\ At(o, "idle")
  /\ reg' = [reg EXCEPT ![o].rts = {cache[k].rt : k \in {j \in Keys : AudOf[j] = a}} \ {0}]
  /\ Goto(o, "revNext")
  /\ UNCHANGED <<cache, idToken, server, req>>

\* One request per token; at the end online mode clears the local session.
RevokeNext(o) ==
  /\ At(o, "revNext")
  /\ \/ \E rt \in reg[o].rts :
          /\ reg' = [reg EXCEPT ![o].old = rt, ![o].rts = @ \ {rt}]
          /\ Goto(o, "revSent")
          /\ UNCHANGED idToken
     \/ /\ reg[o].rts = {}
        /\ IF OnlineAccess THEN StartWipe(o)
           ELSE Goto(o, "settled") /\ Forget(o) /\ UNCHANGED idToken
  /\ UNCHANGED <<cache, server, req>>

\* The server revokes the token; the answer starts stripRefreshToken.
RevokeSucceeds(o) ==
  /\ pc[o] = "revSent"
  /\ revoked' = revoked \cup {reg[o].old}
  /\ Goto(o, "revoked")
  /\ UNCHANGED <<cache, idToken, issued, spent, grants, useMrrt, req, reg>>

\* revokeToken throws: the remaining tokens are left alone.
RevokeFails(o) ==
  /\ At(o, "revSent")
  /\ Goto(o, "failed")
  /\ Forget(o)
  /\ UNCHANGED <<cache, idToken, server, req>>

StartStrip(o) ==
  /\ At(o, "revoked")
  /\ reg' = [reg EXCEPT ![o].todo = PresentKeys]
  /\ Goto(o, "rewrite")
  /\ UNCHANGED <<cache, idToken, server, req>>

FinishStrip(o) ==
  /\ At(o, "rewrite")
  /\ reg[o].todo = {}
  /\ Goto(o, "revNext")
  /\ UNCHANGED <<cache, idToken, server, req, reg>>

-----------------------------------------------------------------------------
CallStep(c) ==
  \/ CheckCache(c) \/ StripExpired(c) \/ EnterLock(c) \/ LockTimeout(c)
  \/ ReadRefreshToken(c) \/ StripAndSend(c)
  \/ ExchangeSucceeds(c) \/ ExchangeFails(c) \/ ExchangeBlocked(c)
  \/ SaveIdToken(c) \/ SaveEntry(c) \/ FinishExchange(c)

OpStep(o) ==
  \/ RevokeNext(o) \/ RevokeSucceeds(o) \/ RevokeFails(o)
  \/ StartStrip(o) \/ FinishStrip(o)

LoopStep(p) == RewriteRead(p) \/ RewriteSet(p) \/ WipeKey(p) \/ WipeDone(p)

Invocations ==
  \/ \E c \in Calls, t \in Tabs : \E r \in Load[useMrrt].requests : GetTokenSilently(c, t, r[1], r[2])
  \/ \E o \in Ops : Logout(o) \/ \E a \in Auds : RevokeRefreshToken(o, a)

Next ==
  \/ Cardinality({p \in Procs : pc[p] # "idle"}) < Load[useMrrt].max /\ Invocations
  \/ \E c \in Calls : CallStep(c)
  \/ \E o \in Ops : OpStep(o)
  \/ \E p \in Procs : LoopStep(p)
  \/ \E k \in Keys : Expire(k)

\* Promise chains run, the lock manager grants or times out, and requests are
\* answered or fail within the HTTP timeout.
Fairness ==
  /\ \A c \in Calls : WF_vars(CallStep(c) \/ LoopStep(c))
  /\ \A o \in Ops : WF_vars(OpStep(o) \/ LoopStep(o))

Spec == Init /\ [][Next]_vars

FairSpec == Spec /\ Fairness

-----------------------------------------------------------------------------
(* Properties *)

EntryOK(e) ==
  /\ e \in Entry
  /\ e.exp = "fresh" => e.at # 0
  /\ e.exp = "none" => e = NoEntry

\* Types; in particular an unexpired entry always has its access token, so
\* that a cache hit never hands out nothing (cache-manager.ts 108-125).
TypeOK ==
  /\ cache \in [Keys -> Entry] /\ \A k \in Keys : EntryOK(cache[k])
  /\ idToken \in BOOLEAN
  /\ lock \in [Auds -> Calls \cup {NoCall}]
  /\ issued \in Nat /\ spent \subseteq Nat /\ revoked \subseteq Nat
  /\ grants \subseteq Nat \X Keys /\ useMrrt \in MrrtSettings
  /\ pc \in [Procs -> Waiting \cup {"check1", "strip1", "check2", "strip2", "readRt",
                "strip3", "save", "rewrite", "rewriteSet", "wipe", "revNext"}]
  /\ req \in [Calls -> Request]
  /\ result \in [Calls -> [outcome : {"pending", "token", "none", "error"}, at : Nat]]
  /\ reg \in [Procs -> [key : Keys, entry : Entry, todo : SUBSET Keys, old : Nat,
                         new : Nat, at : Nat, narrow : BOOLEAN, rts : SUBSET Nat]]
  /\ \A p \in Procs : EntryOK(reg[p].entry)

\* Control points between the grant of the lock and the end of the callback.
Critical == {"check2", "strip2", "readRt", "strip3", "sent", "answered", "save",
             "rewrite", "rewriteSet", "wipe"}

\* Over all tabs at most one call per audience is between the grant of the
\* lock and the last write of its refresh (Auth0Client.ts 1137-1168).
OneRefreshPerAudience ==
  \A c, d \in Calls :
    pc[c] \in Critical /\ pc[d] \in Critical /\ AudOf[req[c].key] = AudOf[req[d].key] => c = d

\* No call sends a refresh token that an earlier exchange has spent, which
\* would trip the server's reuse detection (Auth0Client.ts 1970); with MRRT the
\* refreshes of two audiences take different locks and rely on its leeway.
NoReplay == ~useMrrt => \A c \in Calls : pc[c] = "sent" => reg[c].old \notin spent

Quiet == \A p \in Procs : pc[p] \in {"idle", "joined", "settled", "failed"}

\* When nothing is under way, no cache entry is left with a spent token: the
\* rotation reached every entry that shared it.
CachedTokensUnspent == Quiet => \A k \in Keys : cache[k].rt \notin spent

OneTokenShared ==
  \A j, k \in Keys : cache[j].rt # 0 /\ cache[k].rt # 0 => cache[j].rt = cache[k].rt

\* With MRRT, all entries hold one refresh token once the concurrent calls
\* have completed (cache-manager.ts 355-360).
Converged == Quiet /\ useMrrt => OneTokenShared

\* A call with cacheMode off is answered with a token issued after the request
\* it shares began: neither the cache nor an older "on" request serves it
\* (Auth0Client.ts 1090-1096).
OffIsFresh ==
  \A c \in Calls :
    result[c].outcome = "token" /\ req[c].mode = "off" => result[c].at > req[c].since

\* A call only ever gets an access token issued for its audience, for at least
\* the scopes it asked for, wherever in the cache the token was found.
TokenFitsRequest ==
  \A c \in Calls : result[c].outcome = "token" =>
    \E k \in Keys : /\ <<result[c].at, k>> \in grants
                    /\ AudOf[k] = AudOf[req[c].key]
                    /\ ScopeOf[req[c].key] \subseteq ScopeOf[k]

\* An online refresh token is reused on every refresh, never replaced and never
\* evicted by a response that carries none (Auth0Client.ts 1967-1982).
OnlineTokenKept ==
  OnlineAccess /\ revoked = {} =>
    \A k \in Keys : Present(k) => cache[k].rt \in {LoginRt[j] : j \in LoginKeys}

\* Every getTokenSilently promise settles, shared ones included.
EveryCallSettles == \A c \in Calls : pc[c] \in {"check1", "lockWait", "joined"} ~> pc[c] = "settled"
=============================================================================
