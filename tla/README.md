# A formal model of auth0-spa-js

TLA+ modules, TLC configurations and TLAPS proofs about the SDK: who may refresh
when, which refresh token lives where, what a logout, a revocation, a timeout, a
lost answer or a second tab do to it; how the overlapping login flows of a page,
MFA completions and passkeys share one session, and how long it lasts; what the
cache answers; DPoP keys and nonces; anonymous sessions. Paths below are
relative to the repository (`src/Auth0Client.ts` is `src/src/Auth0Client.ts` in
`PROJECT.json`).

## 1. The system

The SDK runs in a web page. Every public method of `Auth0Client` is an `async`
function: it runs without interruption up to an `await`, so concurrency means

* several promise chains in one page (overlapping `getTokenSilently` calls, a
  `logout` during a refresh), which alternate at awaits;
* several tabs of the origin, which share `localStorage` and the lock of the
  browser, and nothing else;
* the worker of a page, which receives messages in order and whose handlers
  alternate at their awaits;
* the network and the authorization server: answers are late, lost, refused.

| Component (files) | State | Operations | Interacts with |
|---|---|---|---|
| Lock manager (`lock.ts`) | browser lock, or `localStorage` record, `activeLocks`, `pagehide` listener | `runWithLock(key, timeout, callback)` | used by every silent token request |
| Silent token flow (`Auth0Client.ts`, `promise-utils.ts`) | in-flight promises | `getTokenSilently`, `_getTokenUsingRefreshToken`, `logout`, `revokeRefreshToken` | lock manager, cache, HTTP |
| Cache manager (`cache/`) | entries per client, audience, scope; id-token entry; key manifest | `get`, `set`, `remove`, `clear`, `updateEntry`, `stripRefreshToken`, `getRefreshTokensByAudience` | custom `ICache`, memory, `localStorage` |
| Token worker (`worker/`) | `refreshTokens` per audience and scope, `latest_refresh_token` | messages `init`, token request, `revoke`, `clear` | page through `MessageChannel`, token endpoint |
| HTTP (`http.ts`, `api.ts`) | DPoP nonce | `getJSON` with retries and nonce retry, `oauthToken`, `revokeToken` | worker or `fetch` |
| Redirect login (`transaction-manager.ts`, `storage.ts`) | transaction | `loginWithRedirect`, `handleRedirectCallback` | token flow |
| Iframe, popup (`utils.ts`) | listeners, timers | `runIframe`, `runPopup` | token flow, iframe lock |
| Session ceiling, cookies (`Auth0Client.ts`, `jwt.ts`) | stored and in-memory ID token entry with `session_expiry`, cookies | `getUser`, `_requestToken`, `_saveEntryInCache` | cache |
| Anonymous sessions (`anonymous/`) | session token, slots of access tokens, mark of expiry | `createSession`, `getTokenSilently`, `mintTransferToken`, `logout` | lock manager, login |
| MFA (`mfa/`), passkeys (`passkey/`) | contexts with TTL, pending sign-up | challenge, verify; sign-up, login | token flow |
| DPoP (`dpop/`), fetcher (`fetcher.ts`) | key pair, nonces | proofs; authenticated fetch with one nonce retry | HTTP |

### What is hard here

Everything that `PROJECT.json` lists under `hazards`. In short: a decision to
refresh is taken before the lock is held; a refresh token is single-use, is
rotated by the server before the client can store its successor, and is copied
under several keys; `logout` and `revokeRefreshToken` take no lock; storage
writes are read-modify-write over an await; and a page can be hidden, unloaded
or restored in the middle of anything.

### What makes each component correct

* Lock manager: callbacks of one key exclude each other over all tabs; a caller
  told `TimeoutError` never ran its callback; every call settles.
* Silent token flow: one refresh per audience at a time; no refresh token is sent
  twice; each caller gets a token of its audience and scopes, a fresh one with
  `cacheMode: 'off'`; every promise settles.
* Cache: after all calls are done no entry holds a spent refresh token; with MRRT
  all hold the same one; the manifest lists every stored key; `clear` empties.
* Worker: refresh tokens never reach the page; no replay; revoked tokens are
  forgotten; online tokens are not evicted; retries are bounded and really sent.
* Session: renewals cannot move the ceiling of the login, no user is returned past
  it; an entry holds only refresh tokens of its user, also when a renewal is answered
  after another user's login; an MFA completion leaves no entry with the token its
  challenge used up; a pending passkey sign-up is continued once.
* Cache lookup: a token is returned only for scopes it has.
* DPoP: proofs are by the key the token is bound to; the one retry carries the
  nonce it was refused for; every call ends.
* Anonymous sessions: all tokens belong to the stored session; of the identities that
  renewals start one reaches the page, whatever is lost on the way.
* Login flows: a flow uses only its own code, once; tokens of two users never
  coexist; locks cover silent authentication only; no call is ever stuck.

## 2. Modules

```
LockManager            what ILockManager promises
  ^ implemented by     WebLocks, LegacyLock          (MCWebLocks, MCLegacyLock)
SilentToken            token flow + cache, over the abstract lock (MCSilentToken)
TokenWorker            worker + getJSON + page side               (MCTokenWorker)
Login                  popup, iframe and redirect flows of a page (MCLogin)
KeyManifest            CacheManager over CacheKeyManifest
  ^ CacheLookup        what the cache answers, scopes, MRRT       (MCCacheLookup)
IdToken                verification of an ID token, operators
  ^ Session            ID token entry, ceiling, _requestToken
      ^ Mfa, Passkey
          ^ Factors    all of them together                       (MCFactors)
Dpop                   key pair, nonces, fetcher, My Account client
Anonymous              anonymous sessions over the abstract lock  (MCAnonymous)
*Proofs                theorems about the module in their name (LockProofs: both managers)
```

**LockManager** has one variable, the phase of each call as its caller sees it.

**WebLocks** (`lock.ts` 29-56): the abort timer, the grant by the browser
(external), the callback that first clears the timer, callback results, closed
pages. The browser's FIFO order is dropped, so nothing depends on it.

**LegacyLock** (`lock.ts` 59-109): the retry loop over browser-tabs-lock
(external: atomic acquire, release only of the page's own record), `activeLocks`,
the listener, and `pagehide`, after which the page is unloaded or comes back with
its callbacks where they were. `restored` is a history variable: the calls that
were open when their page was hidden and came back.

**SilentToken** (`Auth0Client.ts` 1071-1176, 1385-1463, 1590-1814, 1919-1982;
`cache-manager.ts`; `promise-utils.ts`): a process per invocation, with a control
point per await. A cache entry is an access token, an expiry class (`fresh`,
`due` within 60 s, `expired`) and a refresh token; a key is an audience and a
scope set. Tokens are numbers in the order of issue. `GetTokenSilently` joins a
promise in flight or starts; `CheckCache`/`StripExpired` are
`_getEntryFromCache`, before and under the lock; `ReadRefreshToken` ..
`FinishExchange` are `_getTokenUsingRefreshToken` with the save and the
propagation loop (`updateEntry`), one action per storage access; `Logout`,
`RevokeRefreshToken` and what follows are the two operations without a lock.
`Interleaved` says whose storage accesses may alternate: FALSE is one page with
synchronous storage, where a chain runs to its next event and only chains started
in the same application task alternate (`Starting`); TRUE is `localStorage`
shared by tabs, or an asynchronous custom cache.
Abstractions: the entry and the id token are read in one step; the id token goes
with the first removed key; one exchange stands for `getJSON`'s retries (they are
in TokenWorker); the offline server always rotates. `MrrtSettings` are the values
of `useMrrt` a behaviour starts from, and `Load` says for each of them which
requests occur and how many calls and operations in all.

**TokenWorker** (`token.worker.ts`, `worker.utils.ts`, `http.ts` 67-250, the
token requests of `Auth0Client.ts`): calls of six kinds (code, refresh, MFA
completion, custom exchange, revoke, clear), the message queue, the handlers up
to each await, the two stores, the answers, and `getJSON` on the page's side with
its retries on network errors and its one retry for a DPoP nonce. The completion
of an MFA challenge rotates the token whose exchange was refused, as the comment
at `Auth0Client.ts` 2431 says. A behaviour starts with one of the `Profiles`: the
client's options, the server's leeway, whether answers get lost, and the kinds and
number of calls. The URL allow-list of the worker is left out, and
`logout` posts `clear` in the step that empties the page's cache.

**Login** (`Auth0Client.ts` 557-935, 982-1009, 1101-1242, 1442-1588, 1911-2010,
2307-2357; `utils.ts` 15-144; `transaction-manager.ts`): overlapping popup,
iframe and redirect flows of one page without refresh tokens. A flow is the number
of its random state. A window that answers posts a message, which every listener
of the page receives; a popup shares its window name with every other popup flow,
outlives the call that timed out and can answer late. Silent authentication takes
the audience lock, then the iframe lock. There is one transaction cell, and old
callback URLs stay in `responses`, to be visited again. `Unload` can happen at any
moment and may lose a cache in memory. The exchange of a code is one step that
answers and saves: the cache is synchronous here, interleaved storage accesses are
SilentToken's subject. Left out: transfer tokens of native sessions, cross-origin
isolation, `singlePromise` (identical calls would only be one call), popup windows
supplied by the application.

**KeyManifest** (`key-manifest.ts`, `cache-manager.ts` 70-212): set, expiry,
remove and clear over the manifest a cache without `allKeys` needs, one action
per cache access. `Serial` says that operations do not overlap.

**CacheLookup** (`scope.ts`, `cache/shared.ts`, `cache-manager.ts` 28-306,
`Auth0Client.utils.ts` 132-226, `Auth0Client.ts` 1590-1723, 1863-1883) extends
KeyManifest with what is stored under the keys, and sends one request at a time
through it: the scopes to ask for, the exact or covering key, the entry whose
refresh token is borrowed (MRRT), the scope to request, the answer, its save in
KeyManifest's steps, the check for missing scopes and the removal, the iframe
that may follow. A scope string is the set of its words; the key of the ID token
is one that no scope matches. Answers for the request's own refresh token grant
what was asked; borrowed ones grant any part of it.

**IdToken**, **Session**, **Mfa**, **Passkey**, **Factors**. IdToken has `verify`
(`jwt.ts` 39-222) and the checks of `session_expiry` as predicates over a record
of claims; the server answers with sound tokens and with tokens that deviate in
one claim. Session (`Auth0Client.ts` 464-497, 706-733, 1746-2011) has the stored
ID token entry, the copy each tab keeps, the entries with their user and refresh
token, the cookies, and a clock. The methods start a call; `TokenIssued` is
`_requestToken` from the answer on: verification, the switch of users, the pinned
ceiling, the save, the propagation. Its awaits are microtasks, so it is one step.
`owner` is the user each refresh token was issued to (external); the answer to a
refresh token is for its owner, every other answer for any user. Of the history
variables, `crossed` says that an MFA completion has replaced a refresh token of
another user than its own, since the last clear.
Mfa (`mfa/`, `Auth0Client.ts` 1901-1907, 2415-2457) adds challenges and the
contexts of each tab with their TTL; a challenge is `overtaken` once a login or
another completed challenge has come between it and its end. Passkey (`passkey/`)
has the prompts and the pending sign-up. Factors lets all of them happen in any order.

**Dpop** (`dpop/`, `fetcher.ts`, `http.ts` 18-66 and 128-250,
`myaccount/MyAccountApiClient.ts`): every IndexedDB request is a step: reading the
nonce, finding, generating and storing the key pair, listing and deleting at
logout. Token requests, fetches, My Account calls and proofs for the application
share the database; an answer may bring a nonce and the server may change it at
any time. What a request carries is the key and the nonce of its proof and the key
its code or token is bound to. A body that cannot be sent twice ends the retry.

**Anonymous** (`anonymous/`, `Auth0Client.ts` 550-555, 937-953): one session token,
a slot per audience and scope, the mark of expiry, in `localStorage`, so a call can
be of any tab. Renewals take the lock; `createSession`, `mintTransferToken` and
`logout` do not. Sessions end at the server at any moment and access tokens expire.
A call can fail before the server has acted or after it (`RequestFails`): the answer
is lost or the page is closed, which the code cannot tell from no answer, and stores
nothing. `lost` is a history variable: the identities that were started by requests
whose answer never arrived.

## 3. Runs

| Run | Instance | Shows |
|---|---|---|
| `web_locks` | 4 calls, 2 keys, 2 tabs | refinement of LockManager; every call settles |
| `legacy_lock` | 4 calls (two of one page for one key, one for another key, one of a second page), 2 attempts | the same for pages that were not restored; bookkeeping for all |
| `rotation` | 1 page; without MRRT 3 calls, 2 overlapping scope sets, `on` and `off`, a logout or revocation; with MRRT 3 calls or operations, 2 audiences, 3 keys, server leeway | no replay; no spent token left; fresh tokens for `off`; tokens fit requests; entries converge to one refresh token |
| `settle` | 2 tabs, 2 calls, online tokens, lossy network, free interleaving, all cache modes, a logout or revocation | one refresh at a time; the online token survives; every promise settles |
| `cross_tab_replay` | 2 tabs, 2 calls, 1 key | violation of NoReplay, see below |
| `worker` | 3 calls, 3 keys, rotating tokens without and with MRRT; 2 calls, online tokens, DPoP, lossy network | tokens stay in the worker; no replay; revoked tokens are forgotten; rotation reaches every copy; online token kept; every call gets nearer to its end |
| `worker_nonce` | 1 refresh, DPoP, offline token | violation of NonceRetrySent |
| `login` | 3 calls of all flows, 2 audiences, 2 users, step-up popups | own codes, once; one user; locks only while silent; one iframe; nobody stuck |
| `lookup` | 1 operation at a time, requests without audience and for one API, with and without a further scope, online tokens, MRRT | borrowed refresh tokens never bring a token that lacks scopes; the manifest misses no entry; clear empties |
| `dpop` | 2 calls of all kinds, 2 nonces per server, with and without a session at the start | proofs fit; the retry gets through; every call ends |
| `anonymous` | 4 calls of any kind, 2 slots, 3 identities | shared identity; one identity reaches the page, whichever answers are lost; expired sessions stop renewals |
| `session` | 3 calls, 1 tab with reloads, 2 users, 2 keys, 2 ceilings, 3 moments, 1 challenge, 2 authentication sessions | ceiling pinned and enforced; refresh tokens of the entry's user; rotation across MFA; one use of a sign-up |

**Bounds.** Two tabs are enough for a race between pages, and the lock and token
theorems hold for any number. Three calls are the smallest number with a leader,
a follower and a rival; the third call is also the one that can replay what two
others left behind. Scope sets are `{s1}` and `{s1, s2}` of one audience and
`{s1}` of another, so exact, superset and foreign matches occur. Retries are 2
instead of 3 (`getJSON`) and 10 (`LegacyLock`): one retry and one exhaustion. Two
nonces let a server change its nonce and change it back. Three moments are before,
at and after the ceiling less its leeway; the TTL of a context and the maximal age
are one of them. Four anonymous calls are two that race for a renewal, one that
comes between, and one that finds what they leave. Each
invocation happens once, which bounds the tokens issued. Deadlock checking is off
because the application may stop calling; in `login` NoneStuck says instead that
a call that has begun can always take a step of its own. Symmetry is used only in
runs without liveness.

**Fairness.** Needed in WebLocks, LegacyLock, SilentToken and Dpop: weak fairness on
promise chains, on the lock manager (it grants or times out), on requests (answer or
timeout) and on message delivery. Nothing is assumed of the application, of expiry, of the user, nor of locks being granted; a
server may change its nonce for ever. TokenWorker needs none: CallsEnd is an action
property, that every step of a call lowers a natural number (what is left of its
requests, retries and handlers), so that a call that goes on ends.

### Violations

* `cross_tab_replay`. The check before the lock rewrites an expired entry from
  the snapshot it read (`cache-manager.ts` 144). A tab that reads before and
  writes after another tab's refresh puts the spent token back; the next refresh
  sends it.
* `worker_nonce`. In offline mode the worker drops the key's refresh token on
  every answer without one (`token.worker.ts` 198), also on `use_dpop_nonce`. The
  retry that `http.ts` 218 promises ends with `missing_refresh_token`.

### Known limits

Behaviours of the code that are outside what the passing runs claim; each appears
when the condition named is lifted.

* A call of a restored page runs its callback without its lock, and may release
  a later lock of its own page; LegacyLock's promise is therefore stated for
  pages that were not restored.
* With MRRT and `Interleaved`, two `updateEntry` loops can leave two refresh
  tokens, and a tab can read a too-narrow token before it is removed; `rotation`
  is about one page.
* A refresh in flight saves its tokens after a `logout` or `revokeRefreshToken`
  has cleared the session, in the cache as in the worker.
* With MRRT a login between an MFA challenge and its completion, or two exchanges of
  one token within the server's leeway, make the worker fan out from the wrong token;
  `StoredUnspent` excepts this case (`Forked`). Without a worker a login, or the
  completion of another challenge, leaves the used-up token in the other entries;
  `MfaRotates` excepts it too (`overtaken`).
* `Previous` reads the entry that is found when `verify` is called. If two keys cover
  the key of the challenge, a renewal of one of them meanwhile can make it the entry
  that is found, and the completion rotates its token instead of the one the challenge
  has used up, which the other keeps: `MfaRotates` fails for four keys, two of which
  cover a third. The theorem assumes `OneCover`, which the run's keys satisfy.
* `NoReplay` of the worker is checked without lost answers: a retry after one
  repeats the token by design (`http.ts` 173-176, server leeway).
* Another user's login clears the page's cache (`Auth0Client.ts` 1943-1953) and
  leaves the worker's refresh tokens.
* A silent authentication answered by a late `login_required`, or one that hears
  another flow's, clears the session a login has just stored
  (`Auth0Client.ts` 1581).
* Overlapping saves lose keys from the manifest; KeyManifest's claims assume
  `Serial`. `CacheManager.remove` leaves its key in the manifest
  (`cache-manager.ts` 167-179): the manifest may list more than is stored, and a
  lookup that matches such a key finds nothing.
* With `useRefreshTokensFallback` the token that lacks scopes stays cached while the
  iframe runs (`Auth0Client.ts` 1675); if it fails, the next request gets it.
  `ScopesHonoured` is about clients without the fallback.
* With MRRT a request without audience is compared, as `undefined`, with an entry
  stored for `default`: `isRefreshWithMrrt` then always holds and
  `getScopeToRequest` never asks for the larger scope. Harmless, and modelled.
* A renewal by an iframe is a code grant, which takes the ceiling of its answer
  (`Auth0Client.ts` 1958), although `examples/session-expiry-ipsie.md` 39 says that
  silent refreshes cannot extend it: `CeilingPinned` fails without refresh tokens. A
  renewal in flight while the ceiling clears the session starts a session without it.
* A tab looks at the ceiling of its own copy; with two tabs `NoUserPastCeiling` fails
  after a login in the other one.
* Passkeys, token exchanges, MFA completions and renewals of another user do not clear
  the cache: only a code is compared with the stored user (`Auth0Client.ts` 1945), so
  that `OneUser` of Login, whose calls are all code grants, does not carry over to
  Session. A renewal is enough: it is sent for one user, another logs in by a popup,
  which takes no lock and clears the cache, and the answer then stores the first user's
  ID token and access token. The entries of two users then lie side by side, each with
  its own user's refresh token (`TokenOwner`). If an MFA completion of one user finds an
  entry of the other, it gives every copy of that entry's refresh token its own;
  `TokenOwner` excepts this (`crossed`). With MRRT, which is not in Session,
  `updateEntry` rewrites every entry, so a late renewal does the same.
* Two first calls that race for the DPoP key pair both generate one
  (`dpop.ts` 19-28); with `Alone` FALSE `ProofFits` fails. A logout deletes the key
  under a request in flight.
* A fetch whose body is a stream cannot be repeated for a new nonce.
* `createSession` while an anonymous session, or a renewal of one, is there leaves
  slots of two identities; in memory mode the slots of one tab outlive the mark.
* A renewal without a session token whose answer is lost, or whose page is closed,
  has started an identity at the server that nobody knows of; the next renewal starts
  another one. `OneIdentity` is about the identities whose answer was not lost, and
  says that a lost one never shows up in the storage.

## 4. Proofs

Every theorem holds for all values of the constants that satisfy the module's
`ConstantsAssumption` (finite key set, functions with the right domains, positive
retry counts; TLC evaluates them in the runs).

* **LockProofs**, about both managers. `WebRefinement` (a refinement of LockManager, as
  `LegacyRefinement`) assumes that the placeholder for "no holder" is no call. Its
  inductive invariant, of which `HoldersCorrect` is a part, says that the browser's
  holder of a key is exactly the call between its grant and its release. Mutual
  exclusion alone is not inductive: a grant looks at the holder, not at the other
  callbacks. `ListenerInstalled`, `LocksNotOrphaned`, `LegacyRefinement`: `Bookkeeping`
  (types, attempts left, listener, records) is inductive with restored pages included.
  `Exclusive` adds that a running callback of a page not restored owns its record, and
  that the open calls of a page are restored together; without the latter a restored
  call could release the record of a neighbour that still counts.
* **SilentTokenProofs.** `TypeCorrect`: an entry that is not expired has its access
  token, which needs the same of every snapshot in a local variable.
  `RefreshesExclude` follows from `LockHeld`: a call at a control point inside the
  callback is the lock's holder. `OffCallsFresh`: `Sharing` (a call that joined a
  promise has the key, mode and starting point of the call it joined) and `Recent`
  (a call without cache skips both cache checks, so what it holds is newer than its
  start). `OnlineTokensKept`: entries, snapshots and answers all have a token
  (`Online`). These hold in every interleaving. `TokensFitRequests` assumes `Serial`,
  one page or no MRRT; `Fit` relates every access token, cached or in a register, to
  the grant it came from, and excepts the entry that its call is about to remove.
  `ReplayFree` and `CacheUnspent` assume one page and no lost answer. Neither is
  inductive: what a call is about to store must be new to everybody (`Fresh`), every
  spent token in the cache must be one that some call is due to replace
  (`SpentPending`), with what it read (`RewritesNew`), and without MRRT all copies of
  a token must be of one audience, whose lock that call holds (`SameAud`).
  `AllConverge` assumes one page and one login: while a call rewrites, the keys it has
  passed hold its new token (`Convergence`), and an online session has no other token
  than that of its login (`LoginsOnly`).
* **TokenWorkerProofs.** `Worker` says what the registers of a call hold at each
  control point; `TokensConfined` and `OnlineTokensKept` follow from it. `Fresh` says
  that a token on its way from the server is known to nobody else. With it,
  `RevokedTokensForgotten` needs that a revoked token still stored has a handler about
  to delete it (`Deleting`). `ReplayFree` needs `Separate`: without MRRT a token is
  under one key, in the hands of one handler, and the token of an open challenge is
  stored nowhere. `StoredTokensUnspent` needs, with MRRT, `Lineage`: unless an MFA
  completion meets a login or a second exchange of one token, everything stored is the
  latest token, and a spent one has its successor on the way. `CallsFinish` (CallsEnd)
  shows that every step of a call lowers its rank. `Budget` makes the rank a natural
  number: an attempt is always left, and there are never more tokens to revoke than
  keys. A step either stays within an attempt and lowers its stage, or repeats the
  message and uses up an attempt, which outweighs every stage.
* **LoginProofs** `UsersApart`, `CodesOwned`, `LocksSilent`, `IframesExclude`,
  `CodesTakenOnce`. OneUser and OwnCode are inductive over the types (`Shape`). The
  lock theorems rest on `IframeHeld` and `LockHeld`: a call listens in an iframe
  exactly while it holds the iframe lock, and holds an audience lock only before or
  during that. `CodesTakenOnce` is an action property; its invariant `FlowsFresh` says
  that a flow somebody still listens for, or that the transaction names, has not been
  taken.
* **CacheLookupProofs.** `NothingUnlisted` and `ClearComplete`, about KeyManifest
  alone and assuming `Serial`: the invariant relates the snapshot of a half-done
  manifest update to the stored keys. `LookupImplementsManifest`: a step of CacheLookup
  is a step of KeyManifest or leaves it alone; with it, `LookupListed` and
  `LookupClears` carry the two theorems over to requests. `BorrowedTokensFit`, without
  the iframe fallback: the invariant adds what holds at each phase of a request, `Named`
  (its key has its audience), `Asked` (a borrowed refresh token is exchanged for the
  very scopes of the request), `Answered` (a borrowed token that is returned has them)
  and `EntriesFit` (only the entry being checked can lack scopes of its key).
  ScopesHonoured alone says nothing about what is stored.
* **DpopProofs** `ProofsFit`, `RetriesGetThrough`. ProofFits says nothing about what a
  later request will be signed with. `OneKey` does: while there is no key pair there is
  at most one call and nothing is bound to a key; afterwards there is one key, to which
  everything is bound and with which everything is signed. RetryGetsThrough needs
  `NonceKnown`: unless the server has changed its nonce, a call that was refused has
  stored it before its retry reads it, and no answer to another call can overwrite it
  with an older one.
* **FactorsProofs**, about everything that can start or renew a session, for any
  number of tabs, users, keys, challenges and sign-ups. `TokensOwned`: TokenOwner needs
  that every refresh token issued has an owner and that only renewals and completions
  carry one (`Owners`), and that no entry has a token that was not issued (`Ledger`),
  so that the one just issued is in no other entry; the propagation then replaces
  tokens of the answer's own user. It is about Session's clients, without MRRT.
  `CeilingKept` assumes refresh tokens;
  CeilingPinned is inductive. `CeilingEnforced` assumes one tab; `InStep` says that
  what it has in memory is what is stored. `SignupsOnce`: `Signups` says that a
  sign-up is with one call or pending in one tab, under an authentication session
  nobody else has, and that a passkey was created for it only if it says so.
  `ChallengesRotate` assumes `OneCover`, that a key has at most one other that covers
  it. A challenge is `Live` while nothing has overtaken it and an entry still has the
  refresh token it used up. Then whatever a lookup finds for its context's key has that
  very token, and so has a completion that is under way (`Carried`); a silent call
  finds an entry with the token it sent (`Lookups`), so that it cannot save over the
  challenge's entry: its own token would be the spent one (`Ledger`).
* **AnonymousProofs** `IdentityShared`, `IdentityUnique`, `ExpiryStops`. The three
  invariants need `LockHeld` (the renewal in flight holds the lock, so there is one),
  `SameSession` (the session it was sent for is the stored one, or gone) and
  `Accounted`. This is about the `Known` identities, those whose answer was not lost:
  without createSession and logout one of them is stored, about to be stored, or its
  expiry is marked, and a renewal sent without a session token finds none. A lost
  answer takes its identity out of `Known` again, which leaves none there, so the next
  renewal may start one.

Only model-checked: liveness (EveryCallSettles in four modules: the prover has no
fairness) and NoneStuck of Login (the prover has no ENABLED). Every other property of
a passing run is a theorem.

## 5. Not modelled

* Errors, types, constants and entry points (`errors.ts`, `global.ts`, `types.ts`,
  `index.ts`) have no behaviour of their own; domain discovery is one request
  without state. `static/auth0-spa-js.development_old.js` is a build of an old
  version.
* Text: base64url and query strings, random strings, cookie attributes and the
  legacy copies of cookies, WebAuthn credentials, payloads of the My Account and MFA
  requests.
* The transfer token of a native session (`Auth0Client.ts` 506-548), which is taken
  from the URL and removed from it in one synchronous step; cross-origin isolation;
  the worker's allow-list of URLs.

## 6. Plan

Done: all components but the above, and proofs of every safety invariant and action
property but NoneStuck. What would come next are the model's own limits: interleaved
storage accesses in Login, the conditions under Known limits that the code may one day
lift, and the parts of section 5.
