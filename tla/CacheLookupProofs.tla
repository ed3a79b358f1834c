------------------------- MODULE CacheLookupProofs -------------------------
(***************************************************************************)
(* For every configuration of scopes, audiences and keys. First, of the    *)
(* key manifest by itself, for every set of keys: if the cache operations  *)
(* do not interleave, it lists every stored key whenever no operation is   *)
(* under way, and clear leaves the cache empty. The invariant says, for    *)
(* each point of an operation, which of the two lists (the manifest or the *)
(* copy read from it) still covers the stored keys. Second, every step of  *)
(* a lookup is a step of KeyManifest or leaves its state alone, so the     *)
(* manifest's theorems hold of it. Third, without the iframe fallback a    *)
(* token got with a borrowed refresh token has every scope it is returned  *)
(* for: the invariant follows it from the exchange to the entry and from   *)
(* the entry to later requests.                                            *)
(***************************************************************************)
EXTENDS CacheLookup, TLAPS

(* The key manifest *)

\* At most one operation is between two of its steps.
Alone == \A p, q \in Procs : pc[p] # "idle" /\ pc[q] # "idle" => p = q

Covered ==
  \A p \in Procs :
    /\ pc[p] = "addGet" => stored \subseteq manifest \cup {Key(p)}
    /\ pc[p] \in {"addSet", "removeSet"} => stored \subseteq reg[p].keys
    /\ pc[p] = "expired" => stored \subseteq manifest
    /\ pc[p] = "removeGet" => stored \subseteq manifest /\ Key(p) \notin stored
    /\ pc[p] = "clear" => stored \subseteq manifest /\ stored \subseteq reg[p].keys

Inv == TypeOK /\ Alone /\ Listed /\ Covered

\* The registers of an operation that has ended are typed.
LEMMA NoRegTyped == NoReg \in [key : Keys, keys : SUBSET Keys]
<1>1. (CHOOSE k \in Keys : TRUE) \in Keys
  BY ConstantsAssumption
<1> QED
  BY <1>1 DEF NoReg

\* Initially nothing is stored and nothing is under way.
LEMMA InitInv == Init => Inv
BY NoRegTyped DEF Init, Inv, TypeOK, Alone, Listed, Covered

\* An operation that takes a step is the only one under way, before and after.
LEMMA StepAlone ==
  ASSUME Serial, Inv, NEW p \in Procs, NEW from, NEW to, Step(p, from, to)
  PROVE  /\ pc[p] = from /\ pc'[p] = to
         /\ \A q \in Procs : q # p => pc[q] = "idle" /\ pc'[q] = "idle"
         /\ Alone'
BY DEF Step, Turn, Inv, TypeOK, Alone

\* The invariant is inductive.
LEMMA NextInv == ASSUME Serial, Inv, [Next]_vars PROVE Inv'
<1>1. CASE UNCHANGED vars
  BY <1>1 DEF Inv, vars, TypeOK, Alone, Listed, Covered, Key
<1>2. ASSUME NEW p \in Procs, NEW k \in Keys, Set(p, k) PROVE Inv'
  <2>1. /\ pc[p] = "idle" /\ pc'[p] = "addGet" /\ Alone'
        /\ \A q \in Procs : q # p => pc[q] = "idle" /\ pc'[q] = "idle"
    BY <1>2, StepAlone DEF Set
  <2> QED
    BY <1>2, <2>1 DEF Set, Step, Inv, TypeOK, Listed, Covered, Key
<1>3. ASSUME NEW p \in Procs, NEW k \in Keys, GetExpired(p, k) PROVE Inv'
  <2>1. /\ pc[p] = "idle" /\ pc'[p] = "expired" /\ Alone'
        /\ \A q \in Procs : q # p => pc[q] = "idle" /\ pc'[q] = "idle"
    BY <1>3, StepAlone DEF GetExpired
  <2> QED
    BY <1>3, <2>1 DEF GetExpired, Step, Inv, TypeOK, Listed, Covered, Key
<1>4. ASSUME NEW p \in Procs, NEW k \in Keys, Remove(p, k) PROVE Inv'
  <2>1. /\ pc[p] = "idle" /\ pc'[p] = "idle" /\ Alone'
        /\ \A q \in Procs : q # p => pc[q] = "idle" /\ pc'[q] = "idle"
    BY <1>4, StepAlone DEF Remove
  <2> QED
    BY <1>4, <2>1 DEF Remove, Step, Inv, TypeOK, Listed, Covered, Key
<1>5. ASSUME NEW p \in Procs, AddGet(p) PROVE Inv'
  <2>1. /\ pc[p] = "addGet" /\ pc'[p] = "addSet" /\ Alone'
        /\ \A q \in Procs : q # p => pc[q] = "idle" /\ pc'[q] = "idle"
    BY <1>5, StepAlone DEF AddGet
  <2> QED
    BY <1>5, <2>1 DEF AddGet, Step, Inv, TypeOK, Listed, Covered, Key
<1>6. ASSUME NEW p \in Procs, AddSet(p) PROVE Inv'
  <2>1. /\ pc[p] = "addSet" /\ pc'[p] = "idle" /\ Alone'
        /\ \A q \in Procs : q # p => pc[q] = "idle" /\ pc'[q] = "idle"
    BY <1>6, StepAlone DEF AddSet
  <2> QED
    BY <1>6, <2>1, NoRegTyped DEF AddSet, Forget, Step, Inv, TypeOK, Listed, Covered, Key
<1>7. ASSUME NEW p \in Procs, RemoveExpired(p) PROVE Inv'
  <2>1. /\ pc[p] = "expired" /\ pc'[p] = "removeGet" /\ Alone'
        /\ \A q \in Procs : q # p => pc[q] = "idle" /\ pc'[q] = "idle"
    BY <1>7, StepAlone DEF RemoveExpired
  <2> QED
    BY <1>7, <2>1 DEF RemoveExpired, Step, Inv, TypeOK, Listed, Covered, Key
<1>8. ASSUME NEW p \in Procs, RemoveGet(p) PROVE Inv'
  <2>1. /\ pc[p] = "removeGet" /\ pc'[p] = (IF manifest = {} THEN "idle" ELSE "removeSet")
        /\ \A q \in Procs : q # p => pc[q] = "idle" /\ pc'[q] = "idle"
        /\ Alone'
    BY <1>8, StepAlone DEF RemoveGet
  <2> QED
    BY <1>8, <2>1 DEF RemoveGet, Step, Inv, TypeOK, Listed, Covered, Key
<1>9. ASSUME NEW p \in Procs, RemoveSet(p) PROVE Inv'
  <2>1. /\ pc[p] = "removeSet" /\ pc'[p] = "idle" /\ Alone'
        /\ \A q \in Procs : q # p => pc[q] = "idle" /\ pc'[q] = "idle"
    BY <1>9, StepAlone DEF RemoveSet
  <2> QED
    BY <1>9, <2>1, NoRegTyped DEF RemoveSet, Forget, Step, Inv, TypeOK, Listed, Covered, Key
<1>10. ASSUME NEW p \in Procs, Clear(p) PROVE Inv'
  <2>1. /\ pc[p] = "idle" /\ pc'[p] = (IF manifest = {} THEN "idle" ELSE "clear")
        /\ \A q \in Procs : q # p => pc[q] = "idle" /\ pc'[q] = "idle"
        /\ Alone'
    BY <1>10, StepAlone DEF Clear
  <2> QED
    BY <1>10, <2>1 DEF Clear, Step, Inv, TypeOK, Listed, Covered, Key
<1>11. ASSUME NEW p \in Procs, ClearKey(p) PROVE Inv'
  <2>1. /\ pc[p] = "clear" /\ pc'[p] = "clear" /\ Alone'
        /\ \A q \in Procs : q # p => pc[q] = "idle" /\ pc'[q] = "idle"
    BY <1>11, StepAlone DEF ClearKey
  <2> QED
    BY <1>11, <2>1 DEF ClearKey, Step, Inv, TypeOK, Listed, Covered, Key
<1>12. ASSUME NEW p \in Procs, ClearManifest(p) PROVE Inv'
  <2>1. /\ pc[p] = "clear" /\ pc'[p] = "idle" /\ Alone'
        /\ \A q \in Procs : q # p => pc[q] = "idle" /\ pc'[q] = "idle"
    BY <1>12, StepAlone DEF ClearManifest
  <2> QED
    BY <1>12, <2>1, NoRegTyped DEF ClearManifest, Forget, Step, Inv, TypeOK, Listed, Covered, Key
<1> QED
  BY <1>1, <1>2, <1>3, <1>4, <1>5, <1>6, <1>7, <1>8, <1>9, <1>10, <1>11, <1>12 DEF Next

\* Operations that do not interleave never lose a key from the manifest.
THEOREM NothingUnlisted == ASSUME Serial PROVE Spec => []Listed
<1>1. Inv /\ [Next]_vars => Inv'
  BY NextInv
<1>2. Inv => Listed
  BY DEF Inv
<1> QED
  BY <1>1, <1>2, InitInv, PTL DEF Spec

\* clear, on its own, leaves no entry behind.
THEOREM ClearComplete == ASSUME Serial PROVE Spec => ClearEmpties
<1>1. Inv /\ [Next]_vars => Inv'
  BY NextInv
<1> DEFINE Ends == \A p \in Procs : pc[p] = "clear" /\ pc'[p] = "idle" => stored' = {}
<1>2. Inv /\ [Next]_vars => [Ends]_vars
  <2> SUFFICES ASSUME Inv, Next, NEW p \in Procs, pc[p] = "clear", pc'[p] = "idle"
               PROVE  stored' = {}
    OBVIOUS
  <2>1. ClearManifest(p)
    <3>1. \A q \in Procs : q # p => pc[q] = "idle"
      BY DEF Inv, Alone
    <3>2. \A q \in Procs : Turn(q) => q = p
      BY DEF Turn
    <3>3. \E q \in Procs :
            \/ \E k \in Keys : Set(q, k) \/ GetExpired(q, k) \/ Remove(q, k)
            \/ AddGet(q) \/ AddSet(q)
            \/ RemoveExpired(q) \/ RemoveGet(q) \/ RemoveSet(q)
            \/ Clear(q) \/ ClearKey(q) \/ ClearManifest(q)
      BY DEF Next
    <3> QED
      BY <3>2, <3>3 DEF Set, GetExpired, Remove, AddGet, AddSet, RemoveExpired, RemoveGet,
         RemoveSet, Clear, ClearKey, ClearManifest, Step, Inv, TypeOK
  <2> QED
    BY <2>1 DEF ClearManifest, Inv, Covered
<1> QED
  BY <1>1, <1>2, InitInv, PTL DEF Spec, ClearEmpties

-----------------------------------------------------------------------------
(* Lookups *)

Words == UNION {k.scope : k \in Keys}

Entry == [granted : SUBSET Words, refresh_token : BOOLEAN, fresh : BOOLEAN, borrowed : BOOLEAN]

Phases == {"none", "authorize", "iframe", "lookup", "send", "saveId", "saveEntry", "check", "remove", "served"}

Typed ==
  /\ entries \in [Keys -> Entry]
  /\ req \in [phase : Phases, audience : Audiences \cup {"none"}, key : Keys, cached : Keys,
              gets : Nat, asked : SUBSET Words, answer : Entry, silent : BOOLEAN]

\* The refresh token is that of the request's own key, or of one that covers it.
Own == req.cached.audience = req.key.audience /\ req.key.scope \subseteq req.cached.scope

Covers(scope, e) == e.borrowed => scope \ {"online_access"} \subseteq e.granted

Fits(scope, e) == e.fresh => Covers(scope, e)

Named == req.phase # "none" => req.key.audience = IF req.audience = "none" THEN "default" ELSE req.audience

\* A borrowed refresh token is exchanged for the scopes of the request.
Asked ==
  /\ req.phase = "send" => Own \/ (UseMrrt /\ req.asked = req.key.scope)
  /\ req.phase \in {"saveId", "saveEntry", "check"} /\ req.answer.borrowed
       => UseMrrt /\ req.silent /\ ~Own /\ req.asked = req.key.scope

Answered ==
  /\ req.phase = "check" => entries[req.key] \in {req.answer, NoEntry}
  /\ req.phase = "served" => Covers(req.key.scope, req.answer)

\* Only the entry that is being checked can lack scopes.
EntriesFit ==
  \A k \in Keys : Fits(k.scope, entries[k]) \/ (k = req.key /\ req.phase \in {"check", "remove"})

LookupInv == Inv /\ Typed /\ Named /\ Asked /\ Answered /\ EntriesFit

\* The empty entry and the empty request are typed, and lack nothing.
LEMMA EmptyTyped ==
  /\ NoEntry \in Entry
  /\ \A scope : Fits(scope, NoEntry)
  /\ IdKey \in Keys
  /\ NoRequest \in [phase : Phases, audience : Audiences \cup {"none"}, key : Keys, cached : Keys,
                    gets : Nat, asked : SUBSET Words, answer : Entry, silent : BOOLEAN]
<1>1. NoEntry \in Entry /\ \A scope : Fits(scope, NoEntry)
  BY DEF NoEntry, Entry, Fits, Covers
<1>2. IdKey \in Keys
  BY KeysAssumption
<1> QED
  BY <1>1, <1>2 DEF NoRequest, Phases

\* Nothing is under way when no request is.
LEMMA NoneUnderWay ==
  ASSUME LookupInv, req' = NoRequest, entries' \in [Keys -> Entry],
         \A k \in Keys : Fits(k.scope, entries'[k])
  PROVE  Typed' /\ Named' /\ Asked' /\ Answered' /\ EntriesFit'
<1>1. req'.phase = "none"
  BY DEF NoRequest
<1>2. Typed'
  BY EmptyTyped DEF Typed
<1>3. Named' /\ Asked' /\ Answered' /\ EntriesFit'
  BY <1>1 DEF Named, Asked, Answered, EntriesFit
<1> QED
  BY <1>2, <1>3

\* A lookup takes the steps of the manifest.
LEMMA StepsOfManifest == ASSUME req.key \in Keys, LookupNext PROVE [Next]_vars
<1>1. ASSUME NEW a \in Audiences, NEW s \in MethodScopes, Login(a, s) \/ GetToken(a, s)
      PROVE  UNCHANGED vars
  BY <1>1 DEF Login, GetToken, Request
<1>2. ASSUME NEW k \in Keys, Hit(k) \/ Strip(k) \/ Borrow(k) \/ Expire(k) PROVE UNCHANGED vars
  BY <1>2 DEF Hit, Strip, Borrow, Expire
<1>3. ASSUME NothingFound \/ AnswerFails \/ Check \/ Return PROVE UNCHANGED vars
  BY <1>3 DEF NothingFound, AnswerFails, Check, Return
<1>4. ASSUME NEW granted, NEW rt, Answer(granted, rt) PROVE UNCHANGED vars
  BY <1>4 DEF Answer
<1>5. ASSUME NEW p \in Procs, NEW k \in Keys, Drop(p, k) PROVE Next
  BY <1>5 DEF Drop, Next
<1>6. ASSUME NEW p \in Procs, SaveIdToken(p) \/ SaveEntry(p) \/ RemoveNarrow(p) PROVE Next
  BY <1>6, EmptyTyped DEF SaveIdToken, SaveEntry, RemoveNarrow, Next
<1>7. ASSUME NEW p \in Procs, ManifestStep(p) \/ ClearAll(p) \/ SessionRefused(p) PROVE Next
  BY <1>7 DEF ManifestStep, ClearAll, SessionRefused, Next
<1> QED
  BY <1>1, <1>2, <1>3, <1>4, <1>5, <1>6, <1>7 DEF LookupNext

Rest == Typed /\ Named /\ Asked /\ Answered /\ EntriesFit

\* Keys of requests are keys, and named after their audience.
LEMMA RequestKeyTyped ==
  ASSUME NEW a \in Audiences, NEW s \in MethodScopes
  PROVE  CacheKey(a, ScopesToRequest(s, a)) \in Keys
BY KeysAssumption DEF RequestKeys

\* A new request.
LEMMA RequestFits ==
  ASSUME LookupInv, NEW a \in Audiences, NEW s \in MethodScopes, NEW phase \in {"authorize", "lookup"},
         Request(phase, a, CacheKey(a, ScopesToRequest(s, a)))
  PROVE  Rest'
<1> DEFINE key == CacheKey(a, ScopesToRequest(s, a))
<1>1. key \in Keys /\ key.audience = IF a = "none" THEN "default" ELSE a
  BY RequestKeyTyped DEF CacheKey
<1>2. req' = [NoRequest EXCEPT !.phase = phase, !.audience = a, !.key = key] /\ entries' = entries
  BY DEF Request
<1> HIDE DEF key
<1>3. /\ req'.phase = phase /\ req'.audience = a /\ req'.key = key
      /\ req' \in [phase : Phases, audience : Audiences \cup {"none"}, key : Keys, cached : Keys,
                   gets : Nat, asked : SUBSET Words, answer : Entry, silent : BOOLEAN]
  BY <1>1, <1>2, EmptyTyped DEF Phases, NoRequest
<1>4. Typed'
  BY <1>2, <1>3 DEF LookupInv, Typed
<1>5. Named' /\ Asked' /\ Answered'
  BY <1>1, <1>3 DEF Named, Asked, Answered
<1>6. req.phase = "none"
  BY DEF Request
<1>7. EntriesFit'
  BY <1>2, <1>6 DEF LookupInv, EntriesFit
<1> QED
  BY <1>4, <1>5, <1>7 DEF Rest

\* An entry that is found has the scopes of the request.
LEMMA HitFits == ASSUME LookupInv, NEW k \in Keys, Hit(k) PROVE Rest'
<1>1. /\ req.phase = "lookup" /\ entries' = entries
      /\ req' = [req EXCEPT !.phase = "served", !.answer = entries[k]]
      /\ req.key.scope \subseteq k.scope
  BY DEF Hit, Resolved, MatchExistingCacheKey
<1>2. Fits(k.scope, entries[k])
  BY <1>1 DEF LookupInv, EntriesFit
<1>3. Covers(req.key.scope, entries[k])
  BY <1>1, <1>2 DEF Fits, Covers, Hit
<1>4. entries[k] \in Entry
  BY DEF LookupInv, Typed
<1>5. /\ Typed' /\ req'.phase = "served" /\ req'.answer = entries[k]
      /\ req'.key = req.key /\ req'.audience = req.audience
  BY <1>1, <1>4 DEF LookupInv, Typed, Phases
<1>6. Named' /\ Asked' /\ Answered' /\ EntriesFit'
  BY <1>1, <1>3, <1>5 DEF LookupInv, Named, Asked, Answered, EntriesFit
<1> QED
  BY <1>5, <1>6 DEF Rest

\* A refresh token is the request's own, or borrowed for its very scopes.
LEMMA RefreshAsks ==
  ASSUME LookupInv, req.phase = "lookup", NEW k \in Keys, Refresh(k),
         UseMrrt \/ (k.audience = req.key.audience /\ req.key.scope \subseteq k.scope)
  PROVE  /\ Typed' <=> entries' \in [Keys -> Entry]
         /\ Named' /\ Asked'
         /\ req'.phase = "send" /\ req'.key = req.key
<1> DEFINE asked == ScopeToRequest(req.audience, req.key.scope, k)
<1>1. req' = [req EXCEPT !.phase = "send", !.cached = k, !.asked = asked]
  BY DEF Refresh
<1>2. asked \in {k.scope, req.key.scope}
  BY DEF ScopeToRequest
<1>3. req.key \in Keys
  BY DEF LookupInv, Typed
<1>4. asked \in SUBSET Words
  BY <1>2, <1>3 DEF Words
<1>5. k.audience # "none"
  BY KeysAssumption
<1>6. req.key.audience = IF req.audience = "none" THEN "default" ELSE req.audience
  BY DEF LookupInv, Named
<1>7. (k.audience = req.key.audience /\ req.key.scope \subseteq k.scope)
      \/ (UseMrrt /\ asked = req.key.scope)
  BY <1>5, <1>6 DEF ScopeToRequest
<1> HIDE DEF asked
<1>8. /\ req'.phase = "send" /\ req'.key = req.key /\ req'.cached = k /\ req'.asked = asked
      /\ req'.audience = req.audience
      /\ req' \in [phase : Phases, audience : Audiences \cup {"none"}, key : Keys, cached : Keys,
                   gets : Nat, asked : SUBSET Words, answer : Entry, silent : BOOLEAN]
  BY <1>1, <1>4 DEF LookupInv, Typed, Phases
<1> QED
  BY <1>6, <1>7, <1>8 DEF Typed, Named, Asked, Own

\* An expired entry.
LEMMA StripFits == ASSUME LookupInv, NEW k \in Keys, Strip(k) PROVE Rest'
<1>1. /\ req.phase = "lookup" /\ Refresh(k) /\ ~entries[k].fresh
      /\ entries' = [entries EXCEPT ![k].granted = {}]
      /\ k.audience = req.key.audience /\ req.key.scope \subseteq k.scope
  BY DEF Strip, Resolved, MatchExistingCacheKey
<1>2. entries \in [Keys -> Entry]
  BY DEF LookupInv, Typed
<1>3. [entries[k] EXCEPT !.granted = {}] \in Entry
  BY <1>2 DEF Entry
<1>4. entries' \in [Keys -> Entry]
  BY <1>1, <1>2, <1>3
<1>5. Typed' /\ Named' /\ Asked' /\ req'.phase = "send" /\ req'.key = req.key
  BY <1>1, <1>4, RefreshAsks
<1>6. ASSUME NEW j \in Keys PROVE Fits(j.scope, entries'[j])
  <2>1. CASE j = k
    <3>1. ~entries'[k].fresh
      BY <1>1, <1>2 DEF Entry
    <3> QED
      BY <2>1, <3>1 DEF Fits, Covers
  <2>2. CASE j # k
    BY <1>1, <1>2, <2>2 DEF LookupInv, EntriesFit
  <2> QED
    BY <2>1, <2>2
<1>7. Answered' /\ EntriesFit'
  BY <1>5, <1>6 DEF Answered, EntriesFit
<1> QED
  BY <1>5, <1>7 DEF Rest

\* A borrowed refresh token.
LEMMA BorrowFits == ASSUME LookupInv, NEW k \in Keys, Borrow(k) PROVE Rest'
<1>1. req.phase = "lookup" /\ Refresh(k) /\ UseMrrt /\ entries' = entries
  BY DEF Borrow, Missed
<1>2. Typed' /\ Named' /\ Asked' /\ req'.phase = "send" /\ req'.key = req.key
  BY <1>1, RefreshAsks DEF LookupInv, Typed
<1>3. Answered' /\ EntriesFit'
  BY <1>1, <1>2 DEF LookupInv, Answered, EntriesFit
<1> QED
  BY <1>2, <1>3 DEF Rest

\* An entry expires.
LEMMA ExpireFits == ASSUME LookupInv, NEW k \in Keys, Expire(k) PROVE Rest'
<1>1. req' = req /\ req.phase = "none" /\ entries' = [entries EXCEPT ![k].fresh = FALSE]
  BY DEF Expire
<1>2. entries \in [Keys -> Entry]
  BY DEF LookupInv, Typed
<1>3. [entries[k] EXCEPT !.fresh = FALSE] \in Entry
  BY <1>2 DEF Entry
<1>4. Typed'
  BY <1>1, <1>2, <1>3 DEF LookupInv, Typed
<1>5. ASSUME NEW j \in Keys PROVE Fits(j.scope, entries'[j])
  <2>1. CASE j = k
    <3>1. ~entries'[k].fresh
      BY <1>1, <1>2 DEF Entry
    <3> QED
      BY <2>1, <3>1 DEF Fits, Covers
  <2>2. CASE j # k
    BY <1>1, <1>2, <2>2 DEF LookupInv, EntriesFit
  <2> QED
    BY <2>1, <2>2
<1>6. Named' /\ Asked' /\ Answered' /\ EntriesFit'
  BY <1>1, <1>5 DEF LookupInv, Named, Asked, Answered, EntriesFit
<1> QED
  BY <1>4, <1>6 DEF Rest

\* A request that ends without an answer.
LEMMA EndFits ==
  ASSUME LookupInv, req.phase \notin {"check", "remove"}, req' = NoRequest, entries' = entries
  PROVE  Rest'
<1>1. entries' \in [Keys -> Entry] /\ \A k \in Keys : Fits(k.scope, entries'[k])
  BY DEF LookupInv, Typed, EntriesFit
<1> QED
  BY <1>1, NoneUnderWay DEF Rest

\* An entry without refresh token is dropped, and the request looked up again.
LEMMA DropFits == ASSUME LookupInv, ~Fallback, NEW p \in Procs, NEW k \in Keys, Drop(p, k) PROVE Rest'
<1>1. req.phase = "lookup" /\ entries' = entries
  BY DEF Drop
<1>2. CASE req.gets < 3
  <2>1. req' = [req EXCEPT !.gets = @ + 1]
    BY <1>2 DEF Drop
  <2>2. req'.phase = "lookup" /\ req'.key = req.key /\ req'.audience = req.audience
    BY <1>1, <2>1 DEF LookupInv, Typed
  <2>3. Typed'
    BY <1>1, <2>1 DEF LookupInv, Typed
  <2>4. Named' /\ Asked' /\ Answered' /\ EntriesFit'
    BY <1>1, <2>2 DEF LookupInv, Named, Asked, Answered, EntriesFit
  <2> QED
    BY <2>3, <2>4 DEF Rest
<1>3. CASE ~(req.gets < 3)
  <2>1. req' = NoRequest
    BY <1>3 DEF Drop, GiveUp
  <2> QED
    BY <1>1, <2>1, EndFits
<1> QED
  BY <1>2, <1>3

\* The answer to an exchange is borrowed if the refresh token is not its own.
LEMMA AnswerFits ==
  ASSUME LookupInv, NEW granted \in SUBSET (req.key.scope \cup req.asked), NEW rt \in BOOLEAN,
         Answer(granted, rt)
  PROVE  Rest'
<1> DEFINE exchange == req.phase = "send"
           answer == [granted |-> granted, refresh_token |-> rt, fresh |-> TRUE, borrowed |-> exchange /\ ~Own]
<1>1. /\ req.phase \in {"authorize", "iframe", "send"} /\ entries' = entries
      /\ req' = [req EXCEPT !.phase = "saveId", !.silent = exchange, !.answer = answer]
  BY DEF Answer, Own
<1>2. req \in [phase : Phases, audience : Audiences \cup {"none"}, key : Keys, cached : Keys,
               gets : Nat, asked : SUBSET Words, answer : Entry, silent : BOOLEAN]
  BY DEF LookupInv, Typed
<1>3. req.key.scope \subseteq Words /\ req.asked \subseteq Words
  BY <1>2 DEF Words
<1>4. exchange \in BOOLEAN /\ (exchange /\ ~Own) \in BOOLEAN
  OBVIOUS
<1>5. answer \in Entry /\ answer.borrowed = (exchange /\ ~Own)
  BY <1>3, <1>4 DEF Entry
<1> HIDE DEF answer
<1>6. /\ Typed' /\ req'.phase = "saveId" /\ req'.silent = exchange /\ req'.answer = answer
      /\ req'.key = req.key /\ req'.audience = req.audience /\ req'.cached = req.cached
      /\ req'.asked = req.asked
  BY <1>1, <1>2, <1>4, <1>5 DEF LookupInv, Typed, Phases
<1>7. Own' <=> Own
  BY <1>6 DEF Own
<1>8. Asked'
  BY <1>5, <1>6, <1>7 DEF LookupInv, Asked
<1>9. Named' /\ Answered' /\ EntriesFit'
  BY <1>1, <1>6 DEF LookupInv, Named, Answered, EntriesFit
<1> QED
  BY <1>6, <1>8, <1>9 DEF Rest

\* A request goes on to another phase and keeps what it has.
LEMMA GoesOn ==
  ASSUME LookupInv, NEW phase \in Phases, Goto(phase)
  PROVE  /\ req'.phase = phase /\ req'.key = req.key /\ req'.audience = req.audience
         /\ req'.cached = req.cached /\ req'.asked = req.asked /\ req'.answer = req.answer
         /\ req'.silent = req.silent
         /\ (Own' <=> Own)
         /\ req' \in [phase : Phases, audience : Audiences \cup {"none"}, key : Keys, cached : Keys,
                      gets : Nat, asked : SUBSET Words, answer : Entry, silent : BOOLEAN]
<1>1. /\ req'.phase = phase /\ req'.key = req.key /\ req'.audience = req.audience
      /\ req'.cached = req.cached /\ req'.asked = req.asked /\ req'.answer = req.answer
      /\ req'.silent = req.silent
      /\ req' \in [phase : Phases, audience : Audiences \cup {"none"}, key : Keys, cached : Keys,
                   gets : Nat, asked : SUBSET Words, answer : Entry, silent : BOOLEAN]
  BY DEF Goto, LookupInv, Typed
<1> QED
  BY <1>1 DEF Own

\* The ID token is saved first.
LEMMA SaveIdTokenFits == ASSUME LookupInv, NEW p \in Procs, SaveIdToken(p) PROVE Rest'
<1>1. req.phase = "saveId" /\ Goto("saveEntry") /\ entries' = entries /\ "saveEntry" \in Phases
  BY DEF SaveIdToken, Phases
<1>2. /\ req'.phase = "saveEntry" /\ req'.key = req.key /\ req'.audience = req.audience
      /\ req'.asked = req.asked /\ req'.answer = req.answer /\ req'.silent = req.silent
      /\ (Own' <=> Own)
  BY <1>1, GoesOn
<1>3. Typed'
  BY <1>1, GoesOn DEF LookupInv, Typed
<1>4. Named' /\ Asked' /\ Answered' /\ EntriesFit'
  BY <1>1, <1>2 DEF LookupInv, Named, Asked, Answered, EntriesFit
<1> QED
  BY <1>3, <1>4 DEF Rest

\* Then the entry, which is checked next.
LEMMA SaveEntryFits == ASSUME LookupInv, NEW p \in Procs, SaveEntry(p) PROVE Rest'
<1>1. /\ req.phase = "saveEntry" /\ Goto("check") /\ "check" \in Phases
      /\ entries' = [entries EXCEPT ![req.key] = req.answer]
  BY DEF SaveEntry, Phases
<1>2. /\ req'.phase = "check" /\ req'.key = req.key /\ req'.audience = req.audience
      /\ req'.asked = req.asked /\ req'.answer = req.answer /\ req'.silent = req.silent
      /\ (Own' <=> Own)
  BY <1>1, GoesOn
<1>3. req.key \in Keys /\ req.answer \in Entry /\ entries \in [Keys -> Entry]
  BY DEF LookupInv, Typed
<1>4. Typed'
  BY <1>1, <1>3, GoesOn DEF Typed
<1>5. Named' /\ Asked' /\ Answered' /\ EntriesFit'
  BY <1>1, <1>2, <1>3 DEF LookupInv, Named, Asked, Answered, EntriesFit
<1> QED
  BY <1>4, <1>5 DEF Rest

\* The check passes only what lacks nothing.
LEMMA CheckFits == ASSUME LookupInv, ~Fallback, Check PROVE Rest'
<1> DEFINE lacks == /\ UseMrrt /\ req.silent
                    /\ IsRefreshWithMrrt(req.audience, req.key.scope, req.cached)
                    /\ MissingScopes(req.asked, req.answer.granted) # {}
<1>1. req.phase = "check" /\ entries' = entries /\ Goto(IF ~lacks THEN "served" ELSE "remove")
  BY DEF Check
<1>2. (IF ~lacks THEN "served" ELSE "remove") \in Phases
  BY DEF Phases
<1>3. /\ req'.phase = (IF ~lacks THEN "served" ELSE "remove")
      /\ req'.key = req.key /\ req'.audience = req.audience /\ req'.answer = req.answer
  BY <1>1, <1>2, GoesOn
<1>4. Typed'
  BY <1>1, <1>2, GoesOn DEF LookupInv, Typed
<1>5. ASSUME req.answer.borrowed PROVE IsRefreshWithMrrt(req.audience, req.key.scope, req.cached)
  <2>1. ~Own
    BY <1>1, <1>5 DEF LookupInv, Asked
  <2>2. req.cached.audience # "none"
    BY KeysAssumption DEF LookupInv, Typed
  <2>3. req.key.audience = IF req.audience = "none" THEN "default" ELSE req.audience
    BY <1>1 DEF LookupInv, Named
  <2> QED
    BY <2>1, <2>2, <2>3 DEF Own, IsRefreshWithMrrt
<1>6. ~lacks => Covers(req.key.scope, req.answer)
  <2> SUFFICES ASSUME ~lacks, req.answer.borrowed
               PROVE  req.key.scope \ {"online_access"} \subseteq req.answer.granted
    BY DEF Covers
  <2>1. UseMrrt /\ req.silent /\ req.asked = req.key.scope
    BY <1>1 DEF LookupInv, Asked
  <2>2. MissingScopes(req.key.scope, req.answer.granted) = {}
    BY <1>5, <2>1
  <2> QED
    BY <2>2 DEF MissingScopes
<1> HIDE DEF lacks
<1>7. Named' /\ Asked' /\ Answered'
  BY <1>1, <1>3, <1>6 DEF LookupInv, Named, Asked, Answered
<1>8. ASSUME NEW k \in Keys
      PROVE  Fits(k.scope, entries'[k]) \/ (k = req'.key /\ req'.phase \in {"check", "remove"})
  <2>1. CASE k = req.key
    <3>1. entries[k] \in {req.answer, NoEntry}
      BY <1>1, <2>1 DEF LookupInv, Answered
    <3>2. ~lacks => Fits(k.scope, entries[k])
      BY <1>6, <2>1, <3>1, EmptyTyped DEF Fits, Covers
    <3> QED
      BY <1>1, <1>3, <2>1, <3>2
  <2>2. CASE k # req.key
    BY <1>1, <2>2 DEF LookupInv, EntriesFit
  <2> QED
    BY <2>1, <2>2
<1>9. EntriesFit'
  BY <1>8 DEF EntriesFit
<1> QED
  BY <1>4, <1>7, <1>9 DEF Rest

\* Entries that go with their keys.
LEMMA FollowsTyped ==
  ASSUME LookupInv, Follows
  PROVE  /\ entries' \in [Keys -> Entry]
         /\ \A k \in Keys : entries'[k] \in {entries[k], NoEntry} /\ (k \notin stored' => entries'[k] = NoEntry)
BY EmptyTyped DEF LookupInv, Typed, Follows

\* A narrow token is removed.
LEMMA RemoveNarrowFits == ASSUME LookupInv, NEW p \in Procs, RemoveNarrow(p) PROVE Rest'
<1>1. req.phase = "remove" /\ Follows /\ req' = NoRequest /\ stored' = stored \ {req.key}
  BY DEF RemoveNarrow, Remove
<1>2. \A k \in Keys : Fits(k.scope, entries'[k])
  BY <1>1, FollowsTyped, EmptyTyped DEF LookupInv, EntriesFit
<1> QED
  BY <1>1, <1>2, FollowsTyped, NoneUnderWay DEF Rest

\* The manifest is read and written.
LEMMA ManifestStepFits == ASSUME LookupInv, NEW p \in Procs, ManifestStep(p) PROVE Rest'
<1>1. Follows /\ req' = req
  BY DEF ManifestStep
<1>2. Typed' /\ Named' /\ Asked'
  BY <1>1, FollowsTyped DEF LookupInv, Typed, Named, Asked, Own
<1>3. req.key \in Keys
  BY DEF LookupInv, Typed
<1>4. Answered'
  BY <1>1, <1>3, FollowsTyped DEF LookupInv, Answered
<1>5. EntriesFit'
  BY <1>1, FollowsTyped, EmptyTyped DEF LookupInv, EntriesFit
<1> QED
  BY <1>2, <1>4, <1>5 DEF Rest

\* Steps that leave entries and request alone.
LEMMA SameFits == ASSUME LookupInv, entries' = entries, req' = req PROVE Rest'
BY DEF LookupInv, Rest, Typed, Named, Asked, Own, Answered, EntriesFit

\* The invariant is inductive.
LEMMA LookupNextInv == ASSUME LookupInv, ~Fallback, [LookupNext]_lookupVars PROVE LookupInv'
<1>1. Serial
  BY LookupAssumption
<1>2. CASE UNCHANGED lookupVars
  <2>1. Inv'
    <3>1. [Next]_vars
      BY <1>2 DEF lookupVars
    <3> QED
      BY <1>1, <3>1, NextInv DEF LookupInv
  <2>2. Rest'
    BY <1>2, SameFits DEF lookupVars
  <2> QED
    BY <2>1, <2>2 DEF LookupInv, Rest
<1>3. CASE LookupNext
  <2>1. Inv'
    <3>1. req.key \in Keys
      BY DEF LookupInv, Typed
    <3> QED
      BY <1>1, <1>3, <3>1, StepsOfManifest, NextInv DEF LookupInv
  <2>2. ASSUME NEW a \in Audiences, NEW s \in MethodScopes, Login(a, s) \/ GetToken(a, s) PROVE Rest'
    BY <2>2, RequestFits DEF Login, GetToken
  <2>3. ASSUME NEW k \in Keys, Hit(k) \/ Strip(k) \/ Borrow(k) \/ Expire(k) PROVE Rest'
    BY <2>3, HitFits, StripFits, BorrowFits, ExpireFits
  <2>4. ASSUME NothingFound \/ AnswerFails \/ Return PROVE Rest'
    BY <2>4, EndFits DEF NothingFound, Missed, GiveUp, AnswerFails, Return
  <2>5. ASSUME Check PROVE Rest'
    BY <2>5, CheckFits
  <2>6. ASSUME NEW granted \in SUBSET (req.key.scope \cup req.asked), NEW rt \in BOOLEAN, Answer(granted, rt)
        PROVE  Rest'
    BY <2>6, AnswerFits
  <2>7. ASSUME NEW p \in Procs, NEW k \in Keys, Drop(p, k) PROVE Rest'
    BY <2>7, DropFits
  <2>8. ASSUME NEW p \in Procs, SaveIdToken(p) \/ SaveEntry(p) \/ RemoveNarrow(p) \/ ManifestStep(p) PROVE Rest'
    BY <2>8, SaveIdTokenFits, SaveEntryFits, RemoveNarrowFits, ManifestStepFits
  <2>9. ASSUME NEW p \in Procs, ClearAll(p) PROVE Rest'
    BY <2>9, SameFits DEF ClearAll
  <2>10. ASSUME NEW p \in Procs, SessionRefused(p) PROVE Rest'
    BY <2>10, EndFits DEF SessionRefused
  <2>11. Rest'
    BY <1>3, <2>2, <2>3, <2>4, <2>5, <2>6, <2>7, <2>8, <2>9, <2>10 DEF LookupNext
  <2> QED
    BY <2>1, <2>11 DEF LookupInv, Rest
<1> QED
  BY <1>2, <1>3

\* Initially nothing is stored.
LEMMA LookupInitInv == LookupInit => LookupInv
<1> SUFFICES ASSUME LookupInit PROVE LookupInv
  OBVIOUS
<1>1. Inv
  BY InitInv DEF LookupInit
<1>2. req = NoRequest /\ entries = [k \in Keys |-> NoEntry]
  BY DEF LookupInit
<1>3. req.phase = "none"
  BY <1>2 DEF NoRequest
<1>4. Typed
  BY <1>2, EmptyTyped DEF Typed
<1>5. Named /\ Asked /\ Answered /\ EntriesFit
  BY <1>2, <1>3, EmptyTyped DEF Named, Asked, Answered, EntriesFit
<1> QED
  BY <1>1, <1>4, <1>5 DEF LookupInv

\* Without the iframe fallback, a token got with a borrowed refresh token has
\* every scope of the request it is returned for (Auth0Client.ts 1657-1690).
THEOREM BorrowedTokensFit == ASSUME ~Fallback PROVE LookupSpec => []ScopesHonoured
<1>1. LookupInv /\ [LookupNext]_lookupVars => LookupInv'
  BY LookupNextInv
<1>2. LookupInv => ScopesHonoured
  <2> SUFFICES ASSUME LookupInv, req.phase = "served", req.answer.borrowed
               PROVE  req.key.scope \ {"online_access"} \subseteq req.answer.granted
    BY DEF ScopesHonoured
  <2> QED
    BY DEF LookupInv, Answered, Covers
<1> QED
  BY <1>1, <1>2, LookupInitInv, PTL DEF LookupSpec

-----------------------------------------------------------------------------
(* What a client sees of the manifest *)

\* A request is for a key of the cache, with the iframe fallback too.
Keyed == DOMAIN req = DOMAIN NoRequest /\ req.key \in Keys

\* No step of a request changes its key for one outside the cache.
LEMMA KeyedStep == ASSUME Keyed, LookupNext PROVE Keyed'
<1>1. DOMAIN NoRequest = {"phase", "audience", "key", "cached", "gets", "asked", "answer", "silent"}
      /\ NoRequest.key \in Keys
  BY EmptyTyped DEF NoRequest
<1>2. ASSUME NEW x, Goto(x) PROVE Keyed'
  BY <1>1, <1>2 DEF Goto, Keyed
<1>3. ASSUME req' = NoRequest PROVE Keyed'
  BY <1>1, <1>3 DEF Keyed
<1>4. ASSUME NEW a \in Audiences, NEW s \in MethodScopes, Login(a, s) \/ GetToken(a, s) PROVE Keyed'
  <2> DEFINE k == CacheKey(a, ScopesToRequest(s, a))
  <2>1. k \in Keys
    BY RequestKeyTyped
  <2>2. PICK x : req' = [NoRequest EXCEPT !.phase = x, !.audience = a, !.key = k]
    BY <1>4 DEF Login, GetToken, Request
  <2> HIDE DEF k
  <2>3. req' = [phase |-> x, audience |-> a, key |-> k, cached |-> IdKey,
                gets |-> 1, asked |-> {}, answer |-> NoEntry, silent |-> FALSE]
    BY <2>2 DEF NoRequest
  <2> QED
    BY <1>1, <2>1, <2>3 DEF Keyed
<1>5. ASSUME NEW k \in Keys, Hit(k) PROVE Keyed'
  BY <1>1, <1>5 DEF Hit, Keyed
<1>6. ASSUME NEW k \in Keys, Strip(k) \/ Borrow(k) PROVE Keyed'
  BY <1>1, <1>6 DEF Strip, Borrow, Refresh, Keyed
<1>7. ASSUME NEW p \in Procs, NEW k \in Keys, Drop(p, k) PROVE Keyed'
  <2>1. CASE req' = [req EXCEPT !.gets = @ + 1]
    BY <1>1, <2>1 DEF Keyed
  <2> QED
    BY <1>2, <1>3, <1>7, <2>1 DEF Drop, GiveUp
<1>8. ASSUME NothingFound \/ Check \/ Return PROVE Keyed'
  BY <1>2, <1>3, <1>8 DEF NothingFound, GiveUp, Check, Return
<1>9. ASSUME AnswerFails PROVE Keyed'
  <2>1. CASE req' = [req EXCEPT !.phase = "iframe"]
    BY <1>2, <2>1 DEF Goto
  <2> QED
    BY <1>3, <1>9, <2>1 DEF AnswerFails
<1>10. ASSUME NEW granted, NEW rt, Answer(granted, rt) PROVE Keyed'
  <2>1. PICK e, x : req' = [req EXCEPT !.phase = "saveId", !.silent = x, !.answer = e]
    BY <1>10 DEF Answer
  <2> QED
    BY <1>1, <2>1 DEF Keyed
<1>11. ASSUME NEW p \in Procs, SaveIdToken(p) \/ SaveEntry(p) \/ RemoveNarrow(p) \/ SessionRefused(p)
       PROVE  Keyed'
  BY <1>2, <1>3, <1>11 DEF SaveIdToken, SaveEntry, RemoveNarrow, SessionRefused
<1>12. ASSUME UNCHANGED req PROVE Keyed'
  BY <1>12 DEF Keyed
<1> QED
  BY <1>4, <1>5, <1>6, <1>7, <1>8, <1>9, <1>10, <1>11, <1>12 DEF LookupNext, Expire, ManifestStep, ClearAll

\* CacheLookup implements KeyManifest, with and without the iframe fallback:
\* logins, requests, refreshes, removals and clears use the cache only through
\* the operations of CacheManager, one at a time (cache-manager.ts 70-212).
THEOREM LookupImplementsManifest == LookupSpec => Spec
<1>1. LookupInit => Init /\ Keyed
  BY EmptyTyped DEF LookupInit, Keyed, NoRequest
<1>2. Keyed /\ [LookupNext]_lookupVars => Keyed'
  BY KeyedStep DEF Keyed, lookupVars
<1>3. Keyed /\ [LookupNext]_lookupVars => [Next]_vars
  BY StepsOfManifest DEF Keyed, lookupVars
<1> QED
  BY <1>1, <1>2, <1>3, PTL DEF LookupSpec, Spec

\* So through all lookups, refreshes and removals the manifest lists every stored
\* key between two operations,
THEOREM LookupListed == LookupSpec => []Listed
<1>1. Serial
  BY LookupAssumption
<1> QED
  BY <1>1, LookupImplementsManifest, NothingUnlisted, PTL

\* and the clear of a logout, or of a session the server refuses, leaves no entry
\* behind, whatever requests came before it.
THEOREM LookupClears == LookupSpec => ClearEmpties
<1>1. Serial
  BY LookupAssumption
<1> QED
  BY <1>1, LookupImplementsManifest, ClearComplete, PTL
=============================================================================
