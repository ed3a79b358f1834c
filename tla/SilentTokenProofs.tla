------------------------- MODULE SilentTokenProofs -------------------------
(***************************************************************************)
(* For every number of tabs, calls, keys and concurrent operations: type   *)
(* correctness, at most one refresh per audience, fresh answers without    *)
(* the cache and the online token kept, whatever interleaves; and in one   *)
(* page tokens that fit their request, no refresh token sent twice or kept *)
(* once it is spent, and one refresh token in the end.                     *)
(***************************************************************************)
EXTENDS SilentToken, FiniteSetTheorems, TLAPS

\* What a process has read: expired entries on the way to being stripped, and
\* the access token it is about to save.
ReadsSound ==
  /\ \A p \in Procs : pc[p] \in {"strip1", "strip2", "strip3"} =>
                        reg[p].entry.exp \in {"due", "expired"}
  /\ \A p \in Procs : pc[p] \in {"answered", "save"} => reg[p].at # 0

Typed == TypeOK /\ ReadsSound

\* A call inside the lock's callback holds the lock of its audience.
LockHeld == \A c \in Calls : pc[c] \in Critical => lock[AudOf[req[c].key]] = c

Steps == {"check1", "strip1", "check2", "strip2", "readRt", "strip3", "save", "rewrite",
          "rewriteSet", "wipe", "revNext"}

Reg == [key : Keys, entry : Entry, todo : SUBSET Keys, old : Nat, new : Nat, at : Nat,
        narrow : BOOLEAN, rts : SUBSET Nat]

Result == [outcome : {"pending", "token", "none", "error"}, at : Nat]

-----------------------------------------------------------------------------
\* The empty register and the empty entry are well formed.
LEMMA NoRegType == NoReg \in Reg /\ EntryOK(NoEntry) /\ NoReg.entry = NoEntry
<1>1. (CHOOSE k \in Keys : TRUE) \in Keys
  BY ConstantsAssumption
<1> QED
  BY <1>1 DEF NoReg, Reg, NoEntry, Entry, EntryOK

\* Stripping an expired entry, or removing it, leaves a well-formed entry.
LEMMA StrippedType ==
  ASSUME NEW e \in Entry, EntryOK(e), e.exp \in {"due", "expired"}
  PROVE  EntryOK(StrippedEntry(e))
BY NoRegType DEF StrippedEntry, EntryOK, Entry, NoEntry

\* The initial state is well typed.
LEMMA InitTyped == Init => Typed
<1> SUFFICES ASSUME Init PROVE Typed
  OBVIOUS
<1> USE ConstantsAssumption, NoRegType
<1>1. IsFiniteSet(LoginKeys)
  BY FS_Subset DEF LoginKeys
<1>2. Cardinality(LoginKeys) \in Nat
  BY <1>1, FS_CardinalityType
<1>3. issued \in Nat /\ spent \subseteq Nat /\ revoked \subseteq Nat
  BY <1>2 DEF Init
<1>4. cache \in [Keys -> Entry] /\ \A k \in Keys : EntryOK(cache[k])
  BY DEF Init, LoginKeys, Entry, NoEntry, EntryOK
<1>5. grants \subseteq Nat \X Keys /\ useMrrt \in MrrtSettings
  BY DEF Init, LoginKeys
<1>6. req \in [Calls -> Request]
  <2>1. (CHOOSE t \in Tabs : TRUE) \in Tabs /\ (CHOOSE m \in Modes : TRUE) \in Modes
    OBVIOUS
  <2>2. NoReg.key \in Keys
    BY DEF Reg
  <2> QED
    BY <2>1, <2>2 DEF Init, Request
<1>7. idToken \in BOOLEAN /\ lock \in [Auds -> Calls \cup {NoCall}] /\ result \in [Calls -> Result]
  BY DEF Init, Result
<1>8. pc \in [Procs -> Waiting \cup Steps] /\ ReadsSound
  BY DEF Init, Waiting, Steps, ReadsSound
<1>9. reg \in [Procs -> Reg] /\ \A p \in Procs : EntryOK(reg[p].entry)
  BY DEF Init
<1> QED
  BY <1>3, <1>4, <1>5, <1>6, <1>7, <1>8, <1>9 DEF Typed, TypeOK, Steps, Reg, Result

-----------------------------------------------------------------------------
(* The invariant by parts, and the operators that change several of them *)

CacheTyped == cache \in [Keys -> Entry] /\ \A k \in Keys : EntryOK(cache[k])

ServerTyped ==
  /\ issued \in Nat /\ spent \subseteq Nat /\ revoked \subseteq Nat
  /\ grants \subseteq Nat \X Keys /\ useMrrt \in MrrtSettings

ControlTyped ==
  /\ pc \in [Procs -> Waiting \cup Steps]
  /\ lock \in [Auds -> Calls \cup {NoCall}]
  /\ result \in [Calls -> Result]

RegTyped == reg \in [Procs -> Reg] /\ \A p \in Procs : EntryOK(reg[p].entry)

\* Typed is the conjunction of its parts, in both states.
LEMMA Parts ==
  /\ Typed <=> /\ CacheTyped /\ ServerTyped /\ ControlTyped /\ RegTyped /\ ReadsSound
               /\ idToken \in BOOLEAN /\ req \in [Calls -> Request]
  /\ Typed' <=> /\ CacheTyped' /\ ServerTyped' /\ ControlTyped' /\ RegTyped' /\ ReadsSound'
                /\ idToken' \in BOOLEAN /\ req' \in [Calls -> Request]
BY DEF Typed, TypeOK, CacheTyped, ServerTyped, ControlTyped, RegTyped, Steps, Reg, Result

\* A jump to a point where nothing read is pending keeps control and registers typed.
LEMMA GotoTyped ==
  ASSUME ControlTyped, ReadsSound, NEW p \in Procs, NEW l \in Waiting \cup Steps, Goto(p, l)
  PROVE  /\ ControlTyped'
         /\ \A q \in Procs : q # p => pc'[q] = pc[q]
         /\ pc'[p] = l
BY DEF ControlTyped, Goto

\* Only the register of p changes, to a well-formed one that suits its new
\* control point.
LEMMA RegStep ==
  ASSUME RegTyped, ReadsSound, NEW p \in Procs, NEW r \in Reg, EntryOK(r.entry),
         reg' = [reg EXCEPT ![p] = r],
         \A q \in Procs : q # p => pc'[q] \in {pc[q], "settled"},
         pc'[p] \in {"strip1", "strip2", "strip3"} => r.entry.exp \in {"due", "expired"},
         pc'[p] \in {"answered", "save"} => r.at # 0
  PROVE  RegTyped' /\ ReadsSound'
<1>1. RegTyped'
  BY DEF RegTyped
<1>2. ReadsSound'
  BY DEF RegTyped, ReadsSound
<1> QED
  BY <1>1, <1>2

\* Settling a call keeps everything typed.
LEMMA SettleTyped ==
  ASSUME ControlTyped, RegTyped, ReadsSound, NEW c \in Calls, NEW at \in Nat,
         NEW outcome \in {"token", "none", "error"}, Settle(c, outcome, at)
  PROVE  ControlTyped' /\ RegTyped' /\ ReadsSound'
<1>1. ControlTyped'
  BY DEF ControlTyped, Settle, Result, Waiting, Procs
<1>2. /\ \A q \in Procs : pc'[q] \in {pc[q], "settled"}
      /\ pc'[c] = "settled"
  BY DEF Settle, Procs
<1>3. reg' = [reg EXCEPT ![c] = NoReg] /\ c \in Procs
  BY DEF Settle, Forget, Procs
<1>4. RegTyped' /\ ReadsSound'
  BY <1>2, <1>3, NoRegType, RegStep
<1> QED
  BY <1>1, <1>4

\* The entries CacheManager can pick for a key, and the keys listed by a loop.
LEMMA CandidateKeys ==
  PresentKeys \subseteq Keys /\ MrrtCandidates \subseteq Keys
  /\ \A k \in Keys : Candidates(k) \subseteq Keys
BY DEF PresentKeys, MrrtCandidates, Candidates

\* A cache miss moves on or settles, and forgets what was read.
LEMMA MissedTyped ==
  ASSUME ControlTyped, RegTyped, ReadsSound, NEW c \in Calls, CheckMissed(c)
  PROVE  ControlTyped' /\ RegTyped' /\ ReadsSound'
<1>1. CASE Settle(c, "none", 0)
  BY <1>1, SettleTyped
<1>2. ASSUME NEW l \in {"readRt", "lockWait"}, Goto(c, l), Forget(c)
      PROVE  ControlTyped' /\ RegTyped' /\ ReadsSound'
  <2>1. c \in Procs /\ l \in Waiting \cup Steps
    BY DEF Procs, Waiting, Steps
  <2>2. ControlTyped' /\ (\A q \in Procs : q # c => pc'[q] = pc[q]) /\ pc'[c] = l
    BY <1>2, <2>1, GotoTyped
  <2>3. RegTyped' /\ ReadsSound'
    BY <1>2, <2>1, <2>2, NoRegType, RegStep DEF Forget
  <2> QED
    BY <2>2, <2>3
<1> QED
  BY <1>1, <1>2 DEF CheckMissed

\* Sending the exchange, or failing for want of a refresh token.
LEMMA SendTyped ==
  ASSUME ControlTyped, RegTyped, ReadsSound, NEW c \in Calls, NEW j \in Keys,
         NEW e \in Entry, SendExchange(c, j, e)
  PROVE  ControlTyped' /\ RegTyped' /\ ReadsSound'
<1>1. CASE Settle(c, "error", 0)
  BY <1>1, SettleTyped
<1>2. CASE /\ reg' = [reg EXCEPT ![c] = [NoReg EXCEPT !.key = j, !.old = e.rt]]
           /\ Goto(c, "sent")
  <2> DEFINE r == [NoReg EXCEPT !.key = j, !.old = e.rt]
  <2>1. c \in Procs /\ "sent" \in Waiting \cup Steps
    BY DEF Procs, Waiting
  <2>2. ControlTyped' /\ (\A q \in Procs : q # c => pc'[q] = pc[q]) /\ pc'[c] = "sent"
    BY <1>2, <2>1, GotoTyped
  <2>3. r \in Reg /\ EntryOK(r.entry)
    BY NoRegType DEF Reg, Entry
  <2>4. RegTyped' /\ ReadsSound'
    <3> HIDE DEF r
    <3>1. reg' = [reg EXCEPT ![c] = r]
      BY <1>2 DEF r
    <3> QED
      BY <2>1, <2>2, <2>3, <3>1, RegStep
  <2> QED
    BY <2>2, <2>4
<1> QED
  BY <1>1, <1>2 DEF SendExchange

\* Listing the keys to wipe.
LEMMA WipeTyped ==
  ASSUME ControlTyped, RegTyped, ReadsSound, NEW p \in Procs, StartWipe(p)
  PROVE  ControlTyped' /\ RegTyped' /\ ReadsSound' /\ idToken' \in BOOLEAN
<1> DEFINE r == [NoReg EXCEPT !.todo = PresentKeys]
<1>1. ControlTyped' /\ (\A q \in Procs : q # p => pc'[q] = pc[q]) /\ pc'[p] = "wipe"
  BY GotoTyped DEF StartWipe, Steps
<1>2. r \in Reg /\ EntryOK(r.entry)
  BY NoRegType, CandidateKeys DEF Reg
<1>3. RegTyped' /\ ReadsSound'
  <2> HIDE DEF r
  <2>1. reg' = [reg EXCEPT ![p] = r]
    BY DEF r, StartWipe
  <2> QED
    BY <1>1, <1>2, <2>1, RegStep
<1> QED
  BY <1>1, <1>3 DEF StartWipe

\* Only fields of p's register change while p jumps to l.
LEMMA GotoRegTyped ==
  ASSUME ControlTyped, RegTyped, ReadsSound, NEW p \in Procs, NEW l \in Waiting \cup Steps,
         NEW r \in Reg, EntryOK(r.entry), Goto(p, l), reg' = [reg EXCEPT ![p] = r],
         l \in {"strip1", "strip2", "strip3"} => r.entry.exp \in {"due", "expired"},
         l \in {"answered", "save"} => r.at # 0
  PROVE  ControlTyped' /\ RegTyped' /\ ReadsSound'
<1>1. ControlTyped' /\ (\A q \in Procs : q # p => pc'[q] = pc[q]) /\ pc'[p] = l
  BY GotoTyped
<1>2. RegTyped' /\ ReadsSound'
  BY <1>1, RegStep
<1> QED
  BY <1>1, <1>2

\* The token endpoint keeps its own state typed.
LEMMA ExchangeTyped ==
  ASSUME ServerTyped, NEW c \in Calls, reg[c] \in Reg, req[c].key \in Keys,
         NEW narrow \in BOOLEAN, Exchange(c, narrow)
  PROVE  ServerTyped'
<1>1. issued' \in Nat /\ revoked' \subseteq Nat
  BY DEF Exchange, ServerTyped
<1>2. reg[c].old \in Nat /\ <<issued + 1, req[c].key>> \in Nat \X Keys
  BY DEF ServerTyped, Reg
<1>3. spent' \subseteq Nat
  <2>1. spent' = spent \/ spent' = spent \cup {reg[c].old}
    BY DEF Exchange
  <2> QED
    BY <1>2, <2>1 DEF ServerTyped
<1>4. grants' \subseteq Nat \X Keys /\ useMrrt' \in MrrtSettings
  BY <1>2 DEF Exchange, ServerTyped
<1> QED
  BY <1>1, <1>3, <1>4 DEF ServerTyped

\* The steps of a call keep the invariant.
LEMMA CallTyped ==
  ASSUME Typed, NEW c \in Calls,
         \/ \E t \in Tabs, k \in Keys, m \in Modes : GetTokenSilently(c, t, k, m)
         \/ CallStep(c)
  PROVE  Typed'
<1> USE ConstantsAssumption
<1>0. /\ CacheTyped /\ ServerTyped /\ ControlTyped /\ RegTyped /\ ReadsSound
      /\ idToken \in BOOLEAN /\ req \in [Calls -> Request]
      /\ c \in Procs /\ req[c].key \in Keys /\ reg[c] \in Reg /\ EntryOK(reg[c].entry)
  BY Parts DEF Procs, Request, RegTyped
<1>c. CacheTyped /\ UNCHANGED cache => CacheTyped'
  BY DEF CacheTyped
<1>s. ServerTyped /\ UNCHANGED server => ServerTyped'
  BY DEF ServerTyped, server
<1>1. ASSUME NEW t \in Tabs, NEW k \in Keys, NEW m \in Modes, GetTokenSilently(c, t, k, m)
      PROVE  Typed'
  <2> DEFINE x == [tab |-> t, key |-> k, mode |-> m, lead |-> c, since |-> issued]
  <2>0. x \in Request
    BY <1>0 DEF Request, ServerTyped
  <2>1. req' \in [Calls -> Request]
    <3>1. CASE req' = [req EXCEPT ![c] = x]
      BY <1>0, <2>0, <3>1
    <3>2. ASSUME NEW d \in Calls,
                 req' = [req EXCEPT ![c] = [x EXCEPT !.lead = d, !.since = req[d].since]]
          PROVE  req' \in [Calls -> Request]
      <4>1. req[d].since \in Nat
        BY <1>0 DEF Request
      <4>2. [x EXCEPT !.lead = d, !.since = req[d].since] \in Request
        BY <2>0, <4>1 DEF Request
      <4> QED
        BY <1>0, <3>2, <4>2
    <3> QED
      BY <1>1, <3>1, <3>2 DEF GetTokenSilently
  <2>2. PICK l \in {"joined", "lockWait", "check1"} : Goto(c, l)
    BY <1>1 DEF GetTokenSilently
  <2>3. ControlTyped' /\ (\A q \in Procs : q # c => pc'[q] = pc[q]) /\ pc'[c] = l
    BY <1>0, <2>2, GotoTyped DEF Waiting, Steps
  <2>4. UNCHANGED <<cache, idToken, server, reg>>
    BY <1>1 DEF GetTokenSilently
  <2>5. RegTyped' /\ ReadsSound'
    BY <1>0, <2>3, <2>4 DEF RegTyped, ReadsSound
  <2> QED
    BY <1>0, <1>c, <1>s, <2>1, <2>3, <2>4, <2>5, Parts
<1>2. CASE CheckCache(c)
  <2>1. UNCHANGED <<cache, idToken, server, req>>
    BY <1>2 DEF CheckCache
  <2>2. CASE CheckMissed(c)
    BY <1>0, <1>c, <1>s, <2>1, <2>2, MissedTyped, Parts
  <2>3. ASSUME NEW j \in Candidates(req[c].key), Expired(cache[j], 60),
               reg' = [reg EXCEPT ![c].key = j, ![c].entry = cache[j]],
               Goto(c, IF pc[c] = "check1" THEN "strip1" ELSE "strip2")
        PROVE  Typed'
    <3> DEFINE r == [reg[c] EXCEPT !.key = j, !.entry = cache[j]]
    <3>1. j \in Keys /\ EntryOK(cache[j]) /\ cache[j] \in Entry
      BY <1>0, CandidateKeys DEF CacheTyped
    <3>2. r \in Reg /\ r.entry = cache[j]
      BY <1>0, <3>1 DEF Reg
    <3>3. reg' = [reg EXCEPT ![c] = r]
      BY <2>3
    <3>4. r.entry.exp \in {"due", "expired"}
      BY <2>3, <3>2 DEF Expired
    <3> HIDE DEF r
    <3>5. ControlTyped' /\ RegTyped' /\ ReadsSound'
      BY <1>0, <2>3, <3>1, <3>2, <3>3, <3>4, GotoRegTyped DEF Waiting, Steps
    <3> QED
      BY <1>0, <1>c, <1>s, <2>1, <3>5, Parts
  <2>4. ASSUME NEW j \in Candidates(req[c].key), Settle(c, "token", cache[j].at)
        PROVE  Typed'
    <3>1. cache[j].at \in Nat
      BY <1>0, CandidateKeys DEF CacheTyped, Entry
    <3> QED
      BY <1>0, <1>c, <1>s, <2>1, <2>4, <3>1, SettleTyped, Parts
  <2> QED
    BY <1>2, <2>2, <2>3, <2>4 DEF CheckCache
<1>3. CASE StripExpired(c)
  <2>1. UNCHANGED <<idToken, server, req>> /\ CheckMissed(c)
    BY <1>3 DEF StripExpired
  <2>2. EntryOK(StrippedEntry(reg[c].entry))
    BY <1>0, <1>3, StrippedType DEF StripExpired, At, ReadsSound, Reg
  <2>3. CacheTyped'
    BY <1>0, <1>3, <2>2 DEF StripExpired, CacheTyped, EntryOK
  <2> QED
    BY <1>0, <1>s, <2>1, <2>3, MissedTyped, Parts
<1>4. CASE EnterLock(c)
  <2>1. UNCHANGED <<cache, idToken, server, req, result, reg>>
    BY <1>4 DEF EnterLock
  <2>2. ControlTyped'
    BY <1>0, <1>4 DEF EnterLock, ControlTyped, Steps
  <2>3. RegTyped' /\ ReadsSound'
    BY <1>0, <1>4 DEF EnterLock, RegTyped, ReadsSound, ControlTyped
  <2> QED
    BY <1>0, <1>c, <1>s, <2>1, <2>2, <2>3, Parts
<1>5. CASE LockTimeout(c)
  BY <1>0, <1>c, <1>s, <1>5, SettleTyped, Parts DEF LockTimeout
<1>6. CASE ReadRefreshToken(c)
  <2>1. UNCHANGED <<cache, idToken, server, req>>
    BY <1>6 DEF ReadRefreshToken
  <2>2. CASE Settle(c, "error", 0)
    BY <1>0, <1>c, <1>s, <2>1, <2>2, SettleTyped, Parts
  <2>3. ASSUME NEW j \in Keys, Expired(cache[j], 0),
               reg' = [reg EXCEPT ![c].key = j, ![c].entry = cache[j]], Goto(c, "strip3")
        PROVE  Typed'
    <3> DEFINE r == [reg[c] EXCEPT !.key = j, !.entry = cache[j]]
    <3>1. EntryOK(cache[j]) /\ cache[j] \in Entry
      BY <1>0 DEF CacheTyped
    <3>2. r \in Reg /\ r.entry = cache[j]
      BY <1>0, <3>1 DEF Reg
    <3>3. reg' = [reg EXCEPT ![c] = r]
      BY <2>3
    <3>4. r.entry.exp \in {"due", "expired"}
      BY <2>3, <3>2 DEF Expired
    <3> HIDE DEF r
    <3>5. ControlTyped' /\ RegTyped' /\ ReadsSound'
      BY <1>0, <2>3, <3>1, <3>2, <3>3, <3>4, GotoRegTyped DEF Steps
    <3> QED
      BY <1>0, <1>c, <1>s, <2>1, <3>5, Parts
  <2>4. ASSUME NEW j \in Keys, SendExchange(c, j, cache[j]) PROVE Typed'
    <3>1. cache[j] \in Entry
      BY <1>0 DEF CacheTyped
    <3> QED
      BY <1>0, <1>c, <1>s, <2>1, <2>4, <3>1, SendTyped, Parts
  <2> QED
    BY <1>0, <1>6, <2>2, <2>3, <2>4, CandidateKeys DEF ReadRefreshToken
<1>7. CASE StripAndSend(c)
  <2>1. UNCHANGED <<idToken, server, req>>
    BY <1>7 DEF StripAndSend
  <2>2. EntryOK(StrippedEntry(reg[c].entry)) /\ reg[c].key \in Keys
    BY <1>0, <1>7, StrippedType DEF StripAndSend, At, ReadsSound, Reg
  <2>3. CacheTyped' /\ StrippedEntry(reg[c].entry) \in Entry
    BY <1>0, <1>7, <2>2 DEF StripAndSend, CacheTyped, EntryOK
  <2> QED
    BY <1>0, <1>7, <1>s, <2>1, <2>2, <2>3, SendTyped, Parts DEF StripAndSend
<1>8. CASE ExchangeSucceeds(c)
  <2>1. UNCHANGED <<cache, idToken, req>> /\ Goto(c, "answered")
    BY <1>8 DEF ExchangeSucceeds
  <2>2. ServerTyped'
    BY <1>0, <1>8, ExchangeTyped DEF ExchangeSucceeds
  <2>3. PICK n \in BOOLEAN :
          reg' = [reg EXCEPT ![c].new = IF OnlineAccess THEN reg[c].old ELSE issued + 1,
                             ![c].narrow = n, ![c].at = issued + 1]
    BY <1>8 DEF ExchangeSucceeds, Matches
  <2> DEFINE r == [reg[c] EXCEPT !.new = IF OnlineAccess THEN reg[c].old ELSE issued + 1,
                                 !.narrow = n, !.at = issued + 1]
  <2>4. r \in Reg /\ r.entry = reg[c].entry /\ r.at # 0
    <3>1. issued + 1 \in Nat /\ issued + 1 # 0 /\ reg[c].old \in Nat
      BY <1>0 DEF Reg, ServerTyped
    <3>2. (IF OnlineAccess THEN reg[c].old ELSE issued + 1) \in Nat
      BY <3>1
    <3> QED
      BY <1>0, <3>1, <3>2 DEF Reg
  <2>5. reg' = [reg EXCEPT ![c] = r]
    BY <2>3
  <2> HIDE DEF r
  <2>6. ControlTyped' /\ RegTyped' /\ ReadsSound'
    BY <1>0, <2>1, <2>4, <2>5, GotoRegTyped DEF Waiting
  <2> QED
    BY <1>0, <1>c, <2>1, <2>2, <2>6, Parts
<1>9. CASE ExchangeFails(c)
  <2>1. UNCHANGED <<cache, idToken, req>> /\ Settle(c, "error", 0)
    BY <1>9 DEF ExchangeFails
  <2>2. ServerTyped'
    BY <1>0, <1>9, <1>s, ExchangeTyped DEF ExchangeFails
  <2> QED
    BY <1>0, <1>c, <2>1, <2>2, SettleTyped, Parts
<1>10. CASE ExchangeBlocked(c)
  BY <1>0, <1>c, <1>s, <1>10, WipeTyped, Parts DEF ExchangeBlocked
<1>11. CASE SaveIdToken(c)
  <2>1. UNCHANGED <<cache, server, req, reg>> /\ idToken' = TRUE /\ Goto(c, "save")
        /\ pc[c] = "answered"
    BY <1>11 DEF SaveIdToken, At
  <2>2. ControlTyped' /\ (\A q \in Procs : q # c => pc'[q] = pc[q]) /\ pc'[c] = "save"
    BY <1>0, <2>1, GotoTyped DEF Steps
  <2>3. RegTyped' /\ ReadsSound'
    BY <1>0, <2>1, <2>2 DEF RegTyped, ReadsSound
  <2> QED
    BY <1>0, <1>c, <1>s, <2>1, <2>2, <2>3, Parts
<1>12. CASE SaveEntry(c)
  <2>1. UNCHANGED <<idToken, server, req>> /\ Goto(c, "rewrite") /\ pc[c] = "save"
    BY <1>12 DEF SaveEntry, At
  <2>2. CacheTyped'
    BY <1>0, <1>12, <2>1 DEF SaveEntry, CacheTyped, EntryOK, Entry, Reg, ReadsSound
  <2> DEFINE r == [reg[c] EXCEPT !.todo = IF OnlineAccess THEN {} ELSE PresentKeys \cup {req[c].key}]
  <2>3. r \in Reg /\ r.entry = reg[c].entry
    BY <1>0, CandidateKeys DEF Reg
  <2>4. reg' = [reg EXCEPT ![c] = r]
    BY <1>12 DEF SaveEntry
  <2> HIDE DEF r
  <2>5. ControlTyped' /\ RegTyped' /\ ReadsSound'
    BY <1>0, <2>1, <2>3, <2>4, GotoRegTyped DEF Steps
  <2> QED
    BY <1>0, <1>s, <2>1, <2>2, <2>5, Parts
<1>13. CASE FinishExchange(c)
  <2>1. UNCHANGED <<idToken, server, req>>
    BY <1>13 DEF FinishExchange
  <2>2. CacheTyped'
    BY <1>0, <1>13, <1>c, NoRegType DEF FinishExchange, CacheTyped, EntryOK
  <2>3. reg[c].at \in Nat
    BY <1>0 DEF Reg
  <2>4. ControlTyped' /\ RegTyped' /\ ReadsSound'
    BY <1>0, <1>13, <2>3, SettleTyped DEF FinishExchange
  <2> QED
    BY <1>0, <1>s, <2>1, <2>2, <2>4, Parts
<1> QED
  BY <1>1, <1>2, <1>3, <1>4, <1>5, <1>6, <1>7, <1>8, <1>9, <1>10, <1>11, <1>12, <1>13 DEF CallStep

\* The storage loops keep the invariant.
LEMMA LoopTyped ==
  ASSUME Typed, NEW p \in Procs, LoopStep(p)
  PROVE  Typed'
<1> USE ConstantsAssumption
<1>0. /\ CacheTyped /\ ServerTyped /\ ControlTyped /\ RegTyped /\ ReadsSound
      /\ idToken \in BOOLEAN /\ req \in [Calls -> Request]
      /\ reg[p] \in Reg /\ EntryOK(reg[p].entry)
  BY Parts DEF RegTyped
<1>c. CacheTyped /\ UNCHANGED cache => CacheTyped'
  BY DEF CacheTyped
<1>s. ServerTyped /\ UNCHANGED server => ServerTyped'
  BY DEF ServerTyped, server
<1>1. CASE RewriteRead(p)
  <2>1. UNCHANGED <<cache, idToken, server, req>> /\ pc[p] = "rewrite"
    BY <1>1 DEF RewriteRead, At
  <2>2. ASSUME NEW k \in reg[p].todo, Rewrites(p, cache[k].rt), Goto(p, "rewriteSet"),
               reg' = [reg EXCEPT ![p].todo = reg[p].todo \ {k}, ![p].key = k,
                                  ![p].entry = [cache[k] EXCEPT !.rt = reg[p].new]]
        PROVE  Typed'
    <3> DEFINE e == [cache[k] EXCEPT !.rt = reg[p].new]
               r == [reg[p] EXCEPT !.todo = reg[p].todo \ {k}, !.key = k, !.entry = e]
    <3>1. k \in Keys /\ reg[p].new \in Nat
      BY <1>0 DEF Reg
    <3>2. EntryOK(cache[k]) /\ cache[k] \in Entry /\ cache[k].rt # 0
      BY <1>0, <2>2, <3>1 DEF CacheTyped, Rewrites
    <3>3. e \in Entry /\ EntryOK(e)
      BY <3>1, <3>2 DEF EntryOK, Entry, NoEntry
    <3> HIDE DEF e
    <3>4. r \in Reg /\ r.entry = e
      BY <1>0, <3>1, <3>3 DEF Reg
    <3>5. reg' = [reg EXCEPT ![p] = r]
      BY <2>2 DEF e
    <3> HIDE DEF r
    <3>6. ControlTyped' /\ RegTyped' /\ ReadsSound'
      BY <1>0, <2>2, <3>3, <3>4, <3>5, GotoRegTyped DEF Steps
    <3> QED
      BY <1>0, <1>c, <1>s, <2>1, <3>6, Parts
  <2>3. ASSUME NEW k \in reg[p].todo, UNCHANGED <<pc, lock, result>>,
               reg' = [reg EXCEPT ![p].todo = reg[p].todo \ {k}]
        PROVE  Typed'
    <3> DEFINE r == [reg[p] EXCEPT !.todo = reg[p].todo \ {k}]
    <3>1. r \in Reg /\ r.entry = reg[p].entry
      BY <1>0 DEF Reg
    <3>2. reg' = [reg EXCEPT ![p] = r]
      BY <2>3
    <3> HIDE DEF r
    <3>3. RegTyped' /\ ReadsSound'
      BY <1>0, <2>1, <2>3, <3>1, <3>2, RegStep
    <3>4. ControlTyped'
      BY <1>0, <2>3 DEF ControlTyped
    <3> QED
      BY <1>0, <1>c, <1>s, <2>1, <3>3, <3>4, Parts
  <2> QED
    BY <1>1, <2>2, <2>3 DEF RewriteRead
<1>2. CASE RewriteSet(p)
  <2>1. UNCHANGED <<idToken, server, req>> /\ Goto(p, "rewrite")
    BY <1>2 DEF RewriteSet
  <2>2. CacheTyped'
    BY <1>0, <1>2 DEF RewriteSet, CacheTyped, Reg
  <2> DEFINE r == [reg[p] EXCEPT !.key = NoReg.key, !.entry = NoEntry]
  <2>3. r \in Reg /\ r.entry = NoEntry
    BY <1>0, NoRegType DEF Reg
  <2>4. reg' = [reg EXCEPT ![p] = r]
    BY <1>2 DEF RewriteSet
  <2> HIDE DEF r
  <2>5. ControlTyped' /\ RegTyped' /\ ReadsSound'
    BY <1>0, <2>1, <2>3, <2>4, NoRegType, GotoRegTyped DEF Steps
  <2> QED
    BY <1>0, <1>s, <2>1, <2>2, <2>5, Parts
<1>3. CASE WipeKey(p)
  <2>1. UNCHANGED <<idToken, lock, server, pc, req, result>> /\ pc[p] = "wipe"
    BY <1>3 DEF WipeKey, At
  <2>2. PICK k \in reg[p].todo : /\ cache' = [cache EXCEPT ![k] = NoEntry]
                                 /\ reg' = [reg EXCEPT ![p].todo = reg[p].todo \ {k}]
    BY <1>3 DEF WipeKey
  <2>3. CacheTyped'
    BY <1>0, <2>2, NoRegType DEF CacheTyped, EntryOK
  <2> DEFINE r == [reg[p] EXCEPT !.todo = reg[p].todo \ {k}]
  <2>4. r \in Reg /\ r.entry = reg[p].entry
    BY <1>0 DEF Reg
  <2>5. reg' = [reg EXCEPT ![p] = r]
    BY <2>2
  <2> HIDE DEF r
  <2>6. RegTyped' /\ ReadsSound'
    BY <1>0, <2>1, <2>4, <2>5, RegStep
  <2>7. ControlTyped'
    BY <1>0, <2>1 DEF ControlTyped
  <2> QED
    BY <1>0, <1>s, <2>1, <2>3, <2>6, <2>7, Parts
<1>4. CASE WipeDone(p)
  <2>1. UNCHANGED <<cache, idToken, server, req>>
    BY <1>4 DEF WipeDone
  <2>2. CASE p \in Calls
    BY <1>0, <1>4, <1>c, <1>s, <2>1, <2>2, SettleTyped, Parts DEF WipeDone
  <2>3. CASE p \notin Calls
    <3>1. Goto(p, "settled") /\ reg' = [reg EXCEPT ![p] = NoReg]
      BY <1>4, <2>3 DEF WipeDone, Forget
    <3>2. ControlTyped' /\ RegTyped' /\ ReadsSound'
      BY <1>0, <3>1, NoRegType, GotoRegTyped DEF Waiting
    <3> QED
      BY <1>0, <1>c, <1>s, <2>1, <3>2, Parts
  <2> QED
    BY <2>2, <2>3
<1> QED
  BY <1>1, <1>2, <1>3, <1>4 DEF LoopStep

\* logout and revokeRefreshToken keep the invariant.
LEMMA OpTyped ==
  ASSUME Typed, NEW o \in Ops,
         Logout(o) \/ (\E a \in Auds : RevokeRefreshToken(o, a)) \/ OpStep(o)
  PROVE  Typed'
<1> USE ConstantsAssumption
<1>0. /\ CacheTyped /\ ServerTyped /\ ControlTyped /\ RegTyped /\ ReadsSound
      /\ idToken \in BOOLEAN /\ req \in [Calls -> Request]
      /\ o \in Procs /\ reg[o] \in Reg /\ EntryOK(reg[o].entry)
  BY Parts DEF RegTyped, Procs
<1>c. CacheTyped /\ UNCHANGED cache => CacheTyped'
  BY DEF CacheTyped
<1>s. ServerTyped /\ UNCHANGED server => ServerTyped'
  BY DEF ServerTyped, server
<1>1. CASE Logout(o)
  BY <1>0, <1>c, <1>s, <1>1, WipeTyped, Parts DEF Logout
<1>2. ASSUME NEW a \in Auds, RevokeRefreshToken(o, a) PROVE Typed'
  <2> DEFINE found == {cache[k].rt : k \in {j \in Keys : AudOf[j] = a}} \ {0}
             r == [reg[o] EXCEPT !.rts = found]
  <2>1. found \subseteq Nat
    BY <1>0 DEF CacheTyped, Entry
  <2>2. r \in Reg /\ r.entry = reg[o].entry
    <3> HIDE DEF found
    <3> QED
      BY <1>0, <2>1 DEF Reg
  <2>3. reg' = [reg EXCEPT ![o] = r] /\ Goto(o, "revNext") /\ UNCHANGED <<cache, idToken, server, req>>
    BY <1>2 DEF RevokeRefreshToken
  <2> HIDE DEF r
  <2>4. ControlTyped' /\ RegTyped' /\ ReadsSound'
    BY <1>0, <2>2, <2>3, GotoRegTyped DEF Steps
  <2> QED
    BY <1>0, <1>c, <1>s, <2>3, <2>4, Parts
<1>3. CASE RevokeNext(o)
  <2>1. UNCHANGED <<cache, server, req>>
    BY <1>3 DEF RevokeNext
  <2>2. ASSUME NEW rt \in reg[o].rts, Goto(o, "revSent"), UNCHANGED idToken,
               reg' = [reg EXCEPT ![o].old = rt, ![o].rts = reg[o].rts \ {rt}]
        PROVE  Typed'
    <3> DEFINE r == [reg[o] EXCEPT !.old = rt, !.rts = reg[o].rts \ {rt}]
    <3>1. r \in Reg /\ r.entry = reg[o].entry
      BY <1>0 DEF Reg
    <3>2. reg' = [reg EXCEPT ![o] = r]
      BY <2>2
    <3> HIDE DEF r
    <3>3. ControlTyped' /\ RegTyped' /\ ReadsSound'
      BY <1>0, <2>2, <3>1, <3>2, GotoRegTyped DEF Waiting
    <3> QED
      BY <1>0, <1>c, <1>s, <2>1, <2>2, <3>3, Parts
  <2>3. CASE StartWipe(o)
    BY <1>0, <1>c, <1>s, <2>1, <2>3, WipeTyped, Parts
  <2>4. CASE Goto(o, "settled") /\ Forget(o) /\ UNCHANGED idToken
    <3>1. ControlTyped' /\ RegTyped' /\ ReadsSound'
      BY <1>0, <2>4, NoRegType, GotoRegTyped DEF Waiting, Forget
    <3> QED
      BY <1>0, <1>c, <1>s, <2>1, <2>4, <3>1, Parts
  <2> QED
    BY <1>3, <2>2, <2>3, <2>4 DEF RevokeNext
<1>4. CASE RevokeSucceeds(o)
  <2>1. UNCHANGED <<cache, idToken, issued, spent, grants, useMrrt, req, reg>> /\ Goto(o, "revoked")
        /\ revoked' = revoked \cup {reg[o].old}
    BY <1>4 DEF RevokeSucceeds
  <2>2. ServerTyped'
    BY <1>0, <2>1 DEF ServerTyped, Reg
  <2>3. ControlTyped' /\ (\A q \in Procs : q # o => pc'[q] = pc[q]) /\ pc'[o] = "revoked"
    BY <1>0, <2>1, GotoTyped DEF Waiting
  <2>4. RegTyped' /\ ReadsSound'
    BY <1>0, <2>1, <2>3 DEF RegTyped, ReadsSound
  <2> QED
    BY <1>0, <1>c, <2>1, <2>2, <2>3, <2>4, Parts
<1>5. CASE RevokeFails(o)
  <2>1. UNCHANGED <<cache, idToken, server, req>> /\ Goto(o, "failed") /\ Forget(o)
    BY <1>5 DEF RevokeFails
  <2>2. ControlTyped' /\ RegTyped' /\ ReadsSound'
    BY <1>0, <2>1, NoRegType, GotoRegTyped DEF Waiting, Forget
  <2> QED
    BY <1>0, <1>c, <1>s, <2>1, <2>2, Parts
<1>6. CASE StartStrip(o)
  <2>1. UNCHANGED <<cache, idToken, server, req>> /\ Goto(o, "rewrite")
    BY <1>6 DEF StartStrip
  <2> DEFINE r == [reg[o] EXCEPT !.todo = PresentKeys]
  <2>2. r \in Reg /\ r.entry = reg[o].entry
    BY <1>0, CandidateKeys DEF Reg
  <2>3. reg' = [reg EXCEPT ![o] = r]
    BY <1>6 DEF StartStrip
  <2> HIDE DEF r
  <2>4. ControlTyped' /\ RegTyped' /\ ReadsSound'
    BY <1>0, <2>1, <2>2, <2>3, GotoRegTyped DEF Steps
  <2> QED
    BY <1>0, <1>c, <1>s, <2>1, <2>4, Parts
<1>7. CASE FinishStrip(o)
  <2>1. UNCHANGED <<cache, idToken, server, req, reg>> /\ Goto(o, "revNext")
    BY <1>7 DEF FinishStrip
  <2>2. ControlTyped' /\ (\A q \in Procs : q # o => pc'[q] = pc[q]) /\ pc'[o] = "revNext"
    BY <1>0, <2>1, GotoTyped DEF Steps
  <2>3. RegTyped' /\ ReadsSound'
    BY <1>0, <2>1, <2>2 DEF RegTyped, ReadsSound
  <2> QED
    BY <1>0, <1>c, <1>s, <2>1, <2>2, <2>3, Parts
<1> QED
  BY <1>1, <1>2, <1>3, <1>4, <1>5, <1>6, <1>7 DEF OpStep

\* An invocation is a call for a key and a cacheMode, a logout or a revocation.
LEMMA InvocationKinds ==
  ASSUME Typed, Invocations
  PROVE  \/ \E c \in Calls, t \in Tabs, k \in Keys, m \in Modes : GetTokenSilently(c, t, k, m)
         \/ \E o \in Ops : Logout(o) \/ \E a \in Auds : RevokeRefreshToken(o, a)
<1>1. useMrrt \in MrrtSettings
  BY DEF Typed, TypeOK
<1>2. Load[useMrrt].requests \subseteq Keys \X Modes
  BY <1>1, ConstantsAssumption
<1>3. CASE \E o \in Ops : Logout(o) \/ \E a \in Auds : RevokeRefreshToken(o, a)
  BY <1>3
<1>4. ASSUME NEW c \in Calls, NEW t \in Tabs, NEW r \in Load[useMrrt].requests,
             GetTokenSilently(c, t, r[1], r[2])
      PROVE  \E d \in Calls, u \in Tabs, k \in Keys, m \in Modes : GetTokenSilently(d, u, k, m)
  <2>1. r[1] \in Keys /\ r[2] \in Modes
    BY <1>2
  <2> QED
    BY <1>4, <2>1
<1> QED
  BY <1>3, <1>4 DEF Invocations

\* Every step keeps the invariant.
LEMMA NextTyped == Typed /\ [Next]_vars => Typed'
<1> SUFFICES ASSUME Typed, [Next]_vars PROVE Typed'
  OBVIOUS
<1>1. CASE UNCHANGED vars
  BY <1>1 DEF vars, server, Typed, TypeOK, ReadsSound
<1>2. ASSUME NEW k \in Keys, Expire(k) PROVE Typed'
  <2>1. CacheTyped'
    BY <1>2, Parts DEF Expire, CacheTyped, EntryOK, Entry, NoEntry
  <2>2. UNCHANGED <<idToken, lock, server, pc, req, result, reg>>
    BY <1>2 DEF Expire
  <2>3. ServerTyped' /\ ControlTyped' /\ RegTyped' /\ ReadsSound'
    BY <2>2, Parts DEF server, ServerTyped, ControlTyped, RegTyped, ReadsSound
  <2> QED
    BY <2>1, <2>2, <2>3, Parts
<1>3. ASSUME Invocations PROVE Typed'
  BY <1>3, InvocationKinds, CallTyped, OpTyped
<1> QED
  BY <1>1, <1>2, <1>3, CallTyped, LoopTyped, OpTyped DEF Next

\* SilentToken is type correct.
THEOREM TypeCorrect == Spec => []TypeOK
<1>1. Typed => TypeOK
  BY DEF Typed
<1> QED
  BY <1>1, InitTyped, NextTyped, PTL DEF Spec
-----------------------------------------------------------------------------
(* One refresh per audience *)

\* A jump that takes no call into the critical section keeps its lock held.
LEMMA GotoHeld ==
  ASSUME Typed, LockHeld, NEW p \in Procs, NEW l, Goto(p, l), UNCHANGED req,
         p \in Calls /\ l \in Critical => pc[p] \in Critical
  PROVE  LockHeld'
BY DEF Goto, LockHeld, Typed, TypeOK, Procs

\* A settling call leaves the critical section and frees only its own lock.
LEMMA SettleHeld ==
  ASSUME Typed, LockHeld, NEW c \in Calls, NEW outcome, NEW at,
         Settle(c, outcome, at), UNCHANGED req
  PROVE  LockHeld'
<1> SUFFICES ASSUME NEW d \in Calls, pc'[d] \in Critical
             PROVE  lock'[AudOf[req'[d].key]] = d
  BY DEF LockHeld
<1>1. d # c /\ pc[d] \in Critical
  BY DEF Settle, Procs, Critical
<1>2. AudOf[req[d].key] \in Auds
  BY DEF Typed, TypeOK, Request, Auds
<1>3. lock[AudOf[req[d].key]] = d
  BY <1>1 DEF LockHeld
<1> QED
  BY <1>1, <1>2, <1>3 DEF Settle

\* Every step keeps the locks of the calls in the critical section held.
LEMMA NextHeld == Typed /\ LockHeld /\ [Next]_vars => LockHeld'
<1> SUFFICES ASSUME Typed, LockHeld, [Next]_vars PROVE LockHeld'
  OBVIOUS
<1>c. \A c \in Calls : c \in Procs
  BY DEF Procs
<1>o. \A o \in Ops : o \in Procs /\ o \notin Calls
  BY ConstantsAssumption DEF Procs
<1>1. CASE UNCHANGED vars
  BY <1>1 DEF vars, LockHeld
<1>2. ASSUME NEW k \in Keys, Expire(k) PROVE LockHeld'
  BY <1>2 DEF Expire, LockHeld
<1>3. ASSUME NEW c \in Calls, NEW t \in Tabs, NEW k \in Keys, NEW m \in Modes,
             GetTokenSilently(c, t, k, m)
      PROVE  LockHeld'
  <2>1. PICK l \in {"joined", "lockWait", "check1"} : Goto(c, l)
    BY <1>3 DEF GetTokenSilently
  <2>2. PICK r : req' = [req EXCEPT ![c] = r]
    BY <1>3 DEF GetTokenSilently
  <2>3. \A d \in Calls : d # c => req'[d] = req[d]
    BY <2>2 DEF Typed, TypeOK
  <2> QED
    BY <1>c, <2>1, <2>3 DEF Goto, LockHeld, Typed, TypeOK, Critical
<1>4. ASSUME NEW c \in Calls, CallStep(c) PROVE LockHeld'
  <2>m. ASSUME CheckMissed(c), UNCHANGED req, pc[c] \in {"check1", "strip1", "check2", "strip2"}
        PROVE  LockHeld'
    <3>1. CASE pc[c] \in {"check2", "strip2"}
      BY <1>c, <2>m, <3>1, GotoHeld DEF CheckMissed, Critical
    <3>2. CASE pc[c] \in {"check1", "strip1"}
      BY <1>c, <2>m, <3>2, GotoHeld, SettleHeld DEF CheckMissed, Critical
    <3> QED
      BY <2>m, <3>1, <3>2
  <2>s. ASSUME NEW j, NEW e, SendExchange(c, j, e), UNCHANGED req, pc[c] \in Critical
        PROVE  LockHeld'
    BY <1>c, <2>s, GotoHeld, SettleHeld DEF SendExchange
  <2>1. CASE CheckCache(c)
    <3>1. UNCHANGED req /\ pc[c] \in {"check1", "check2"}
      BY <2>1 DEF CheckCache, At
    <3>2. CASE CheckMissed(c)
      BY <2>m, <3>1, <3>2
    <3>3. CASE Goto(c, IF pc[c] = "check1" THEN "strip1" ELSE "strip2")
      BY <1>c, <3>1, <3>3, GotoHeld DEF Critical
    <3>4. ASSUME NEW at, Settle(c, "token", at) PROVE LockHeld'
      BY <3>1, <3>4, SettleHeld
    <3> QED
      BY <2>1, <3>2, <3>3, <3>4 DEF CheckCache
  <2>2. CASE StripExpired(c)
    BY <2>2, <2>m DEF StripExpired, At
  <2>3. CASE EnterLock(c)
    <3>1. AudOf[req[c].key] \in Auds
      BY DEF Typed, TypeOK, Request, Auds
    <3>2. \A d \in Calls : pc[d] \in Critical => AudOf[req[d].key] # AudOf[req[c].key]
      BY <2>3, ConstantsAssumption DEF EnterLock, LockHeld
    <3>3. /\ lock' = [lock EXCEPT ![AudOf[req[c].key]] = c] /\ UNCHANGED req
          /\ \E l : pc' = [pc EXCEPT ![c] = l]
      BY <2>3 DEF EnterLock
    <3>4. \A d \in Calls : AudOf[req[d].key] \in Auds
      BY DEF Typed, TypeOK, Request, Auds
    <3>5. ASSUME NEW d \in Calls, pc'[d] \in Critical PROVE lock'[AudOf[req'[d].key]] = d
      BY <1>c, <3>1, <3>2, <3>3, <3>4, <3>5 DEF Typed, TypeOK, LockHeld
    <3> QED
      BY <3>5 DEF LockHeld
  <2>4. CASE LockTimeout(c)
    BY <2>4, SettleHeld DEF LockTimeout
  <2>5. CASE ReadRefreshToken(c)
    <3>1. UNCHANGED req /\ pc[c] \in Critical
      BY <2>5 DEF ReadRefreshToken, At, Critical
    <3>2. CASE Settle(c, "error", 0)
      BY <3>1, <3>2, SettleHeld
    <3>3. CASE Goto(c, "strip3")
      BY <1>c, <3>1, <3>3, GotoHeld
    <3>4. ASSUME NEW j, SendExchange(c, j, cache[j]) PROVE LockHeld'
      BY <2>s, <3>1, <3>4
    <3> QED
      BY <2>5, <3>2, <3>3, <3>4 DEF ReadRefreshToken
  <2>6. CASE StripAndSend(c)
    BY <2>6, <2>s DEF StripAndSend, At, Critical
  <2>7. CASE ExchangeSucceeds(c)
    BY <1>c, <2>7, GotoHeld DEF ExchangeSucceeds, Critical
  <2>8. CASE ExchangeFails(c)
    BY <2>8, SettleHeld DEF ExchangeFails
  <2>9. CASE ExchangeBlocked(c)
    BY <1>c, <2>9, GotoHeld DEF ExchangeBlocked, StartWipe, At, Critical
  <2>10. CASE SaveIdToken(c)
    BY <1>c, <2>10, GotoHeld DEF SaveIdToken, At, Critical
  <2>11. CASE SaveEntry(c)
    BY <1>c, <2>11, GotoHeld DEF SaveEntry, At, Critical
  <2>12. CASE FinishExchange(c)
    BY <2>12, SettleHeld DEF FinishExchange
  <2> QED
    BY <1>4, <2>1, <2>2, <2>3, <2>4, <2>5, <2>6, <2>7, <2>8, <2>9, <2>10, <2>11, <2>12
       DEF CallStep
<1>5. ASSUME NEW p \in Procs, LoopStep(p) PROVE LockHeld'
  <2>1. CASE RewriteRead(p)
    <3>1. UNCHANGED req /\ pc[p] \in Critical
      BY <2>1 DEF RewriteRead, At, Critical
    <3>2. Goto(p, "rewriteSet") \/ UNCHANGED <<pc, lock, result>>
      BY <2>1 DEF RewriteRead
    <3> QED
      BY <3>1, <3>2, GotoHeld DEF LockHeld
  <2>2. CASE RewriteSet(p)
    BY <2>2, GotoHeld DEF RewriteSet, At, Critical
  <2>3. CASE WipeKey(p)
    BY <2>3 DEF WipeKey, LockHeld
  <2>4. CASE WipeDone(p)
    BY <2>4, GotoHeld, SettleHeld DEF WipeDone, Critical
  <2> QED
    BY <1>5, <2>1, <2>2, <2>3, <2>4 DEF LoopStep
<1>6. ASSUME NEW o \in Ops, Logout(o) \/ (\E a \in Auds : RevokeRefreshToken(o, a)) \/ OpStep(o)
      PROVE  LockHeld'
  <2>1. UNCHANGED req /\ \E l : Goto(o, l)
    BY <1>6 DEF Logout, RevokeRefreshToken, OpStep, RevokeNext, RevokeSucceeds, RevokeFails,
                StartStrip, FinishStrip, StartWipe
  <2> QED
    BY <1>o, <2>1, GotoHeld
<1>7. ASSUME Invocations PROVE LockHeld'
  BY <1>3, <1>6, <1>7, InvocationKinds
<1> QED
  BY <1>1, <1>2, <1>4, <1>5, <1>6, <1>7 DEF Next

\* At most one call per audience is inside the lock's callback, over all tabs.
\* The invariant behind it is that the lock names that very call.
THEOREM RefreshesExclude == Spec => []OneRefreshPerAudience
<1>1. Init => LockHeld
  BY DEF Init, LockHeld, Critical, Procs
<1>2. LockHeld => OneRefreshPerAudience
  BY DEF LockHeld, OneRefreshPerAudience
<1> QED
  BY <1>1, <1>2, InitTyped, NextTyped, NextHeld, PTL DEF Spec

-----------------------------------------------------------------------------
(* The steps, one predicate for what each does to the process that takes    *)
(* it, to the cache and to the server                                       *)

Shared == <<cache, server>>

Writes(k, e) == \A j \in Keys : cache'[j] = IF j = k THEN e ELSE cache[j]

\* Process p goes on at l, and nothing happens to the others.
Jumps(p, l) ==
  /\ pc'[p] = l /\ UNCHANGED <<req, result>>
  /\ \A q \in Procs \ {p} : pc'[q] = pc[q] /\ reg'[q] = reg[q]

Shares(d, c) == d \in Calls /\ (d = c \/ (pc[d] = "joined" /\ req[d].lead = c))

Settles(c, outcome, at) ==
  /\ reg'[c] = NoReg /\ UNCHANGED req
  /\ \A q \in Procs \ {c} : reg'[q] = reg[q]
  /\ \A q \in Procs : pc'[q] = IF Shares(q, c) THEN "settled" ELSE pc[q]
  /\ \A d \in Calls : result'[d] = IF Shares(d, c) THEN [outcome |-> outcome, at |-> at] ELSE result[d]

Ages(k) ==
  /\ Writes(k, cache'[k]) /\ cache'[k].rt = cache[k].rt /\ cache'[k].at = cache[k].at
  /\ Present(k) /\ cache'[k].exp \in {"due", "expired"}
  /\ UNCHANGED server /\ UNCHANGED <<pc, req, result, reg>>

Invoked(c) ==
  /\ pc[c] = "idle" /\ Turn(c) /\ reg'[c] = reg[c]
  /\ \A q \in Procs \ {c} : pc'[q] = pc[q] /\ reg'[q] = reg[q]
  /\ \A d \in Calls \ {c} : req'[d] = req[d]
  /\ UNCHANGED Shared /\ UNCHANGED result
  /\ \/ /\ pc'[c] = "joined" /\ req'[c].lead \in Calls \ {c}
        /\ pc[req'[c].lead] \notin {"idle", "joined", "settled"}
        /\ SameFlight(req[req'[c].lead], req'[c]) /\ req'[c].since = req[req'[c].lead].since
     \/ /\ pc'[c] \in {"lockWait", "check1"} /\ (pc'[c] = "check1" => req'[c].mode # "off")
        /\ req'[c].since = issued

\* A check of the cache, with the entry it strips, that comes to nothing.
Missed(c) ==
  /\ pc[c] \in {"check1", "check2", "strip1", "strip2"} /\ Turn(c) /\ reg'[c] = NoReg
  /\ UNCHANGED server
  /\ IF pc[c] \in {"check1", "check2"} THEN UNCHANGED cache
     ELSE Writes(reg[c].key, StrippedEntry(reg[c].entry))
  /\ \/ pc[c] \in {"check2", "strip2"} /\ Jumps(c, "readRt")
     \/ pc[c] \in {"check1", "strip1"} /\ Jumps(c, "lockWait")
     \/ pc[c] \in {"check1", "strip1"} /\ Settles(c, "none", 0)

Hit(c) ==
  /\ pc[c] \in {"check1", "check2"} /\ Turn(c)
  /\ \E j \in Keys : /\ Matches(j, req[c].key) /\ cache[j].exp = "fresh"
                     /\ Settles(c, "token", cache[j].at)
  /\ UNCHANGED Shared

\* An expired entry is read, to be stripped.
ReadExpired(c) ==
  /\ Turn(c)
  /\ \/ pc[c] = "check1" /\ Jumps(c, "strip1")
     \/ pc[c] = "check2" /\ Jumps(c, "strip2")
     \/ pc[c] = "readRt" /\ Jumps(c, "strip3")
  /\ reg'[c].key \in Keys /\ Matches(reg'[c].key, req[c].key)
  /\ reg'[c].entry = cache[reg'[c].key] /\ Present(reg'[c].key)
  /\ reg'[c].narrow = reg[c].narrow
  /\ UNCHANGED Shared

Entered(c) ==
  /\ pc[c] = "lockWait" /\ Turn(c) /\ reg'[c] = reg[c]
  /\ Jumps(c, "readRt") \/ (Jumps(c, "check2") /\ req[c].mode # "off")
  /\ UNCHANGED Shared

\* The call fails, or is over with its wipe.
Failed(c) ==
  /\ pc[c] \in {"lockWait", "readRt", "sent", "wipe"} /\ Turn(c)
  /\ Settles(c, "error", 0) /\ UNCHANGED Shared

\* ... without a refresh token in the entry it read, which is removed.
StripFailed(c) ==
  /\ pc[c] = "strip3" /\ Turn(c) /\ Settles(c, "error", 0)
  /\ Writes(reg[c].key, NoEntry) /\ UNCHANGED server

\* The request leaves with the refresh token rt, found under key j.
Leaves(c, j, rt) ==
  /\ rt # 0 /\ Turn(c) /\ Jumps(c, "sent") /\ UNCHANGED server
  /\ reg'[c].key = j /\ reg'[c].old = rt /\ reg'[c].narrow = FALSE

Sent(c) ==
  /\ pc[c] = "readRt" /\ UNCHANGED cache
  /\ \E j \in Keys : Present(j) /\ (Matches(j, req[c].key) \/ useMrrt) /\ Leaves(c, j, cache[j].rt)

StripSent(c) ==
  /\ pc[c] = "strip3" /\ Leaves(c, reg[c].key, reg[c].entry.rt)
  /\ Writes(reg[c].key, [reg[c].entry EXCEPT !.at = 0])

\* The server exchanges the token of call c.
Spends(c, narrow) ==
  /\ Accepts(reg[c].old) /\ issued' = issued + 1
  /\ spent' = IF OnlineAccess THEN spent ELSE spent \cup {reg[c].old}
  /\ grants' = grants \cup (IF narrow THEN {} ELSE {<<issued + 1, req[c].key>>})
  /\ UNCHANGED <<cache, revoked, useMrrt>>

Answered(c) ==
  /\ pc[c] = "sent" /\ Jumps(c, "answered")
  /\ Spends(c, reg'[c].narrow) /\ reg'[c].narrow \in {FALSE, useMrrt}
  /\ reg'[c].old = reg[c].old /\ reg'[c].at = issued + 1
  /\ reg'[c].new = IF OnlineAccess THEN reg[c].old ELSE issued + 1

AnswerLost(c) ==
  /\ Lossy /\ pc[c] = "sent" /\ Turn(c) /\ Settles(c, "error", 0) /\ Spends(c, FALSE)

SavedId(c) == pc[c] = "answered" /\ Turn(c) /\ Jumps(c, "save") /\ reg'[c] = reg[c] /\ UNCHANGED Shared

\* The fields of the register that stay through the save and its loop.
Carries(p) ==
  /\ reg'[p].old = reg[p].old /\ reg'[p].new = reg[p].new
  /\ reg'[p].at = reg[p].at /\ reg'[p].narrow = reg[p].narrow

Saved(c) ==
  /\ pc[c] = "save" /\ Turn(c) /\ Jumps(c, "rewrite") /\ Carries(c) /\ UNCHANGED server
  /\ Writes(req[c].key, [at |-> reg[c].at, exp |-> "fresh", rt |-> reg[c].new])
  /\ reg'[c].todo = IF OnlineAccess THEN {} ELSE PresentKeys \cup {req[c].key}

\* The loop leaves the entry of a key as it is, reads it, writes it.
Skipped(p) ==
  /\ pc[p] = "rewrite" /\ Turn(p) /\ Jumps(p, "rewrite") /\ Carries(p) /\ UNCHANGED Shared
  /\ \E k \in reg[p].todo : ~Rewrites(p, cache[k].rt) /\ reg'[p].todo = reg[p].todo \ {k}

Picked(p) ==
  /\ pc[p] = "rewrite" /\ Turn(p) /\ Jumps(p, "rewriteSet") /\ Carries(p) /\ UNCHANGED Shared
  /\ reg'[p].key \in reg[p].todo /\ Rewrites(p, cache[reg'[p].key].rt)
  /\ reg'[p].todo = reg[p].todo \ {reg'[p].key}
  /\ reg'[p].entry = [cache[reg'[p].key] EXCEPT !.rt = reg[p].new]

Rewritten(p) ==
  /\ pc[p] = "rewriteSet" /\ Turn(p) /\ Jumps(p, "rewrite") /\ Carries(p) /\ UNCHANGED server
  /\ reg'[p].todo = reg[p].todo
  /\ Writes(reg[p].key, reg[p].entry)

Returned(c) ==
  /\ pc[c] = "rewrite" /\ Turn(c) /\ reg[c].todo = {} /\ ~reg[c].narrow
  /\ Settles(c, "token", reg[c].at) /\ UNCHANGED Shared

Dropped(c) ==
  /\ pc[c] = "rewrite" /\ Turn(c) /\ reg[c].todo = {} /\ reg[c].narrow
  /\ Settles(c, "error", 0) /\ Writes(req[c].key, NoEntry) /\ UNCHANGED server

\* A logout, also one for a blocked user: its start and its loop.
WipeStarts(p) ==
  /\ pc[p] \in {"idle", "sent", "revNext"} /\ Turn(p) /\ Jumps(p, "wipe")
  /\ reg'[p].new = 0 /\ reg'[p].narrow = FALSE /\ UNCHANGED Shared
  /\ pc[p] = "sent" => p \in Calls
  /\ pc[p] \in {"idle", "revNext"} => p \in Ops

Wiped(p) ==
  /\ pc[p] = "wipe" /\ Turn(p) /\ Jumps(p, "wipe") /\ Carries(p) /\ UNCHANGED server
  /\ \E k \in Keys : Writes(k, NoEntry)

\* Steps of revokeRefreshToken and logout that touch neither cache nor entries.
OpMoves(o) ==
  /\ \/ /\ Turn(o)
        /\ \/ pc[o] = "idle" /\ Jumps(o, "revNext")
           \/ pc[o] = "revNext" /\ (Jumps(o, "revSent") \/ Jumps(o, "settled"))
           \/ pc[o] = "wipe" /\ Jumps(o, "settled")
           \/ pc[o] = "revSent" /\ Jumps(o, "failed")
           \/ pc[o] = "revoked" /\ Jumps(o, "rewrite")
           \/ pc[o] = "rewrite" /\ Jumps(o, "revNext")
        /\ UNCHANGED revoked
     \/ /\ pc[o] = "revSent" /\ Jumps(o, "revoked")
        /\ revoked' = revoked \cup {reg[o].old}
  /\ reg'[o].new \in {reg[o].new, 0}
  /\ UNCHANGED <<cache, issued, spent, grants, useMrrt>>

CallKinds(c) ==
  \/ Invoked(c) \/ Missed(c) \/ Hit(c) \/ ReadExpired(c) \/ Entered(c) \/ Failed(c) \/ StripFailed(c)
  \/ Sent(c) \/ StripSent(c) \/ Answered(c) \/ AnswerLost(c) \/ SavedId(c) \/ Saved(c)
  \/ Returned(c) \/ Dropped(c)

LoopKinds(p) == Skipped(p) \/ Picked(p) \/ Rewritten(p) \/ WipeStarts(p) \/ Wiped(p)

-----------------------------------------------------------------------------
(* The actions take those steps *)

\* A jump of p that replaces its register.
LEMMA GotoJumps ==
  ASSUME Typed, NEW p \in Procs, NEW l, NEW r, Goto(p, l), UNCHANGED req,
         reg' = [reg EXCEPT ![p] = r]
  PROVE  Jumps(p, l) /\ reg'[p] = r
<1>1. pc \in [Procs -> Waiting \cup Steps] /\ reg \in [Procs -> Reg]
  BY Parts DEF ControlTyped, RegTyped
<1> QED
  BY <1>1 DEF Goto, Jumps

\* A jump of p that leaves its register alone.
LEMMA GotoStays ==
  ASSUME Typed, NEW p \in Procs, NEW l, Goto(p, l), UNCHANGED <<req, reg>>
  PROVE  Jumps(p, l) /\ reg'[p] = reg[p]
BY Parts DEF Goto, Jumps, ControlTyped

\* A call settles together with those that share its promise.
LEMMA SettleSettles ==
  ASSUME Typed, NEW c \in Calls, NEW outcome, NEW at, Settle(c, outcome, at), UNCHANGED req
  PROVE  Settles(c, outcome, at)
<1>1. c \in Procs /\ reg \in [Procs -> Reg]
  BY Parts DEF Procs, RegTyped
<1>2. reg'[c] = NoReg /\ \A q \in Procs \ {c} : reg'[q] = reg[q]
  BY <1>1 DEF Settle, Forget
<1> QED
  BY <1>1, <1>2 DEF Settle, Settles, Shares, Procs

\* A write to one key.
LEMMA WritesKey ==
  ASSUME Typed, NEW k \in Keys, NEW e, cache' = [cache EXCEPT ![k] = e]
  PROVE  Writes(k, e)
BY Parts DEF Writes, CacheTyped

\* The types of what a process has in hand.
LEMMA InHand ==
  ASSUME Typed
  PROVE  /\ \A p \in Procs : reg[p] \in Reg /\ reg[p].key \in Keys /\ reg[p].entry \in Entry
                             /\ reg[p].todo \subseteq Keys
         /\ \A c \in Calls : c \in Procs /\ req[c] \in Request /\ req[c].key \in Keys
         /\ \A k \in Keys : cache[k] \in Entry /\ EntryOK(cache[k])
         /\ useMrrt \in BOOLEAN /\ issued \in Nat
<1>1. useMrrt \in BOOLEAN /\ issued \in Nat
  BY Parts, ConstantsAssumption DEF ServerTyped
<1> QED
  BY <1>1, Parts DEF RegTyped, Reg, Request, CacheTyped, Procs

\* The check of the cache found nothing.
LEMMA MissSteps ==
  ASSUME Typed, NEW c \in Calls, CheckMissed(c), UNCHANGED req
  PROVE  /\ reg'[c] = NoReg
         /\ \/ pc[c] \in {"check2", "strip2"} /\ Jumps(c, "readRt")
            \/ pc[c] \notin {"check2", "strip2"} /\ Jumps(c, "lockWait")
            \/ pc[c] \notin {"check2", "strip2"} /\ Settles(c, "none", 0)
<1>1. c \in Procs
  BY DEF Procs
<1>2. CASE pc[c] \in {"check2", "strip2"}
  BY <1>1, <1>2, GotoJumps DEF CheckMissed, Forget
<1>3. CASE pc[c] \notin {"check2", "strip2"} /\ Settle(c, "none", 0)
  <2>1. Settles(c, "none", 0)
    BY <1>3, SettleSettles
  <2> QED
    BY <1>3, <2>1 DEF Settles
<1>4. CASE pc[c] \notin {"check2", "strip2"} /\ Goto(c, "lockWait") /\ Forget(c)
  BY <1>1, <1>4, GotoJumps DEF Forget
<1> QED
  BY <1>2, <1>3, <1>4 DEF CheckMissed

\* What CacheManager finds for a key.
LEMMA Found ==
  ASSUME Typed, NEW k \in Keys, NEW j \in Candidates(k)
  PROVE  j \in Keys /\ Present(j) /\ Matches(j, k)
BY DEF Candidates, PresentKeys, Matches

\* _getEntryFromCache: a hit, a miss, or an expired entry to strip.
LEMMA CheckSteps ==
  ASSUME Typed, NEW c \in Calls, CheckCache(c)
  PROVE  Missed(c) \/ Hit(c) \/ ReadExpired(c)
<1>1. /\ pc[c] \in {"check1", "check2"} /\ Turn(c) /\ UNCHANGED Shared /\ UNCHANGED req
      /\ UNCHANGED cache /\ UNCHANGED server
  BY DEF CheckCache, At, Shared, server
<1>2. CASE CheckMissed(c)
  <2>1. Missed(c)
    BY <1>1, <1>2, MissSteps DEF Missed
  <2> QED
    BY <2>1
<1>3. ASSUME NEW j \in Candidates(req[c].key), Expired(cache[j], 60),
             reg' = [reg EXCEPT ![c].key = j, ![c].entry = cache[j]],
             Goto(c, IF pc[c] = "check1" THEN "strip1" ELSE "strip2")
      PROVE  ReadExpired(c)
  <2> DEFINE r == [reg[c] EXCEPT !.key = j, !.entry = cache[j]]
  <2>1. c \in Procs /\ j \in Keys /\ Present(j) /\ Matches(j, req[c].key)
    BY InHand, Found
  <2>2. reg' = [reg EXCEPT ![c] = r]
    BY <1>3
  <2>3. r.key = j /\ r.entry = cache[j] /\ r.narrow = reg[c].narrow
    BY InHand DEF Reg
  <2> HIDE DEF r
  <2>4. reg'[c] = r /\ Jumps(c, IF pc[c] = "check1" THEN "strip1" ELSE "strip2")
    BY <1>1, <1>3, <2>1, <2>2, GotoJumps
  <2> QED
    BY <1>1, <2>1, <2>3, <2>4 DEF ReadExpired
<1>4. ASSUME NEW j \in Candidates(req[c].key), ~Expired(cache[j], 60), Settle(c, "token", cache[j].at)
      PROVE  Hit(c)
  <2>1. j \in Keys /\ Present(j) /\ Matches(j, req[c].key)
    BY InHand, Found
  <2>2. cache[j].exp = "fresh"
    BY <1>4, <2>1, InHand DEF Present, Expired, Entry
  <2>3. Settles(c, "token", cache[j].at)
    BY <1>1, <1>4, SettleSettles
  <2> QED
    BY <1>1, <2>1, <2>2, <2>3 DEF Hit
<1> QED
  BY <1>2, <1>3, <1>4 DEF CheckCache

\* The entry that was read goes back, stripped.
LEMMA StripSteps ==
  ASSUME Typed, NEW c \in Calls, StripExpired(c)
  PROVE  Missed(c)
<1>1. /\ pc[c] \in {"strip1", "strip2"} /\ Turn(c) /\ UNCHANGED req /\ UNCHANGED server
      /\ CheckMissed(c)
  BY DEF StripExpired, At
<1>2. Writes(reg[c].key, StrippedEntry(reg[c].entry))
  BY InHand, WritesKey DEF StripExpired
<1> QED
  BY <1>1, <1>2, MissSteps DEF Missed

\* The lock is granted, or is not in time.
LEMMA LockSteps ==
  ASSUME Typed, NEW c \in Calls, EnterLock(c) \/ LockTimeout(c)
  PROVE  Entered(c) \/ Failed(c)
<1>1. c \in Procs /\ pc \in [Procs -> Waiting \cup Steps]
  BY Parts, InHand DEF ControlTyped
<1>2. CASE EnterLock(c)
  <2>1. Jumps(c, IF req[c].mode = "off" THEN "readRt" ELSE "check2")
    BY <1>1, <1>2 DEF EnterLock, Jumps
  <2> QED
    BY <1>2, <2>1 DEF EnterLock, At, Entered, Shared
<1>3. CASE LockTimeout(c)
  BY <1>3, SettleSettles DEF LockTimeout, At, Failed, Shared
<1> QED
  BY <1>2, <1>3

\* A refresh token leaves, or there is none.
LEMMA SendSteps ==
  ASSUME Typed, NEW c \in Calls, NEW j \in Keys, NEW e, SendExchange(c, j, e),
         UNCHANGED req, UNCHANGED server, Turn(c)
  PROVE  (e.rt # 0 /\ Leaves(c, j, e.rt)) \/ (e.rt = 0 /\ Settles(c, "error", 0))
<1>1. CASE e.rt # 0
  <2> DEFINE r == [NoReg EXCEPT !.key = j, !.old = e.rt]
  <2>1. r.key = j /\ r.old = e.rt /\ r.narrow = FALSE
    BY DEF NoReg
  <2>2. reg' = [reg EXCEPT ![c] = r] /\ Goto(c, "sent")
    BY <1>1 DEF SendExchange
  <2> HIDE DEF r
  <2>3. reg'[c] = r /\ Jumps(c, "sent")
    BY <2>2, InHand, GotoJumps
  <2> QED
    BY <1>1, <2>1, <2>3 DEF Leaves
<1>2. CASE e.rt = 0
  BY <1>2, SettleSettles DEF SendExchange
<1> QED
  BY <1>1, <1>2

\* _getTokenUsingRefreshToken finds a refresh token or fails.
LEMMA ReadSteps ==
  ASSUME Typed, NEW c \in Calls, ReadRefreshToken(c)
  PROVE  Failed(c) \/ ReadExpired(c) \/ Sent(c)
<1>1. /\ pc[c] = "readRt" /\ Turn(c) /\ UNCHANGED Shared /\ UNCHANGED req
      /\ UNCHANGED cache /\ UNCHANGED server
  BY DEF ReadRefreshToken, At, Shared, server
<1>2. CASE Settle(c, "error", 0)
  <2>1. Failed(c)
    BY <1>1, <1>2, SettleSettles DEF Failed
  <2> QED
    BY <2>1
<1>3. ASSUME NEW j \in Candidates(req[c].key),
             reg' = [reg EXCEPT ![c].key = j, ![c].entry = cache[j]], Goto(c, "strip3")
      PROVE  ReadExpired(c)
  <2> DEFINE r == [reg[c] EXCEPT !.key = j, !.entry = cache[j]]
  <2>1. c \in Procs /\ j \in Keys /\ Present(j) /\ Matches(j, req[c].key)
    BY InHand, Found
  <2>2. reg' = [reg EXCEPT ![c] = r]
    BY <1>3
  <2>3. r.key = j /\ r.entry = cache[j] /\ r.narrow = reg[c].narrow
    BY InHand DEF Reg
  <2> HIDE DEF r
  <2>4. reg'[c] = r /\ Jumps(c, "strip3")
    BY <1>1, <1>3, <2>1, <2>2, GotoJumps
  <2> QED
    BY <1>1, <2>1, <2>3, <2>4 DEF ReadExpired
<1>4. ASSUME NEW j \in Keys, Present(j), Matches(j, req[c].key) \/ useMrrt, SendExchange(c, j, cache[j])
      PROVE  Failed(c) \/ Sent(c)
  <2>1. CASE Leaves(c, j, cache[j].rt)
    BY <1>1, <1>4, <2>1 DEF Sent
  <2>2. CASE Settles(c, "error", 0)
    BY <1>1, <2>2 DEF Failed
  <2> QED
    BY <1>1, <1>4, <2>1, <2>2, SendSteps
<1>5. \A j \in Candidates(req[c].key) : j \in Keys /\ Present(j) /\ Matches(j, req[c].key)
  BY InHand, Found
<1>6. \A j \in MrrtCandidates : j \in Keys /\ Present(j) /\ useMrrt
  BY DEF MrrtCandidates, PresentKeys
<1> QED
  BY <1>2, <1>3, <1>4, <1>5, <1>6 DEF ReadRefreshToken

\* A refresh token read under the lock is sent, or the read failed.
LEMMA StripSendSteps ==
  ASSUME Typed, NEW c \in Calls, StripAndSend(c)
  PROVE  StripFailed(c) \/ StripSent(c)
<1> DEFINE e == StrippedEntry(reg[c].entry)
<1>1. /\ pc[c] = "strip3" /\ Turn(c) /\ UNCHANGED req /\ UNCHANGED server
      /\ SendExchange(c, reg[c].key, e)
  BY DEF StripAndSend, At
<1>2. Writes(reg[c].key, e) /\ reg[c].key \in Keys /\ reg[c].entry \in Entry
  BY InHand, WritesKey DEF StripAndSend
<1>3. (e.rt # 0 /\ Leaves(c, reg[c].key, e.rt)) \/ (e.rt = 0 /\ Settles(c, "error", 0))
  <2> HIDE DEF e
  <2> QED
    BY <1>1, <1>2, SendSteps
<1>4. CASE reg[c].entry.rt = 0
  <2>1. e = NoEntry /\ e.rt = 0
    BY <1>4 DEF StrippedEntry, NoEntry
  <2> QED
    BY <1>1, <1>2, <1>3, <2>1 DEF StripFailed
<1>5. CASE reg[c].entry.rt # 0
  <2>1. e = [reg[c].entry EXCEPT !.at = 0] /\ e.rt = reg[c].entry.rt
    BY <1>2, <1>5 DEF StrippedEntry, Entry
  <2> QED
    BY <1>1, <1>2, <1>3, <1>5, <2>1 DEF StripSent
<1> QED
  BY <1>4, <1>5

\* The token endpoint answers, refuses, or its answer is lost; a blocked user
\* is logged out.
LEMMA ExchangeSteps ==
  ASSUME Typed, NEW c \in Calls, ExchangeSucceeds(c) \/ ExchangeFails(c) \/ ExchangeBlocked(c)
  PROVE  Answered(c) \/ Failed(c) \/ AnswerLost(c) \/ WipeStarts(c)
<1>1. c \in Procs /\ reg[c] \in Reg /\ useMrrt \in BOOLEAN
  BY InHand
<1>2. CASE ExchangeSucceeds(c)
  <2>1. PICK narrow \in {FALSE, useMrrt /\ ~Matches(reg[c].key, req[c].key)} :
          /\ Exchange(c, narrow)
          /\ reg' = [reg EXCEPT ![c].new = IF OnlineAccess THEN reg[c].old ELSE issued + 1,
                                ![c].narrow = narrow, ![c].at = issued + 1]
    BY <1>2 DEF ExchangeSucceeds
  <2> DEFINE r == [reg[c] EXCEPT !.new = IF OnlineAccess THEN reg[c].old ELSE issued + 1,
                                 !.narrow = narrow, !.at = issued + 1]
  <2>2. reg' = [reg EXCEPT ![c] = r]
    BY <2>1
  <2>3. /\ r.old = reg[c].old /\ r.at = issued + 1 /\ r.narrow = narrow
        /\ r.new = IF OnlineAccess THEN reg[c].old ELSE issued + 1
    BY <1>1 DEF Reg
  <2> HIDE DEF r
  <2>4. reg'[c] = r /\ Jumps(c, "answered")
    BY <1>1, <1>2, <2>2, GotoJumps DEF ExchangeSucceeds
  <2>5. narrow \in {FALSE, useMrrt}
    BY <1>1, <2>1
  <2>6. Spends(c, narrow)
    BY <1>2, <2>1 DEF ExchangeSucceeds, Exchange, Spends
  <2> QED
    BY <1>2, <2>3, <2>4, <2>5, <2>6 DEF ExchangeSucceeds, Answered
<1>3. CASE ExchangeFails(c)
  <2>1. /\ pc[c] = "sent" /\ Turn(c) /\ Settles(c, "error", 0) /\ UNCHANGED cache
        /\ UNCHANGED server \/ (Lossy /\ Exchange(c, FALSE))
    BY <1>3, SettleSettles DEF ExchangeFails, At
  <2>2. CASE UNCHANGED server
    BY <2>1, <2>2 DEF Failed, Shared
  <2>3. CASE Lossy /\ Exchange(c, FALSE)
    BY <2>1, <2>3 DEF Exchange, Spends, AnswerLost
  <2> QED
    BY <2>1, <2>2, <2>3
<1>4. CASE ExchangeBlocked(c)
  <2> DEFINE r == [NoReg EXCEPT !.todo = PresentKeys]
  <2>1. r.new = 0 /\ r.narrow = FALSE
    BY DEF NoReg
  <2>2. reg' = [reg EXCEPT ![c] = r] /\ Goto(c, "wipe") /\ UNCHANGED req
    BY <1>4 DEF ExchangeBlocked, StartWipe
  <2> HIDE DEF r
  <2>3. reg'[c] = r /\ Jumps(c, "wipe")
    BY <1>1, <2>2, GotoJumps
  <2> QED
    BY <1>4, <2>1, <2>3 DEF ExchangeBlocked, At, WipeStarts, Shared
<1> QED
  BY <1>2, <1>3, <1>4

\* The answer is saved, and the call returns.
LEMMA SaveSteps ==
  ASSUME Typed, NEW c \in Calls, SaveIdToken(c) \/ SaveEntry(c) \/ FinishExchange(c)
  PROVE  SavedId(c) \/ Saved(c) \/ Returned(c) \/ Dropped(c)
<1>1. c \in Procs /\ reg[c] \in Reg /\ req[c].key \in Keys
  BY InHand
<1>2. CASE SaveIdToken(c)
  BY <1>1, <1>2, GotoStays DEF SaveIdToken, At, SavedId, Shared
<1>3. CASE SaveEntry(c)
  <2> DEFINE todo == IF OnlineAccess THEN {} ELSE PresentKeys \cup {req[c].key}
             r == [reg[c] EXCEPT !.todo = todo]
  <2>1. reg' = [reg EXCEPT ![c] = r]
    BY <1>3 DEF SaveEntry
  <2>2. /\ r.old = reg[c].old /\ r.new = reg[c].new /\ r.at = reg[c].at
        /\ r.narrow = reg[c].narrow /\ r.todo = todo
    BY <1>1 DEF Reg
  <2> HIDE DEF r
  <2>3. reg'[c] = r /\ Jumps(c, "rewrite")
    BY <1>1, <1>3, <2>1, GotoJumps DEF SaveEntry
  <2>4. Writes(req[c].key, [at |-> reg[c].at, exp |-> "fresh", rt |-> reg[c].new])
    BY <1>1, <1>3, WritesKey DEF SaveEntry
  <2>5. pc[c] = "save" /\ Turn(c) /\ UNCHANGED server
    BY <1>3 DEF SaveEntry, At
  <2> QED
    BY <2>2, <2>3, <2>4, <2>5 DEF Saved, Carries
<1>4. CASE FinishExchange(c)
  <2>1. pc[c] = "rewrite" /\ Turn(c) /\ reg[c].todo = {} /\ UNCHANGED server /\ UNCHANGED req
    BY <1>4 DEF FinishExchange, At
  <2>2. CASE reg[c].narrow
    <3>1. Settles(c, "error", 0) /\ Writes(req[c].key, NoEntry)
      BY <1>1, <1>4, <2>1, <2>2, SettleSettles, WritesKey DEF FinishExchange
    <3> QED
      BY <2>1, <2>2, <3>1 DEF Dropped
  <2>3. CASE ~reg[c].narrow
    <3>1. Settles(c, "token", reg[c].at) /\ UNCHANGED cache
      BY <1>4, <2>1, <2>3, SettleSettles DEF FinishExchange
    <3> QED
      BY <2>1, <2>3, <3>1 DEF Returned, Shared
  <2> QED
    BY <2>2, <2>3
<1> QED
  BY <1>2, <1>3, <1>4

\* The storage loops.
LEMMA LoopSteps ==
  ASSUME Typed, NEW p \in Procs, LoopStep(p)
  PROVE  LoopKinds(p) \/ (p \in Calls /\ Failed(p)) \/ (p \in Ops /\ OpMoves(p))
<1>1. reg[p] \in Reg /\ reg[p].key \in Keys /\ reg[p].todo \subseteq Keys
  BY InHand
<1>2. CASE RewriteRead(p)
  <2>1. pc[p] = "rewrite" /\ Turn(p) /\ UNCHANGED Shared /\ UNCHANGED req
    BY <1>2 DEF RewriteRead, At, Shared
  <2>2. ASSUME NEW k \in reg[p].todo, Rewrites(p, cache[k].rt),
               reg' = [reg EXCEPT ![p].todo = reg[p].todo \ {k}, ![p].key = k,
                                  ![p].entry = [cache[k] EXCEPT !.rt = reg[p].new]],
               Goto(p, "rewriteSet")
        PROVE  Picked(p)
    <3> DEFINE r == [reg[p] EXCEPT !.todo = reg[p].todo \ {k}, !.key = k,
                                   !.entry = [cache[k] EXCEPT !.rt = reg[p].new]]
    <3>1. reg' = [reg EXCEPT ![p] = r]
      BY <2>2
    <3>2. /\ r.old = reg[p].old /\ r.new = reg[p].new /\ r.at = reg[p].at
          /\ r.narrow = reg[p].narrow /\ r.key = k /\ r.todo = reg[p].todo \ {k}
          /\ r.entry = [cache[k] EXCEPT !.rt = reg[p].new]
      BY <1>1 DEF Reg
    <3> HIDE DEF r
    <3>3. reg'[p] = r /\ Jumps(p, "rewriteSet")
      BY <2>1, <2>2, <3>1, GotoJumps
    <3> QED
      BY <2>1, <2>2, <3>2, <3>3 DEF Picked, Carries
  <2>3. ASSUME NEW k \in reg[p].todo, ~Rewrites(p, cache[k].rt),
               reg' = [reg EXCEPT ![p].todo = reg[p].todo \ {k}], UNCHANGED <<pc, lock, result>>
        PROVE  Skipped(p)
    <3> DEFINE r == [reg[p] EXCEPT !.todo = reg[p].todo \ {k}]
    <3>1. reg' = [reg EXCEPT ![p] = r]
      BY <2>3
    <3>2. /\ r.old = reg[p].old /\ r.new = reg[p].new /\ r.at = reg[p].at
          /\ r.narrow = reg[p].narrow /\ r.todo = reg[p].todo \ {k}
      BY <1>1 DEF Reg
    <3> HIDE DEF r
    <3>3. reg'[p] = r /\ Jumps(p, "rewrite")
      BY <2>1, <2>3, <3>1, Parts DEF Jumps, RegTyped
    <3> QED
      BY <2>1, <2>3, <3>2, <3>3 DEF Skipped, Carries
  <2> QED
    BY <1>2, <2>2, <2>3 DEF RewriteRead, LoopKinds
<1>3. CASE RewriteSet(p)
  <2> DEFINE r == [reg[p] EXCEPT !.key = NoReg.key, !.entry = NoEntry]
  <2>1. reg' = [reg EXCEPT ![p] = r]
    BY <1>3 DEF RewriteSet
  <2>2. /\ r.old = reg[p].old /\ r.new = reg[p].new /\ r.at = reg[p].at
        /\ r.narrow = reg[p].narrow /\ r.todo = reg[p].todo
    BY <1>1 DEF Reg
  <2> HIDE DEF r
  <2>3. reg'[p] = r /\ Jumps(p, "rewrite")
    BY <1>3, <2>1, GotoJumps DEF RewriteSet
  <2>4. Writes(reg[p].key, reg[p].entry)
    BY <1>1, <1>3, WritesKey DEF RewriteSet
  <2>5. Rewritten(p)
    BY <1>3, <2>2, <2>3, <2>4 DEF RewriteSet, At, Rewritten, Carries
  <2> QED
    BY <2>5 DEF LoopKinds
<1>4. CASE WipeKey(p)
  <2>1. PICK k \in reg[p].todo : /\ cache' = [cache EXCEPT ![k] = NoEntry]
                                 /\ reg' = [reg EXCEPT ![p].todo = @ \ {k}]
    BY <1>4 DEF WipeKey
  <2> DEFINE r == [reg[p] EXCEPT !.todo = @ \ {k}]
  <2>2. reg' = [reg EXCEPT ![p] = r]
    BY <2>1
  <2>3. /\ r.old = reg[p].old /\ r.new = reg[p].new /\ r.at = reg[p].at
        /\ r.narrow = reg[p].narrow
    BY <1>1 DEF Reg
  <2> HIDE DEF r
  <2>4. reg'[p] = r /\ Jumps(p, "wipe")
    BY <1>4, <2>2, Parts DEF WipeKey, At, Jumps, RegTyped
  <2>5. k \in Keys /\ Writes(k, NoEntry)
    BY <1>1, <2>1, WritesKey
  <2>6. Wiped(p)
    BY <1>4, <2>3, <2>4, <2>5 DEF WipeKey, At, Wiped, Carries
  <2> QED
    BY <2>6 DEF LoopKinds
<1>5. CASE WipeDone(p)
  <2>1. pc[p] = "wipe" /\ Turn(p) /\ UNCHANGED Shared /\ UNCHANGED req
    BY <1>5 DEF WipeDone, At, Shared
  <2>2. CASE p \in Calls
    BY <1>5, <2>1, <2>2, SettleSettles DEF WipeDone, Failed
  <2>3. CASE p \notin Calls
    <3>1. p \in Ops /\ NoReg.new = 0
      BY <2>3 DEF Procs, NoReg
    <3>2. reg'[p] = NoReg /\ Jumps(p, "settled")
      BY <1>5, <2>1, <2>3, GotoJumps DEF WipeDone, Forget
    <3>3. OpMoves(p)
      BY <2>1, <3>1, <3>2 DEF OpMoves, Shared, server
    <3> QED
      BY <3>1, <3>3
  <2> QED
    BY <2>2, <2>3
<1> QED
  BY <1>2, <1>3, <1>4, <1>5 DEF LoopStep

\* A call starts, or joins one that is in flight.
LEMMA InvokeSteps ==
  ASSUME Typed, NEW c \in Calls, NEW t \in Tabs, NEW k \in Keys, NEW m \in Modes,
         GetTokenSilently(c, t, k, m)
  PROVE  Invoked(c)
<1> DEFINE r == [tab |-> t, key |-> k, mode |-> m, lead |-> c, since |-> issued]
           flying == {d \in Calls : /\ pc[d] \notin {"idle", "joined", "settled"}
                                    /\ SameFlight(req[d], r)}
<1>1. /\ c \in Procs /\ pc \in [Procs -> Waiting \cup Steps] /\ req \in [Calls -> Request]
      /\ pc[c] = "idle" /\ Turn(c) /\ UNCHANGED Shared /\ UNCHANGED reg
  BY InHand, Parts DEF ControlTyped, GetTokenSilently, At, Shared, server
<1>2. ASSUME NEW d \in flying, Goto(c, "joined"),
             req' = [req EXCEPT ![c] = [r EXCEPT !.lead = d, !.since = req[d].since]]
      PROVE  Invoked(c)
  <2>1. d \in Calls \ {c} /\ pc[d] \notin {"idle", "joined", "settled"} /\ SameFlight(req[d], r)
    BY <1>1
  <2>2. /\ req'[c].lead = d /\ req'[c].since = req[d].since /\ req'[c].tab = t
        /\ req'[c].key = k /\ req'[c].mode = m
    BY <1>1, <1>2
  <2>3. SameFlight(req[d], req'[c])
    BY <2>1, <2>2 DEF SameFlight
  <2> QED
    BY <1>1, <1>2, <2>1, <2>2, <2>3 DEF Invoked, Goto
<1>3. ASSUME req' = [req EXCEPT ![c] = r], Goto(c, IF m = "off" THEN "lockWait" ELSE "check1")
      PROVE  Invoked(c)
  <2>1. req'[c].since = issued /\ req'[c].mode = m
    BY <1>1, <1>3
  <2> QED
    BY <1>1, <1>3, <2>1 DEF Invoked, Goto
<1> QED
  BY <1>2, <1>3 DEF GetTokenSilently

\* logout and revokeRefreshToken.
LEMMA OpSteps ==
  ASSUME Typed, NEW o \in Ops,
         OpStep(o) \/ Logout(o) \/ \E a \in Auds : RevokeRefreshToken(o, a)
  PROVE  OpMoves(o) \/ WipeStarts(o)
<1>1. o \in Procs /\ reg[o] \in Reg /\ NoReg.new = 0 /\ NoReg.narrow = FALSE
  BY InHand DEF Procs, NoReg
<1>2. ASSUME StartWipe(o), pc[o] \in {"idle", "revNext"}, Turn(o), UNCHANGED Shared, UNCHANGED req
      PROVE  WipeStarts(o)
  <2> DEFINE r == [NoReg EXCEPT !.todo = PresentKeys]
  <2>1. r.new = 0 /\ r.narrow = FALSE
    BY DEF NoReg
  <2>2. reg' = [reg EXCEPT ![o] = r] /\ Goto(o, "wipe")
    BY <1>2 DEF StartWipe
  <2> HIDE DEF r
  <2>3. reg'[o] = r /\ Jumps(o, "wipe")
    BY <1>1, <1>2, <2>2, GotoJumps
  <2> QED
    BY <1>2, <2>1, <2>3 DEF WipeStarts
<1>3. CASE Logout(o)
  BY <1>2, <1>3 DEF Logout, At, Shared
<1>4. ASSUME NEW a \in Auds, RevokeRefreshToken(o, a) PROVE OpMoves(o)
  <2> DEFINE r == [reg[o] EXCEPT !.rts = {cache[k].rt : k \in {j \in Keys : AudOf[j] = a}} \ {0}]
  <2>1. r.new = reg[o].new
    BY <1>1 DEF Reg
  <2>2. reg' = [reg EXCEPT ![o] = r]
    BY <1>4 DEF RevokeRefreshToken
  <2> HIDE DEF r
  <2>3. reg'[o] = r /\ Jumps(o, "revNext")
    BY <1>1, <1>4, <2>2, GotoJumps DEF RevokeRefreshToken
  <2> QED
    BY <1>4, <2>1, <2>3 DEF RevokeRefreshToken, At, OpMoves, server
<1>5. CASE RevokeNext(o)
  <2>1. /\ pc[o] = "revNext" /\ Turn(o) /\ UNCHANGED Shared /\ UNCHANGED server
        /\ UNCHANGED req /\ UNCHANGED cache
    BY <1>5 DEF RevokeNext, At, Shared
  <2>2. ASSUME NEW rt \in reg[o].rts, Goto(o, "revSent"),
               reg' = [reg EXCEPT ![o].old = rt, ![o].rts = @ \ {rt}]
        PROVE  OpMoves(o)
    <3> DEFINE r == [reg[o] EXCEPT !.old = rt, !.rts = @ \ {rt}]
    <3>1. r.new = reg[o].new
      BY <1>1 DEF Reg
    <3>2. reg' = [reg EXCEPT ![o] = r]
      BY <2>2
    <3> HIDE DEF r
    <3>3. reg'[o] = r /\ Jumps(o, "revSent")
      BY <1>1, <2>1, <2>2, <3>2, GotoJumps
    <3> QED
      BY <2>1, <3>1, <3>3 DEF OpMoves, server
  <2>3. CASE Goto(o, "settled") /\ Forget(o)
    <3>1. reg'[o] = NoReg /\ Jumps(o, "settled")
      BY <1>1, <2>1, <2>3, GotoJumps DEF Forget
    <3> QED
      BY <1>1, <2>1, <3>1 DEF OpMoves, server
  <2>4. CASE StartWipe(o)
    BY <1>2, <2>1, <2>4
  <2> QED
    BY <1>5, <2>2, <2>3, <2>4 DEF RevokeNext
<1>6. CASE RevokeSucceeds(o)
  BY <1>1, <1>6, GotoStays DEF RevokeSucceeds, OpMoves
<1>7. CASE RevokeFails(o)
  <2>1. reg'[o] = NoReg /\ Jumps(o, "failed")
    BY <1>1, <1>7, GotoJumps DEF RevokeFails, Forget
  <2> QED
    BY <1>1, <1>7, <2>1 DEF RevokeFails, At, OpMoves, server
<1>8. CASE StartStrip(o)
  <2> DEFINE r == [reg[o] EXCEPT !.todo = PresentKeys]
  <2>1. r.new = reg[o].new
    BY <1>1 DEF Reg
  <2>2. reg' = [reg EXCEPT ![o] = r]
    BY <1>8 DEF StartStrip
  <2> HIDE DEF r
  <2>3. reg'[o] = r /\ Jumps(o, "rewrite")
    BY <1>1, <1>8, <2>2, GotoJumps DEF StartStrip
  <2> QED
    BY <1>8, <2>1, <2>3 DEF StartStrip, At, OpMoves, server
<1>9. CASE FinishStrip(o)
  BY <1>1, <1>9, GotoStays DEF FinishStrip, At, OpMoves, server
<1> QED
  BY <1>3, <1>4, <1>5, <1>6, <1>7, <1>8, <1>9 DEF OpStep

\* Every step is one of these.
LEMMA NextSteps ==
  ASSUME Typed, Next
  PROVE  \/ \E k \in Keys : Ages(k)
         \/ \E c \in Calls : CallKinds(c)
         \/ \E p \in Procs : LoopKinds(p)
         \/ \E o \in Ops : OpMoves(o)
<1>1. \A c \in Calls : c \in Procs
  BY DEF Procs
<1>2. \A o \in Ops : o \in Procs
  BY DEF Procs
<1>3. ASSUME NEW k \in Keys, Expire(k) PROVE Ages(k)
  <2>1. cache' = [cache EXCEPT ![k] = [cache[k] EXCEPT !.exp = IF @ = "fresh" THEN "due" ELSE "expired"]]
    BY <1>3 DEF Expire
  <2>2. cache'[k] = [cache[k] EXCEPT !.exp = IF @ = "fresh" THEN "due" ELSE "expired"]
    BY <2>1, Parts DEF CacheTyped
  <2>3. cache'[k].rt = cache[k].rt /\ cache'[k].at = cache[k].at /\ cache'[k].exp \in {"due", "expired"}
    BY <2>2, InHand DEF Entry
  <2>4. Writes(k, cache'[k])
    <3> DEFINE e == [cache[k] EXCEPT !.exp = IF @ = "fresh" THEN "due" ELSE "expired"]
    <3>1. cache' = [cache EXCEPT ![k] = e] /\ cache'[k] = e
      BY <2>1, <2>2
    <3> HIDE DEF e
    <3> QED
      BY <3>1, WritesKey
  <2>5. Present(k) /\ UNCHANGED server /\ UNCHANGED <<pc, req, result, reg>>
    BY <1>3 DEF Expire, Present
  <2> QED
    BY <2>3, <2>4, <2>5 DEF Ages
<1>4. ASSUME NEW c \in Calls, CallStep(c) PROVE CallKinds(c) \/ LoopKinds(c)
  BY <1>4, CheckSteps, StripSteps, LockSteps, ReadSteps, StripSendSteps, ExchangeSteps, SaveSteps
     DEF CallStep, CallKinds, LoopKinds
<1>5. ASSUME NEW p \in Procs, LoopStep(p)
      PROVE  LoopKinds(p) \/ (p \in Calls /\ CallKinds(p)) \/ (p \in Ops /\ OpMoves(p))
  BY <1>5, LoopSteps DEF CallKinds
<1>6. ASSUME NEW o \in Ops, OpStep(o) \/ Logout(o) \/ \E a \in Auds : RevokeRefreshToken(o, a)
      PROVE  LoopKinds(o) \/ OpMoves(o)
  BY <1>6, OpSteps DEF LoopKinds
<1>7. ASSUME Invocations
      PROVE  (\E c \in Calls : CallKinds(c)) \/ \E o \in Ops : LoopKinds(o) \/ OpMoves(o)
  <2>1. ASSUME NEW c \in Calls, NEW t \in Tabs, NEW k \in Keys, NEW m \in Modes,
               GetTokenSilently(c, t, k, m)
        PROVE  CallKinds(c)
    BY <2>1, InvokeSteps DEF CallKinds
  <2> QED
    BY <1>6, <1>7, <2>1, InvocationKinds
<1>8. CASE \E c \in Calls : CallStep(c)
  BY <1>1, <1>4, <1>8
<1>9. CASE \E p \in Procs : LoopStep(p)
  BY <1>5, <1>9
<1>10. CASE \E o \in Ops : OpStep(o)
  BY <1>2, <1>6, <1>10
<1>11. CASE Invocations
  BY <1>2, <1>7, <1>11
<1> QED
  BY <1>3, <1>8, <1>9, <1>10, <1>11 DEF Next

-----------------------------------------------------------------------------
(* Shared promises, and calls that ask for a fresh token *)

Unborn == {"idle", "joined", "settled"}

\* Coarser: process p goes on, call c settles.
Moves(p) ==
  /\ Jumps(p, pc'[p])
  /\ p \in Calls => pc[p] \notin Unborn /\ pc'[p] \notin Unborn

Over(c) == pc[c] \notin Unborn /\ \E outcome, at : Settles(c, outcome, at)

\* The control steps, without their effect on the cache.
LEMMA CoarseSteps ==
  ASSUME Typed, Next
  PROVE  \/ UNCHANGED <<pc, req, result, reg>>
         \/ \E p \in Procs : Moves(p)
         \/ \E c \in Calls : Over(c) \/ Invoked(c)
<1>1. \A p, l : Jumps(p, l) => Jumps(p, pc'[p]) /\ pc'[p] = l
  BY DEF Jumps
<1>2. ASSUME NEW c \in Calls, CallKinds(c) PROVE Invoked(c) \/ Moves(c) \/ Over(c)
  <2>1. CASE Missed(c)
    BY <1>1, <2>1 DEF Missed, Moves, Over, Unborn
  <2>2. CASE Hit(c) \/ Failed(c) \/ StripFailed(c) \/ AnswerLost(c) \/ Returned(c) \/ Dropped(c)
    BY <2>2 DEF Hit, Failed, StripFailed, AnswerLost, Returned, Dropped, Over, Unborn
  <2>3. CASE ReadExpired(c) \/ Entered(c) \/ Sent(c) \/ StripSent(c)
    BY <1>1, <2>3 DEF ReadExpired, Entered, Sent, StripSent, Leaves, Moves, Unborn
  <2>4. CASE Answered(c)
    BY <1>1, <2>4 DEF Answered, Moves, Unborn
  <2>5. CASE SavedId(c) \/ Saved(c)
    BY <1>1, <2>5 DEF SavedId, Saved, Moves, Unborn
  <2> QED
    BY <1>2, <2>1, <2>2, <2>3, <2>4, <2>5 DEF CallKinds
<1>3. ASSUME NEW p \in Procs, LoopKinds(p) PROVE Moves(p)
  <2>1. CASE WipeStarts(p)
    <3>1. p \in Calls => p \notin Ops
      BY ConstantsAssumption
    <3> QED
      BY <1>1, <2>1, <3>1 DEF WipeStarts, Moves, Unborn
  <2>2. CASE Skipped(p) \/ Picked(p) \/ Rewritten(p) \/ Wiped(p)
    BY <1>1, <2>2 DEF Skipped, Picked, Rewritten, Wiped, Moves, Unborn
  <2> QED
    BY <1>3, <2>1, <2>2 DEF LoopKinds
<1>4. ASSUME NEW o \in Ops, OpMoves(o) PROVE o \in Procs /\ Moves(o)
  <2>1. o \in Procs /\ o \notin Calls
    BY ConstantsAssumption DEF Procs
  <2>2. Jumps(o, pc'[o])
    BY <1>1, <1>4 DEF OpMoves
  <2> QED
    BY <2>1, <2>2 DEF Moves
<1>5. \A c \in Calls : c \in Procs
  BY DEF Procs
<1>6. \A k \in Keys : Ages(k) => UNCHANGED <<pc, req, result, reg>>
  BY DEF Ages
<1> QED
  BY <1>2, <1>3, <1>4, <1>5, <1>6, NextSteps

\* A call that shares a promise asked for the same, and the call it waits for
\* is on its way.
Sharing ==
  \A c \in Calls : pc[c] = "joined" =>
    LET d == req[c].lead
    IN pc[d] \notin Unborn /\ req[d].key = req[c].key /\ req[d].mode = req[c].mode
       /\ req[d].since = req[c].since

\* Every step keeps the calls that share a promise alike.
LEMMA NextSharing ==
  ASSUME Typed, Next, Sharing
  PROVE  Sharing'
<1>1. \A c \in Calls : c \in Procs /\ req[c].lead \in Calls
  BY InHand DEF Request
<1> SUFFICES ASSUME NEW c \in Calls, pc'[c] = "joined"
             PROVE  LET d == req'[c].lead
                    IN pc'[d] \notin Unborn /\ req'[d].key = req'[c].key
                       /\ req'[d].mode = req'[c].mode /\ req'[d].since = req'[c].since
  BY DEF Sharing
<1>2. CASE UNCHANGED <<pc, req, result, reg>>
  BY <1>2 DEF Sharing
<1>3. ASSUME NEW p \in Procs, Moves(p)
      PROVE  /\ pc[c] = "joined" /\ UNCHANGED req
             /\ \A d \in Calls : pc[d] \notin Unborn => pc'[d] \notin Unborn
  BY <1>1, <1>3 DEF Moves, Jumps, Unborn
<1>4. ASSUME NEW b \in Calls, Over(b)
      PROVE  pc[c] = "joined" /\ UNCHANGED req /\ req[c].lead # b /\ pc'[req[c].lead] = pc[req[c].lead]
  <2>1. PICK outcome, at : Settles(b, outcome, at)
    BY <1>4 DEF Over
  <2>2. ~Shares(c, b) /\ pc[c] = "joined"
    BY <1>1, <2>1 DEF Settles
  <2>3. req[c].lead # b
    BY <2>2 DEF Shares
  <2>4. pc[req[c].lead] \notin Unborn
    BY <2>2 DEF Sharing
  <2> QED
    BY <1>1, <2>1, <2>2, <2>3, <2>4 DEF Settles, Shares, Unborn
<1>5. ASSUME NEW b \in Calls, Invoked(b)
      PROVE  LET d == req'[c].lead
             IN pc'[d] \notin Unborn /\ req'[d].key = req'[c].key
                /\ req'[d].mode = req'[c].mode /\ req'[d].since = req'[c].since
  <2>1. CASE c = b
    BY <1>1, <1>5, <2>1 DEF Invoked, SameFlight, Unborn
  <2>2. CASE c # b
    <3>1. pc[c] = "joined" /\ req'[c] = req[c]
      BY <1>1, <1>5, <2>2 DEF Invoked
    <3>2. pc[req[c].lead] \notin Unborn
      BY <3>1 DEF Sharing
    <3>3. req[c].lead # b
      BY <1>5, <3>2 DEF Invoked, Unborn
    <3> QED
      BY <1>1, <1>5, <3>1, <3>2, <3>3 DEF Invoked, Sharing
  <2> QED
    BY <2>1, <2>2
<1> QED
  BY <1>1, <1>2, <1>3, <1>4, <1>5, CoarseSteps DEF Sharing

\* Points from the answer of the token endpoint to the last write of the call.
Holds(c) == pc[c] \in {"answered", "save", "rewrite", "rewriteSet"}

\* A call with cacheMode off checks no cache, and the token it holds was issued
\* after the request began.
Recent ==
  \A c \in Calls :
    /\ req[c].since <= issued
    /\ req[c].mode = "off" => pc[c] \notin {"check1", "check2", "strip1", "strip2"}
    /\ Holds(c) => reg[c].at > req[c].since
    /\ pc[c] = "idle" => result[c].outcome = "pending"

\* The server forgets nothing, and the option useMrrt is fixed.
LEMMA ServerGrows ==
  ASSUME Typed, Next
  PROVE  /\ issued' >= issued /\ spent \subseteq spent' /\ revoked \subseteq revoked'
         /\ grants \subseteq grants' /\ useMrrt' = useMrrt
<1> DEFINE Grows == /\ issued' >= issued /\ spent \subseteq spent' /\ revoked \subseteq revoked'
                    /\ grants \subseteq grants' /\ useMrrt' = useMrrt
<1>1. issued \in Nat
  BY InHand
<1>2. UNCHANGED server => Grows
  BY <1>1 DEF server
<1>3. UNCHANGED Shared => Grows
  BY <1>1 DEF Shared, server
<1>4. ASSUME NEW c \in Calls, NEW narrow, Spends(c, narrow) PROVE Grows
  BY <1>1, <1>4 DEF Spends
<1>5. \A o \in Ops : OpMoves(o) => Grows
  BY <1>1 DEF OpMoves
<1> HIDE DEF Grows
<1>6. ASSUME NEW c \in Calls, CallKinds(c) PROVE Grows
  <2>1. CASE Answered(c) \/ AnswerLost(c)
    BY <1>4, <2>1 DEF Answered, AnswerLost
  <2>2. CASE ~Answered(c) /\ ~AnswerLost(c)
    BY <1>2, <1>3, <1>6, <2>2
       DEF CallKinds, Invoked, Missed, Hit, ReadExpired, Entered, Failed, StripFailed, Sent, StripSent,
           Leaves, SavedId, Saved, Returned, Dropped
  <2> QED
    BY <2>1, <2>2
<1>7. ASSUME NEW p \in Procs, LoopKinds(p) PROVE Grows
  BY <1>2, <1>3, <1>7 DEF LoopKinds, Skipped, Picked, Rewritten, WipeStarts, Wiped
<1>8. \A k \in Keys : Ages(k) => Grows
  BY <1>2 DEF Ages
<1>9. Grows
  BY <1>5, <1>6, <1>7, <1>8, NextSteps
<1> QED
  BY <1>9 DEF Grows

\* Every step keeps the tokens of calls without cache recent.
LEMMA NextRecent ==
  ASSUME Typed, Next, Recent
  PROVE  Recent'
<1>1. /\ issued \in Nat /\ issued' \in Nat /\ issued' >= issued
      /\ \A c \in Calls : c \in Procs /\ req[c].since \in Nat /\ reg[c].at \in Nat
  BY InHand, ServerGrows, NextTyped, Parts DEF ServerTyped, Request, Reg
\* What one call's part needs.
<1>2. ASSUME NEW c \in Calls, req'[c].since = req[c].since, req'[c].mode = req[c].mode,
             \/ pc'[c] = "settled"
             \/ /\ pc'[c] = pc[c] /\ result'[c] = result[c]
                /\ reg'[c].at = reg[c].at \/ ~Holds(c)
             \/ /\ pc'[c] \in {"lockWait", "readRt", "sent", "strip3", "wipe"}
             \/ /\ pc'[c] \in {"strip1", "strip2", "check2"}
                /\ req[c].mode # "off"
             \/ /\ pc'[c] = "answered" /\ reg'[c].at = issued + 1
             \/ /\ pc'[c] \in {"save", "rewrite", "rewriteSet"} /\ Holds(c) /\ reg'[c].at = reg[c].at
      PROVE  /\ req'[c].since <= issued'
             /\ req'[c].mode = "off" => pc'[c] \notin {"check1", "check2", "strip1", "strip2"}
             /\ Holds(c)' => reg'[c].at > req'[c].since
             /\ pc'[c] = "idle" => result'[c].outcome = "pending"
  BY <1>1, <1>2 DEF Recent, Holds
\* Nothing happens to the other calls when p goes on.
<1>3. ASSUME NEW p \in Procs, Jumps(p, pc'[p]), NEW c \in Calls, c # p
      PROVE  /\ req'[c].since = req[c].since /\ req'[c].mode = req[c].mode /\ pc'[c] = pc[c]
             /\ result'[c] = result[c] /\ reg'[c].at = reg[c].at
  BY <1>1, <1>3 DEF Jumps
<1>4. \A p, l : Jumps(p, l) => Jumps(p, pc'[p]) /\ pc'[p] = l /\ UNCHANGED req
  BY DEF Jumps
<1>5. ASSUME NEW c \in Calls, CallKinds(c) PROVE Recent'
  <2>1. CASE Invoked(c)
    <3> SUFFICES ASSUME NEW d \in Calls
                 PROVE  /\ req'[d].since <= issued'
                        /\ req'[d].mode = "off" => pc'[d] \notin {"check1", "check2", "strip1", "strip2"}
                        /\ Holds(d)' => reg'[d].at > req'[d].since
                        /\ pc'[d] = "idle" => result'[d].outcome = "pending"
      BY DEF Recent
    <3>1. CASE d # c
      BY <1>1, <1>2, <2>1, <3>1 DEF Invoked
    <3>2. CASE d = c
      BY <1>1, <2>1, <3>2 DEF Invoked, Recent, Holds, Shared, server
    <3> QED
      BY <3>1, <3>2
  <2>2. CASE Over(c)
    <3>1. PICK outcome, at : Settles(c, outcome, at)
      BY <2>2 DEF Over
    <3>2. ASSUME NEW d \in Calls
          PROVE  /\ req'[d].since = req[d].since /\ req'[d].mode = req[d].mode
                 /\ pc'[d] = "settled" \/ (pc'[d] = pc[d] /\ result'[d] = result[d] /\ reg'[d].at = reg[d].at)
      BY <1>1, <3>1 DEF Settles, Shares
    <3> QED
      BY <1>2, <3>2 DEF Recent
  <2>3. ASSUME Jumps(c, pc'[c]),
             \/ /\ pc'[c] \in {"lockWait", "readRt", "sent", "strip3", "wipe"}
             \/ /\ pc'[c] \in {"strip1", "strip2", "check2"}
                /\ req[c].mode # "off"
             \/ /\ pc'[c] = "answered" /\ reg'[c].at = issued + 1
             \/ /\ pc'[c] \in {"save", "rewrite", "rewriteSet"} /\ Holds(c) /\ reg'[c].at = reg[c].at
        PROVE Recent'
    <3>1. UNCHANGED req /\ c \in Procs
      BY <1>1, <1>4, <2>3
    <3> QED
      BY <1>2, <1>3, <2>3, <3>1 DEF Recent
  <2>4. CASE Missed(c)
    <3>1. CASE \E l \in {"lockWait", "readRt"} : Jumps(c, l)
      BY <1>4, <2>3, <3>1
    <3>2. CASE Settles(c, "none", 0)
      BY <2>2, <2>4, <3>2 DEF Missed, Over, Unborn
    <3> QED
      BY <2>4, <3>1, <3>2 DEF Missed
  <2>5. CASE Hit(c) \/ Failed(c) \/ StripFailed(c) \/ AnswerLost(c) \/ Returned(c) \/ Dropped(c)
    BY <2>2, <2>5 DEF Hit, Failed, StripFailed, AnswerLost, Returned, Dropped, Over, Unborn
  <2>6. CASE ReadExpired(c)
    BY <1>4, <2>3, <2>6 DEF ReadExpired, Recent
  <2>7. CASE Entered(c) \/ Sent(c) \/ StripSent(c)
    BY <1>4, <2>3, <2>7 DEF Entered, Sent, StripSent, Leaves
  <2>8. CASE Answered(c)
    BY <1>4, <2>3, <2>8 DEF Answered
  <2>9. CASE SavedId(c) \/ Saved(c)
    BY <1>4, <2>3, <2>9 DEF SavedId, Saved, Carries, Holds
  <2> QED
    BY <1>5, <2>1, <2>4, <2>5, <2>6, <2>7, <2>8, <2>9 DEF CallKinds
<1>6. ASSUME NEW p \in Procs, Jumps(p, pc'[p]),
             p \in Calls => \/ pc'[p] = "wipe"
                            \/ pc'[p] \in {"rewrite", "rewriteSet"} /\ Holds(p) /\ reg'[p].at = reg[p].at
      PROVE  Recent'
  <2>1. UNCHANGED req
    BY <1>4, <1>6
  <2> QED
    BY <1>2, <1>3, <1>6, <2>1 DEF Recent
<1>7. ASSUME NEW p \in Procs, LoopKinds(p) PROVE Recent'
  BY <1>4, <1>6, <1>7 DEF LoopKinds, Skipped, Picked, Rewritten, WipeStarts, Wiped, Carries, Holds
<1>8. ASSUME NEW o \in Ops, OpMoves(o) PROVE Recent'
  <2>1. o \in Procs /\ o \notin Calls /\ Jumps(o, pc'[o])
    BY <1>4, <1>8, ConstantsAssumption DEF Procs, OpMoves
  <2> QED
    BY <1>6, <2>1
<1>9. ASSUME NEW k \in Keys, Ages(k) PROVE Recent'
  BY <1>1, <1>9 DEF Ages, Recent, Holds, server
<1> QED
  BY <1>5, <1>7, <1>8, <1>9, NextSteps

\* A call with cacheMode off gets a token issued after its request began,
\* however many calls share promises, in any interleaving.
THEOREM OffCallsFresh == Spec => []OffIsFresh
<1> DEFINE Inv == Typed /\ Sharing /\ Recent /\ OffIsFresh
<1>1. Init => Inv
  <2> SUFFICES ASSUME Init PROVE Inv
    OBVIOUS
  <2>1. Typed /\ Sharing /\ OffIsFresh
    BY InitTyped DEF Init, Sharing, OffIsFresh, Procs
  <2>2. issued \in Nat
    BY <2>1, InHand
  <2>3. Recent
    BY <2>2 DEF Init, Recent, Holds, Procs
  <2> QED
    BY <2>1, <2>3
<1>2. Inv /\ [Next]_vars => Inv'
  <2>1. ASSUME Inv, UNCHANGED vars PROVE Inv'
    <3>1. UNCHANGED <<pc, req, result, reg, issued>>
      BY <2>1 DEF vars, server
    <3> QED
      BY <2>1, <3>1, NextTyped DEF Sharing, Recent, Holds, OffIsFresh
  <2>2. ASSUME Inv, Next PROVE Inv'
    <3>1. Typed' /\ Sharing' /\ Recent'
      BY <2>2, NextTyped, NextSharing, NextRecent
    <3>2. \A p, l : Jumps(p, l) => UNCHANGED <<req, result>>
      BY DEF Jumps
    <3>3. ASSUME NEW c \in Calls, NEW at, Settles(c, "token", at), req[c].mode = "off" => at > req[c].since
          PROVE  OffIsFresh'
      <4>1. \A d \in Calls : Shares(d, c) => req[d].mode = req[c].mode /\ req[d].since = req[c].since
        BY <2>2 DEF Shares, Sharing
      <4> QED
        BY <2>2, <3>3, <4>1 DEF Settles, OffIsFresh
    <3>4. ASSUME NEW c \in Calls, NEW outcome \in {"none", "error"}, Settles(c, outcome, 0)
          PROVE  OffIsFresh'
      BY <2>2, <3>4 DEF Settles, OffIsFresh
    <3>5. ASSUME UNCHANGED <<req, result>> PROVE OffIsFresh'
      BY <2>2, <3>5 DEF OffIsFresh
    <3>6. ASSUME NEW c \in Calls, CallKinds(c) PROVE OffIsFresh'
      <4>1. CASE Invoked(c)
        BY <2>2, <4>1 DEF Invoked, OffIsFresh, Recent
      <4>2. CASE Missed(c) \/ Failed(c) \/ StripFailed(c) \/ AnswerLost(c) \/ Dropped(c)
        BY <3>2, <3>4, <3>5, <4>2 DEF Missed, Failed, StripFailed, AnswerLost, Dropped
      <4>3. CASE Hit(c)
        BY <2>2, <3>3, <4>3 DEF Hit, Recent
      <4>4. CASE Returned(c)
        BY <2>2, <3>3, <4>4 DEF Returned, Recent, Holds
      <4>5. CASE ReadExpired(c) \/ Entered(c) \/ Sent(c) \/ StripSent(c)
        BY <3>2, <3>5, <4>5 DEF ReadExpired, Entered, Sent, StripSent, Leaves
      <4>6. CASE Answered(c)
        BY <3>2, <3>5, <4>6 DEF Answered
      <4>7. CASE SavedId(c) \/ Saved(c)
        BY <3>2, <3>5, <4>7 DEF SavedId, Saved
      <4> QED
        BY <3>6, <4>1, <4>2, <4>3, <4>4, <4>5, <4>6, <4>7 DEF CallKinds
    <3>7. ASSUME NEW p \in Procs, LoopKinds(p) PROVE UNCHANGED <<req, result>>
      BY <3>2, <3>7 DEF LoopKinds, Skipped, Picked, Rewritten, WipeStarts, Wiped
    <3>8. \A o \in Ops : OpMoves(o) => UNCHANGED <<req, result>>
      BY <3>2 DEF OpMoves
    <3>9. \A k \in Keys : Ages(k) => UNCHANGED <<req, result>>
      BY DEF Ages
    <3> QED
      BY <2>2, <3>1, <3>5, <3>6, <3>7, <3>8, <3>9, NextSteps
  <2> QED
    BY <2>1, <2>2
<1>3. Inv => OffIsFresh
  OBVIOUS
<1> HIDE DEF Inv
<1> QED
  BY <1>1, <1>2, <1>3, PTL DEF Spec

-----------------------------------------------------------------------------
(* Online refresh tokens *)

\* A step of p; at most it settles calls that share p's promise.
Alone(p) ==
  \A q \in Procs \ {p} :
    reg'[q] = reg[q] /\ (pc'[q] = pc[q] \/ (q \in Calls /\ pc[q] = "joined" /\ pc'[q] = "settled"))

\* A process that moves leaves the others where they are.
LEMMA AloneSteps ==
  /\ \A p \in Procs : \A l : Jumps(p, l) => Alone(p) /\ pc'[p] = l /\ UNCHANGED req
  /\ \A c \in Calls : \A outcome, at :
       Settles(c, outcome, at) => Alone(c) /\ pc'[c] = "settled" /\ reg'[c] = NoReg /\ UNCHANGED req
  /\ \A c \in Calls : Invoked(c) => Alone(c)
<1>1. \A c \in Calls : c \in Procs
  BY DEF Procs
<1> QED
  BY <1>1 DEF Jumps, Settles, Shares, Invoked, Alone

LoginRts == {LoginRt[j] : j \in LoginKeys}

OnlineCache == \A k \in Keys : Present(k) => cache[k].rt \in LoginRts

\* What a call is about to write back, send or save.
OnlineCall(c) ==
  /\ pc[c] \in {"strip1", "strip2", "strip3"} => reg[c].entry.rt \in LoginRts
  /\ pc[c] = "sent" => reg[c].old \in LoginRts
  /\ pc[c] \in {"answered", "save"} => reg[c].new \in LoginRts
  /\ pc[c] = "rewrite" => reg[c].todo = {}
  /\ pc[c] # "rewriteSet"

Online ==
  OnlineAccess /\ revoked = {} =>
    /\ OnlineCache
    /\ \A c \in Calls : OnlineCall(c)
    /\ \A o \in Ops : pc[o] \notin {"revoked", "rewrite", "rewriteSet"}

\* Every step keeps the online token.
LEMMA NextOnline ==
  ASSUME Typed, Next, Online
  PROVE  Online'
<1> SUFFICES ASSUME OnlineAccess, revoked' = {}
             PROVE  /\ OnlineCache'
                    /\ \A c \in Calls : OnlineCall(c)'
                    /\ \A o \in Ops : pc'[o] \notin {"revoked", "rewrite", "rewriteSet"}
  BY DEF Online
<1> DEFINE Goal == /\ OnlineCache'
                   /\ \A c \in Calls : OnlineCall(c)'
                   /\ \A o \in Ops : pc'[o] \notin {"revoked", "rewrite", "rewriteSet"}
<1>1. /\ OnlineCache
      /\ \A c \in Calls : OnlineCall(c)
      /\ \A o \in Ops : pc[o] \notin {"revoked", "rewrite", "rewriteSet"}
  BY ServerGrows DEF Online
<1>2. /\ \A c \in Calls : c \in Procs
      /\ \A o \in Ops : o \in Procs /\ o \notin Calls
      /\ 0 \notin LoginRts
  BY ConstantsAssumption DEF Procs, LoginRts, LoginKeys
\* The others' part follows from the step's own.
<1>3. ASSUME NEW p \in Procs, Alone(p), OnlineCache', p \in Calls => OnlineCall(p)',
             p \in Ops => pc'[p] \notin {"revoked", "rewrite", "rewriteSet"}
      PROVE  Goal
  <2>1. ASSUME NEW c \in Calls PROVE OnlineCall(c)'
    <3>1. OnlineCall(c)
      BY <1>1
    <3>2. CASE c # p
      BY <1>2, <1>3, <3>1, <3>2 DEF OnlineCall, Alone
    <3> QED
      BY <1>3, <3>2
  <2>2. ASSUME NEW o \in Ops PROVE pc'[o] \notin {"revoked", "rewrite", "rewriteSet"}
    BY <1>1, <1>2, <1>3 DEF Alone
  <2> QED
    BY <1>3, <2>1, <2>2
<1>4. UNCHANGED cache => OnlineCache'
  BY <1>1 DEF OnlineCache, Present
<1>5. ASSUME NEW k \in Keys, NEW e, Writes(k, e), e.exp # "none" => e.rt \in LoginRts
      PROVE  OnlineCache'
  BY <1>1, <1>5 DEF OnlineCache, Present, Writes
<1>6. ASSUME NEW c \in Calls, CallKinds(c) PROVE Goal
  <2> HIDE DEF Goal
  <2>0. c \in Procs /\ (c \notin Ops) /\ OnlineCall(c) /\ reg[c].key \in Keys /\ req[c].key \in Keys
    BY <1>1, <1>2, InHand
  <2>1. ASSUME NEW l \in {"joined", "lockWait", "check1", "check2", "readRt", "wipe", "settled"},
               pc'[c] = l, Alone(c), OnlineCache'
        PROVE  Goal
    <3>1. OnlineCall(c)'
      BY <2>1 DEF OnlineCall
    <3> QED
      BY <1>3, <2>0, <2>1, <3>1
  <2>2. CASE Invoked(c)
    <3>1. pc'[c] \in {"joined", "lockWait", "check1"} /\ UNCHANGED cache
      BY <2>2 DEF Invoked, Shared
    <3> QED
      BY <1>4, <2>1, <2>2, <3>1, AloneSteps
  <2>3. ASSUME UNCHANGED cache, \E outcome, at : Settles(c, outcome, at) PROVE Goal
    BY <1>4, <2>1, <2>3, AloneSteps
  <2>4. CASE Hit(c) \/ Failed(c) \/ AnswerLost(c) \/ Returned(c)
    BY <2>3, <2>4 DEF Hit, Failed, AnswerLost, Returned, Spends, Shared
  <2>5. CASE Missed(c)
    <3>1. OnlineCache'
      <4>1. CASE pc[c] \in {"check1", "check2"}
        BY <1>4, <2>5, <4>1 DEF Missed
      <4>2. CASE pc[c] \in {"strip1", "strip2"}
        <5>1. Writes(reg[c].key, StrippedEntry(reg[c].entry))
          BY <2>5, <4>2 DEF Missed
        <5>2. reg[c].entry.rt \in LoginRts /\ reg[c].entry \in Entry
          BY <2>0, <4>2, InHand DEF OnlineCall
        <5>3. StrippedEntry(reg[c].entry).rt \in LoginRts
          BY <1>2, <5>2 DEF StrippedEntry, Entry
        <5> QED
          BY <1>5, <2>0, <5>1, <5>3
      <4> QED
        BY <2>5, <4>1, <4>2 DEF Missed
    <3>2. Alone(c) /\ pc'[c] \in {"readRt", "lockWait", "settled"}
      BY <2>0, <2>5, AloneSteps DEF Missed
    <3> QED
      BY <2>1, <3>1, <3>2
  <2>6. CASE ReadExpired(c)
    <3>1. Alone(c) /\ pc'[c] \in {"strip1", "strip2", "strip3"} /\ UNCHANGED cache
      BY <2>0, <2>6, AloneSteps DEF ReadExpired, Shared
    <3>2. reg'[c].entry.rt \in LoginRts
      BY <1>1, <2>6 DEF ReadExpired, OnlineCache
    <3>3. OnlineCall(c)'
      BY <3>1, <3>2 DEF OnlineCall
    <3> QED
      BY <1>3, <1>4, <2>0, <3>1, <3>3
  <2>7. CASE Entered(c)
    BY <1>4, <2>0, <2>1, <2>7, AloneSteps DEF Entered, Shared
  <2>8. CASE StripFailed(c)
    <3>1. OnlineCache'
      BY <1>5, <2>0, <2>8 DEF StripFailed, NoEntry
    <3> QED
      BY <2>0, <2>1, <2>8, <3>1, AloneSteps DEF StripFailed
  <2>9. ASSUME NEW j, NEW rt \in LoginRts, Leaves(c, j, rt), OnlineCache' PROVE Goal
    <3>1. Alone(c) /\ pc'[c] = "sent" /\ reg'[c].old = rt
      BY <2>0, <2>9, AloneSteps DEF Leaves
    <3>2. OnlineCall(c)'
      BY <3>1 DEF OnlineCall
    <3> QED
      BY <1>3, <2>0, <2>9, <3>1, <3>2
  <2>10. CASE Sent(c)
    BY <1>1, <1>4, <2>9, <2>10 DEF Sent, OnlineCache
  <2>11. CASE StripSent(c)
    <3>1. reg[c].entry.rt \in LoginRts /\ reg[c].entry \in Entry
      BY <2>0, <2>11, InHand DEF OnlineCall, StripSent
    <3>2. [reg[c].entry EXCEPT !.at = 0].rt \in LoginRts
      BY <3>1 DEF Entry
    <3> QED
      BY <1>5, <2>0, <2>9, <2>11, <3>1, <3>2 DEF StripSent
  <2>12. CASE Answered(c)
    <3>1. Alone(c) /\ pc'[c] = "answered" /\ UNCHANGED cache
      BY <2>0, <2>12, AloneSteps DEF Answered, Spends
    <3>2. reg'[c].new = reg[c].old /\ pc[c] = "sent"
      BY <2>12 DEF Answered
    <3>3. OnlineCall(c)'
      BY <2>0, <3>1, <3>2 DEF OnlineCall
    <3> QED
      BY <1>3, <1>4, <2>0, <3>1, <3>3
  <2>13. CASE SavedId(c)
    <3>1. Alone(c) /\ pc'[c] = "save" /\ UNCHANGED cache /\ reg'[c] = reg[c] /\ pc[c] = "answered"
      BY <2>0, <2>13, AloneSteps DEF SavedId, Shared
    <3>2. OnlineCall(c)'
      BY <2>0, <3>1 DEF OnlineCall
    <3> QED
      BY <1>3, <1>4, <2>0, <3>1, <3>2
  <2>14. CASE Saved(c)
    <3>1. Alone(c) /\ pc'[c] = "rewrite" /\ reg'[c].todo = {} /\ pc[c] = "save"
      BY <2>0, <2>14, AloneSteps DEF Saved
    <3>2. OnlineCache'
      BY <1>5, <2>0, <2>14 DEF Saved, OnlineCall
    <3>3. OnlineCall(c)'
      BY <3>1 DEF OnlineCall
    <3> QED
      BY <1>3, <2>0, <3>1, <3>2, <3>3
  <2>15. CASE Dropped(c)
    <3>1. OnlineCache'
      BY <1>5, <2>0, <2>15 DEF Dropped, NoEntry
    <3> QED
      BY <2>0, <2>1, <2>15, <3>1, AloneSteps DEF Dropped
  <2> QED
    BY <1>6, <2>2, <2>4, <2>5, <2>6, <2>7, <2>8, <2>10, <2>11, <2>12, <2>13, <2>14, <2>15 DEF CallKinds
<1>7. ASSUME NEW p \in Procs, LoopKinds(p) PROVE Goal
  <2> HIDE DEF Goal
  <2>1. p \in Calls => OnlineCall(p) /\ p \notin Ops
    BY <1>1, <1>2
  <2>2. p \in Calls \/ p \in Ops
    BY DEF Procs
  <2>3. ~Skipped(p) /\ ~Picked(p) /\ ~Rewritten(p)
    BY <1>1, <2>1, <2>2 DEF Skipped, Picked, Rewritten, OnlineCall
  <2>4. Alone(p) /\ pc'[p] = "wipe"
    BY <1>7, <2>3, AloneSteps DEF LoopKinds, WipeStarts, Wiped
  <2>5. OnlineCall(p)'
    BY <2>4 DEF OnlineCall
  <2>6. OnlineCache'
    BY <1>4, <1>5, <1>7, <2>3 DEF LoopKinds, WipeStarts, Wiped, Shared, NoEntry
  <2> QED
    BY <1>3, <2>4, <2>5, <2>6
<1>8. ASSUME NEW o \in Ops, OpMoves(o) PROVE Goal
  <2> HIDE DEF Goal
  <2>1. Alone(o) /\ UNCHANGED cache /\ o \notin Calls
    BY <1>2, <1>8, AloneSteps DEF OpMoves
  <2>2. pc'[o] \notin {"revoked", "rewrite", "rewriteSet"}
    <3>1. pc[o] \notin {"revoked", "rewrite", "rewriteSet"}
      BY <1>1
    <3>2. ~(revoked' = revoked \cup {reg[o].old})
      OBVIOUS
    <3> QED
      BY <1>2, <1>8, <3>1, <3>2, AloneSteps DEF OpMoves
  <2> QED
    BY <1>2, <1>3, <1>4, <2>1, <2>2
<1>9. ASSUME NEW k \in Keys, Ages(k) PROVE Goal
  <2>1. OnlineCache'
    <3>1. Writes(k, cache'[k]) /\ cache'[k].rt = cache[k].rt /\ Present(k)
      BY <1>9 DEF Ages
    <3>2. cache[k].rt \in LoginRts
      BY <1>1, <3>1 DEF OnlineCache
    <3> QED
      BY <1>5, <3>1, <3>2
  <2>2. UNCHANGED <<pc, reg>>
    BY <1>9 DEF Ages
  <2> QED
    BY <1>1, <2>1, <2>2 DEF OnlineCall
<1> QED
  BY <1>6, <1>7, <1>8, <1>9, NextSteps DEF Goal

\* As long as nothing is revoked, every cache entry keeps a refresh token of a
\* login in online mode, through strips, refreshes and saves in any order.
THEOREM OnlineTokensKept == Spec => []OnlineTokenKept
<1>1. Init => Online
  BY DEF Init, Online, OnlineCache, OnlineCall, Present, NoEntry, LoginRts, Procs
<1>2. Typed /\ Online /\ [Next]_vars => Online'
  <2>1. ASSUME Online, UNCHANGED vars PROVE Online'
    BY <2>1 DEF vars, server, Online, OnlineCache, OnlineCall, Present
  <2> QED
    BY <2>1, NextOnline
<1>3. Online => OnlineTokenKept
  BY DEF Online, OnlineCache, OnlineTokenKept, LoginRts
<1> QED
  BY <1>1, <1>2, <1>3, InitTyped, NextTyped, PTL DEF Spec

-----------------------------------------------------------------------------
(* Access tokens fit the request *)

\* Storage that lets nobody in between two accesses of one page, or refresh
\* tokens for one audience only.
Serial == ~Interleaved \/ TRUE \notin MrrtSettings

\* Among the grants g, one for the access token at that does for key k.
Fits(g, at, k) ==
  \E j \in Keys : <<at, j>> \in g /\ AudOf[j] = AudOf[k] /\ ScopeOf[k] \subseteq ScopeOf[j]

\* Call p is on the way to drop the entry of key k again: its token is too narrow.
Narrow(p, k) ==
  p \in Calls /\ pc[p] \in {"rewrite", "rewriteSet"} /\ reg[p].narrow /\ req[p].key = k

FitCache ==
  \A k \in Keys : cache[k].at # 0 => Fits(grants, cache[k].at, k) \/ \E c \in Calls : Narrow(c, k)

\* What p is about to write, and to return.
FitProc(p) ==
  /\ pc[p] = "rewriteSet" /\ reg[p].entry.at # 0 =>
       Fits(grants, reg[p].entry.at, reg[p].key) \/ Narrow(p, reg[p].key)
  /\ p \in Calls /\ Holds(p) /\ ~reg[p].narrow => <<reg[p].at, req[p].key>> \in grants
  /\ p \in Calls /\ reg[p].narrow => useMrrt

Fit == FitCache /\ \A p \in Procs : FitProc(p)

\* While it has its turn a process that reads the cache sees no entry that is
\* about to be dropped.
LEMMA NoneNarrow ==
  ASSUME Typed, Serial, Fit, NEW p \in Procs, Turn(p), pc[p] \in {"check1", "check2", "rewrite"},
         NEW c \in Calls, NEW k \in Keys, Narrow(c, k)
  PROVE  c = p
<1>1. c \in Procs /\ useMrrt \in MrrtSettings
  BY Parts DEF Procs, ServerTyped
<1>2. useMrrt
  BY <1>1 DEF Fit, FitProc, Narrow
<1>3. ~Interleaved
  BY <1>1, <1>2, InHand DEF Serial
<1> QED
  BY <1>1, <1>3 DEF Turn, Narrow, Waiting, Starting

\* The parts of the other processes survive a step of p.
LEMMA FitOthers ==
  ASSUME Typed, Next, Fit, NEW p \in Procs, Alone(p),
         \A c \in Calls \ {p} : req'[c] = req[c],
         \A k \in Keys : \/ cache'[k].at = cache[k].at /\ (Narrow(p, k) => Narrow(p, k)')
                         \/ cache'[k].at = 0 \/ Fits(grants', cache'[k].at, k) \/ Narrow(p, k)',
         FitProc(p)'
  PROVE  Fit'
<1>1. grants \subseteq grants' /\ useMrrt' = useMrrt
  BY ServerGrows
<1>2. \A at : \A k \in Keys : Fits(grants, at, k) => Fits(grants', at, k)
  BY <1>1 DEF Fits
<1>3. \A c \in Calls : c \in Procs
  BY DEF Procs
<1>4. ASSUME NEW c \in Calls, c # p, NEW k \in Keys, Narrow(c, k) PROVE Narrow(c, k)'
  BY <1>3, <1>4 DEF Alone, Narrow
<1>5. FitCache'
  <2> SUFFICES ASSUME NEW k \in Keys, cache'[k].at # 0
               PROVE  Fits(grants', cache'[k].at, k) \/ \E c \in Calls : Narrow(c, k)'
    BY DEF FitCache
  <2>1. CASE Fits(grants', cache'[k].at, k)
    BY <2>1
  <2>2. CASE Narrow(p, k)'
    BY <2>2 DEF Narrow
  <2>3. CASE cache'[k].at = cache[k].at /\ (Narrow(p, k) => Narrow(p, k)')
    <3>1. CASE Fits(grants, cache[k].at, k)
      <4>1. Fits(grants', cache[k].at, k)
        BY <1>2, <3>1
      <4>2. Fits(grants', cache'[k].at, k)
        BY <2>3, <4>1 DEF Fits
      <4> QED
        BY <4>2
    <3>2. ASSUME NEW c \in Calls, Narrow(c, k) PROVE \E d \in Calls : Narrow(d, k)'
      BY <1>4, <2>3, <3>2
    <3> QED
      BY <2>3, <3>1, <3>2 DEF Fit, FitCache
  <2> QED
    BY <2>1, <2>2, <2>3
<1>6. ASSUME NEW q \in Procs, q # p PROVE FitProc(q)'
  <2>1. /\ reg'[q] = reg[q] /\ (pc'[q] = pc[q] \/ pc'[q] = "settled") /\ (q \in Calls => req'[q] = req[q])
        /\ reg[q].key \in Keys
    BY <1>6, InHand DEF Alone
  <2>2. FitProc(q)
    BY DEF Fit
  <2>3. ASSUME pc'[q] = "rewriteSet", reg'[q].entry.at # 0
        PROVE  Fits(grants', reg'[q].entry.at, reg'[q].key) \/ Narrow(q, reg[q].key)'
    <3>1. Fits(grants, reg[q].entry.at, reg[q].key) \/ Narrow(q, reg[q].key)
      BY <2>1, <2>2, <2>3 DEF FitProc
    <3>2. CASE Fits(grants, reg[q].entry.at, reg[q].key)
      <4>1. Fits(grants', reg[q].entry.at, reg[q].key)
        BY <1>1, <2>1, <3>2 DEF Fits
      <4> QED
        BY <2>1, <4>1
    <3>3. CASE Narrow(q, reg[q].key)
      BY <2>1, <2>3, <3>3 DEF Narrow
    <3> QED
      BY <3>1, <3>2, <3>3
  <2>4. q \in Calls /\ Holds(q)' /\ ~reg'[q].narrow => <<reg'[q].at, req'[q].key>> \in grants'
    BY <1>1, <2>1, <2>2 DEF FitProc, Holds
  <2>5. q \in Calls /\ reg'[q].narrow => useMrrt'
    BY <1>1, <2>1, <2>2 DEF FitProc
  <2> QED
    BY <2>3, <2>4, <2>5 DEF FitProc
<1> QED
  BY <1>5, <1>6 DEF Fit

\* Every step keeps tokens and requests together.
LEMMA NextFit ==
  ASSUME Typed, Next, Serial, Fit
  PROVE  Fit'
<1>1. /\ \A c \in Calls : c \in Procs
      /\ \A o \in Ops : o \in Procs /\ o \notin Calls
      /\ NoReg.narrow = FALSE /\ useMrrt' = useMrrt
  BY ConstantsAssumption, ServerGrows DEF Procs, NoReg
\* Steps of p that end outside the save.
<1>2. ASSUME NEW p \in Procs, Alone(p), \A c \in Calls \ {p} : req'[c] = req[c], ~Holds(p)',
             p \in Calls => (reg'[p].narrow => reg[p].narrow) /\ (~Holds(p) \/ ~reg[p].narrow),
             \A k \in Keys : cache'[k].at \in {cache[k].at, 0}
      PROVE  Fit'
  <2>1. FitProc(p)
    BY DEF Fit
  <2>2. FitProc(p)'
    BY <1>1, <1>2, <2>1 DEF FitProc, Holds
  <2>3. \A k \in Keys : ~Narrow(p, k)
    BY <1>2 DEF Narrow, Holds
  <2> QED
    BY <1>2, <2>2, <2>3, FitOthers
<1>3. UNCHANGED cache => \A k \in Keys : cache'[k].at \in {cache[k].at, 0}
  OBVIOUS
<1>4. ASSUME NEW k \in Keys, NEW e, Writes(k, e), e.at = 0
      PROVE  \A j \in Keys : cache'[j].at \in {cache[j].at, 0}
  BY <1>4 DEF Writes
<1>5. \A e \in Entry : StrippedEntry(e).at = 0 /\ [e EXCEPT !.at = 0].at = 0
  BY DEF StrippedEntry, Entry, NoEntry
\* Steps of a call up to its answer, and those that settle it.
<1>6. ASSUME NEW c \in Calls, CallKinds(c), ~Answered(c), ~SavedId(c), ~Saved(c), ~Dropped(c)
      PROVE  Fit'
  <2>0. c \in Procs /\ reg[c].key \in Keys /\ reg[c].entry \in Entry
    BY <1>1, InHand
  <2>1. Alone(c) /\ \A d \in Calls \ {c} : req'[d] = req[d]
    BY <1>6, <2>0, AloneSteps
       DEF CallKinds, Invoked, Missed, Hit, ReadExpired, Entered, Failed, StripFailed, Sent, StripSent,
           Leaves, AnswerLost, Returned
  <2>2. ~Holds(c)' /\ (reg'[c].narrow => reg[c].narrow) /\ (~Holds(c) \/ ~reg[c].narrow)
    <3>1. CASE Invoked(c) \/ Missed(c) \/ Hit(c) \/ ReadExpired(c)
      BY <1>1, <2>0, <3>1, AloneSteps DEF Invoked, Missed, Hit, ReadExpired, Holds
    <3>2. CASE Entered(c) \/ Failed(c) \/ StripFailed(c)
      BY <1>1, <2>0, <3>2, AloneSteps DEF Entered, Failed, StripFailed, Holds
    <3>3. CASE Sent(c) \/ StripSent(c)
      BY <2>0, <3>3, AloneSteps DEF Sent, StripSent, Leaves, Holds
    <3>4. CASE AnswerLost(c) \/ Returned(c)
      BY <1>1, <2>0, <3>4, AloneSteps DEF AnswerLost, Returned, Holds
    <3> QED
      BY <1>6, <3>1, <3>2, <3>3, <3>4 DEF CallKinds
  <2>3. \A k \in Keys : cache'[k].at \in {cache[k].at, 0}
    <3>1. CASE UNCHANGED cache
      BY <3>1, <1>3
    <3>2. CASE Missed(c) \/ StripFailed(c) \/ StripSent(c)
      <4>1. UNCHANGED cache \/ \E e : Writes(reg[c].key, e) /\ e.at = 0
        BY <1>5, <2>0, <3>2 DEF Missed, StripFailed, StripSent, NoEntry
      <4> QED
        BY <1>3, <1>4, <2>0, <4>1
    <3>3. CASE Invoked(c) \/ Hit(c) \/ ReadExpired(c) \/ Entered(c) \/ Failed(c) \/ Sent(c) \/ AnswerLost(c)
               \/ Returned(c)
      BY <3>1, <3>3 DEF Invoked, Hit, ReadExpired, Entered, Failed, Sent, AnswerLost, Returned, Spends, Shared
    <3> QED
      BY <1>6, <3>2, <3>3 DEF CallKinds
  <2> QED
    BY <1>2, <2>0, <2>1, <2>2, <2>3
<1>7. ASSUME NEW c \in Calls, Answered(c) \/ SavedId(c) \/ Saved(c) \/ Dropped(c) PROVE Fit'
  <2>0. c \in Procs /\ req[c].key \in Keys /\ FitProc(c)
    BY <1>1, InHand DEF Fit
  <2>1. CASE Answered(c)
    <3>1. Alone(c) /\ pc'[c] = "answered" /\ UNCHANGED req /\ pc[c] = "sent" /\ reg'[c].at = issued + 1
      BY <2>0, <2>1, AloneSteps DEF Answered
    <3>2. reg'[c].narrow \in {FALSE, useMrrt} /\ UNCHANGED cache
      BY <2>1 DEF Answered, Spends
    <3>3. ~reg'[c].narrow => <<issued + 1, req[c].key>> \in grants'
      BY <2>1 DEF Answered, Spends
    <3>4. FitProc(c)'
      BY <1>1, <3>1, <3>2, <3>3 DEF FitProc, Holds
    <3>5. \A k \in Keys : ~Narrow(c, k)
      BY <3>1 DEF Narrow
    <3> QED
      BY <2>0, <3>1, <3>2, <3>4, <3>5, FitOthers
  <2>2. CASE SavedId(c)
    <3>1. /\ Alone(c) /\ pc'[c] = "save" /\ UNCHANGED req /\ pc[c] = "answered" /\ reg'[c] = reg[c]
          /\ UNCHANGED cache /\ UNCHANGED grants
      BY <2>0, <2>2, AloneSteps DEF SavedId, Shared, server
    <3>2. FitProc(c)'
      BY <1>1, <2>0, <3>1 DEF FitProc, Holds
    <3>3. \A k \in Keys : ~Narrow(c, k)
      BY <3>1 DEF Narrow
    <3> QED
      BY <2>0, <3>1, <3>2, <3>3, FitOthers
  <2>3. CASE Saved(c)
    <3>1. /\ Alone(c) /\ pc'[c] = "rewrite" /\ UNCHANGED req /\ pc[c] = "save"
          /\ UNCHANGED grants /\ reg'[c].at = reg[c].at /\ reg'[c].narrow = reg[c].narrow
          /\ Writes(req[c].key, [at |-> reg[c].at, exp |-> "fresh", rt |-> reg[c].new])
      BY <2>0, <2>3, AloneSteps DEF Saved, server, Carries
    <3>2. FitProc(c)'
      BY <1>1, <2>0, <3>1 DEF FitProc, Holds
    <3>3. CASE reg[c].narrow
      <4>1. Narrow(c, req[c].key)'
        BY <3>1, <3>3 DEF Narrow
      <4>2. \A k \in Keys \ {req[c].key} : cache'[k] = cache[k] /\ ~Narrow(c, k)
        BY <3>1 DEF Writes, Narrow
      <4>3. Narrow(c, req[c].key)' = (\E k \in Keys : k = req[c].key /\ Narrow(c, k)')
        BY <2>0, <3>1, <4>1
      <4>4. \A k \in Keys : (cache'[k].at = cache[k].at /\ ~Narrow(c, k)) \/ Narrow(c, k)'
        BY <4>1, <4>2, <4>3
      <4> QED
        BY <2>0, <3>1, <3>2, <4>4, FitOthers
    <3>4. CASE ~reg[c].narrow
      <4>1. <<reg[c].at, req[c].key>> \in grants'
        BY <2>0, <3>1, <3>4 DEF FitProc, Holds
      <4>2. cache'[req[c].key].at = reg[c].at
        BY <2>0, <3>1 DEF Writes
      <4>3. Fits(grants', cache'[req[c].key].at, req[c].key)
        BY <2>0, <4>1, <4>2 DEF Fits
      <4>4. \A k \in Keys \ {req[c].key} : cache'[k] = cache[k] /\ ~Narrow(c, k)
        BY <3>1 DEF Writes, Narrow
      <4> QED
        BY <2>0, <3>1, <3>2, <4>3, <4>4, FitOthers
    <3> QED
      BY <3>3, <3>4
  <2>4. CASE Dropped(c)
    <3>1. /\ Alone(c) /\ pc'[c] = "settled" /\ reg'[c] = NoReg /\ UNCHANGED req
          /\ Writes(req[c].key, NoEntry)
      BY <2>0, <2>4, AloneSteps DEF Dropped
    <3>2. FitProc(c)'
      BY <1>1, <3>1 DEF FitProc, Holds
    <3>3. cache'[req[c].key].at = 0
      BY <2>0, <3>1 DEF Writes, NoEntry
    <3>4. \A k \in Keys \ {req[c].key} : cache'[k] = cache[k] /\ ~Narrow(c, k)
      BY <3>1 DEF Writes, Narrow
    <3> QED
      BY <2>0, <3>1, <3>2, <3>3, <3>4, FitOthers
  <2> QED
    BY <1>7, <2>1, <2>2, <2>3, <2>4
<1>8. ASSUME NEW p \in Procs, LoopKinds(p) PROVE Fit'
  <2>0. reg[p].key \in Keys /\ reg[p].entry \in Entry /\ reg[p].todo \subseteq Keys /\ FitProc(p)
    BY InHand DEF Fit
  <2>1. CASE WipeStarts(p) \/ Wiped(p)
    <3>1. Alone(p) /\ pc'[p] = "wipe" /\ UNCHANGED req
      BY <2>1, AloneSteps DEF WipeStarts, Wiped
    <3>2. ~Holds(p) /\ ~Holds(p)' /\ (reg'[p].narrow => reg[p].narrow)
      BY <2>1, <3>1 DEF WipeStarts, Wiped, Carries, Holds
    <3>3. \A k \in Keys : cache'[k].at \in {cache[k].at, 0}
      BY <1>3, <1>4, <2>1 DEF WipeStarts, Wiped, Shared, NoEntry
    <3> QED
      BY <1>2, <3>1, <3>2, <3>3
  \* The loop keeps its call's part.
  <2>2. ASSUME Alone(p), UNCHANGED req, UNCHANGED grants, Carries(p), Holds(p),
               pc[p] \in {"rewrite", "rewriteSet"}, pc'[p] \in {"rewrite", "rewriteSet"},
               \A k \in Keys : cache'[k].at = cache[k].at \/ Fits(grants', cache'[k].at, k) \/ Narrow(p, k)'
                               \/ cache'[k].at = 0,
               pc'[p] = "rewriteSet" /\ reg'[p].entry.at # 0 =>
                 Fits(grants', reg'[p].entry.at, reg'[p].key) \/ Narrow(p, reg[p].key)'
        PROVE  Fit'
    <3>1. FitProc(p)'
      BY <1>1, <2>0, <2>2 DEF FitProc, Holds, Carries
    <3>2. \A k \in Keys : Narrow(p, k) => Narrow(p, k)'
      BY <2>2 DEF Narrow, Carries
    <3> QED
      BY <2>2, <3>1, <3>2, FitOthers
  <2>3. CASE Skipped(p)
    BY <2>2, <2>3, AloneSteps DEF Skipped, Shared, server, Holds
  <2>4. CASE Picked(p)
    <3>1. /\ Alone(p) /\ UNCHANGED req /\ UNCHANGED grants /\ UNCHANGED cache /\ Carries(p)
          /\ pc[p] = "rewrite" /\ pc'[p] = "rewriteSet" /\ Turn(p) /\ reg'[p].key \in Keys
      BY <2>0, <2>4, AloneSteps DEF Picked, Shared, server
    <3>2. reg'[p].entry.at = cache[reg'[p].key].at
      BY <2>4, <3>1, InHand DEF Picked, Entry
    <3>3. ASSUME cache[reg'[p].key].at # 0
          PROVE  Fits(grants, cache[reg'[p].key].at, reg'[p].key) \/ Narrow(p, reg'[p].key)
      BY <3>1, <3>3, NoneNarrow DEF Fit, FitCache
    <3>4. Narrow(p, reg'[p].key) => Narrow(p, reg[p].key)'
      BY <3>1 DEF Narrow, Carries
    <3> QED
      BY <2>2, <3>1, <3>2, <3>3, <3>4 DEF Holds
  <2>5. CASE Rewritten(p)
    <3>1. /\ Alone(p) /\ UNCHANGED req /\ UNCHANGED grants /\ Carries(p)
          /\ pc[p] = "rewriteSet" /\ pc'[p] = "rewrite" /\ Writes(reg[p].key, reg[p].entry)
      BY <2>5, AloneSteps DEF Rewritten, server
    <3>2. cache'[reg[p].key] = reg[p].entry /\ \A k \in Keys \ {reg[p].key} : cache'[k] = cache[k]
      BY <2>0, <3>1 DEF Writes
    <3>3. \A k \in Keys : Narrow(p, k) => Narrow(p, k)'
      BY <3>1 DEF Narrow, Carries
    <3>4. \/ cache'[reg[p].key].at = 0 \/ Fits(grants', cache'[reg[p].key].at, reg[p].key)
          \/ Narrow(p, reg[p].key)
      BY <2>0, <3>1, <3>2 DEF FitProc
    <3> QED
      BY <2>0, <2>2, <3>1, <3>2, <3>3, <3>4 DEF Holds
  <2> QED
    BY <1>8, <2>1, <2>3, <2>4, <2>5 DEF LoopKinds
<1>9. ASSUME NEW o \in Ops, OpMoves(o) PROVE Fit'
  <2>1. Alone(o) /\ UNCHANGED req /\ UNCHANGED cache /\ pc'[o] # "rewriteSet"
    BY <1>1, <1>9, AloneSteps DEF OpMoves
  <2>2. FitProc(o)'
    BY <1>1, <2>1 DEF FitProc
  <2>3. \A k \in Keys : ~Narrow(o, k)
    BY <1>1 DEF Narrow
  <2> QED
    BY <1>1, <2>1, <2>2, <2>3, FitOthers
<1>10. ASSUME NEW k \in Keys, Ages(k) PROVE Fit'
  <2>1. UNCHANGED <<pc, req, reg, grants, useMrrt>> /\ \A j \in Keys : cache'[j].at = cache[j].at
    BY <1>10 DEF Ages, Writes, server
  <2> QED
    BY <2>1 DEF Fit, FitCache, FitProc, Narrow, Holds
<1> QED
  BY <1>6, <1>7, <1>8, <1>9, <1>10, NextSteps DEF CallKinds

\* A call only gets an access token issued for its audience and for at least
\* its scopes. With multi-resource refresh tokens this needs storage accesses
\* that run undisturbed: a token too narrow for its key is in the cache until
\* the call that saved it has checked its scopes.
THEOREM TokensFitRequests ==
  ASSUME Serial
  PROVE  Spec => []TokenFitsRequest
<1> DEFINE Inv == Typed /\ Sharing /\ Recent /\ Fit /\ TokenFitsRequest
<1>1. Init => Inv
  <2> SUFFICES ASSUME Init PROVE Inv
    OBVIOUS
  <2>1. Typed /\ Sharing /\ TokenFitsRequest
    BY InitTyped DEF Init, Sharing, TokenFitsRequest, Procs
  <2>2. issued \in Nat /\ \A c \in Calls : c \in Procs
    BY <2>1, InHand
  <2>3. Recent
    BY <2>2 DEF Init, Recent, Holds
  <2>4. FitCache
    <3> SUFFICES ASSUME NEW k \in Keys, cache[k].at # 0 PROVE Fits(grants, cache[k].at, k)
      BY DEF FitCache
    <3>1. k \in LoginKeys /\ cache[k].at = LoginRt[k]
      BY DEF Init, NoEntry
    <3>2. <<LoginRt[k], k>> \in grants
      BY <3>1 DEF Init
    <3> QED
      BY <3>1, <3>2 DEF Fits
  <2>5. \A p \in Procs : FitProc(p)
    BY <2>2 DEF Init, FitProc, Holds, NoReg
  <2> QED
    BY <2>1, <2>3, <2>4, <2>5 DEF Fit
<1>2. Inv /\ [Next]_vars => Inv'
  <2>1. ASSUME Inv, UNCHANGED vars PROVE Inv'
    <3>1. UNCHANGED <<cache, pc, req, result, reg, issued, grants, useMrrt>>
      BY <2>1 DEF vars, server
    <3> QED
      <4>1. Typed' /\ Sharing' /\ Recent'
        BY <2>1, <3>1, NextTyped DEF Sharing, Recent, Holds
      <4>2. Fit'
        BY <2>1, <3>1 DEF Fit, FitCache, FitProc, Narrow, Holds
      <4>3. TokenFitsRequest'
        BY <2>1, <3>1 DEF TokenFitsRequest
      <4> QED
        BY <4>1, <4>2, <4>3
  <2>2. ASSUME Inv, Next PROVE Inv'
    <3>1. Typed' /\ Sharing' /\ Recent' /\ Fit'
      BY <2>2, NextTyped, NextSharing, NextRecent, NextFit
    <3>2. \A p, l : Jumps(p, l) => UNCHANGED <<req, result>>
      BY DEF Jumps
    <3>3. grants \subseteq grants'
      BY <2>2, ServerGrows
    <3>4. TokenFitsRequest <=> \A c \in Calls : result[c].outcome = "token" =>
                                 Fits(grants, result[c].at, req[c].key)
      BY DEF TokenFitsRequest, Fits
    <3>5. TokenFitsRequest' <=> \A c \in Calls : result'[c].outcome = "token" =>
                                  Fits(grants', result'[c].at, req'[c].key)
      BY DEF TokenFitsRequest, Fits
    <3>6. \A at, k : Fits(grants, at, k) => Fits(grants', at, k)
      BY <3>3 DEF Fits
    <3>7. ASSUME NEW c \in Calls, NEW at, Settles(c, "token", at), Fits(grants, at, req[c].key)
          PROVE  TokenFitsRequest'
      <4>1. \A d \in Calls : Shares(d, c) => req[d].key = req[c].key
        BY <2>2 DEF Shares, Sharing
      <4> QED
        BY <2>2, <3>4, <3>5, <3>6, <3>7, <4>1 DEF Settles
    <3>8. ASSUME NEW c \in Calls, NEW outcome \in {"none", "error"}, Settles(c, outcome, 0)
          PROVE  TokenFitsRequest'
      BY <2>2, <3>4, <3>5, <3>6, <3>8 DEF Settles
    <3>9. ASSUME UNCHANGED <<req, result>> PROVE TokenFitsRequest'
      BY <2>2, <3>4, <3>5, <3>6, <3>9
    <3>10. ASSUME NEW c \in Calls, CallKinds(c) PROVE TokenFitsRequest'
      <4>1. CASE Invoked(c)
        BY <2>2, <3>4, <3>5, <3>6, <4>1 DEF Invoked, Recent
      <4>2. CASE Missed(c) \/ Failed(c) \/ StripFailed(c) \/ AnswerLost(c) \/ Dropped(c)
        BY <3>2, <3>8, <3>9, <4>2 DEF Missed, Failed, StripFailed, AnswerLost, Dropped
      <4>3. CASE Hit(c)
        <5>1. PICK j \in Keys : /\ Matches(j, req[c].key) /\ cache[j].exp = "fresh"
                                /\ Settles(c, "token", cache[j].at)
          BY <4>3 DEF Hit
        <5>2. cache[j].at # 0 /\ c \in Procs
          BY <2>2, <5>1, InHand DEF EntryOK
        <5>3. \A d \in Calls : ~Narrow(d, j)
          <6>1. ASSUME NEW d \in Calls, Narrow(d, j) PROVE d = c
            BY <2>2, <4>3, <5>2, <6>1, NoneNarrow DEF Hit
          <6>2. ~Narrow(c, j)
            BY <4>3 DEF Hit, Narrow
          <6> QED
            BY <6>1, <6>2
        <5>4. Fits(grants, cache[j].at, j)
          BY <2>2, <5>2, <5>3 DEF Fit, FitCache
        <5>5. Fits(grants, cache[j].at, req[c].key)
          BY <5>1, <5>4 DEF Fits, Matches
        <5> QED
          BY <3>7, <5>1, <5>5
      <4>4. CASE Returned(c)
        <5>1. c \in Procs /\ req[c].key \in Keys
          BY <2>2, InHand
        <5>2. <<reg[c].at, req[c].key>> \in grants
          BY <2>2, <4>4, <5>1 DEF Fit, FitProc, Holds, Returned
        <5>3. Fits(grants, reg[c].at, req[c].key)
          BY <5>1, <5>2 DEF Fits
        <5> QED
          BY <3>7, <4>4, <5>3 DEF Returned
      <4>5. CASE ReadExpired(c) \/ Entered(c) \/ Sent(c) \/ StripSent(c)
        BY <3>2, <3>9, <4>5 DEF ReadExpired, Entered, Sent, StripSent, Leaves
      <4>6. CASE Answered(c)
        BY <3>2, <3>9, <4>6 DEF Answered
      <4>7. CASE SavedId(c) \/ Saved(c)
        BY <3>2, <3>9, <4>7 DEF SavedId, Saved
      <4> QED
        BY <3>10, <4>1, <4>2, <4>3, <4>4, <4>5, <4>6, <4>7 DEF CallKinds
    <3>11. ASSUME NEW p \in Procs, LoopKinds(p) PROVE UNCHANGED <<req, result>>
      BY <3>2, <3>11 DEF LoopKinds, Skipped, Picked, Rewritten, WipeStarts, Wiped
    <3>12. \A o \in Ops : OpMoves(o) => UNCHANGED <<req, result>>
      BY <3>2 DEF OpMoves
    <3>13. \A k \in Keys : Ages(k) => UNCHANGED <<req, result>>
      BY DEF Ages
    <3> QED
      BY <2>2, <3>1, <3>9, <3>10, <3>11, <3>12, <3>13, NextSteps
  <2> QED
    BY <2>1, <2>2
<1>3. Inv => TokenFitsRequest
  OBVIOUS
<1> HIDE DEF Inv
<1> QED
  BY <1>1, <1>2, <1>3, PTL DEF Spec

-----------------------------------------------------------------------------
(* Rotation: where copies of a refresh token are, and who swaps them *)

WriteBack == {"strip1", "strip2", "strip3", "rewriteSet"}

\* Process p is about to write token v back under key k.
Carried(p, k, v) == pc[p] \in WriteBack /\ reg[p].key = k /\ reg[p].entry.rt = v

Copy(k, v) == v # 0 /\ (cache[k].rt = v \/ \E p \in Procs : Carried(p, k, v))

\* The token of an answer gets under a key: its own first, then the others.
Brings(p, k) ==
  \/ p \in Calls /\ Saved(p) /\ k = req[p].key
  \/ Picked(p) /\ k = reg'[p].key

\* Copies are only made of copies, or of the token of an answer.
LEMMA CopySteps ==
  ASSUME Typed, Next, NEW k \in Keys, NEW v, Copy(k, v)'
  PROVE  Copy(k, v) \/ \E p \in Procs : v = reg[p].new /\ Brings(p, k)
<1> DEFINE Goal == Copy(k, v) \/ \E p \in Procs : v = reg[p].new /\ Brings(p, k)
<1>0. v # 0
  BY DEF Copy
<1>1. ASSUME NEW p \in Procs, Alone(p)
      PROVE  Copy(k, v) \/ cache'[k].rt = v \/ Carried(p, k, v)'
  <2>1. ASSUME NEW q \in Procs, q # p, Carried(q, k, v)' PROVE Carried(q, k, v)
    BY <1>1, <2>1 DEF Alone, Carried, WriteBack
  <2> QED
    BY <2>1 DEF Copy
<1>2. \A p \in Procs : Carried(p, k, v) => Copy(k, v)
  BY <1>0 DEF Copy
<1>3. cache[k].rt = v => Copy(k, v)
  BY <1>0 DEF Copy
<1>4. ASSUME NEW j \in Keys, NEW e, Writes(j, e), cache'[k].rt = v
      PROVE  Copy(k, v) \/ (k = j /\ e.rt = v)
  BY <1>3, <1>4 DEF Writes
<1>5. \A e \in Entry : StrippedEntry(e).rt = e.rt /\ [e EXCEPT !.at = 0].rt = e.rt
                       /\ \A w : [e EXCEPT !.rt = w].rt = w
  BY DEF StrippedEntry, Entry, NoEntry
\* A step that ends elsewhere, with the cache as it was.
<1>6. ASSUME NEW p \in Procs, Alone(p), pc'[p] \notin WriteBack, UNCHANGED cache PROVE Goal
  BY <1>1, <1>3, <1>6 DEF Carried
\* A step that ends elsewhere, with an entry gone or written back.
<1>7. ASSUME NEW p \in Procs, Alone(p), pc'[p] \notin WriteBack, NEW j \in Keys, NEW e, Writes(j, e),
             e.rt = 0 \/ Carried(p, j, e.rt)
      PROVE  Goal
  BY <1>0, <1>1, <1>2, <1>4, <1>7 DEF Carried
<1> HIDE DEF Goal
<1>8. ASSUME NEW c \in Calls, CallKinds(c) PROVE Goal
  <2>0. c \in Procs /\ reg[c].key \in Keys /\ reg[c].entry \in Entry /\ req[c].key \in Keys
    BY InHand
  <2>1. CASE Invoked(c)
    BY <1>6, <2>0, <2>1, AloneSteps DEF Invoked, Shared, WriteBack
  <2>2. CASE Hit(c) \/ Failed(c) \/ AnswerLost(c) \/ Returned(c)
    BY <1>6, <2>0, <2>2, AloneSteps DEF Hit, Failed, AnswerLost, Returned, Spends, Shared, WriteBack
  <2>3. CASE Entered(c) \/ Sent(c) \/ SavedId(c)
    BY <1>6, <2>0, <2>3, AloneSteps DEF Entered, Sent, Leaves, SavedId, Shared, WriteBack
  <2>4. CASE Answered(c)
    <3>1. UNCHANGED cache /\ Jumps(c, "answered")
      BY <2>4 DEF Answered, Spends
    <3> QED
      BY <1>6, <2>0, <3>1, AloneSteps DEF WriteBack
  <2>5. CASE Missed(c)
    <3>1. Alone(c) /\ pc'[c] \notin WriteBack
      BY <2>0, <2>5, AloneSteps DEF Missed, WriteBack
    <3>2. CASE pc[c] \in {"check1", "check2"}
      BY <1>6, <2>0, <2>5, <3>1, <3>2 DEF Missed
    <3>3. CASE pc[c] \in {"strip1", "strip2"}
      <4>1. Writes(reg[c].key, StrippedEntry(reg[c].entry))
        BY <2>5, <3>3 DEF Missed
      <4>2. Carried(c, reg[c].key, StrippedEntry(reg[c].entry).rt)
        BY <1>5, <2>0, <3>3 DEF Carried, WriteBack
      <4> QED
        BY <1>7, <2>0, <3>1, <4>1, <4>2
    <3> QED
      BY <2>5, <3>2, <3>3 DEF Missed
  <2>6. CASE ReadExpired(c)
    <3>1. Alone(c) /\ UNCHANGED cache /\ reg'[c].entry = cache[reg'[c].key]
      BY <2>0, <2>6, AloneSteps DEF ReadExpired, Shared
    <3> QED
      BY <1>1, <1>3, <2>0, <3>1 DEF Carried, Goal
  <2>7. CASE StripFailed(c)
    BY <1>7, <2>0, <2>7, AloneSteps DEF StripFailed, NoEntry, WriteBack
  <2>8. CASE StripSent(c)
    <3>1. Carried(c, reg[c].key, [reg[c].entry EXCEPT !.at = 0].rt)
      BY <1>5, <2>0, <2>8 DEF StripSent, Carried, WriteBack
    <3>2. Writes(reg[c].key, [reg[c].entry EXCEPT !.at = 0]) /\ Jumps(c, "sent")
      BY <2>8 DEF StripSent, Leaves
    <3>3. Alone(c) /\ pc'[c] \notin WriteBack
      BY <2>0, <3>2, AloneSteps DEF WriteBack
    <3> QED
      BY <1>7, <2>0, <3>1, <3>2, <3>3
  <2>9. CASE Saved(c)
    <3>1. /\ Alone(c) /\ pc'[c] \notin WriteBack
          /\ Writes(req[c].key, [at |-> reg[c].at, exp |-> "fresh", rt |-> reg[c].new])
      BY <2>0, <2>9, AloneSteps DEF Saved, WriteBack
    <3>2. Copy(k, v) \/ (k = req[c].key /\ reg[c].new = v)
      BY <1>1, <1>4, <2>0, <3>1 DEF Carried
    <3> QED
      BY <2>0, <2>9, <3>2 DEF Brings, Goal
  <2>10. CASE Dropped(c)
    BY <1>7, <2>0, <2>10, AloneSteps DEF Dropped, NoEntry, WriteBack
  <2> QED
    BY <1>8, <2>1, <2>2, <2>3, <2>4, <2>5, <2>6, <2>7, <2>8, <2>9, <2>10 DEF CallKinds
<1>9. ASSUME NEW p \in Procs, LoopKinds(p) PROVE Goal
  <2>0. reg[p].key \in Keys /\ reg[p].entry \in Entry /\ reg[p].todo \subseteq Keys
    BY InHand
  <2>1. CASE Skipped(p) \/ WipeStarts(p)
    BY <1>6, <2>1, AloneSteps DEF Skipped, WipeStarts, Shared, WriteBack
  <2>2. CASE Picked(p)
    <3>1. Alone(p) /\ UNCHANGED cache /\ reg'[p].key \in Keys
      BY <2>0, <2>2, AloneSteps DEF Picked, Shared
    <3>2. reg'[p].entry.rt = reg[p].new
      BY <1>5, <2>2, <3>1, InHand DEF Picked
    <3> QED
      BY <1>1, <1>3, <2>2, <3>1, <3>2 DEF Carried, Brings, Goal
  <2>3. CASE Rewritten(p)
    <3>1. Carried(p, reg[p].key, reg[p].entry.rt)
      BY <2>3 DEF Rewritten, Carried, WriteBack
    <3> QED
      BY <1>7, <2>0, <2>3, <3>1, AloneSteps DEF Rewritten, WriteBack
  <2>4. CASE Wiped(p)
    BY <1>7, <2>4, AloneSteps DEF Wiped, NoEntry, WriteBack
  <2> QED
    BY <1>9, <2>1, <2>2, <2>3, <2>4 DEF LoopKinds
<1>10. ASSUME NEW o \in Ops, OpMoves(o) PROVE Goal
  <2>1. o \in Procs
    BY DEF Procs
  <2> QED
    BY <1>6, <1>10, <2>1, AloneSteps DEF OpMoves, WriteBack
<1>11. ASSUME NEW j \in Keys, Ages(j) PROVE Goal
  <2>1. UNCHANGED <<pc, reg>> /\ cache'[k].rt = cache[k].rt
    BY <1>11 DEF Ages, Writes
  <2> QED
    BY <2>1 DEF Goal, Copy, Carried
<1> QED
  BY <1>8, <1>9, <1>10, <1>11, NextSteps DEF Goal

InExchange(c) == pc[c] = "sent" \/ Holds(c)

\* A process takes a step, or another one does and leaves it alone.
LEMMA ProcLives ==
  ASSUME Typed, Next, NEW p \in Procs
  PROVE  \/ p \in Calls /\ CallKinds(p)
         \/ LoopKinds(p)
         \/ p \in Ops /\ OpMoves(p)
         \/ /\ reg'[p] = reg[p] /\ (p \in Calls => req'[p] = req[p])
            /\ pc'[p] = pc[p] \/ (pc[p] = "joined" /\ pc'[p] = "settled")
<1> DEFINE Rests == /\ reg'[p] = reg[p] /\ (p \in Calls => req'[p] = req[p])
                    /\ pc'[p] = pc[p] \/ (pc[p] = "joined" /\ pc'[p] = "settled")
<1>1. ASSUME NEW q \in Procs, q # p, Alone(q), p \in Calls => req'[p] = req[p] PROVE Rests
  BY <1>1 DEF Alone
<1>2. ASSUME NEW k \in Keys, Ages(k) PROVE Rests
  BY <1>2 DEF Ages
<1> HIDE DEF Rests
<1>3. ASSUME NEW c \in Calls, c # p, CallKinds(c) PROVE Rests
  <2>0. c \in Procs
    BY InHand
  <2>1. CASE Invoked(c)
    BY <1>1, <1>3, <2>0, <2>1, AloneSteps DEF Invoked
  <2>2. CASE Missed(c) \/ Hit(c) \/ ReadExpired(c) \/ Entered(c) \/ Failed(c) \/ StripFailed(c)
    BY <1>1, <1>3, <2>0, <2>2, AloneSteps DEF Missed, Hit, ReadExpired, Entered, Failed, StripFailed
  <2>3. CASE Sent(c) \/ StripSent(c) \/ AnswerLost(c) \/ SavedId(c) \/ Saved(c) \/ Returned(c) \/ Dropped(c)
    BY <1>1, <1>3, <2>0, <2>3, AloneSteps
       DEF Sent, StripSent, Leaves, AnswerLost, SavedId, Saved, Returned, Dropped
  <2>4. CASE Answered(c)
    BY <1>1, <1>3, <2>0, <2>4, AloneSteps DEF Answered
  <2> QED
    BY <1>3, <2>1, <2>2, <2>3, <2>4 DEF CallKinds
<1>4. ASSUME NEW q \in Procs, q # p, LoopKinds(q) PROVE Rests
  BY <1>1, <1>4, AloneSteps DEF LoopKinds, Skipped, Picked, Rewritten, WipeStarts, Wiped
<1>5. ASSUME NEW o \in Ops, o # p, OpMoves(o) PROVE Rests
  <2>1. o \in Procs
    BY DEF Procs
  <2> QED
    BY <1>1, <1>5, <2>1, AloneSteps DEF OpMoves
<1> QED
  BY <1>2, <1>3, <1>4, <1>5, NextSteps DEF Rests

\* How an exchange begins, goes on and ends.
LEMMA ExchangeLives ==
  ASSUME Typed, Next, NEW c \in Calls
  PROVE  /\ InExchange(c)' =>
              \/ InExchange(c) /\ reg'[c].old = reg[c].old /\ req'[c] = req[c]
              \/ Sent(c) \/ StripSent(c)
         /\ Holds(c)' =>
              \/ Holds(c) /\ reg'[c].new = reg[c].new /\ reg'[c].old = reg[c].old /\ req'[c] = req[c]
              \/ Answered(c)
         /\ Holds(c) => Holds(c)' \/ Returned(c) \/ Dropped(c)
         /\ pc'[c] \in {"answered", "save"} => pc[c] \in {"answered", "save"} \/ Answered(c)
<1>0. c \in Procs /\ c \notin Ops
  BY InHand, ConstantsAssumption
\* Steps of others.
<1>1. CASE /\ reg'[c] = reg[c] /\ req'[c] = req[c]
           /\ pc'[c] = pc[c] \/ (pc[c] = "joined" /\ pc'[c] = "settled")
  BY <1>1 DEF InExchange, Holds
\* Steps outside the exchange.
<1>2. CASE pc'[c] \notin {"sent", "answered", "save", "rewrite", "rewriteSet"} /\ ~Holds(c)
  BY <1>2 DEF InExchange, Holds
\* Steps inside it.
<1>3. CASE /\ Holds(c) /\ Holds(c)' /\ reg'[c].old = reg[c].old /\ reg'[c].new = reg[c].new
           /\ req'[c] = req[c] /\ pc'[c] # "answered" /\ (pc'[c] = "save" => pc[c] = "answered")
  BY <1>3 DEF InExchange
<1>4. CASE Sent(c) \/ StripSent(c)
  <2>1. pc[c] \in {"readRt", "strip3"} /\ pc'[c] = "sent"
    BY <1>0, <1>4, AloneSteps DEF Sent, StripSent, Leaves
  <2> QED
    BY <1>4, <2>1 DEF InExchange, Holds
<1>5. CASE Answered(c)
  <2>1. pc[c] = "sent" /\ pc'[c] = "answered" /\ UNCHANGED req /\ reg'[c].old = reg[c].old
    BY <1>0, <1>5, AloneSteps DEF Answered
  <2> QED
    BY <1>5, <2>1 DEF InExchange, Holds
<1>6. CASE Returned(c) \/ Dropped(c)
  <2>1. pc[c] = "rewrite" /\ pc'[c] = "settled"
    BY <1>0, <1>6, AloneSteps DEF Returned, Dropped
  <2> QED
    BY <1>6, <2>1 DEF InExchange, Holds
<1>7. CASE Invoked(c)
  BY <1>2, <1>7 DEF Invoked, Holds
<1>8. CASE Missed(c) \/ Hit(c) \/ ReadExpired(c) \/ Entered(c)
  <2>1. pc'[c] \notin {"sent", "answered", "save", "rewrite", "rewriteSet"}
    BY <1>0, <1>8, AloneSteps DEF Missed, Hit, ReadExpired, Entered
  <2> QED
    BY <1>2, <1>8, <2>1 DEF Missed, Hit, ReadExpired, Entered, Holds
<1>9. CASE Failed(c) \/ StripFailed(c) \/ AnswerLost(c)
  <2>1. pc'[c] = "settled"
    BY <1>9, AloneSteps DEF Failed, StripFailed, AnswerLost
  <2> QED
    BY <1>2, <1>9, <2>1 DEF Failed, StripFailed, AnswerLost, Holds
<1>10. CASE SavedId(c) \/ Saved(c)
  <2>1. /\ pc[c] \in {"answered", "save"} /\ pc'[c] \in {"save", "rewrite"} /\ UNCHANGED req
        /\ reg'[c].old = reg[c].old /\ reg'[c].new = reg[c].new /\ (pc'[c] = "save" => pc[c] = "answered")
    BY <1>0, <1>10, AloneSteps DEF SavedId, Saved, Carries
  <2> QED
    BY <1>3, <2>1 DEF Holds
<1>11. CASE WipeStarts(c) \/ Wiped(c)
  <2>1. pc'[c] = "wipe" /\ pc[c] \in {"idle", "sent", "revNext", "wipe"}
    BY <1>0, <1>11, AloneSteps DEF WipeStarts, Wiped
  <2> QED
    BY <1>2, <2>1 DEF Holds
<1>12. CASE Skipped(c) \/ Picked(c) \/ Rewritten(c)
  <2>1. /\ pc[c] \in {"rewrite", "rewriteSet"} /\ pc'[c] \in {"rewrite", "rewriteSet"} /\ UNCHANGED req
        /\ reg'[c].old = reg[c].old /\ reg'[c].new = reg[c].new
    BY <1>0, <1>12, AloneSteps DEF Skipped, Picked, Rewritten, Carries
  <2> QED
    BY <1>3, <2>1 DEF Holds
<1>13. CASE CallKinds(c)
  BY <1>4, <1>5, <1>6, <1>7, <1>8, <1>9, <1>10, <1>13 DEF CallKinds
<1>14. CASE LoopKinds(c)
  BY <1>11, <1>12, <1>14 DEF LoopKinds
<1> QED
  BY <1>0, <1>1, <1>13, <1>14, ProcLives

\* Only an answer changes what the server has issued and taken.
LEMMA SpentSteps ==
  ASSUME Typed, Next, ~Lossy
  PROVE  \/ UNCHANGED <<issued, spent>>
         \/ \E c \in Calls : Answered(c)
<1>1. (UNCHANGED server => UNCHANGED <<issued, spent>>) /\ (UNCHANGED Shared => UNCHANGED <<issued, spent>>)
  BY DEF server, Shared
<1>2. ASSUME NEW c \in Calls, CallKinds(c), ~Answered(c) PROVE UNCHANGED <<issued, spent>>
  <2>1. ~AnswerLost(c)
    BY DEF AnswerLost
  <2> QED
    BY <1>1, <1>2, <2>1
       DEF CallKinds, Invoked, Missed, Hit, ReadExpired, Entered, Failed, StripFailed, Sent, StripSent,
           Leaves, SavedId, Saved, Returned, Dropped
<1>3. ASSUME NEW p \in Procs, LoopKinds(p) PROVE UNCHANGED <<issued, spent>>
  BY <1>1, <1>3 DEF LoopKinds, Skipped, Picked, Rewritten, WipeStarts, Wiped
<1>4. \A o \in Ops : OpMoves(o) => UNCHANGED <<issued, spent>>
  BY DEF OpMoves
<1>5. \A k \in Keys : Ages(k) => UNCHANGED <<issued, spent>>
  BY <1>1 DEF Ages
<1> QED
  BY <1>2, <1>3, <1>4, <1>5, NextSteps

\* What an answer does.
LEMMA AnswerSteps ==
  ASSUME Typed, ~OnlineAccess, NEW c \in Calls, Answered(c)
  PROVE  /\ pc[c] = "sent" /\ pc'[c] = "answered" /\ Alone(c) /\ UNCHANGED req
         /\ issued' = issued + 1 /\ spent' = spent \cup {reg[c].old}
         /\ reg'[c].new = issued + 1 /\ reg'[c].old = reg[c].old
<1>1. c \in Procs
  BY InHand
<1>2. \E narrow : Spends(c, narrow)
  BY DEF Answered
<1>3. issued' = issued + 1 /\ spent' = spent \cup {reg[c].old}
  BY <1>2 DEF Spends
<1> QED
  BY <1>1, <1>3, AloneSteps DEF Answered

\* A request leaves with a copy, read while the process had its turn.
LEMMA SentCopy ==
  ASSUME Typed, NEW c \in Calls, Sent(c) \/ StripSent(c)
  PROVE  /\ Turn(c) /\ pc[c] \in {"readRt", "strip3"} /\ pc'[c] = "sent"
         /\ UNCHANGED req /\ UNCHANGED <<issued, spent, useMrrt>>
         /\ \E j \in Keys : /\ Copy(j, reg'[c].old)
                            /\ useMrrt \/ Matches(j, req[c].key) \/ (pc[c] = "strip3" /\ j = reg[c].key)
<1>1. c \in Procs /\ reg[c].key \in Keys
  BY InHand
<1>2. CASE Sent(c)
  <2>1. PICK j \in Keys : (Matches(j, req[c].key) \/ useMrrt) /\ Leaves(c, j, cache[j].rt)
    BY <1>2 DEF Sent
  <2>2. Copy(j, reg'[c].old)
    BY <2>1 DEF Leaves, Copy
  <2> QED
    BY <1>1, <1>2, <2>1, <2>2, AloneSteps DEF Sent, Leaves, server
<1>3. CASE StripSent(c)
  <2>1. Copy(reg[c].key, reg'[c].old)
    BY <1>1, <1>3 DEF StripSent, Leaves, Copy, Carried, WriteBack
  <2> QED
    BY <1>1, <1>3, <2>1, AloneSteps DEF StripSent, Leaves, server
<1> QED
  BY <1>2, <1>3

\* The token of an answer is brought in by the call that holds it.
LEMMA BroughtIn ==
  ASSUME Typed, NEW p \in Procs, NEW k, Brings(p, k)
  PROVE  /\ Turn(p) /\ pc[p] \in {"save", "rewrite"} /\ pc'[p] \in {"rewrite", "rewriteSet"}
         /\ UNCHANGED <<issued, spent, useMrrt>> /\ UNCHANGED req
BY AloneSteps DEF Brings, Saved, Picked, Shared, server

\* revokeRefreshToken and logout bring no token.
OpsBringNone == \A o \in Ops : reg[o].new = 0

\* Operations of the application bring no refresh token.
LEMMA NextOpsBringNone ==
  ASSUME Typed, Next, OpsBringNone
  PROVE  OpsBringNone'
<1> SUFFICES ASSUME NEW o \in Ops PROVE reg'[o].new = 0
  BY DEF OpsBringNone
<1>1. o \in Procs /\ o \notin Calls
  BY ConstantsAssumption DEF Procs
<1>2. ASSUME LoopKinds(o) PROVE reg'[o].new \in {reg[o].new, 0}
  BY <1>2 DEF LoopKinds, Skipped, Picked, Rewritten, WipeStarts, Wiped, Carries
<1>3. ASSUME OpMoves(o) PROVE reg'[o].new \in {reg[o].new, 0}
  BY <1>3 DEF OpMoves
<1> QED
  BY <1>1, <1>2, <1>3, ProcLives DEF OpsBringNone

\* The token of an answer is new: it is no copy before the call saves it, it is
\* nobody's old token, and no other call holds it.
Fresh ==
  /\ \A v \in spent : v \in 1 .. issued
  /\ \A k \in Keys : \A v : Copy(k, v) => v \in 1 .. issued
  /\ \A c \in Calls : InExchange(c) => reg[c].old \in 1 .. issued
  /\ \A c \in Calls : Holds(c) =>
       /\ reg[c].new \in 1 .. issued /\ reg[c].new \notin spent
       /\ \A d \in Calls : InExchange(d) => reg[d].old # reg[c].new
  /\ \A c \in Calls : pc[c] \in {"answered", "save"} => \A k \in Keys : ~Copy(k, reg[c].new)
  /\ \A c, d \in Calls : Holds(c) /\ Holds(d) /\ reg[c].new = reg[d].new => c = d
  /\ OpsBringNone

\* A process that has its turn outside the first task of its invocation finds
\* all others waiting.
LEMMA OthersWait ==
  ASSUME ~Interleaved, NEW p \in Procs, Turn(p), pc[p] \notin Starting, NEW q \in Procs, q # p
  PROVE  pc[q] \in Waiting
BY DEF Turn

\* Every step keeps the new tokens of refreshes unspent.
LEMMA NextFresh ==
  ASSUME Typed, Next, ~Interleaved, ~Lossy, ~OnlineAccess, Fresh
  PROVE  Fresh'
<1>1. /\ issued \in Nat /\ issued' \in Nat /\ issued' >= issued
      /\ \A c \in Calls : c \in Procs
      /\ \A p \in Procs : p \in Calls \/ p \in Ops
  BY InHand, ServerGrows, NextTyped, Parts DEF ServerTyped, Procs
<1>2. ASSUME NEW c \in Calls, Answered(c)
      PROVE  /\ pc[c] = "sent" /\ issued' = issued + 1 /\ spent' = spent \cup {reg[c].old}
             /\ reg'[c].new = issued + 1 /\ reg[c].old \in 1 .. issued
             /\ \A d \in Calls \ {c} : ~Answered(d)
  <2>1. /\ pc[c] = "sent" /\ issued' = issued + 1 /\ spent' = spent \cup {reg[c].old}
        /\ reg'[c].new = issued + 1 /\ Alone(c)
    BY <1>2, AnswerSteps
  <2>2. reg[c].old \in 1 .. issued
    BY <2>1 DEF Fresh, InExchange
  <2>3. ASSUME NEW d \in Calls, d # c, Answered(d) PROVE FALSE
    <3>1. pc[d] = "sent" /\ pc'[d] = "answered"
      BY <2>3, AnswerSteps
    <3> QED
      BY <1>1, <2>1, <2>3, <3>1 DEF Alone
  <2> QED
    BY <2>1, <2>2, <2>3
\* A token brought in is that of a call.
<1>3. ASSUME NEW p \in Procs, NEW k \in Keys, Brings(p, k), reg[p].new # 0
      PROVE  p \in Calls /\ Holds(p) /\ pc'[p] \in {"rewrite", "rewriteSet"} /\ issued' = issued
  <2>1. p \in Calls
    BY <1>1, <1>3 DEF Fresh, OpsBringNone
  <2> QED
    BY <1>3, <2>1, BroughtIn DEF Holds
<1>4. \A v \in spent' : v \in 1 .. issued'
  BY <1>1, <1>2, SpentSteps DEF Fresh
<1>5. ASSUME NEW k \in Keys, NEW v, Copy(k, v)' PROVE v \in 1 .. issued'
  <2>1. CASE Copy(k, v)
    BY <1>1, <2>1 DEF Fresh
  <2>2. ASSUME NEW p \in Procs, v = reg[p].new, Brings(p, k) PROVE v \in 1 .. issued'
    <3>1. v # 0
      BY <1>5 DEF Copy
    <3> QED
      BY <1>1, <1>3, <2>2, <3>1 DEF Fresh
  <2> QED
    BY <1>5, <2>1, <2>2, CopySteps
<1>6. ASSUME NEW c \in Calls, InExchange(c)' PROVE reg'[c].old \in 1 .. issued'
  <2>1. CASE InExchange(c) /\ reg'[c].old = reg[c].old
    BY <1>1, <2>1 DEF Fresh
  <2>2. CASE Sent(c) \/ StripSent(c)
    BY <1>1, <2>2, SentCopy DEF Fresh
  <2> QED
    BY <1>6, <2>1, <2>2, ExchangeLives
\* Tokens that are sent are nobody's new ones.
<1>7. ASSUME NEW c \in Calls, NEW d \in Calls, Holds(c)', InExchange(d)' PROVE reg'[d].old # reg'[c].new
  <2>1. CASE Answered(c)
    <3>1. ~Sent(d) /\ ~StripSent(d)
      BY <1>1, <1>2, <2>1, SentCopy
    <3>2. InExchange(d) /\ reg'[d].old = reg[d].old
      BY <1>7, <3>1, ExchangeLives
    <3> QED
      BY <1>1, <1>2, <2>1, <3>2 DEF Fresh
  <2>2. CASE Holds(c) /\ reg'[c].new = reg[c].new
    <3>1. CASE InExchange(d) /\ reg'[d].old = reg[d].old
      BY <2>2, <3>1 DEF Fresh
    <3>2. CASE Sent(d) \/ StripSent(d)
      <4>1. PICK j \in Keys : Copy(j, reg'[d].old)
        BY <3>2, SentCopy
      <4>2. Turn(d) /\ pc[d] \in {"readRt", "strip3"}
        BY <3>2, SentCopy
      <4>3. pc[c] \notin {"rewrite", "rewriteSet"}
        BY <1>1, <4>2, OthersWait DEF Starting, Waiting
      <4>4. pc[c] \in {"answered", "save"}
        BY <2>2, <4>3 DEF Holds
      <4>5. ~Copy(j, reg[c].new)
        BY <4>4 DEF Fresh
      <4> QED
        BY <2>2, <4>1, <4>5
    <3> QED
      BY <1>7, <3>1, <3>2, ExchangeLives
  <2> QED
    BY <1>7, <2>1, <2>2, ExchangeLives
<1>8. ASSUME NEW c \in Calls, Holds(c)' PROVE reg'[c].new \in 1 .. issued' /\ reg'[c].new \notin spent'
  <2>1. CASE Answered(c)
    BY <1>1, <1>2, <2>1 DEF Fresh
  <2>2. CASE Holds(c) /\ reg'[c].new = reg[c].new
    <3>1. reg[c].new \in 1 .. issued /\ reg[c].new \notin spent
      BY <2>2 DEF Fresh
    <3>2. ASSUME NEW d \in Calls, Answered(d) PROVE reg[c].new # reg[d].old
      BY <1>2, <2>2, <3>2 DEF Fresh, InExchange
    <3> QED
      BY <1>1, <1>2, <2>2, <3>1, <3>2, SpentSteps
  <2> QED
    BY <1>8, <2>1, <2>2, ExchangeLives
<1>9. ASSUME NEW c \in Calls, pc'[c] \in {"answered", "save"}, NEW k \in Keys, Copy(k, reg[c].new)'
      PROVE  FALSE
  <2> DEFINE v == reg'[c].new
  <2>1. /\ Copy(k, v) \/ \E p \in Procs : v = reg[p].new /\ Brings(p, k)
        /\ v # 0
    <3>1. \E w : w = v /\ Copy(k, w)'
      BY <1>9
    <3> QED
      BY <3>1, CopySteps DEF Copy
  <2>2. Holds(c)'
    BY <1>9 DEF Holds
  <2>3. CASE Answered(c)
    <3>1. v = issued + 1 /\ issued' = issued + 1
      BY <1>2, <2>3
    <3>2. ~Copy(k, v)
      BY <1>1, <3>1 DEF Fresh
    <3>3. ASSUME NEW p \in Procs, v = reg[p].new, Brings(p, k) PROVE FALSE
      BY <1>1, <1>3, <2>1, <3>1, <3>3
    <3> QED
      BY <2>1, <3>2, <3>3
  <2>4. CASE ~Answered(c)
    <3>1. Holds(c) /\ v = reg[c].new /\ pc[c] \in {"answered", "save"}
      BY <1>9, <2>2, <2>4, ExchangeLives
    <3>2. ~Copy(k, v)
      BY <3>1 DEF Fresh
    <3>3. ASSUME NEW p \in Procs, v = reg[p].new, Brings(p, k) PROVE FALSE
      <4>1. p \in Calls /\ Holds(p) /\ pc'[p] \in {"rewrite", "rewriteSet"}
        BY <1>3, <2>1, <3>3
      <4>2. p = c
        BY <3>1, <3>3, <4>1 DEF Fresh
      <4> QED
        BY <1>9, <4>1, <4>2
    <3> QED
      BY <2>1, <3>2, <3>3
  <2> QED
    BY <2>3, <2>4
<1>10. ASSUME NEW c \in Calls, NEW d \in Calls, Holds(c)', Holds(d)', reg'[c].new = reg'[d].new
       PROVE  c = d
  <2>1. CASE ~Answered(c) /\ ~Answered(d)
    BY <1>10, <2>1, ExchangeLives DEF Fresh
  <2>2. ASSUME NEW a \in Calls, NEW b \in Calls, Answered(a), ~Answered(b), Holds(b)' PROVE reg'[a].new # reg'[b].new
    <3>1. Holds(b) /\ reg'[b].new = reg[b].new
      BY <2>2, ExchangeLives
    <3>2. reg[b].new \in 1 .. issued /\ reg'[a].new = issued + 1
      BY <1>2, <2>2, <3>1 DEF Fresh
    <3> QED
      BY <1>1, <3>1, <3>2
  <2>3. CASE Answered(c) /\ Answered(d)
    BY <1>2, <2>3
  <2> QED
    BY <1>10, <2>1, <2>2, <2>3
<1>11. OpsBringNone'
  BY NextOpsBringNone DEF Fresh
<1> QED
  BY <1>4, <1>5, <1>6, <1>7, <1>8, <1>9, <1>10, <1>11 DEF Fresh

\* How a process gets to a point of the rewriting loop.
LEMMA LoopLives ==
  ASSUME Typed, Next, NEW p \in Procs, pc'[p] \in {"rewrite", "rewriteSet"}
  PROVE  \/ pc'[p] = pc[p] /\ reg'[p] = reg[p] /\ (p \in Calls => req'[p] = req[p])
         \/ p \in Calls /\ Saved(p)
         \/ Skipped(p) \/ Picked(p) \/ Rewritten(p)
         \/ p \in Ops /\ pc'[p] = "rewrite"
<1>1. ASSUME p \in Calls, CallKinds(p) PROVE Saved(p)
  <2>1. ~Invoked(p)
    BY DEF Invoked
  <2>2. ~Missed(p) /\ ~Hit(p) /\ ~ReadExpired(p) /\ ~Entered(p)
    BY <1>1, AloneSteps DEF Missed, Hit, ReadExpired, Entered
  <2>3. ~Failed(p) /\ ~StripFailed(p) /\ ~AnswerLost(p) /\ ~Returned(p) /\ ~Dropped(p)
    BY <1>1, AloneSteps DEF Failed, StripFailed, AnswerLost, Returned, Dropped
  <2>4. ~Sent(p) /\ ~StripSent(p) /\ ~SavedId(p)
    BY AloneSteps DEF Sent, StripSent, Leaves, SavedId
  <2>5. ~Answered(p)
    <3>1. ~Jumps(p, "answered")
      BY AloneSteps
    <3> QED
      BY <3>1 DEF Answered
  <2> QED
    BY <1>1, <2>1, <2>2, <2>3, <2>4, <2>5 DEF CallKinds
<1>2. ASSUME LoopKinds(p) PROVE Skipped(p) \/ Picked(p) \/ Rewritten(p)
  <2>1. ~WipeStarts(p) /\ ~Wiped(p)
    BY AloneSteps DEF WipeStarts, Wiped
  <2> QED
    BY <1>2, <2>1 DEF LoopKinds
<1>3. ASSUME p \in Ops, OpMoves(p) PROVE pc'[p] = "rewrite"
  BY <1>3, AloneSteps DEF OpMoves
<1> QED
  BY <1>1, <1>2, <1>3, ProcLives

\* The entry to be written back by a rewriting loop has the new token.
RewritesNew == \A p \in Procs : pc[p] = "rewriteSet" => reg[p].entry.rt = reg[p].new

\* Every step keeps what a rewriting refresh is about to write.
LEMMA NextRewritesNew ==
  ASSUME Typed, Next, RewritesNew
  PROVE  RewritesNew'
<1> SUFFICES ASSUME NEW p \in Procs, pc'[p] = "rewriteSet" PROVE reg'[p].entry.rt = reg'[p].new
  BY DEF RewritesNew
<1>1. CASE pc'[p] = pc[p] /\ reg'[p] = reg[p]
  BY <1>1 DEF RewritesNew
<1>2. CASE Picked(p)
  <2>1. reg'[p].key \in Keys
    BY <1>2, InHand DEF Picked
  <2> QED
    BY <1>2, <2>1, InHand DEF Picked, Carries, Entry
<1>3. (p \in Calls => ~Saved(p)) /\ ~Skipped(p) /\ ~Rewritten(p)
  BY AloneSteps DEF Saved, Skipped, Rewritten
<1> QED
  BY <1>1, <1>2, <1>3, LoopLives

\* After a step of p, taken while all others wait, a copy is in the cache or
\* with p.
LEMMA CopyAfter ==
  ASSUME ~Interleaved, NEW p \in Procs, Turn(p), pc[p] \notin Starting, Alone(p), NEW k, NEW v, Copy(k, v)'
  PROVE  v # 0 /\ (cache'[k].rt = v \/ Carried(p, k, v)')
<1>1. ASSUME NEW q \in Procs, q # p PROVE ~Carried(q, k, v)'
  <2>1. pc[q] \in Waiting
    BY <1>1, OthersWait
  <2>2. pc'[q] \notin WriteBack
    BY <1>1, <2>1 DEF Alone, Waiting, WriteBack
  <2> QED
    BY <2>2 DEF Carried
<1> QED
  BY <1>1 DEF Copy

\* A key the loop of call c has still to get to.
Pending(c, k) == k \in reg[c].todo \/ (pc[c] = "rewriteSet" /\ reg[c].key = k)

\* Call c will swap the copy v under key k for the token it holds.
WillSwap(c, k, v) ==
  /\ Holds(c) /\ (useMrrt \/ reg[c].old = v)
  /\ pc[c] \in {"rewrite", "rewriteSet"} => Pending(c, k)

\* Whatever copy there is of a spent token, somebody will swap it.
SpentPending == \A k \in Keys : \A v : Copy(k, v) /\ v \in spent => \E c \in Calls : WillSwap(c, k, v)

\* Every spent copy is still one that a refresh will replace.
LEMMA NextSpentPending ==
  ASSUME Typed, Next, ~Interleaved, ~Lossy, ~OnlineAccess, Fresh, RewritesNew, SpentPending
  PROVE  SpentPending'
<1> SUFFICES ASSUME NEW k \in Keys, NEW v, Copy(k, v)', v \in spent'
             PROVE  \E c \in Calls : WillSwap(c, k, v)'
  BY DEF SpentPending
<1>0. v # 0 /\ useMrrt' = useMrrt
  BY ServerGrows DEF Copy
<1>1. ASSUME NEW c \in Calls, Answered(c), v = reg[c].old PROVE WillSwap(c, k, v)'
  <2>1. pc'[c] = "answered" /\ reg'[c].old = reg[c].old
    BY <1>1, AnswerSteps
  <2> QED
    BY <1>1, <2>1 DEF WillSwap, Holds
<1>2. CASE v \notin spent
  <2>1. PICK c \in Calls : Answered(c)
    BY <1>2, SpentSteps
  <2>2. v = reg[c].old
    BY <1>2, <2>1, AnswerSteps
  <2> QED
    BY <1>1, <2>1, <2>2
<1>3. CASE v \in spent
  <2>1. Copy(k, v)
    <3>1. ASSUME NEW p \in Procs, v = reg[p].new, Brings(p, k) PROVE FALSE
      <4>1. p \in Calls
        BY <1>0, <3>1 DEF Fresh, OpsBringNone, Procs
      <4>2. Holds(p)
        BY <3>1, BroughtIn DEF Holds
      <4> QED
        BY <1>3, <3>1, <4>1, <4>2 DEF Fresh
    <3> QED
      BY <3>1, CopySteps
  <2>2. PICK c \in Calls : WillSwap(c, k, v)
    BY <1>3, <2>1 DEF SpentPending
  <2>3. Holds(c) /\ (useMrrt \/ reg[c].old = v) /\ c \in Procs /\ c \notin Ops
    BY <2>2, InHand, ConstantsAssumption DEF WillSwap
  <2>4. Holds(c)'
    <3>1. ~Returned(c) /\ ~Dropped(c)
      BY <2>2 DEF WillSwap, Pending, Returned, Dropped
    <3> QED
      BY <2>3, <3>1, ExchangeLives
  <2>5. reg'[c].old = reg[c].old
    <3>1. ~Answered(c)
      BY <2>3 DEF Answered, Holds
    <3> QED
      BY <2>4, <3>1, ExchangeLives
  <2>6. ASSUME pc'[c] \in {"rewrite", "rewriteSet"} PROVE Pending(c, k)'
    <3>1. CASE pc'[c] = pc[c] /\ reg'[c] = reg[c]
      BY <2>2, <2>6, <3>1 DEF WillSwap, Pending
    <3>2. CASE Saved(c)
      <4>1. /\ Turn(c) /\ pc[c] \notin Starting /\ Alone(c) /\ pc'[c] \notin WriteBack
            /\ reg'[c].todo = PresentKeys \cup {req[c].key}
            /\ Writes(req[c].key, [at |-> reg[c].at, exp |-> "fresh", rt |-> reg[c].new])
        BY <2>3, <3>2, AloneSteps DEF Saved, Starting, WriteBack
      <4>2. cache'[k].rt = v
        BY <2>3, <4>1, CopyAfter DEF Carried
      <4>3. CASE k # req[c].key
        <5>1. cache[k].rt = v
          BY <4>1, <4>2, <4>3 DEF Writes
        <5>2. Present(k)
          BY <1>0, <5>1, InHand DEF Present, EntryOK, NoEntry
        <5> QED
          BY <4>1, <5>2 DEF Pending, PresentKeys
      <4> QED
        BY <4>1, <4>3 DEF Pending
    <3>3. CASE Skipped(c)
      <4>1. PICK j \in reg[c].todo : ~Rewrites(c, cache[j].rt) /\ reg'[c].todo = reg[c].todo \ {j}
        BY <3>3 DEF Skipped
      <4>2. /\ Turn(c) /\ pc[c] = "rewrite" /\ pc[c] \notin Starting /\ Alone(c) /\ pc'[c] \notin WriteBack
            /\ UNCHANGED cache
        BY <2>3, <3>3, AloneSteps DEF Skipped, Starting, WriteBack, Shared
      <4>3. cache[k].rt = v
        BY <2>3, <4>2, CopyAfter DEF Carried
      <4>4. Rewrites(c, cache[k].rt)
        BY <1>0, <2>3, <4>3 DEF Rewrites
      <4>5. k \in reg[c].todo /\ k # j
        BY <2>2, <4>1, <4>2, <4>4 DEF WillSwap, Pending
      <4> QED
        BY <4>1, <4>5 DEF Pending
    <3>4. CASE Picked(c)
      <4>1. pc[c] = "rewrite" /\ pc'[c] = "rewriteSet" /\ reg'[c].todo = reg[c].todo \ {reg'[c].key}
        BY <2>3, <3>4, AloneSteps DEF Picked
      <4>2. k \in reg[c].todo
        BY <2>2, <4>1 DEF WillSwap, Pending
      <4> QED
        BY <4>1, <4>2 DEF Pending
    <3>5. CASE Rewritten(c)
      <4>1. /\ Turn(c) /\ pc[c] = "rewriteSet" /\ pc[c] \notin Starting /\ Alone(c) /\ pc'[c] \notin WriteBack
            /\ reg'[c].todo = reg[c].todo /\ Writes(reg[c].key, reg[c].entry)
        BY <2>3, <3>5, AloneSteps DEF Rewritten, Starting, WriteBack
      <4>2. cache'[k].rt = v
        BY <2>3, <4>1, CopyAfter DEF Carried
      <4>3. k # reg[c].key
        <5>1. reg[c].entry.rt = reg[c].new
          BY <2>3, <4>1 DEF RewritesNew
        <5>2. reg[c].new # v
          BY <1>3, <2>3 DEF Fresh
        <5> QED
          BY <4>1, <4>2, <5>1, <5>2 DEF Writes
      <4>4. k \in reg[c].todo
        BY <2>2, <4>1, <4>3 DEF WillSwap, Pending
      <4> QED
        BY <4>1, <4>4 DEF Pending
    <3> QED
      BY <2>3, <2>6, <3>1, <3>2, <3>3, <3>4, <3>5, LoopLives
  <2>7. WillSwap(c, k, v)'
    BY <1>0, <2>3, <2>4, <2>5, <2>6 DEF WillSwap
  <2> QED
    BY <2>7
<1> QED
  BY <1>2, <1>3

\* Without multi-resource tokens a token belongs to one audience, and so the
\* lock of that audience keeps two calls from using it at once.
SameAud ==
  ~useMrrt =>
    /\ \A c \in Calls : pc[c] = "strip3" => AudOf[reg[c].key] = AudOf[req[c].key]
    /\ \A j, k \in Keys : \A v : Copy(j, v) /\ Copy(k, v) => AudOf[j] = AudOf[k]
    /\ \A c \in Calls, k \in Keys : InExchange(c) /\ Copy(k, reg[c].old) => AudOf[k] = AudOf[req[c].key]
    /\ \A c \in Calls, k \in Keys : Holds(c) /\ Copy(k, reg[c].new) => AudOf[k] = AudOf[req[c].key]
    /\ \A c, d \in Calls : InExchange(c) /\ InExchange(d) /\ reg[c].old = reg[d].old => c = d
    /\ \A c \in Calls : pc[c] = "sent" => reg[c].old \notin spent

\* How a call comes to strip an entry under the lock.
LEMMA StripLives ==
  ASSUME Typed, Next, NEW c \in Calls, pc'[c] = "strip3"
  PROVE  \/ pc[c] = "strip3" /\ reg'[c] = reg[c] /\ req'[c] = req[c]
         \/ ReadExpired(c)
<1>0. c \in Procs /\ c \notin Ops
  BY InHand, ConstantsAssumption
<1>1. ASSUME CallKinds(c) PROVE ReadExpired(c)
  <2>1. ~Invoked(c)
    BY DEF Invoked
  <2>2. ~Missed(c) /\ ~Hit(c) /\ ~Entered(c) /\ ~Sent(c) /\ ~StripSent(c) /\ ~SavedId(c) /\ ~Saved(c)
    BY <1>0, AloneSteps DEF Missed, Hit, Entered, Sent, StripSent, Leaves, SavedId, Saved
  <2>3. ~Failed(c) /\ ~StripFailed(c) /\ ~AnswerLost(c) /\ ~Returned(c) /\ ~Dropped(c)
    BY AloneSteps DEF Failed, StripFailed, AnswerLost, Returned, Dropped
  <2>4. ~Answered(c)
    <3>1. ~Jumps(c, "answered")
      BY <1>0, AloneSteps
    <3> QED
      BY <3>1 DEF Answered
  <2> QED
    BY <1>1, <2>1, <2>2, <2>3, <2>4 DEF CallKinds
<1>2. ~LoopKinds(c)
  BY <1>0, AloneSteps DEF LoopKinds, Skipped, Picked, Rewritten, WipeStarts, Wiped
<1> QED
  BY <1>0, <1>1, <1>2, ProcLives

\* A request leaves with a copy of its own audience, that nobody else uses and
\* that is not spent.
LEMMA SentSameAud ==
  ASSUME Typed, LockHeld, SameAud, SpentPending, ~useMrrt, NEW c \in Calls, Sent(c) \/ StripSent(c)
  PROVE  /\ reg'[c].old \notin spent
         /\ \A k \in Keys : Copy(k, reg'[c].old) => AudOf[k] = AudOf[req[c].key]
         /\ \A d \in Calls : InExchange(d) => reg[d].old # reg'[c].old
<1>1. PICK j \in Keys : /\ Copy(j, reg'[c].old)
                        /\ Matches(j, req[c].key) \/ (pc[c] = "strip3" /\ j = reg[c].key)
  BY SentCopy
<1>2. AudOf[j] = AudOf[req[c].key]
  BY <1>1 DEF SameAud, Matches
<1>3. \A k \in Keys : Copy(k, reg'[c].old) => AudOf[k] = AudOf[req[c].key]
  BY <1>1, <1>2 DEF SameAud
<1>4. ASSUME NEW d \in Calls, InExchange(d) PROVE reg[d].old # reg'[c].old
  <2>1. ASSUME reg[d].old = reg'[c].old PROVE FALSE
    <3>1. AudOf[j] = AudOf[req[d].key]
      BY <1>1, <1>4, <2>1 DEF SameAud
    <3>2. pc[c] \in {"readRt", "strip3"}
      BY SentCopy
    <3>3. lock[AudOf[req[c].key]] = c /\ lock[AudOf[req[d].key]] = d
      BY <1>4, <3>2 DEF LockHeld, Critical, InExchange, Holds
    <3>4. c = d
      BY <1>2, <3>1, <3>3
    <3> QED
      BY <1>4, <3>2, <3>4 DEF InExchange, Holds
  <2> QED
    BY <2>1
<1>5. reg'[c].old \notin spent
  <2>1. ASSUME reg'[c].old \in spent PROVE FALSE
    <3>1. PICK d \in Calls : WillSwap(d, j, reg'[c].old)
      BY <1>1, <2>1 DEF SpentPending
    <3> QED
      BY <1>4, <3>1 DEF WillSwap, InExchange
  <2> QED
    BY <2>1
<1> QED
  BY <1>3, <1>4, <1>5

\* Without multi-resource tokens every step keeps the copies of a token to one audience.
LEMMA NextSameAud ==
  ASSUME Typed, Next, ~Interleaved, ~Lossy, ~OnlineAccess, LockHeld, Fresh, SpentPending, SameAud
  PROVE  SameAud'
<1>0. useMrrt' = useMrrt /\ issued \in Nat /\ \A c \in Calls : c \in Procs
  BY ServerGrows, InHand
<1> SUFFICES ASSUME ~useMrrt
             PROVE
    /\ \A c \in Calls : pc'[c] = "strip3" => AudOf[reg'[c].key] = AudOf[req'[c].key]
    /\ \A j, k \in Keys : \A v : Copy(j, v)' /\ Copy(k, v)' => AudOf[j] = AudOf[k]
    /\ \A c \in Calls, k \in Keys : InExchange(c)' /\ Copy(k, reg[c].old)' => AudOf[k] = AudOf[req'[c].key]
    /\ \A c \in Calls, k \in Keys : Holds(c)' /\ Copy(k, reg[c].new)' => AudOf[k] = AudOf[req'[c].key]
    /\ \A c, d \in Calls : InExchange(c)' /\ InExchange(d)' /\ reg'[c].old = reg'[d].old => c = d
    /\ \A c \in Calls : pc'[c] = "sent" => reg'[c].old \notin spent'
  BY <1>0 DEF SameAud
<1>1. ASSUME NEW c \in Calls, pc'[c] = "strip3" PROVE AudOf[reg'[c].key] = AudOf[req'[c].key]
  <2>1. CASE pc[c] = "strip3" /\ reg'[c] = reg[c] /\ req'[c] = req[c]
    BY <2>1 DEF SameAud
  <2>2. CASE ReadExpired(c)
    BY <1>0, <2>2, AloneSteps DEF ReadExpired, Matches
  <2> QED
    BY <1>1, <2>1, <2>2, StripLives
\* Copies of the token of an answer are in the audience of its call, and were
\* not there under an old name.
<1>2. ASSUME NEW p \in Procs, NEW k \in Keys, Brings(p, k), reg[p].new # 0
      PROVE  /\ p \in Calls /\ Holds(p) /\ AudOf[k] = AudOf[req[p].key]
             /\ UNCHANGED <<issued, spent>> /\ UNCHANGED req
  <2>1. p \in Calls /\ Holds(p)
    BY <1>2, BroughtIn DEF Fresh, OpsBringNone, Procs, Holds
  <2>2. AudOf[k] = AudOf[req[p].key]
    <3>1. CASE Picked(p) /\ k = reg'[p].key
      <4>1. Rewrites(p, cache[k].rt)
        BY <3>1 DEF Picked
      <4>2. cache[k].rt = reg[p].old /\ reg[p].old # 0
        BY <4>1 DEF Rewrites
      <4>3. Copy(k, reg[p].old)
        BY <4>2 DEF Copy
      <4> QED
        BY <2>1, <4>3 DEF SameAud, InExchange
    <3> QED
      BY <1>2, <3>1 DEF Brings
  <2> QED
    BY <1>2, <2>1, <2>2, BroughtIn
\* Before the step: a copy, or the token of a call that holds it.
<1>3. ASSUME NEW k \in Keys, NEW v, Copy(k, v)'
      PROVE  \/ Copy(k, v)
             \/ \E c \in Calls : /\ Holds(c) /\ v = reg[c].new /\ AudOf[k] = AudOf[req[c].key]
                                 /\ UNCHANGED <<issued, spent>> /\ UNCHANGED req
  <2>1. v # 0
    BY <1>3 DEF Copy
  <2> QED
    BY <1>2, <1>3, <2>1, CopySteps
<1>4. ASSUME NEW c \in Calls, Holds(c), NEW k \in Keys, Copy(k, reg[c].new) PROVE AudOf[k] = AudOf[req[c].key]
  BY <1>4 DEF SameAud
<1>5. \A c, d \in Calls : Holds(c) /\ Holds(d) /\ reg[c].new = reg[d].new => c = d
  BY DEF Fresh
<1>6. ASSUME NEW j \in Keys, NEW k \in Keys, NEW v, Copy(j, v)', Copy(k, v)' PROVE AudOf[j] = AudOf[k]
  BY <1>3, <1>4, <1>5, <1>6 DEF SameAud
\* An answer and a request do not happen in one step.
<1>7. ASSUME NEW c \in Calls, Answered(c)
      PROVE  /\ issued' = issued + 1 /\ spent' = spent \cup {reg[c].old} /\ reg'[c].new = issued + 1
             /\ pc[c] = "sent" /\ \A d \in Calls : ~Sent(d) /\ ~StripSent(d)
  BY <1>0, <1>7, AnswerSteps, SentCopy
<1>8. ASSUME NEW c \in Calls, NEW k \in Keys, InExchange(c)', Copy(k, reg[c].old)'
      PROVE  AudOf[k] = AudOf[req'[c].key]
  <2> DEFINE v == reg'[c].old
  <2>1. \/ Copy(k, v)
        \/ \E d \in Calls : /\ Holds(d) /\ v = reg[d].new /\ AudOf[k] = AudOf[req[d].key]
    <3>1. \E w : w = v /\ Copy(k, w)'
      BY <1>8
    <3> QED
      BY <1>3, <3>1
  <2>2. CASE InExchange(c) /\ v = reg[c].old /\ req'[c] = req[c]
    <3>1. \A d \in Calls : Holds(d) => v # reg[d].new
      BY <2>2 DEF Fresh
    <3> QED
      BY <2>1, <2>2, <3>1 DEF SameAud
  <2>3. CASE Sent(c) \/ StripSent(c)
    <3>1. UNCHANGED req /\ \A j \in Keys : Copy(j, v) => AudOf[j] = AudOf[req[c].key]
      BY <2>3, SentSameAud, SentCopy
    <3>2. PICK j \in Keys : Copy(j, v)
      BY <2>3, SentCopy
    <3>3. ASSUME NEW d \in Calls, Holds(d), v = reg[d].new, AudOf[k] = AudOf[req[d].key]
          PROVE  AudOf[k] = AudOf[req[c].key]
      BY <1>4, <3>1, <3>2, <3>3
    <3> QED
      BY <2>1, <3>1, <3>3
  <2> QED
    BY <1>8, <2>2, <2>3, ExchangeLives
<1>9. ASSUME NEW c \in Calls, NEW k \in Keys, Holds(c)', Copy(k, reg[c].new)'
      PROVE  AudOf[k] = AudOf[req'[c].key]
  <2> DEFINE v == reg'[c].new
  <2>1. \/ Copy(k, v)
        \/ \E d \in Calls : /\ Holds(d) /\ v = reg[d].new /\ AudOf[k] = AudOf[req[d].key]
    <3>1. \E w : w = v /\ Copy(k, w)'
      BY <1>9
    <3> QED
      BY <1>3, <3>1
  <2>2. CASE Holds(c) /\ v = reg[c].new /\ req'[c] = req[c]
    BY <1>4, <1>5, <2>1, <2>2
  <2>3. CASE Answered(c)
    <3>1. v = issued + 1
      BY <1>7, <2>3
    <3>2. ~Copy(k, v) /\ \A d \in Calls : Holds(d) => v # reg[d].new
      BY <1>0, <3>1 DEF Fresh
    <3> QED
      BY <2>1, <3>2
  <2> QED
    BY <1>9, <2>2, <2>3, ExchangeLives
<1>10. ASSUME NEW c \in Calls, NEW d \in Calls, InExchange(c)', InExchange(d)', reg'[c].old = reg'[d].old
       PROVE  c = d
  <2>1. ASSUME NEW a \in Calls, NEW b \in Calls, Sent(a) \/ StripSent(a), InExchange(b)', reg'[a].old = reg'[b].old
        PROVE  a = b
    <3>1. CASE Sent(b) \/ StripSent(b)
      <4>1. pc[a] # "sent" /\ pc[b] # "sent" /\ pc'[a] = "sent" /\ pc'[b] = "sent"
        BY <2>1, <3>1, SentCopy
      <4>2. Alone(a)
        BY <1>0, <2>1, AloneSteps DEF Sent, StripSent, Leaves
      <4> QED
        BY <1>0, <4>1, <4>2 DEF Alone
    <3>2. CASE InExchange(b) /\ reg'[b].old = reg[b].old
      BY <2>1, <3>2, SentSameAud
    <3> QED
      BY <2>1, <3>1, <3>2, ExchangeLives
  <2>2. CASE ~(Sent(c) \/ StripSent(c)) /\ ~(Sent(d) \/ StripSent(d))
    BY <1>10, <2>2, ExchangeLives DEF SameAud
  <2> QED
    BY <1>10, <2>1, <2>2
<1>11. ASSUME NEW c \in Calls, pc'[c] = "sent" PROVE reg'[c].old \notin spent'
  <2>1. InExchange(c)'
    BY <1>11 DEF InExchange
  <2>2. CASE Sent(c) \/ StripSent(c)
    BY <2>2, SentSameAud, SentCopy
  <2>3. CASE ~(Sent(c) \/ StripSent(c))
    <3>1. InExchange(c) /\ reg'[c].old = reg[c].old
      BY <2>1, <2>3, ExchangeLives
    <3>2. ~Holds(c)
      <4>1. ~Holds(c)'
        BY <1>11 DEF Holds
      <4>2. ~Returned(c) /\ ~Dropped(c)
        BY <1>11, AloneSteps DEF Returned, Dropped
      <4> QED
        BY <4>1, <4>2, ExchangeLives
    <3>3. reg[c].old \notin spent
      BY <3>1, <3>2 DEF SameAud, InExchange
    <3>4. ASSUME NEW d \in Calls, Answered(d) PROVE reg[d].old # reg[c].old
      <4>1. InExchange(d) /\ pc'[d] = "answered"
        BY <3>4, AnswerSteps DEF InExchange
      <4> QED
        BY <1>11, <3>1, <4>1 DEF SameAud
    <3> QED
      BY <1>7, <3>1, <3>3, <3>4, SpentSteps
  <2> QED
    BY <2>2, <2>3
<1> QED
  BY <1>1, <1>6, <1>8, <1>9, <1>10, <1>11

\* Every login got a token of its own.
LEMMA LoginsDistinct ==
  /\ Cardinality(LoginKeys) \in Nat
  /\ \A k \in LoginKeys : LoginRt[k] \in 1 .. Cardinality(LoginKeys)
  /\ \A j, k \in LoginKeys : LoginRt[j] = LoginRt[k] => j = k
<1> DEFINE n == Cardinality(LoginKeys)
           f == [k \in LoginKeys |-> LoginRt[k]]
<1>1. IsFiniteSet(LoginKeys) /\ n \in Nat
  BY ConstantsAssumption, FS_Subset, FS_CardinalityType DEF LoginKeys
<1>2. {LoginRt[k] : k \in LoginKeys} = 1 .. n
  BY ConstantsAssumption
<1> HIDE DEF n
<1>3. f \in Surjection(LoginKeys, 1 .. n)
  BY <1>2 DEF Surjection
<1>4. IsFiniteSet(1 .. n) /\ Cardinality(1 .. n) = n
  BY <1>1, FS_Interval
<1>5. f \in Injection(LoginKeys, 1 .. n)
  <2> HIDE DEF f
  <2> QED
    BY <1>1, <1>3, <1>4, FS_SurjSameCardinalityImpliesInj DEF n
<1>6. \A j, k \in LoginKeys : LoginRt[j] = LoginRt[k] => j = k
  BY <1>5 DEF Injection, IsInjective
<1> QED
  BY <1>1, <1>2, <1>6 DEF n

\* The copies there are when nothing has happened yet.
LEMMA InitCopies ==
  ASSUME Init, NEW k \in Keys, NEW v, Copy(k, v)
  PROVE  k \in LoginKeys /\ v = LoginRt[k]
<1>1. \A p \in Procs : ~Carried(p, k, v)
  BY DEF Init, Carried, WriteBack
<1> QED
  BY <1>1 DEF Init, Copy, NoEntry

\* Where refresh tokens rotate. With online access nothing is ever spent.
Rotation ==
  IF OnlineAccess THEN spent = {}
  ELSE Fresh /\ RewritesNew /\ SpentPending /\ SameAud

\* The invariants of rotation hold together.
LEMMA RotationInvariant ==
  ASSUME ~Interleaved, ~Lossy
  PROVE  Spec => [](Typed /\ LockHeld /\ Rotation)
<1>1. Init => Rotation
  <2> SUFFICES ASSUME Init PROVE Rotation
    OBVIOUS
  <2>1. Typed /\ spent = {} /\ issued = Cardinality(LoginKeys) /\ \A p \in Procs : pc[p] = "idle" /\ reg[p] = NoReg
    BY InitTyped DEF Init
  <2>2. /\ \A c \in Calls : ~InExchange(c) /\ ~Holds(c) /\ pc[c] = "idle"
        /\ RewritesNew /\ OpsBringNone
    <3>1. NoReg.new = 0 /\ \A p : p \in Calls \/ p \in Ops => p \in Procs
      BY DEF NoReg, Procs
    <3> QED
      BY <2>1, <3>1 DEF InExchange, Holds, RewritesNew, OpsBringNone
  <2>3. SpentPending
    BY <2>1 DEF SpentPending
  <2>4. Fresh
    BY <2>1, <2>2, InitCopies, LoginsDistinct DEF Fresh
  <2>5. SameAud
    BY <2>1, <2>2, InitCopies, LoginsDistinct DEF SameAud
  <2> QED
    BY <2>1, <2>2, <2>3, <2>4, <2>5 DEF Rotation
<1>2. Typed /\ LockHeld /\ Rotation /\ [Next]_vars => Rotation'
  <2>1. ASSUME Typed, LockHeld, Rotation, Next PROVE Rotation'
    <3>1. CASE OnlineAccess
      <4>1. ASSUME NEW c \in Calls, Answered(c) PROVE spent' = spent
        <5>1. \E narrow : Spends(c, narrow)
          BY <4>1 DEF Answered
        <5> QED
          BY <3>1, <5>1 DEF Spends
      <4>2. spent' = spent
        BY <2>1, <4>1, SpentSteps
      <4> QED
        BY <2>1, <3>1, <4>2 DEF Rotation
    <3>2. CASE ~OnlineAccess
      BY <2>1, <3>2, NextFresh, NextRewritesNew, NextSpentPending, NextSameAud DEF Rotation
    <3> QED
      BY <3>1, <3>2
  <2>2. ASSUME Rotation, UNCHANGED vars PROVE Rotation'
    <3>1. UNCHANGED <<cache, issued, spent, useMrrt, pc, req, reg>>
      BY <2>2 DEF vars, server
    <3>2. Fresh => Fresh'
      BY <3>1 DEF Fresh, Copy, Carried, InExchange, Holds, OpsBringNone
    <3>3. RewritesNew => RewritesNew'
      BY <3>1 DEF RewritesNew
    <3>4. SpentPending => SpentPending'
      BY <3>1 DEF SpentPending, Copy, Carried, WillSwap, Pending, Holds
    <3>5. SameAud => SameAud'
      BY <3>1 DEF SameAud, Copy, Carried, InExchange, Holds
    <3> QED
      BY <2>2, <3>1, <3>2, <3>3, <3>4, <3>5 DEF Rotation
  <2> QED
    BY <2>1, <2>2
<1>3. Init => LockHeld
  BY DEF Init, LockHeld, Critical, Procs
<1> QED
  BY <1>1, <1>2, <1>3, InitTyped, NextTyped, NextHeld, PTL DEF Spec

\* In one page, and when no answer is lost, no call sends a refresh token that
\* an earlier exchange has spent: whoever reads a spent one holds the lock of
\* the call that is about to replace it.
THEOREM ReplayFree ==
  ASSUME ~Interleaved, ~Lossy
  PROVE  Spec => []NoReplay
<1>1. Rotation => NoReplay
  BY DEF Rotation, SameAud, NoReplay
<1> QED
  BY <1>1, RotationInvariant, PTL

\* ... and when nothing is under way no cache entry has a spent token: somebody
\* was due to swap it and is done.
THEOREM CacheUnspent ==
  ASSUME ~Interleaved, ~Lossy
  PROVE  Spec => []CachedTokensUnspent
<1>1. Typed /\ Rotation => CachedTokensUnspent
  <2> SUFFICES ASSUME Typed, Rotation, Quiet, NEW k \in Keys, cache[k].rt \in spent PROVE FALSE
    BY DEF CachedTokensUnspent
  <2>1. Fresh /\ SpentPending
    BY DEF Rotation
  <2>2. Copy(k, cache[k].rt)
    <3>1. cache[k].rt # 0
      BY <2>1 DEF Fresh
    <3> QED
      BY <3>1 DEF Copy
  <2>3. PICK c \in Calls : Holds(c)
    BY <2>1, <2>2 DEF SpentPending, WillSwap
  <2> QED
    BY <2>3 DEF Quiet, Holds, Procs
<1> QED
  BY <1>1, RotationInvariant, PTL

-----------------------------------------------------------------------------
(* One multi-resource token for all *)

\* With MRRT all copies are of one token, but for the keys that a rewriting
\* loop has still to get to; those it has passed hold the new one.
Convergence ==
  useMrrt =>
    /\ (\A c \in Calls : pc[c] \notin {"rewrite", "rewriteSet"}) =>
         \A j, k \in Keys : \A u, v : Copy(j, u) /\ Copy(k, v) => u = v
    /\ \A c \in Calls, k \in Keys : \A v :
         pc[c] \in {"rewrite", "rewriteSet"} /\ Copy(k, v) /\ ~Pending(c, k) => v = reg[c].new

\* Every step keeps the copies converging.
LEMMA NextConvergence ==
  ASSUME Typed, Next, ~Interleaved, ~OnlineAccess, OpsBringNone, RewritesNew, Convergence
  PROVE  Convergence'
<1>0. /\ useMrrt' = useMrrt /\ \A c \in Calls : c \in Procs /\ c \notin Ops
      /\ \A k \in Keys : \A v : Copy(k, v)' => v # 0
  BY ServerGrows, InHand, ConstantsAssumption DEF Copy
<1> SUFFICES ASSUME useMrrt
             PROVE
    /\ (\A c \in Calls : pc'[c] \notin {"rewrite", "rewriteSet"}) =>
         \A j, k \in Keys : \A u, v : Copy(j, u)' /\ Copy(k, v)' => u = v
    /\ \A c \in Calls, k \in Keys : \A v :
         pc'[c] \in {"rewrite", "rewriteSet"} /\ Copy(k, v)' /\ ~Pending(c, k)' => v = reg'[c].new
  BY <1>0 DEF Convergence
<1>1. ASSUME NEW c \in Calls, NEW k \in Keys, NEW v, pc'[c] \in {"rewrite", "rewriteSet"}, Copy(k, v)', ~Pending(c, k)'
      PROVE  v = reg'[c].new
  <2>1. CASE pc'[c] = pc[c] /\ reg'[c] = reg[c]
    <3>1. ASSUME NEW p \in Procs, v = reg[p].new, Brings(p, k) PROVE v = reg[c].new
      <4>1. p = c
        <5>1. Turn(p) /\ pc[p] \in {"save", "rewrite"}
          BY <3>1, BroughtIn
        <5> QED
          BY <1>0, <1>1, <2>1, <5>1, OthersWait DEF Starting, Waiting
      <4> QED
        BY <3>1, <4>1
    <3>2. CASE Copy(k, v)
      BY <1>1, <2>1, <3>2 DEF Convergence, Pending
    <3> QED
      BY <1>1, <2>1, <3>1, <3>2, CopySteps
  <2>2. CASE Saved(c)
    <3>1. /\ Turn(c) /\ pc[c] \notin Starting /\ Alone(c) /\ pc'[c] \notin WriteBack
          /\ reg'[c].todo = PresentKeys \cup {req[c].key}
          /\ Writes(req[c].key, [at |-> reg[c].at, exp |-> "fresh", rt |-> reg[c].new])
      BY <1>0, <2>2, AloneSteps DEF Saved, Starting, WriteBack
    <3>2. cache'[k].rt = v /\ k # req[c].key
      BY <1>0, <1>1, <3>1, CopyAfter DEF Carried, Pending
    <3>3. cache[k].rt = v /\ v # 0
      BY <1>0, <1>1, <3>1, <3>2 DEF Writes
    <3>4. Present(k)
      BY <3>3, InHand DEF Present, EntryOK, NoEntry
    <3> QED
      BY <1>1, <3>1, <3>4 DEF Pending, PresentKeys
  <2>3. CASE Skipped(c)
    <3>1. PICK j \in reg[c].todo : ~Rewrites(c, cache[j].rt) /\ reg'[c].todo = reg[c].todo \ {j}
      BY <2>3 DEF Skipped
    <3>2. /\ Turn(c) /\ pc[c] = "rewrite" /\ pc[c] \notin Starting /\ Alone(c) /\ pc'[c] \notin WriteBack
          /\ UNCHANGED cache /\ reg'[c].new = reg[c].new
      BY <1>0, <2>3, AloneSteps DEF Skipped, Starting, WriteBack, Shared, Carries
    <3>3. cache[k].rt = v /\ v # 0
      BY <1>0, <1>1, <3>2, CopyAfter DEF Carried
    <3>4. k # j
      BY <3>1, <3>3 DEF Rewrites
    <3>5. k \notin reg[c].todo
      BY <1>1, <3>1, <3>4 DEF Pending
    <3>6. Copy(k, v)
      BY <3>3 DEF Copy
    <3> QED
      BY <3>2, <3>5, <3>6 DEF Convergence, Pending
  <2>4. CASE Picked(c)
    <3>1. /\ Turn(c) /\ pc[c] = "rewrite" /\ pc[c] \notin Starting /\ Alone(c) /\ pc'[c] = "rewriteSet"
          /\ UNCHANGED cache /\ reg'[c].new = reg[c].new /\ reg'[c].todo = reg[c].todo \ {reg'[c].key}
      BY <1>0, <2>4, AloneSteps DEF Picked, Starting, Shared, Carries
    <3>2. k # reg'[c].key /\ k \notin reg[c].todo
      BY <1>1, <3>1 DEF Pending
    <3>3. cache[k].rt = v /\ v # 0
      BY <1>0, <1>1, <3>1, <3>2, CopyAfter DEF Carried
    <3>4. Copy(k, v)
      BY <3>3 DEF Copy
    <3> QED
      BY <3>1, <3>2, <3>4 DEF Convergence, Pending
  <2>5. CASE Rewritten(c)
    <3>1. /\ Turn(c) /\ pc[c] = "rewriteSet" /\ pc[c] \notin Starting /\ Alone(c) /\ pc'[c] \notin WriteBack
          /\ reg'[c].todo = reg[c].todo /\ Writes(reg[c].key, reg[c].entry) /\ reg'[c].new = reg[c].new
      BY <1>0, <2>5, AloneSteps DEF Rewritten, Starting, WriteBack, Carries
    <3>2. cache'[k].rt = v /\ v # 0
      BY <1>0, <1>1, <3>1, CopyAfter DEF Carried
    <3>3. CASE k = reg[c].key
      BY <1>0, <3>1, <3>2, <3>3 DEF Writes, RewritesNew
    <3>4. CASE k # reg[c].key
      <4>1. Copy(k, v)
        BY <3>1, <3>2, <3>4 DEF Writes, Copy
      <4>2. ~Pending(c, k)
        BY <1>1, <3>1, <3>4 DEF Pending
      <4> QED
        BY <3>1, <4>1, <4>2 DEF Convergence
    <3> QED
      BY <3>3, <3>4
  <2> QED
    BY <1>0, <1>1, <2>1, <2>2, <2>3, <2>4, <2>5, LoopLives
<1>2. ASSUME \A c \in Calls : pc'[c] \notin {"rewrite", "rewriteSet"},
             NEW j \in Keys, NEW k \in Keys, NEW u, NEW v, Copy(j, u)', Copy(k, v)'
      PROVE  u = v
  <2>1. ASSUME NEW i \in Keys, NEW w, Copy(i, w)' PROVE Copy(i, w)
    <3>1. ASSUME NEW p \in Procs, w = reg[p].new, Brings(p, i) PROVE FALSE
      <4>1. p \in Calls
        BY <1>0, <2>1, <3>1 DEF OpsBringNone, Procs
      <4> QED
        BY <1>2, <3>1, <4>1, BroughtIn
    <3> QED
      BY <2>1, <3>1, CopySteps
  <2>2. CASE \A c \in Calls : pc[c] \notin {"rewrite", "rewriteSet"}
    BY <1>2, <2>1, <2>2 DEF Convergence
  <2>3. ASSUME NEW c \in Calls, pc[c] \in {"rewrite", "rewriteSet"} PROVE u = v
    <3>1. Returned(c) \/ Dropped(c)
      <4>1. CASE Holds(c)'
        <5>1. pc'[c] \in {"answered", "save"}
          BY <1>2, <4>1 DEF Holds
        <5> QED
          BY <2>3, <5>1, ExchangeLives DEF Answered
      <4> QED
        BY <2>3, <4>1, ExchangeLives DEF Holds
    <3>2. \A i \in Keys : ~Pending(c, i)
      BY <3>1 DEF Returned, Dropped, Pending
    <3> QED
      BY <1>2, <2>1, <2>3, <3>2 DEF Convergence
  <2> QED
    BY <2>2, <2>3
<1> QED
  BY <1>1, <1>2

\* In online mode there are no tokens but those of the logins, revoked or not.
LoginsOnly ==
  /\ \A k \in Keys : \A v : Copy(k, v) => v \in LoginRts
  /\ \A c \in Calls : InExchange(c) => reg[c].old \in LoginRts
  /\ \A c \in Calls : Holds(c) => reg[c].new \in LoginRts
  /\ OpsBringNone

\* An online answer brings back the token that was sent.
LEMMA NextLoginsOnly ==
  ASSUME Typed, Next, OnlineAccess, LoginsOnly
  PROVE  LoginsOnly'
<1>1. ASSUME NEW k \in Keys, NEW v, Copy(k, v)' PROVE v \in LoginRts
  <2>1. v # 0
    BY <1>1 DEF Copy
  <2>2. ASSUME NEW p \in Procs, v = reg[p].new, Brings(p, k) PROVE v \in LoginRts
    <3>1. p \in Calls
      BY <2>1, <2>2 DEF LoginsOnly, OpsBringNone, Procs
    <3>2. Holds(p)
      BY <2>2, <3>1, BroughtIn DEF Holds
    <3> QED
      BY <2>2, <3>1, <3>2 DEF LoginsOnly
  <2> QED
    BY <1>1, <2>2, CopySteps DEF LoginsOnly
<1>2. ASSUME NEW c \in Calls, InExchange(c)' PROVE reg'[c].old \in LoginRts
  <2>1. CASE Sent(c) \/ StripSent(c)
    BY <2>1, SentCopy DEF LoginsOnly
  <2> QED
    BY <1>2, <2>1, ExchangeLives DEF LoginsOnly
<1>3. ASSUME NEW c \in Calls, Holds(c)' PROVE reg'[c].new \in LoginRts
  <2>1. CASE Answered(c)
    <3>1. InExchange(c) /\ reg'[c].new = reg[c].old
      BY <2>1 DEF Answered, InExchange
    <3> QED
      BY <3>1 DEF LoginsOnly
  <2> QED
    BY <1>3, <2>1, ExchangeLives DEF LoginsOnly
<1>4. OpsBringNone'
  BY NextOpsBringNone DEF LoginsOnly
<1> QED
  BY <1>1, <1>2, <1>3, <1>4 DEF LoginsOnly

\* In one page that has logged in once, all cache entries hold one and the same
\* multi-resource token whenever nothing is under way, whatever was lost,
\* refused, revoked or wiped before.
THEOREM AllConverge ==
  ASSUME ~Interleaved, \A j, k \in LoginKeys : j = k
  PROVE  Spec => []Converged
<1> DEFINE Inv == IF OnlineAccess THEN LoginsOnly ELSE OpsBringNone /\ RewritesNew /\ Convergence
<1>1. Init => Inv
  <2> SUFFICES ASSUME Init PROVE Inv
    OBVIOUS
  <2>1. /\ \A c \in Calls : ~InExchange(c) /\ ~Holds(c) /\ pc[c] = "idle"
        /\ RewritesNew /\ OpsBringNone
    <3>1. NoReg.new = 0 /\ \A p : p \in Calls \/ p \in Ops => p \in Procs
      BY DEF NoReg, Procs
    <3> QED
      BY <3>1 DEF Init, InExchange, Holds, RewritesNew, OpsBringNone
  <2>2. LoginsOnly
    BY <2>1, InitCopies DEF LoginsOnly, LoginRts
  <2>3. Convergence
    BY <2>1, InitCopies DEF Convergence
  <2> QED
    BY <2>1, <2>2, <2>3
<1>2. Typed /\ Inv /\ [Next]_vars => Inv'
  <2>1. ASSUME Typed, Inv, Next PROVE Inv'
    <3>1. CASE OnlineAccess
      BY <2>1, <3>1, NextLoginsOnly
    <3>2. CASE ~OnlineAccess
      BY <2>1, <3>2, NextOpsBringNone, NextRewritesNew, NextConvergence
    <3> QED
      BY <3>1, <3>2
  <2>2. ASSUME Inv, UNCHANGED vars PROVE Inv'
    <3>1. UNCHANGED <<cache, useMrrt, pc, reg>>
      BY <2>2 DEF vars, server
    <3>2. OpsBringNone => OpsBringNone'
      BY <3>1 DEF OpsBringNone
    <3>3. LoginsOnly => LoginsOnly'
      BY <3>1, <3>2 DEF LoginsOnly, Copy, Carried, InExchange, Holds
    <3>4. RewritesNew => RewritesNew'
      BY <3>1 DEF RewritesNew
    <3>5. Convergence => Convergence'
      BY <3>1 DEF Convergence, Copy, Carried, Pending
    <3> QED
      BY <2>2, <3>2, <3>3, <3>4, <3>5
  <2> QED
    BY <2>1, <2>2
<1>3. Inv => Converged
  <2> SUFFICES ASSUME Inv, Quiet, useMrrt, NEW j \in Keys, NEW k \in Keys, cache[j].rt # 0, cache[k].rt # 0
               PROVE  cache[j].rt = cache[k].rt
    BY DEF Converged, OneTokenShared
  <2>1. Copy(j, cache[j].rt) /\ Copy(k, cache[k].rt)
    BY DEF Copy
  <2>2. CASE OnlineAccess
    BY <2>1, <2>2 DEF LoginsOnly, LoginRts
  <2>3. CASE ~OnlineAccess
    <3>1. \A c \in Calls : pc[c] \notin {"rewrite", "rewriteSet"}
      BY DEF Quiet, Procs
    <3> QED
      BY <2>1, <2>3, <3>1 DEF Convergence
  <2> QED
    BY <2>2, <2>3
<1> HIDE DEF Inv
<1> QED
  BY <1>1, <1>2, <1>3, InitTyped, NextTyped, PTL DEF Spec
=============================================================================
