------------------------- MODULE TokenWorkerProofs -------------------------
(***************************************************************************)
(* Proofs about TokenWorker, for any number of calls, keys, audiences and  *)
(* configurations. The invariant Worker says what the local variables of a *)
(* call hold at each of its control points; Fresh, that a refresh token on *)
(* its way from the server is known to nobody else. The theorems follow    *)
(* the tokens from there. The last one bounds what a call has left to do.  *)
(***************************************************************************)
EXTENDS TokenWorker, FiniteSetTheorems, TLAPS

Points == {"idle", "posted", "fetching", "responded", "revoking", "revFetching", "revDone",
           "replied", "settled"}

AnyKind == TokenKinds \cup {"none", "revoke", "clear"}

AnyAnswer == [kind : {"none", "ok", "nonce", "mfa", "fail", "missing", "error"}, rt : Nat]

AnyReg == [rt : Nat, tries : Nat, again : BOOLEAN, answer : AnyAnswer, rts : SUBSET Nat]

Typed ==
  /\ store \in [Keys -> Nat] /\ latest \in Nat
  /\ inbox \in Seq(Calls)
  /\ pc \in [Calls -> Points]
  /\ req \in [Calls -> [kind : AnyKind, key : Keys, bound : Nat]]
  /\ reg \in [Calls -> AnyReg]
  /\ challenges \subseteq Keys \X Nat
  /\ issued \in Nat /\ spent \subseteq Nat /\ revoked \subseteq Nat
  /\ profile \in Profile

\* A call on its way to the worker is in its queue once.
Queue ==
  /\ \A i \in 1 .. Len(inbox) : pc[inbox[i]] = "posted"
  /\ \A i, j \in 1 .. Len(inbox) : inbox[i] = inbox[j] => i = j

\* What a call's local variables hold where it is.
Local(c) ==
  /\ pc[c] = "idle" => req[c].kind = "none"
  /\ pc[c] \in {"idle", "posted"} => reg[c].rt = 0 /\ reg[c].answer = NoAnswer /\ reg[c].rts = {}
  /\ pc[c] \in {"fetching", "responded"} =>
       /\ req[c].kind \in TokenKinds /\ reg[c].rts = {}
       /\ req[c].kind = "refresh" => reg[c].rt # 0
       /\ req[c].kind \in {"code", "custom"} => reg[c].rt = 0
  /\ pc[c] = "fetching" => reg[c].answer = NoAnswer
  /\ pc[c] = "responded" => /\ reg[c].answer.kind \in {"ok", "nonce", "mfa", "fail"}
                            /\ reg[c].answer.rt # 0 => reg[c].answer.kind = "ok"
  /\ pc[c] \in {"revoking", "revFetching", "revDone"} =>
       req[c].kind = "revoke" /\ reg[c].answer = NoAnswer /\ 0 \notin reg[c].rts
  /\ pc[c] \in {"revFetching", "revDone"} => reg[c].rt # 0
  /\ pc[c] = "revDone" => reg[c].rt \in revoked
  /\ pc[c] \in {"replied", "settled"} => reg[c].answer.rt = 0
  /\ reg[c].answer.kind = "mfa" => req[c].kind = "refresh" /\ reg[c].rt # 0
  /\ req[c].kind = "mfa" => <<req[c].key, req[c].bound>> \in challenges

\* What the server and the configuration imply.
Server ==
  /\ 0 \notin spent /\ 0 \notin revoked
  /\ \A ch \in challenges : ch[2] # 0
  /\ profile.onlineAccess => spent = {}
  /\ ~profile.useMrrt => latest = 0

Worker == Typed /\ Queue /\ Server /\ \A c \in Calls : Local(c)

\* A step that changes nothing of other calls.
Only(c) == \A d \in Calls \ {c} : pc'[d] = pc[d] /\ reg'[d] = reg[d] /\ req'[d] = req[d]

USE ConstantsAssumption

-----------------------------------------------------------------------------
(* The effect of each action on the call that takes it *)

\* The placeholder key is a key.
LEMMA FirstKeyType == FirstKey \in Keys
  BY DEF FirstKey

\* The empty register is well formed.
LEMMA NoRegType == NoReg \in AnyReg
  BY DEF NoReg, AnyReg, AnyAnswer, NoAnswer

\* The start of a call.
LEMMA StartEffect ==
  ASSUME Typed, NEW c \in Calls, NEW r \in [kind : AnyKind, key : Keys, bound : Nat], Start(c, r)
  PROVE  /\ Typed' /\ Only(c)
         /\ pc[c] = "idle" /\ pc'[c] = "posted" /\ req'[c] = r /\ reg'[c] = reg[c]
         /\ inbox' = Append(inbox, c)
         /\ UNCHANGED <<store, latest, reg, challenges, issued, spent, revoked, profile>>
  BY DEF Typed, Only, Start, Post, Goto, server, Points

\* A register with another token, answer or set of tokens to revoke.
LEMMA WithToken ==
  ASSUME NEW r \in AnyReg, NEW v \in Nat
  PROVE  /\ [r EXCEPT !.rt = v] \in AnyReg
         /\ [r EXCEPT !.rt = v].rt = v
         /\ [r EXCEPT !.rt = v].rts = r.rts /\ [r EXCEPT !.rt = v].answer = r.answer
  BY DEF AnyReg

\* Another answer.
LEMMA WithAnswer ==
  ASSUME NEW r \in AnyReg, NEW a \in AnyAnswer
  PROVE  /\ [r EXCEPT !.answer = a] \in AnyReg
         /\ [r EXCEPT !.answer = a].answer = a
         /\ [r EXCEPT !.answer = a].rt = r.rt /\ [r EXCEPT !.answer = a].rts = r.rts
  BY DEF AnyReg

\* Other tokens to revoke.
LEMMA WithTokens ==
  ASSUME NEW r \in AnyReg, NEW s \in SUBSET Nat
  PROVE  /\ [r EXCEPT !.rts = s] \in AnyReg
         /\ [r EXCEPT !.rts = s].rts = s
         /\ [r EXCEPT !.rts = s].rt = r.rt /\ [r EXCEPT !.rts = s].answer = r.answer
  BY DEF AnyReg

\* A step that sets the register of one call, or its control point.
LEMMA SetReg ==
  ASSUME reg \in [Calls -> AnyReg], NEW c \in Calls, NEW r \in AnyReg, reg' = [reg EXCEPT ![c] = r]
  PROVE  reg' \in [Calls -> AnyReg] /\ reg'[c] = r /\ \A d \in Calls \ {c} : reg'[d] = reg[d]
  OBVIOUS

\* Its control point.
LEMMA SetPoint ==
  ASSUME pc \in [Calls -> Points], NEW c \in Calls, NEW l \in Points, pc' = [pc EXCEPT ![c] = l]
  PROVE  pc' \in [Calls -> Points] /\ pc'[c] = l /\ \A d \in Calls \ {c} : pc'[d] = pc[d]
  OBVIOUS

\* The answer to a call.
LEMMA ReplyEffect ==
  ASSUME Typed, NEW c \in Calls, NEW kind \in {"ok", "nonce", "mfa", "fail", "missing", "error"},
         Reply(c, kind, 0), UNCHANGED req
  PROVE  /\ Only(c) /\ pc' \in [Calls -> Points] /\ reg' \in [Calls -> AnyReg]
         /\ pc'[c] = "replied" /\ req'[c] = req[c]
         /\ reg'[c].rt = reg[c].rt /\ reg'[c].rts = reg[c].rts
         /\ reg'[c].answer.kind = kind /\ reg'[c].answer.rt = 0
<1> DEFINE a == [kind |-> kind, rt |-> 0]
           r == [reg[c] EXCEPT !.answer = a]
<1>1. a \in AnyAnswer /\ a.kind = kind /\ a.rt = 0
  BY DEF AnyAnswer
<1>2. reg' = [reg EXCEPT ![c] = r] /\ pc' = [pc EXCEPT ![c] = "replied"]
  BY DEF Reply, Goto
<1>3. pc \in [Calls -> Points] /\ reg \in [Calls -> AnyReg] /\ reg[c] \in AnyReg /\ "replied" \in Points
  BY DEF Typed, Points
<1> HIDE DEF a
<1>4. r \in AnyReg /\ r.answer = a /\ r.rt = reg[c].rt /\ r.rts = reg[c].rts
  BY <1>1, <1>3, WithAnswer
<1> HIDE DEF r
<1>5. reg' \in [Calls -> AnyReg] /\ reg'[c] = r /\ \A d \in Calls \ {c} : reg'[d] = reg[d]
  BY <1>2, <1>3, <1>4, SetReg
<1>6. pc' \in [Calls -> Points] /\ pc'[c] = "replied" /\ \A d \in Calls \ {c} : pc'[d] = pc[d]
  BY <1>2, <1>3, SetPoint
<1> QED
  BY <1>1, <1>4, <1>5, <1>6 DEF Only

\* The refresh token a handler works with is one of the worker's.
LEMMA TokenForType ==
  ASSUME Typed, NEW kind \in TokenKinds, NEW k \in Keys
  PROVE  /\ TokenFor(kind, k) \in Nat
         /\ TokenFor(kind, k) \in Stored \cup {0}
         /\ kind \in {"code", "custom"} => TokenFor(kind, k) = 0
         /\ ~profile.useMrrt /\ kind = "refresh" => TokenFor(kind, k) = store[k]
<1>1. CASE kind = "refresh"
  BY <1>1 DEF TokenFor, Typed, Stored
<1>2. CASE kind = "mfa"
  BY <1>2 DEF TokenFor, Typed, Stored
<1>3. CASE kind \in {"code", "custom"}
  BY <1>3 DEF TokenFor
<1> QED
  BY <1>1, <1>2, <1>3 DEF TokenKinds

\* The router takes the first call of the queue, which is on its way.
LEMMA RouterTakes ==
  ASSUME Typed, Queue, MessageRouter
  PROVE  /\ Head(inbox) \in Calls /\ pc[Head(inbox)] = "posted"
         /\ inbox' = Tail(inbox) /\ inbox' \in Seq(Calls)
         /\ \A i \in 1 .. Len(inbox') : inbox'[i] = inbox[i + 1] /\ i + 1 \in 1 .. Len(inbox) /\ inbox'[i] # Head(inbox)
         /\ UNCHANGED <<req, challenges, issued, spent, revoked, profile>>
<1>1. inbox # <<>> /\ inbox' = Tail(inbox) /\ inbox \in Seq(Calls)
  BY DEF MessageRouter, Typed
<1>2. Len(inbox) \in Nat /\ Len(inbox) > 0 /\ Head(inbox) = inbox[1] /\ Head(inbox) \in Calls
  BY <1>1
<1>3. Len(inbox') = Len(inbox) - 1 /\ \A i \in 1 .. Len(inbox') : inbox'[i] = inbox[i + 1]
  BY <1>1
<1>4. \A i \in 1 .. Len(inbox') : i + 1 \in 1 .. Len(inbox) /\ i + 1 # 1
  BY <1>2, <1>3
<1>5. \A i \in 1 .. Len(inbox') : inbox'[i] # Head(inbox)
  BY <1>2, <1>3, <1>4 DEF Queue
<1>6. pc[Head(inbox)] = "posted"
  BY <1>2 DEF Queue
<1>7. inbox' \in Seq(Calls)
  BY <1>1
<1> QED
  BY <1>1, <1>2, <1>3, <1>4, <1>5, <1>6, <1>7 DEF MessageRouter, server

\* A token request that has found its refresh token, or needs none.
LEMMA RouteTokenEffect ==
  ASSUME Typed, NEW c \in Calls, RouteToken(c), UNCHANGED req
  PROVE  /\ Only(c) /\ pc' \in [Calls -> Points] /\ reg' \in [Calls -> AnyReg]
         /\ req'[c] = req[c] /\ UNCHANGED <<store, latest>>
         /\ \/ /\ pc'[c] = "replied" /\ req[c].kind = "refresh"
               /\ TokenFor("refresh", req[c].key) = 0
               /\ reg'[c].rt = reg[c].rt /\ reg'[c].rts = reg[c].rts
               /\ reg'[c].answer.kind = "missing" /\ reg'[c].answer.rt = 0
            \/ /\ pc'[c] = "fetching" /\ req[c].kind \in TokenKinds
               /\ reg'[c].rt = TokenFor(req[c].kind, req[c].key)
               /\ reg'[c].rts = reg[c].rts /\ reg'[c].answer = reg[c].answer
               /\ req[c].kind = "refresh" => reg'[c].rt # 0
<1> DEFINE rt == TokenFor(req[c].kind, req[c].key)
<1>1. req[c].kind \in TokenKinds /\ req[c].key \in Keys /\ UNCHANGED <<store, latest>>
  BY DEF RouteToken, Typed
<1>2. rt \in Nat
  BY <1>1, TokenForType
<1>3. CASE req[c].kind = "refresh" /\ rt = 0
  <2>1. Reply(c, "missing", 0)
    BY <1>3 DEF RouteToken
  <2> QED
    BY <1>1, <1>3, <2>1, ReplyEffect
<1>4. CASE ~(req[c].kind = "refresh" /\ rt = 0)
  <2>1. pc' = [pc EXCEPT ![c] = "fetching"] /\ reg' = [reg EXCEPT ![c].rt = rt]
    BY <1>4 DEF RouteToken, Goto
  <2> DEFINE r == [reg[c] EXCEPT !.rt = rt]
  <2>a. reg' = [reg EXCEPT ![c] = r]
    BY <2>1
  <2>b. reg \in [Calls -> AnyReg] /\ reg[c] \in AnyReg
    BY DEF Typed
  <2> HIDE DEF rt
  <2>c. r \in AnyReg /\ r.rt = rt /\ r.rts = reg[c].rts /\ r.answer = reg[c].answer
    BY <1>2, <2>b, WithToken
  <2> HIDE DEF r
  <2>2. reg' \in [Calls -> AnyReg] /\ reg'[c] = r
    BY <2>a, <2>b, <2>c, SetReg
  <2>3. reg'[c].rt = rt /\ reg'[c].rts = reg[c].rts /\ reg'[c].answer = reg[c].answer
    BY <2>2, <2>c
  <2>4. Only(c) /\ pc' \in [Calls -> Points] /\ pc'[c] = "fetching"
    BY <2>1 DEF Typed, Only, Points
  <2>5. req[c].kind = "refresh" => rt # 0
    BY <1>4
  <2> QED
    BY <1>1, <2>2, <2>3, <2>4, <2>5 DEF rt
<1> QED
  BY <1>3, <1>4

\* Routing a revoke message.
LEMMA RouteRevokeEffect ==
  ASSUME Typed, NEW c \in Calls, RouteRevoke(c), UNCHANGED req
  PROVE  /\ Only(c) /\ pc' \in [Calls -> Points] /\ reg' \in [Calls -> AnyReg]
         /\ req'[c] = req[c] /\ UNCHANGED <<store, latest>> /\ req[c].kind = "revoke"
         /\ pc'[c] = "revoking"
         /\ reg'[c].rt = reg[c].rt /\ reg'[c].answer = reg[c].answer
         /\ reg'[c].rts = TokensOf(AudOf[req[c].key])
         /\ 0 \notin reg'[c].rts /\ reg'[c].rts \subseteq Stored
<1> DEFINE rts == TokensOf(AudOf[req[c].key])
<1>1. rts \subseteq Nat /\ 0 \notin rts /\ rts \subseteq Stored
  BY DEF TokensOf, Typed, Stored
<1>2. pc' = [pc EXCEPT ![c] = "revoking"] /\ reg' = [reg EXCEPT ![c].rts = rts]
  BY DEF RouteRevoke, Goto
<1> DEFINE r == [reg[c] EXCEPT !.rts = rts]
<1>a. reg' = [reg EXCEPT ![c] = r]
  BY <1>2
<1>b. reg \in [Calls -> AnyReg] /\ reg[c] \in AnyReg
  BY DEF Typed
<1> HIDE DEF rts
<1>c. r \in AnyReg /\ r.rts = rts /\ r.rt = reg[c].rt /\ r.answer = reg[c].answer
  BY <1>1, <1>b, WithTokens
<1> HIDE DEF r
<1>3. reg' \in [Calls -> AnyReg] /\ reg'[c] = r
  BY <1>a, <1>b, <1>c, SetReg
<1>4. reg'[c].rt = reg[c].rt /\ reg'[c].answer = reg[c].answer /\ reg'[c].rts = rts
  BY <1>3, <1>c
<1>5. Only(c) /\ pc' \in [Calls -> Points] /\ pc'[c] = "revoking"
  BY <1>2 DEF Typed, Only, Points
<1> QED
  BY <1>1, <1>3, <1>4, <1>5 DEF RouteRevoke, rts

\* The end of a call, or its next message.
LEMMA SettleEffect ==
  ASSUME Typed, NEW c \in Calls, Settle(c), UNCHANGED <<req, reg>>
  PROVE  /\ Only(c) /\ pc' \in [Calls -> Points] /\ pc'[c] = "settled" /\ UNCHANGED inbox
         /\ reg'[c] = reg[c] /\ req'[c] = req[c]
  BY DEF Typed, Only, Settle, Goto, Points

\* Posting a request again.
LEMMA RepostEffect ==
  ASSUME Typed, NEW c \in Calls, Post(c), NEW r \in AnyReg, reg' = [reg EXCEPT ![c] = r],
         \A d \in Calls \ {c} : req'[d] = req[d]
  PROVE  /\ Only(c) /\ pc' \in [Calls -> Points] /\ reg' \in [Calls -> AnyReg]
         /\ pc'[c] = "posted" /\ inbox' = Append(inbox, c) /\ inbox' \in Seq(Calls)
         /\ reg'[c] = r
  BY DEF Typed, Only, Post, Goto, Points

\* The keys under which the worker stores the refresh token of an answer.
Reached(c) == {req[c].key} \cup {j \in Keys : profile.useMrrt /\ store[j] # 0 /\ store[j] = reg[c].rt}

Keeps(c) == req[c].kind = "custom" \/ (reg[c].answer.rt = 0 /\ profile.onlineAccess)

\* What the worker keeps of an answer.
LEMMA RememberEffect ==
  ASSUME Typed, NEW c \in Calls, Remember(c)
  PROVE  /\ store' \in [Keys -> Nat] /\ latest' \in Nat
         /\ \/ Keeps(c) /\ UNCHANGED <<store, latest>>
            \/ /\ ~Keeps(c) /\ req[c].kind # "custom" /\ reg[c].answer.rt # 0
               /\ \A j \in Keys : store'[j] = IF j \in Reached(c) THEN reg[c].answer.rt ELSE store[j]
               /\ latest' = IF profile.useMrrt THEN reg[c].answer.rt ELSE latest
            \/ /\ ~Keeps(c) /\ req[c].kind # "custom" /\ reg[c].answer.rt = 0 /\ ~profile.onlineAccess
               /\ \A j \in Keys : store'[j] = IF j = req[c].key THEN 0 ELSE store[j]
               /\ latest' = latest
<1>1. reg[c].answer.rt \in Nat /\ req[c].key \in Keys
  BY DEF Typed, AnyReg, AnyAnswer
<1>2. CASE Keeps(c)
  BY <1>2 DEF Remember, Keeps, Typed
<1>3. CASE ~Keeps(c) /\ reg[c].answer.rt # 0
  <2>1. /\ store' = [j \in Keys |-> IF j \in Reached(c) THEN reg[c].answer.rt ELSE store[j]]
        /\ latest' = IF profile.useMrrt THEN reg[c].answer.rt ELSE latest
    BY <1>3 DEF Remember, Keeps, Reached
  <2> QED
    BY <1>1, <1>3, <2>1 DEF Keeps, Typed
<1>4. CASE ~Keeps(c) /\ reg[c].answer.rt = 0
  <2>1. store' = [store EXCEPT ![req[c].key] = 0] /\ latest' = latest
    BY <1>4 DEF Remember, Keeps
  <2> QED
    BY <1>1, <1>4, <2>1 DEF Keeps, Typed
<1> QED
  BY <1>2, <1>3, <1>4

\* Storing the token of an answer.
LEMMA StoreAnswerEffect ==
  ASSUME Typed, NEW c \in Calls, Local(c), StoreAnswer(c)
  PROVE  /\ Typed' /\ Only(c) /\ pc[c] = "responded" /\ pc'[c] = "replied" /\ req'[c] = req[c]
         /\ reg'[c].rt = reg[c].rt /\ reg'[c].rts = reg[c].rts
         /\ reg'[c].answer.kind = reg[c].answer.kind /\ reg'[c].answer.rt = 0
         /\ Remember(c)
         /\ UNCHANGED <<inbox, req, challenges, issued, spent, revoked, profile>>
<1>1. /\ pc[c] = "responded" /\ Remember(c) /\ Reply(c, reg[c].answer.kind, 0)
      /\ UNCHANGED <<inbox, req, challenges, issued, spent, revoked, profile>>
  BY DEF StoreAnswer, server
<1>2. reg[c].answer.kind \in {"ok", "nonce", "mfa", "fail", "missing", "error"}
  BY <1>1 DEF Local
<1>3. /\ Only(c) /\ pc' \in [Calls -> Points] /\ reg' \in [Calls -> AnyReg]
      /\ pc'[c] = "replied" /\ req'[c] = req[c]
      /\ reg'[c].rt = reg[c].rt /\ reg'[c].rts = reg[c].rts
      /\ reg'[c].answer.kind = reg[c].answer.kind /\ reg'[c].answer.rt = 0
  BY <1>1, <1>2, ReplyEffect
<1>4. store' \in [Keys -> Nat] /\ latest' \in Nat
  BY <1>1, RememberEffect
<1>5. Typed'
  BY <1>1, <1>3, <1>4 DEF Typed
<1> QED
  BY <1>1, <1>3, <1>5

\* A refusal or an error that reaches the page.
LEMMA FailureEffect ==
  ASSUME Typed, NEW c \in Calls, FetchFails(c) \/ BodyUnreadable(c)
  PROVE  /\ Typed' /\ Only(c) /\ pc'[c] = "replied" /\ req'[c] = req[c]
         /\ pc[c] \in {"fetching", "responded", "revFetching", "revDone"}
         /\ pc[c] \in {"responded", "revDone"} => profile.lossy
         /\ reg'[c].rt = reg[c].rt /\ reg'[c].rts = reg[c].rts
         /\ reg'[c].answer.kind \in {"error", "fail"} /\ reg'[c].answer.rt = 0
         /\ UNCHANGED <<store, latest, inbox, req, challenges, issued, spent, revoked, profile>>
<1>1. CASE FetchFails(c)
  BY <1>1, ReplyEffect DEF FetchFails, server, Typed
<1>2. CASE BodyUnreadable(c)
  BY <1>2, ReplyEffect DEF BodyUnreadable, server, Typed
<1> QED
  BY <1>1, <1>2

\* The loop over the tokens to revoke.
LEMMA RevokeNextEffect ==
  ASSUME Typed, NEW c \in Calls, RevokeNext(c)
  PROVE  /\ Typed' /\ Only(c) /\ pc[c] = "revoking" /\ req'[c] = req[c]
         /\ UNCHANGED <<store, latest, inbox, req, challenges, issued, spent, revoked, profile>>
         /\ \/ /\ pc'[c] = "replied" /\ reg'[c].rt = reg[c].rt /\ reg'[c].rts = {} /\ reg[c].rts = {}
               /\ reg'[c].answer.kind = "ok" /\ reg'[c].answer.rt = 0
            \/ /\ pc'[c] = "revFetching" /\ reg'[c].rt \in reg[c].rts
               /\ reg'[c].rts = reg[c].rts \ {reg'[c].rt} /\ reg'[c].answer = reg[c].answer
<1>1. CASE reg[c].rts = {} /\ Reply(c, "ok", 0)
  BY <1>1, ReplyEffect DEF RevokeNext, server, Typed
<1>2. CASE ~(reg[c].rts = {} /\ Reply(c, "ok", 0))
  <2>1. PICK rt \in reg[c].rts : /\ reg' = [reg EXCEPT ![c].rt = rt, ![c].rts = @ \ {rt}]
                                 /\ pc' = [pc EXCEPT ![c] = "revFetching"]
    BY <1>2 DEF RevokeNext, Goto
  <2>2. rt \in Nat /\ reg[c].rts \ {rt} \in SUBSET Nat
    BY DEF Typed, AnyReg
  <2> DEFINE q == [reg[c] EXCEPT !.rt = rt]
             r == [q EXCEPT !.rts = reg[c].rts \ {rt}]
  <2>a. reg \in [Calls -> AnyReg] /\ reg[c] \in AnyReg
    BY DEF Typed
  <2>b. q \in AnyReg /\ q.rt = rt /\ q.rts = reg[c].rts /\ q.answer = reg[c].answer
    BY <2>2, <2>a, WithToken
  <2>c. reg' = [reg EXCEPT ![c] = r]
    BY <2>1, <2>a DEF AnyReg
  <2> HIDE DEF q
  <2>d. r \in AnyReg /\ r.rts = reg[c].rts \ {rt} /\ r.rt = q.rt /\ r.answer = q.answer
    BY <2>2, <2>b, WithTokens
  <2> HIDE DEF r
  <2>4. reg' \in [Calls -> AnyReg] /\ reg'[c] = r
    BY <2>a, <2>c, <2>d, SetReg
  <2>3. reg'[c].rt = rt /\ reg'[c].rts = reg[c].rts \ {rt} /\ reg'[c].answer = reg[c].answer
    BY <2>b, <2>d, <2>4
  <2>5. Only(c) /\ pc' \in [Calls -> Points] /\ pc'[c] = "revFetching"
    BY <2>1 DEF RevokeNext, Typed, Only, Points
  <2> QED
    BY <2>1, <2>3, <2>4, <2>5 DEF RevokeNext, Typed, server
<1> QED
  BY <1>1, <1>2

\* Deleting a token that was revoked.
LEMMA DeleteTokenEffect ==
  ASSUME Typed, NEW c \in Calls, DeleteToken(c)
  PROVE  /\ Typed' /\ Only(c) /\ pc[c] = "revDone" /\ pc'[c] = "revoking"
         /\ req'[c] = req[c] /\ reg'[c] = reg[c]
         /\ \A j \in Keys : store'[j] = IF store[j] = reg[c].rt THEN 0 ELSE store[j]
         /\ latest' = IF latest = reg[c].rt THEN 0 ELSE latest
         /\ UNCHANGED <<inbox, req, reg, challenges, issued, spent, revoked, profile>>
  BY DEF DeleteToken, Typed, Only, Goto, Points, server

\* Does the server answer with a refresh token, as opposed to an online one
\* that goes on.
Rotates(c) == req[c].kind \in {"code", "custom"} \/ ~profile.onlineAccess

\* The server grants tokens.
LEMMA GrantsEffect ==
  ASSUME Typed, NEW c \in Calls, Grants(c)
  PROVE  /\ Typed' /\ Only(c) /\ pc[c] = "fetching" /\ pc'[c] = "responded" /\ req'[c] = req[c]
         /\ reg'[c].rt = reg[c].rt /\ reg'[c].rts = reg[c].rts
         /\ reg'[c].answer.kind = "ok"
         /\ reg'[c].answer.rt = IF Rotates(c) THEN issued + 1 ELSE 0
         /\ issued' = IF Rotates(c) THEN issued + 1 ELSE issued
         /\ spent' = IF Rotates(c) /\ req[c].kind \in {"refresh", "mfa"} THEN spent \cup {Exchanged(c)} ELSE spent
         /\ req[c].kind = "refresh" => Accepts(reg[c].rt)
         /\ UNCHANGED <<store, latest, inbox, req, challenges, revoked, profile>>
<1>1. /\ pc[c] = "fetching" /\ pc' = [pc EXCEPT ![c] = "responded"]
      /\ reg' = [reg EXCEPT ![c].answer = [kind |-> "ok", rt |-> IF Rotates(c) THEN issued + 1 ELSE 0]]
      /\ issued' = IF Rotates(c) THEN issued + 1 ELSE issued
      /\ spent' = IF Rotates(c) /\ req[c].kind \in {"refresh", "mfa"} THEN spent \cup {Exchanged(c)} ELSE spent
      /\ req[c].kind = "refresh" => Accepts(reg[c].rt)
      /\ UNCHANGED <<store, latest, inbox, req, challenges, revoked, profile>>
  BY DEF Grants, Rotates, Exchanged, Goto
<1> DEFINE a == [kind |-> "ok", rt |-> IF Rotates(c) THEN issued + 1 ELSE 0]
           r == [reg[c] EXCEPT !.answer = a]
<1>2. a \in AnyAnswer /\ a.kind = "ok" /\ a.rt = IF Rotates(c) THEN issued + 1 ELSE 0
  BY DEF AnyAnswer, Typed
<1>a. reg' = [reg EXCEPT ![c] = r]
  BY <1>1
<1>b. /\ pc \in [Calls -> Points] /\ reg \in [Calls -> AnyReg] /\ reg[c] \in AnyReg
      /\ "responded" \in Points
  BY DEF Typed, Points
<1> HIDE DEF a
<1>c. r \in AnyReg /\ r.answer = a /\ r.rt = reg[c].rt /\ r.rts = reg[c].rts
  BY <1>2, <1>b, WithAnswer
<1> HIDE DEF r
<1>3. Exchanged(c) \in Nat
  BY DEF Exchanged, Typed, AnyReg
<1>4. /\ reg' \in [Calls -> AnyReg] /\ reg'[c] = r /\ \A d \in Calls \ {c} : reg'[d] = reg[d]
      /\ pc' \in [Calls -> Points] /\ pc'[c] = "responded" /\ \A d \in Calls \ {c} : pc'[d] = pc[d]
  BY <1>1, <1>a, <1>b, <1>c, SetReg, SetPoint
<1>5. issued' \in Nat /\ spent' \subseteq Nat
  BY <1>1, <1>3 DEF Typed
<1>6. Typed'
  BY <1>1, <1>4, <1>5 DEF Typed
<1>7. /\ reg'[c].rt = reg[c].rt /\ reg'[c].rts = reg[c].rts
      /\ reg'[c].answer = a
  BY <1>c, <1>4
<1>8. Only(c) /\ pc'[c] = "responded" /\ req'[c] = req[c]
  BY <1>1, <1>4 DEF Only
<1> QED
  BY <1>1, <1>2, <1>6, <1>7, <1>8

\* The server refuses.
LEMMA RefusesEffect ==
  ASSUME Typed, NEW c \in Calls, NEW why \in {"nonce", "mfa", "fail"}, Refuses(c, why)
  PROVE  /\ Typed' /\ Only(c) /\ pc[c] = "fetching" /\ pc'[c] = "responded" /\ req'[c] = req[c]
         /\ reg'[c].rt = reg[c].rt /\ reg'[c].rts = reg[c].rts
         /\ reg'[c].answer.kind = why /\ reg'[c].answer.rt = 0
         /\ why = "mfa" => req[c].kind = "refresh"
         /\ UNCHANGED <<store, latest, inbox, req, challenges, issued, spent, revoked, profile>>
<1>1. [kind |-> why, rt |-> 0] \in AnyAnswer
  BY DEF AnyAnswer
<1>2. /\ pc' = [pc EXCEPT ![c] = "responded"] /\ reg' = [reg EXCEPT ![c].answer = [kind |-> why, rt |-> 0]]
      /\ UNCHANGED <<store, latest, inbox, req, challenges, issued, spent, revoked, profile>>
  BY DEF Refuses, Goto, server
<1>3. Typed' /\ Only(c) /\ pc'[c] = "responded" /\ req'[c] = req[c]
  BY <1>1, <1>2 DEF Typed, AnyReg, Points, Only
<1>4. reg'[c].rt = reg[c].rt /\ reg'[c].rts = reg[c].rts /\ reg'[c].answer = [kind |-> why, rt |-> 0]
  BY <1>2 DEF Typed, AnyReg
<1> QED
  BY <1>2, <1>3, <1>4 DEF Refuses

\* The server revokes a token.
LEMMA RevokesEffect ==
  ASSUME Typed, NEW c \in Calls, Revokes(c)
  PROVE  /\ Typed' /\ Only(c) /\ pc[c] = "revFetching" /\ pc'[c] = "revDone"
         /\ req'[c] = req[c] /\ reg'[c] = reg[c]
         /\ revoked' = revoked \cup {reg[c].rt}
         /\ UNCHANGED <<store, latest, inbox, req, reg, challenges, issued, spent, profile>>
  BY DEF Revokes, Typed, Only, Goto, Points, AnyReg

\* Every invocation starts a call.
LEMMA InvokeStarts ==
  ASSUME Typed, NEW c \in Calls, Invoke(c)
  PROVE  \E r \in [kind : AnyKind, key : Keys, bound : Nat] :
           /\ Start(c, r)
           /\ r.kind = "refresh" => LockFree(r.key)
           /\ r.kind = "mfa" => <<r.key, r.bound>> \in challenges
<1> USE DEF AnyKind, TokenKinds
<1>1. ASSUME NEW kind \in {"code", "refresh", "custom"}, NEW k \in Keys, RequestToken(c, kind, k)
      PROVE  \E r \in [kind : AnyKind, key : Keys, bound : Nat] :
               /\ Start(c, r)
               /\ r.kind = "refresh" => LockFree(r.key)
               /\ r.kind = "mfa" => <<r.key, r.bound>> \in challenges
  <2> DEFINE r == [kind |-> kind, key |-> k, bound |-> 0]
  <2>1. r \in [kind : AnyKind, key : Keys, bound : Nat] /\ r.kind = kind /\ r.key = k
    OBVIOUS
  <2>2. Start(c, r) /\ (kind = "refresh" => LockFree(k))
    BY <1>1 DEF RequestToken
  <2> QED
    BY <2>1, <2>2
<1>2. ASSUME NEW k \in Keys, RevokeRefreshToken(c, k)
      PROVE  \E r \in [kind : AnyKind, key : Keys, bound : Nat] :
               /\ Start(c, r)
               /\ r.kind = "refresh" => LockFree(r.key)
               /\ r.kind = "mfa" => <<r.key, r.bound>> \in challenges
  <2> DEFINE r == [kind |-> "revoke", key |-> k, bound |-> 0]
  <2>1. r \in [kind : AnyKind, key : Keys, bound : Nat] /\ r.kind = "revoke"
    OBVIOUS
  <2>2. Start(c, r)
    BY <1>2 DEF RevokeRefreshToken
  <2> QED
    BY <2>1, <2>2
<1>3. ASSUME NEW ch \in challenges, RequestTokenForMfa(c, ch[1], ch[2])
      PROVE  \E r \in [kind : AnyKind, key : Keys, bound : Nat] :
               /\ Start(c, r)
               /\ r.kind = "refresh" => LockFree(r.key)
               /\ r.kind = "mfa" => <<r.key, r.bound>> \in challenges
  <2> DEFINE r == [kind |-> "mfa", key |-> ch[1], bound |-> ch[2]]
  <2>1. ch[1] \in Keys /\ ch[2] \in Nat
    BY DEF Typed
  <2>2. r \in [kind : AnyKind, key : Keys, bound : Nat] /\ r.kind = "mfa" /\ r.key = ch[1] /\ r.bound = ch[2]
    BY <2>1
  <2>3. Start(c, r) /\ <<ch[1], ch[2]>> \in challenges
    BY <1>3 DEF RequestTokenForMfa
  <2> QED
    BY <2>2, <2>3
<1>4. CASE Logout(c)
  <2> DEFINE r == [kind |-> "clear", key |-> FirstKey, bound |-> 0]
  <2>1. r \in [kind : AnyKind, key : Keys, bound : Nat] /\ r.kind = "clear"
    BY FirstKeyType
  <2>2. Start(c, r)
    BY <1>4 DEF Logout
  <2> QED
    BY <2>1, <2>2
<1> QED
  BY <1>1, <1>2, <1>3, <1>4 DEF Invoke

\* The page settles a call, perhaps with a new challenge, or sends the next
\* message of the same method.
Settles(c) ==
  /\ pc'[c] = "settled" /\ reg'[c] = reg[c] /\ req'[c] = req[c] /\ UNCHANGED inbox
  /\ \/ UNCHANGED challenges
     \/ reg[c].answer.kind = "mfa" /\ challenges' = challenges \cup {<<req[c].key, reg[c].rt>>}

Reposts(c) ==
  /\ pc'[c] = "posted" /\ inbox' = Append(inbox, c) /\ UNCHANGED challenges
  /\ reg'[c].rt = 0 /\ reg'[c].answer = NoAnswer /\ reg'[c].rts = {}
  /\ \/ req'[c] = req[c] /\ reg[c].answer.kind \in {"nonce", "error"}
     \/ req[c].kind = "revoke" /\ req'[c].kind = "clear"

\* The page receives a reply.
LEMMA ReceiveEffect ==
  ASSUME Typed, NEW c \in Calls, Receive(c)
  PROVE  /\ Typed' /\ Only(c) /\ pc[c] = "replied"
         /\ UNCHANGED <<store, latest, issued, spent, revoked, profile>>
         /\ Settles(c) \/ Reposts(c)
<1>0. pc[c] = "replied" /\ UNCHANGED <<store, latest, issued, spent, revoked, profile>>
  BY DEF Receive, server
<1> SUFFICES Typed' /\ Only(c) /\ (Settles(c) \/ Reposts(c))
  BY <1>0
<1>p. ASSUME NEW r \in AnyReg, r.rt = 0, r.answer = NoAnswer, r.rts = {},
             Post(c), UNCHANGED challenges, reg' = [reg EXCEPT ![c] = r],
             \A d \in Calls \ {c} : req'[d] = req[d],
             req' \in [Calls -> [kind : AnyKind, key : Keys, bound : Nat]],
             \/ req'[c] = req[c] /\ reg[c].answer.kind \in {"nonce", "error"}
             \/ req[c].kind = "revoke" /\ req'[c].kind = "clear"
      PROVE  Typed' /\ Only(c) /\ Reposts(c)
  <2>1. /\ Only(c) /\ pc' \in [Calls -> Points] /\ reg' \in [Calls -> AnyReg]
        /\ pc'[c] = "posted" /\ inbox' = Append(inbox, c) /\ inbox' \in Seq(Calls) /\ reg'[c] = r
    BY <1>p, RepostEffect
  <2>2. Typed'
    BY <1>0, <1>p, <2>1 DEF Typed
  <2> QED
    BY <1>p, <2>1, <2>2 DEF Reposts
<1>1. ASSUME Settle(c), UNCHANGED <<req, reg>>,
             \/ UNCHANGED challenges
             \/ reg[c].answer.kind = "mfa" /\ challenges' = challenges \cup {<<req[c].key, reg[c].rt>>}
      PROVE  Typed' /\ Only(c) /\ Settles(c)
  <2>1. /\ Only(c) /\ pc' \in [Calls -> Points] /\ pc'[c] = "settled" /\ UNCHANGED inbox
        /\ reg'[c] = reg[c] /\ req'[c] = req[c]
    BY <1>1, SettleEffect
  <2>2. <<req[c].key, reg[c].rt>> \in Keys \X Nat
    BY DEF Typed, AnyReg
  <2>3. challenges' \subseteq Keys \X Nat
    BY <1>1, <2>2 DEF Typed
  <2>4. Typed'
    BY <1>0, <1>1, <2>1, <2>3 DEF Typed
  <2> QED
    BY <1>1, <2>1, <2>4 DEF Settles
<1>2. CASE NonceAnswers(c)
  <2>1. CASE Post(c) /\ reg' = [reg EXCEPT ![c] = [NoReg EXCEPT !.again = TRUE]]
    <3> DEFINE r == [NoReg EXCEPT !.again = TRUE]
    <3>1. r \in AnyReg /\ r.rt = 0 /\ r.answer = NoAnswer /\ r.rts = {}
      BY NoRegType DEF NoReg, AnyReg
    <3>2. req' = req /\ reg[c].answer.kind = "nonce" /\ UNCHANGED challenges
      BY <1>2 DEF NonceAnswers
    <3> QED
      BY <1>p, <2>1, <3>1, <3>2 DEF Typed
  <2> QED
    BY <1>1, <1>2, <2>1 DEF NonceAnswers
<1>3. CASE ErrorAnswers(c)
  <2>1. CASE /\ Post(c)
             /\ reg' = [reg EXCEPT ![c] = [NoReg EXCEPT !.again = reg[c].again, !.tries = reg[c].tries + 1]]
    <3> DEFINE r == [NoReg EXCEPT !.again = reg[c].again, !.tries = reg[c].tries + 1]
    <3>1. reg[c].tries + 1 \in Nat /\ reg[c].again \in BOOLEAN
      BY DEF Typed, AnyReg
    <3>2. r \in AnyReg /\ r.rt = 0 /\ r.answer = NoAnswer /\ r.rts = {}
      BY <3>1, NoRegType DEF NoReg, AnyReg
    <3>3. req' = req /\ reg[c].answer.kind = "error" /\ UNCHANGED challenges
      BY <1>3 DEF ErrorAnswers
    <3> QED
      BY <1>p, <2>1, <3>2, <3>3 DEF Typed
  <2> QED
    BY <1>1, <1>3, <2>1 DEF ErrorAnswers
<1>4. CASE RefusalAnswers(c)
  BY <1>1, <1>4 DEF RefusalAnswers
<1>5. CASE TokenAnswers(c)
  BY <1>1, <1>5 DEF TokenAnswers
<1>6. CASE DoneAnswers(c)
  <2>1. CASE /\ req[c].kind = "revoke" /\ req' = [req EXCEPT ![c].kind = "clear"]
             /\ reg' = [reg EXCEPT ![c] = NoReg] /\ Post(c)
    <3>1. NoReg.rt = 0 /\ NoReg.answer = NoAnswer /\ NoReg.rts = {}
      BY DEF NoReg
    <3>2. \A d \in Calls \ {c} : req'[d] = req[d]
      BY <2>1 DEF Typed
    <3>3. req' \in [Calls -> [kind : AnyKind, key : Keys, bound : Nat]] /\ req'[c].kind = "clear"
      BY <2>1 DEF Typed, AnyKind
    <3>4. UNCHANGED challenges
      BY <1>6 DEF DoneAnswers
    <3> QED
      BY <1>p, <2>1, <3>1, <3>2, <3>3, <3>4, NoRegType
  <2> QED
    BY <1>1, <1>6, <2>1 DEF DoneAnswers
<1> QED
  BY <1>2, <1>3, <1>4, <1>5, <1>6 DEF Receive

-----------------------------------------------------------------------------
(* The steps, one predicate for what each does to the call c that takes it, *)
(* to the worker's memory and to the server                                 *)

Memory == <<store, latest>>

Outside == <<challenges, issued, spent, revoked, profile>>

\* The worker replies, without a refresh token.
Answers(c) ==
  /\ pc'[c] = "replied" /\ req'[c] = req[c]
  /\ reg'[c].rt = reg[c].rt /\ reg'[c].rts = reg[c].rts /\ reg'[c].answer.rt = 0

Begins(c) ==
  /\ pc[c] = "idle" /\ pc'[c] = "posted" /\ reg'[c] = reg[c] /\ inbox' = Append(inbox, c)
  /\ req'[c].kind = "refresh" => LockFree(req'[c].key)
  /\ req'[c].kind = "mfa" => <<req'[c].key, req'[c].bound>> \in challenges
  /\ UNCHANGED Memory /\ UNCHANGED Outside

\* The router's step for c, the first call of the queue.
Routed(c) == inbox # <<>> /\ c = Head(inbox) /\ inbox' = Tail(inbox) /\ pc[c] = "posted" /\ req'[c] = req[c]

Misses(c) ==
  /\ Routed(c) /\ Answers(c) /\ reg'[c].answer.kind = "missing"
  /\ req[c].kind = "refresh" /\ TokenFor("refresh", req[c].key) = 0
  /\ UNCHANGED Memory /\ UNCHANGED Outside

Fetches(c) ==
  /\ Routed(c) /\ pc'[c] = "fetching" /\ req[c].kind \in TokenKinds
  /\ reg'[c].rt = TokenFor(req[c].kind, req[c].key)
  /\ reg'[c].rts = reg[c].rts /\ reg'[c].answer = reg[c].answer
  /\ req[c].kind = "refresh" => reg'[c].rt # 0
  /\ UNCHANGED Memory /\ UNCHANGED Outside

Lists(c) ==
  /\ Routed(c) /\ pc'[c] = "revoking" /\ req[c].kind = "revoke"
  /\ reg'[c].rt = reg[c].rt /\ reg'[c].answer = reg[c].answer
  /\ 0 \notin reg'[c].rts /\ reg'[c].rts \subseteq Stored
  /\ UNCHANGED Memory /\ UNCHANGED Outside

Clears(c) ==
  /\ Routed(c) /\ Answers(c) /\ reg'[c].answer.kind = "ok" /\ req[c].kind = "clear"
  /\ store' = [k \in Keys |-> 0] /\ latest' = 0
  /\ UNCHANGED Outside

\* What an answer of the token endpoint does to the worker's memory.
Remembers(c) ==
  \/ Keeps(c) /\ UNCHANGED Memory
  \/ /\ ~Keeps(c) /\ req[c].kind # "custom" /\ reg[c].answer.rt # 0
     /\ \A j \in Keys : store'[j] = IF j \in Reached(c) THEN reg[c].answer.rt ELSE store[j]
     /\ latest' = IF profile.useMrrt THEN reg[c].answer.rt ELSE latest
  \/ /\ ~Keeps(c) /\ req[c].kind # "custom" /\ reg[c].answer.rt = 0 /\ ~profile.onlineAccess
     /\ \A j \in Keys : store'[j] = IF j = req[c].key THEN 0 ELSE store[j]
     /\ latest' = latest

Stores(c) ==
  /\ pc[c] = "responded" /\ Answers(c) /\ reg'[c].answer.kind = reg[c].answer.kind
  /\ Remembers(c)
  /\ UNCHANGED inbox /\ UNCHANGED Outside

Loses(c) ==
  /\ pc[c] \in {"fetching", "responded", "revFetching", "revDone"} /\ Answers(c)
  /\ pc[c] \in {"responded", "revDone"} => profile.lossy
  /\ reg'[c].answer.kind \in {"error", "fail"}
  /\ UNCHANGED inbox /\ UNCHANGED Memory /\ UNCHANGED Outside

Finishes(c) ==
  /\ pc[c] = "revoking" /\ reg[c].rts = {} /\ Answers(c) /\ reg'[c].answer.kind = "ok"
  /\ UNCHANGED inbox /\ UNCHANGED Memory /\ UNCHANGED Outside

Picks(c) ==
  /\ pc[c] = "revoking" /\ pc'[c] = "revFetching" /\ req'[c] = req[c]
  /\ reg'[c].rt \in reg[c].rts /\ reg'[c].rts = reg[c].rts \ {reg'[c].rt}
  /\ reg'[c].answer = reg[c].answer
  /\ UNCHANGED inbox /\ UNCHANGED Memory /\ UNCHANGED Outside

Forgets(c) ==
  /\ pc[c] = "revDone" /\ pc'[c] = "revoking" /\ req'[c] = req[c] /\ reg'[c] = reg[c]
  /\ \A j \in Keys : store'[j] = IF store[j] = reg[c].rt THEN 0 ELSE store[j]
  /\ latest' = IF latest = reg[c].rt THEN 0 ELSE latest
  /\ UNCHANGED inbox /\ UNCHANGED Outside

Granted(c) ==
  /\ pc[c] = "fetching" /\ pc'[c] = "responded" /\ req'[c] = req[c]
  /\ reg'[c].rt = reg[c].rt /\ reg'[c].rts = reg[c].rts /\ reg'[c].answer.kind = "ok"
  /\ reg'[c].answer.rt = IF Rotates(c) THEN issued + 1 ELSE 0
  /\ issued' = IF Rotates(c) THEN issued + 1 ELSE issued
  /\ spent' = IF Rotates(c) /\ req[c].kind \in {"refresh", "mfa"} THEN spent \cup {Exchanged(c)} ELSE spent
  /\ req[c].kind = "refresh" => Accepts(reg[c].rt)
  /\ UNCHANGED inbox /\ UNCHANGED Memory /\ UNCHANGED <<challenges, revoked, profile>>

Refused(c) ==
  /\ pc[c] = "fetching" /\ pc'[c] = "responded" /\ req'[c] = req[c]
  /\ reg'[c].rt = reg[c].rt /\ reg'[c].rts = reg[c].rts
  /\ reg'[c].answer.kind \in {"nonce", "mfa", "fail"} /\ reg'[c].answer.rt = 0
  /\ reg'[c].answer.kind = "mfa" => req[c].kind = "refresh"
  /\ UNCHANGED inbox /\ UNCHANGED Memory /\ UNCHANGED Outside

Revoked(c) ==
  /\ pc[c] = "revFetching" /\ pc'[c] = "revDone" /\ req'[c] = req[c] /\ reg'[c] = reg[c]
  /\ revoked' = revoked \cup {reg[c].rt}
  /\ UNCHANGED inbox /\ UNCHANGED Memory /\ UNCHANGED <<challenges, issued, spent, profile>>

\* The page is done with the call, or sends the next message of its method.
Ends(c) ==
  /\ pc[c] = "replied" /\ Settles(c)
  /\ UNCHANGED Memory /\ UNCHANGED <<issued, spent, revoked, profile>>

Repeats(c) == pc[c] = "replied" /\ Reposts(c) /\ UNCHANGED Memory /\ UNCHANGED Outside

Step(c) ==
  \/ Begins(c) \/ Misses(c) \/ Fetches(c) \/ Lists(c) \/ Clears(c)
  \/ Stores(c) \/ Loses(c) \/ Finishes(c) \/ Picks(c) \/ Forgets(c)
  \/ Granted(c) \/ Refused(c) \/ Revoked(c) \/ Ends(c) \/ Repeats(c)

\* A call begins.
LEMMA InvokeStep ==
  ASSUME Typed, NEW c \in Calls, Invoke(c)
  PROVE  Typed' /\ Only(c) /\ Step(c)
<1>1. PICK r \in [kind : AnyKind, key : Keys, bound : Nat] :
        /\ Start(c, r)
        /\ r.kind = "refresh" => LockFree(r.key)
        /\ r.kind = "mfa" => <<r.key, r.bound>> \in challenges
  BY InvokeStarts
<1>2. /\ Typed' /\ Only(c) /\ pc[c] = "idle" /\ pc'[c] = "posted" /\ req'[c] = r /\ reg'[c] = reg[c]
      /\ inbox' = Append(inbox, c)
      /\ UNCHANGED <<store, latest, challenges, issued, spent, revoked, profile>>
  BY <1>1, StartEffect
<1>3. Begins(c)
  BY <1>1, <1>2 DEF Begins, Memory, Outside
<1> QED
  BY <1>2, <1>3 DEF Step

\* The router's steps.
LEMMA RouterStep ==
  ASSUME Typed, Queue, MessageRouter
  PROVE  \E c \in Calls : c = Head(inbox) /\ Typed' /\ Only(c) /\ Step(c)
<1>1. PICK c \in Calls : c = Head(inbox)
  BY RouterTakes
<1>2. /\ Routed(c) /\ inbox' \in Seq(Calls)
      /\ UNCHANGED <<req, challenges, issued, spent, revoked, profile>>
  BY <1>1, RouterTakes DEF Routed, MessageRouter
<1>3. RouteToken(c) \/ RouteRevoke(c) \/ RouteClear(c)
  BY <1>1 DEF MessageRouter
<1>4. UNCHANGED Outside
  BY <1>2 DEF Outside
<1>5. CASE RouteToken(c)
  <2>1. /\ Only(c) /\ pc' \in [Calls -> Points] /\ reg' \in [Calls -> AnyReg]
        /\ UNCHANGED <<store, latest>>
        /\ Misses(c) \/ Fetches(c)
    BY <1>2, <1>4, <1>5, RouteTokenEffect DEF Misses, Fetches, Answers, Memory
  <2>2. Typed'
    BY <1>2, <2>1 DEF Typed
  <2> QED
    BY <1>1, <2>1, <2>2 DEF Step
<1>6. CASE RouteRevoke(c)
  <2>1. /\ Only(c) /\ pc' \in [Calls -> Points] /\ reg' \in [Calls -> AnyReg]
        /\ UNCHANGED <<store, latest>> /\ Lists(c)
    BY <1>2, <1>4, <1>6, RouteRevokeEffect DEF Lists, Memory
  <2>2. Typed'
    BY <1>2, <2>1 DEF Typed
  <2> QED
    BY <1>1, <2>1, <2>2 DEF Step
<1>7. CASE RouteClear(c)
  <2>1. /\ Only(c) /\ pc' \in [Calls -> Points] /\ reg' \in [Calls -> AnyReg] /\ Answers(c)
        /\ reg'[c].answer.kind = "ok"
    BY <1>2, <1>7, ReplyEffect DEF RouteClear, Answers
  <2>2. store' = [k \in Keys |-> 0] /\ latest' = 0 /\ req[c].kind = "clear"
    BY <1>7 DEF RouteClear
  <2>3. Typed'
    BY <1>2, <2>1, <2>2 DEF Typed
  <2> QED
    BY <1>1, <1>2, <1>4, <2>1, <2>2, <2>3 DEF Step, Clears
<1> QED
  BY <1>3, <1>5, <1>6, <1>7

\* The handlers' steps.
LEMMA HandleStep ==
  ASSUME Typed, NEW c \in Calls, Local(c), Handle(c)
  PROVE  Typed' /\ Only(c) /\ Step(c)
<1> USE DEF Memory, Outside, Answers
<1>1. CASE FetchFails(c) \/ BodyUnreadable(c)
  <2>1. Typed' /\ Only(c) /\ Loses(c)
    BY <1>1, FailureEffect DEF Loses
  <2> QED
    BY <2>1 DEF Step
<1>2. CASE StoreAnswer(c)
  <2>1. Typed' /\ Only(c) /\ Remember(c)
    BY <1>2, StoreAnswerEffect
  <2>2. Remembers(c)
    BY <2>1, RememberEffect DEF Remembers
  <2>3. Stores(c)
    BY <1>2, <2>2, StoreAnswerEffect DEF Stores
  <2> QED
    BY <2>1, <2>3 DEF Step
<1>3. CASE RevokeNext(c)
  <2>1. Typed' /\ Only(c) /\ (Finishes(c) \/ Picks(c))
    BY <1>3, RevokeNextEffect DEF Finishes, Picks
  <2> QED
    BY <2>1 DEF Step
<1>4. CASE DeleteToken(c)
  <2>1. Typed' /\ Only(c) /\ Forgets(c)
    BY <1>4, DeleteTokenEffect DEF Forgets
  <2> QED
    BY <2>1 DEF Step
<1>5. CASE Receive(c)
  <2>1. /\ Typed' /\ Only(c) /\ pc[c] = "replied"
        /\ UNCHANGED <<store, latest, issued, spent, revoked, profile>>
        /\ Settles(c) \/ Reposts(c)
    BY <1>5, ReceiveEffect
  <2>2. Ends(c) \/ Repeats(c)
    BY <2>1 DEF Ends, Repeats, Reposts
  <2> QED
    BY <2>1, <2>2 DEF Step
<1> QED
  BY <1>1, <1>2, <1>3, <1>4, <1>5 DEF Handle

\* The server's steps.
LEMMA ServeStep ==
  ASSUME Typed, NEW c \in Calls, Serve(c)
  PROVE  Typed' /\ Only(c) /\ Step(c)
<1> USE DEF Memory, Outside
<1>1. CASE Grants(c)
  <2>1. Typed' /\ Only(c) /\ Granted(c)
    BY <1>1, GrantsEffect DEF Granted
  <2> QED
    BY <2>1 DEF Step
<1>2. ASSUME NEW why \in {"nonce", "mfa", "fail"}, Refuses(c, why) PROVE Typed' /\ Only(c) /\ Step(c)
  <2>1. Typed' /\ Only(c) /\ Refused(c)
    BY <1>2, RefusesEffect DEF Refused
  <2> QED
    BY <2>1 DEF Step
<1>3. CASE Revokes(c)
  <2>1. Typed' /\ Only(c) /\ Revoked(c)
    BY <1>3, RevokesEffect DEF Revoked
  <2> QED
    BY <2>1 DEF Step
<1> QED
  BY <1>1, <1>2, <1>3 DEF Serve

\* Every step of the specification is one of these.
LEMMA Steps ==
  ASSUME Worker, Next
  PROVE  \E c \in Calls : Typed' /\ Only(c) /\ Step(c)
<1>1. Typed /\ Queue /\ \A c \in Calls : Local(c)
  BY DEF Worker
<1>2. CASE MessageRouter
  BY <1>1, <1>2, RouterStep
<1>3. ASSUME NEW c \in Calls, Invoke(c) \/ Handle(c) \/ Serve(c) PROVE Typed' /\ Only(c) /\ Step(c)
  BY <1>1, <1>3, InvokeStep, HandleStep, ServeStep
<1> QED
  BY <1>2, <1>3 DEF Next

-----------------------------------------------------------------------------
(* Worker is invariant *)

\* A call that is not on its way is not in the queue.
LEMMA QueueKept ==
  ASSUME Typed, Queue, NEW c \in Calls, Only(c), pc[c] # "posted", UNCHANGED inbox
  PROVE  Queue'
<1>1. \A i \in 1 .. Len(inbox) : inbox[i] \in Calls /\ inbox[i] # c
  BY DEF Typed, Queue
<1> QED
  BY <1>1 DEF Queue, Only

\* Posting a message keeps the queue.
LEMMA QueueGrows ==
  ASSUME Typed, Queue, NEW c \in Calls, Only(c), pc[c] # "posted", pc'[c] = "posted",
         inbox' = Append(inbox, c)
  PROVE  Queue'
<1>1. \A i \in 1 .. Len(inbox) : inbox[i] \in Calls /\ inbox[i] # c
  BY DEF Typed, Queue
<1>2. /\ Len(inbox') = Len(inbox) + 1 /\ Len(inbox) \in Nat /\ inbox'[Len(inbox) + 1] = c
      /\ \A i \in 1 .. Len(inbox) : inbox'[i] = inbox[i]
  BY DEF Typed
<1>3. \A i \in 1 .. Len(inbox') : i \in 1 .. Len(inbox) \/ i = Len(inbox) + 1
  BY <1>2
<1> QED
  BY <1>1, <1>2, <1>3 DEF Queue, Only

\* The facts about other calls stay.
LEMMA LocalOthers ==
  ASSUME Typed, NEW c \in Calls, \A d \in Calls : Local(d), Only(c),
         revoked \subseteq revoked', challenges \subseteq challenges'
  PROVE  \A d \in Calls \ {c} : Local(d)'
  BY DEF Local, Only

\* The invariant of types and registers holds initially.
LEMMA WorkerInit == Init => Worker
<1> SUFFICES ASSUME Init PROVE Worker
  OBVIOUS
<1>1. Typed
  <2>1. [kind |-> "none", key |-> FirstKey, bound |-> 0] \in [kind : AnyKind, key : Keys, bound : Nat]
    BY FirstKeyType DEF AnyKind
  <2>2. profile \in Profile
    BY DEF Init
  <2> QED
    BY <2>1, <2>2, NoRegType DEF Init, Typed, Points
<1>2. Queue
  BY DEF Init, Queue
<1>3. Server
  BY DEF Init, Server
<1>4. \A c \in Calls : Local(c)
  BY DEF Init, Local, NoReg, NoAnswer
<1> QED
  BY <1>1, <1>2, <1>3, <1>4 DEF Worker

\* Taking a message keeps the queue.
LEMMA QueueShrinks ==
  ASSUME Typed, Queue, NEW c \in Calls, Only(c), Routed(c)
  PROVE  Queue'
<1>1. inbox \in Seq(Calls) /\ inbox # <<>> /\ inbox' = Tail(inbox) /\ c = inbox[1] /\ Len(inbox) \in Nat
  BY DEF Typed, Routed
<1>2. Len(inbox') = Len(inbox) - 1 /\ Len(inbox) > 0 /\ \A i \in 1 .. Len(inbox') : inbox'[i] = inbox[i + 1]
  BY <1>1
<1>3. \A i \in 1 .. Len(inbox') : i + 1 \in 1 .. Len(inbox) /\ i + 1 # 1 /\ 1 \in 1 .. Len(inbox)
  BY <1>1, <1>2
<1>4. \A i \in 1 .. Len(inbox') : inbox'[i] \in Calls /\ inbox'[i] # c
  BY <1>1, <1>2, <1>3 DEF Queue
<1>5. \A i \in 1 .. Len(inbox') : pc'[inbox'[i]] = "posted"
  BY <1>2, <1>3, <1>4 DEF Queue, Only
<1>6. \A i, j \in 1 .. Len(inbox') : i + 1 = j + 1 => i = j
  BY <1>1, <1>2
<1>7. \A i, j \in 1 .. Len(inbox') : inbox'[i] = inbox'[j] => i = j
  BY <1>2, <1>3, <1>6 DEF Queue
<1> QED
  BY <1>5, <1>7 DEF Queue

\* Every step keeps the queue.
LEMMA QueueStep ==
  ASSUME Typed, Queue, NEW c \in Calls, Only(c), Step(c)
  PROVE  Queue'
<1>1. \/ pc[c] # "posted" /\ UNCHANGED inbox
      \/ pc[c] # "posted" /\ pc'[c] = "posted" /\ inbox' = Append(inbox, c)
      \/ Routed(c)
  BY DEF Step, Begins, Misses, Fetches, Lists, Clears, Stores, Loses, Finishes, Picks, Forgets,
         Granted, Refused, Revoked, Ends, Repeats, Settles, Reposts
<1> QED
  BY <1>1, QueueKept, QueueGrows, QueueShrinks

\* The local variables of the call that moves.
LEMMA LocalStep ==
  ASSUME Typed, Typed', Server, NEW c \in Calls, Local(c), Step(c)
  PROVE  Local(c)'
<1>a. /\ reg[c].answer = NoAnswer => reg[c].answer.kind = "none" /\ reg[c].answer.rt = 0
      /\ NoAnswer.kind = "none" /\ NoAnswer.rt = 0
  BY DEF NoAnswer
<1> HIDE DEF NoAnswer
<1>1. CASE Begins(c)
  BY <1>a, <1>1 DEF Begins, Local, Outside
<1>2. CASE Misses(c)
  BY <1>a, <1>2 DEF Misses, Routed, Answers, Local, Outside
<1>3. CASE Fetches(c)
  <2>1. req[c].kind \in {"code", "custom"} => TokenFor(req[c].kind, req[c].key) = 0
    BY DEF TokenFor
  <2>2. /\ pc[c] = "posted" /\ pc'[c] = "fetching" /\ req'[c] = req[c] /\ req[c].kind \in TokenKinds
        /\ reg'[c].rt = TokenFor(req[c].kind, req[c].key)
        /\ reg'[c].rts = reg[c].rts /\ reg'[c].answer = reg[c].answer
        /\ req[c].kind = "refresh" => reg'[c].rt # 0
        /\ challenges' = challenges
    BY <1>3 DEF Fetches, Routed, Outside
  <2>3. /\ reg[c].rts = {} /\ reg[c].answer = NoAnswer
        /\ req[c].kind = "mfa" => <<req[c].key, req[c].bound>> \in challenges
    BY <2>2 DEF Local
  <2>4. reg'[c].answer = NoAnswer /\ reg'[c].answer.kind = "none"
    BY <1>a, <2>2, <2>3
  <2> QED
    BY <2>1, <2>2, <2>3, <2>4 DEF Local
<1>4. CASE Lists(c)
  BY <1>a, <1>4 DEF Lists, Routed, Local, Outside
<1>5. CASE Clears(c)
  BY <1>a, <1>5 DEF Clears, Routed, Answers, Local, Outside
<1>6. CASE Stores(c)
  BY <1>a, <1>6 DEF Stores, Answers, Local, Outside
<1>7. CASE Loses(c)
  BY <1>a, <1>7 DEF Loses, Answers, Local, Outside
<1>8. CASE Finishes(c)
  BY <1>a, <1>8 DEF Finishes, Answers, Local, Outside
<1>9. CASE Picks(c)
  BY <1>a, <1>9 DEF Picks, Local, Outside
<1>10. CASE Forgets(c)
  BY <1>a, <1>10 DEF Forgets, Local, Outside
<1>11. CASE Granted(c)
  BY <1>a, <1>11 DEF Granted, Local
<1>12. CASE Refused(c)
  BY <1>a, <1>12 DEF Refused, Local, Outside
<1>13. CASE Revoked(c)
  BY <1>a, <1>13 DEF Revoked, Local
<1>14. CASE Ends(c)
  BY <1>a, <1>14 DEF Ends, Settles, Local
<1>15. CASE Repeats(c)
  BY <1>a, <1>15 DEF Repeats, Reposts, Local, Outside
<1> QED
  BY <1>1, <1>2, <1>3, <1>4, <1>5, <1>6, <1>7, <1>8, <1>9, <1>10, <1>11, <1>12, <1>13, <1>14, <1>15 DEF Step

\* Every step keeps what is known of the server.
LEMMA ServerStep ==
  ASSUME Typed, Server, NEW c \in Calls, Local(c), Step(c)
  PROVE  /\ Server' /\ revoked \subseteq revoked' /\ challenges \subseteq challenges' /\ profile' = profile
<1>1. CASE UNCHANGED Outside
  <2>1. (~profile.useMrrt => latest' = 0) /\ UNCHANGED Outside
    BY <1>1 DEF Step, Begins, Misses, Fetches, Lists, Clears, Stores, Loses, Finishes, Picks, Forgets,
         Granted, Refused, Revoked, Ends, Repeats, Memory, Remembers, Server
  <2> QED
    BY <2>1 DEF Server, Outside
<1>2. CASE Granted(c)
  <2>1. req[c].kind = "mfa" => req[c].bound # 0
    BY DEF Local, Server, Typed
  <2>2. req[c].kind \in {"refresh", "mfa"} => Exchanged(c) # 0
    BY <1>2, <2>1 DEF Local, Granted, Exchanged
  <2> QED
    BY <1>2, <2>2 DEF Granted, Server, Memory, Rotates
<1>3. CASE Revoked(c)
  BY <1>3 DEF Revoked, Server, Memory, Local
<1>4. CASE Ends(c)
  BY <1>4 DEF Ends, Settles, Server, Memory, Local
<1> QED
  BY <1>1, <1>2, <1>3, <1>4 DEF Step, Begins, Misses, Fetches, Lists, Clears, Stores, Loses, Finishes,
       Picks, Forgets, Refused, Repeats

\* Every step keeps types and registers.
LEMMA WorkerStep ==
  ASSUME Worker, Next
  PROVE  Worker'
<1>1. Typed /\ Queue /\ Server /\ \A d \in Calls : Local(d)
  BY DEF Worker
<1>2. PICK c \in Calls : Typed' /\ Only(c) /\ Step(c)
  BY Steps
<1>3. Server' /\ revoked \subseteq revoked' /\ challenges \subseteq challenges'
  BY <1>1, <1>2, ServerStep
<1>4. \A d \in Calls \ {c} : Local(d)'
  BY <1>1, <1>2, <1>3, LocalOthers
<1>5. Local(c)'
  BY <1>1, <1>2, LocalStep
<1>6. Queue'
  BY <1>1, <1>2, QueueStep
<1> QED
  BY <1>2, <1>3, <1>4, <1>5, <1>6 DEF Worker

\* So does a stuttering step.
LEMMA WorkerStutter == Worker /\ UNCHANGED vars => Worker'
<1> SUFFICES ASSUME Worker, UNCHANGED vars PROVE Worker'
  OBVIOUS
<1>1. UNCHANGED <<store, latest, inbox, pc, req, reg, challenges, issued, spent, revoked, profile>>
  BY DEF vars, server
<1> QED
  BY <1>1 DEF Worker, Typed, Queue, Server, Local

\* Types and registers are as they should be, in every interleaving.
LEMMA WorkerInvariant == Spec => []Worker
<1>1. Worker /\ [Next]_vars => Worker'
  BY WorkerStep, WorkerStutter
<1> QED
  BY <1>1, WorkerInit, PTL DEF Spec

\* No reply of the worker carries a refresh token into the page, on any path
\* of any handler (token.worker.ts 204-214).
THEOREM TokensConfined == Spec => []TokensStayInWorker
<1>1. Worker => TokensStayInWorker
  BY DEF Worker, Local, TokensStayInWorker
<1> QED
  BY <1>1, WorkerInvariant, PTL

\* Only logout and revokeRefreshToken take an online refresh token out of the
\* worker: whatever the token endpoint answers, and however calls interleave
\* (token.worker.ts 198-202).
THEOREM OnlineTokensKept == Spec => OnlineTokenKept
<1>1. ASSUME Worker, Next, profile.onlineAccess, NEW k \in Keys, store[k] # 0, store'[k] = 0, ~Clearing
      PROVE  store[k] \in revoked
  <2>1. Typed /\ \A d \in Calls : Local(d)
    BY <1>1 DEF Worker
  <2>2. PICK c \in Calls : Typed' /\ Only(c) /\ Step(c)
    BY <1>1, Steps
  <2>3. CASE UNCHANGED Memory
    BY <1>1, <2>3 DEF Memory
  <2>4. CASE Clears(c)
    BY <1>1, <2>4 DEF Clears, Routed, Clearing
  <2>5. CASE Stores(c)
    BY <1>1, <2>5 DEF Stores, Remembers, Keeps, Memory
  <2>6. CASE Forgets(c)
    BY <1>1, <2>1, <2>6 DEF Forgets, Local
  <2> QED
    BY <2>2, <2>3, <2>4, <2>5, <2>6 DEF Step, Begins, Misses, Fetches, Lists, Loses, Finishes, Picks,
         Granted, Refused, Revoked, Ends, Repeats
<1>2. Worker /\ [Next]_vars =>
        [profile.onlineAccess =>
           \A k \in Keys : store[k] # 0 /\ store'[k] = 0 /\ ~Clearing => store[k] \in revoked]_vars
  BY <1>1
<1> QED
  BY <1>2, WorkerInvariant, PTL DEF Spec, OnlineTokenKept

-----------------------------------------------------------------------------
(* A refresh token on its way from the server is new to everybody *)

\* The tokens the worker, its handlers, the application and the server know.
KnownBy(c) == {reg[c].rt} \cup reg[c].rts

Known ==
  Stored \cup spent \cup revoked \cup {ch[2] : ch \in challenges} \cup UNION {KnownBy(c) : c \in Calls}

Fresh ==
  /\ \A v \in Known : v \in 0 .. issued
  /\ \A c \in Calls : reg[c].answer.rt # 0 => reg[c].answer.rt \notin Known /\ reg[c].answer.rt <= issued
  /\ \A c, d \in Calls : reg[c].answer.rt # 0 /\ reg[c].answer.rt = reg[d].answer.rt => c = d

\* Where what is stored after a step comes from.
LEMMA StoredStep ==
  ASSUME Typed, NEW c \in Calls, Step(c), NEW v \in Stored'
  PROVE  v \in Stored \/ v = 0 \/ (Stores(c) /\ v = reg[c].answer.rt)
<1>1. CASE UNCHANGED Memory
  BY <1>1 DEF Memory, Stored
<1>2. CASE Clears(c)
  BY <1>2 DEF Clears, Stored
<1>3. CASE Stores(c)
  <2>1. Remembers(c)
    BY <1>3 DEF Stores
  <2>2. \A j \in Keys : store'[j] \in {store[j], 0, reg[c].answer.rt}
    BY <2>1 DEF Remembers, Memory
  <2>3. latest' \in {latest, 0, reg[c].answer.rt}
    BY <2>1 DEF Remembers, Memory
  <2> QED
    BY <1>3, <2>2, <2>3 DEF Stored
<1>4. CASE Forgets(c)
  BY <1>4 DEF Forgets, Stored
<1> QED
  BY <1>1, <1>2, <1>3, <1>4 DEF Step, Begins, Misses, Fetches, Lists, Loses, Finishes, Picks,
       Granted, Refused, Revoked, Ends, Repeats

\* Which tokens are known.
LEMMA KnownParts ==
  /\ Stored \subseteq Known /\ spent \subseteq Known /\ revoked \subseteq Known
  /\ \A ch \in challenges : ch[2] \in Known
  /\ \A c \in Calls : reg[c].rt \in Known /\ reg[c].rts \subseteq Known
  BY DEF Known, KnownBy

\* What the handler of the call that moves, the server and the challenges hold
\* after a step was known before it.
LEMMA HandlerStep ==
  ASSUME Typed, NEW c \in Calls, Step(c)
  PROVE  reg'[c].rt \in Known \cup {0} /\ reg'[c].rts \subseteq Known
<1>1. CASE Fetches(c)
  <2>1. reg'[c].rt \in Stored \cup {0}
    BY <1>1, TokenForType DEF Fetches, Typed
  <2> QED
    BY <1>1, <2>1, KnownParts DEF Fetches
<1>2. CASE Lists(c)
  BY <1>2, KnownParts DEF Lists
<1>3. CASE Picks(c)
  BY <1>3, KnownParts DEF Picks
<1>4. CASE Repeats(c)
  BY <1>4 DEF Repeats, Reposts
<1> QED
  BY <1>1, <1>2, <1>3, <1>4, KnownParts DEF Step, Begins, Misses, Clears, Stores, Loses, Finishes,
       Forgets, Granted, Refused, Revoked, Ends, Settles, Answers

\* What the server has spent, revoked or challenged was known before.
LEMMA OutsideStep ==
  ASSUME Typed, NEW c \in Calls, Local(c), Step(c)
  PROVE  /\ spent' \subseteq Known /\ revoked' \subseteq Known
         /\ \A ch \in challenges' : ch[2] \in Known
<1>1. CASE UNCHANGED Outside
  BY <1>1, KnownParts DEF Outside
<1>2. CASE Granted(c)
  <2>1. Exchanged(c) \in Known
    <3>1. CASE req[c].kind = "mfa"
      BY <3>1, KnownParts DEF Exchanged, Local
    <3> QED
      BY <3>1, KnownParts DEF Exchanged
  <2> QED
    BY <1>2, <2>1, KnownParts DEF Granted
<1>3. CASE Revoked(c)
  BY <1>3, KnownParts DEF Revoked
<1>4. CASE Ends(c)
  BY <1>4, KnownParts DEF Ends, Settles
<1> QED
  BY <1>1, <1>2, <1>3, <1>4 DEF Step, Begins, Misses, Fetches, Lists, Clears, Stores, Loses, Finishes,
       Picks, Forgets, Refused, Repeats

\* A step makes known the token it stores, and no other.
LEMMA KnownStep ==
  ASSUME Typed, NEW c \in Calls, Local(c), Only(c), Step(c), NEW v \in Known'
  PROVE  v \in Known \/ v = 0 \/ (Stores(c) /\ v = reg[c].answer.rt)
<1>1. CASE v \in Stored'
  BY <1>1, StoredStep, KnownParts
<1>2. CASE v \in spent' \/ v \in revoked' \/ \E ch \in challenges' : v = ch[2]
  BY <1>2, OutsideStep
<1>3. ASSUME NEW d \in Calls, v \in KnownBy(d)' PROVE v \in Known \/ v = 0
  <2>1. CASE d = c
    BY <1>3, <2>1, HandlerStep DEF KnownBy
  <2>2. CASE d # c
    BY <1>3, <2>2, KnownParts DEF KnownBy, Only
  <2> QED
    BY <2>1, <2>2
<1> QED
  BY <1>1, <1>2, <1>3 DEF Known

\* The answer of the call that moves: a new number from the server, or what it
\* was, or none.
LEMMA AnswerStep ==
  ASSUME Typed, NEW c \in Calls, Local(c), Step(c)
  PROVE  /\ issued' \in {issued, issued + 1}
         /\ \/ reg'[c].answer.rt = 0
            \/ reg'[c].answer.rt = reg[c].answer.rt /\ ~Stores(c)
            \/ reg'[c].answer.rt = issued + 1 /\ issued' = issued + 1 /\ ~Stores(c)
<1>1. NoAnswer.rt = 0
  BY DEF NoAnswer
<1>2. issued' \in {issued, issued + 1}
  BY DEF Step, Begins, Misses, Fetches, Lists, Clears, Stores, Loses, Finishes, Picks, Forgets,
         Granted, Refused, Revoked, Ends, Repeats, Outside
<1>3. CASE Granted(c)
  BY <1>3 DEF Granted, Stores
<1>4. CASE reg'[c].answer.rt = 0
  BY <1>2, <1>4
<1>5. CASE reg'[c].answer = reg[c].answer /\ pc[c] # "responded"
  BY <1>2, <1>5 DEF Stores
<1>6. CASE reg'[c].answer = NoAnswer
  BY <1>1, <1>2, <1>6
<1> QED
  BY <1>3, <1>4, <1>5, <1>6 DEF Step, Begins, Misses, Fetches, Lists, Clears, Stores, Loses, Finishes,
       Picks, Forgets, Refused, Revoked, Ends, Settles, Repeats, Reposts, Answers, Routed

\* Every step keeps the token of an answer new.
LEMMA FreshStep ==
  ASSUME Typed, Typed', Fresh, NEW c \in Calls, Local(c), Only(c), Step(c)
  PROVE  Fresh'
<1> DEFINE A(d) == reg[d].answer.rt
<1>1. \A v \in Known' : v \in Known \/ v = 0 \/ (Stores(c) /\ v = A(c))
  BY KnownStep
<1>2. /\ issued \in Nat /\ issued' \in {issued, issued + 1}
      /\ \A d \in Calls : A(d) \in Nat /\ A(d)' \in Nat
  BY AnswerStep DEF Typed, AnyReg, AnyAnswer
<1>3. \/ A(c)' = 0
      \/ A(c)' = A(c) /\ ~Stores(c)
      \/ A(c)' = issued + 1 /\ issued' = issued + 1 /\ ~Stores(c)
  BY AnswerStep
<1>4. \A d \in Calls \ {c} : A(d)' = A(d)
  BY DEF Only
<1>5. /\ \A v \in Known : v \in 0 .. issued
      /\ \A d \in Calls : A(d) # 0 => A(d) \notin Known /\ A(d) <= issued
      /\ \A d, e \in Calls : A(d) # 0 /\ A(d) = A(e) => d = e
  BY DEF Fresh
<1>6. \A v \in Known' : v \in 0 .. issued'
  BY <1>1, <1>2, <1>5
<1>7. ASSUME NEW d \in Calls, A(d)' # 0 PROVE A(d)' \notin Known' /\ A(d)' <= issued'
  BY <1>1, <1>2, <1>3, <1>4, <1>5, <1>7
<1>8. ASSUME NEW d \in Calls, NEW e \in Calls, A(d)' # 0, A(d)' = A(e)' PROVE d = e
  BY <1>2, <1>3, <1>4, <1>5, <1>8
<1> QED
  BY <1>6, <1>7, <1>8 DEF Fresh

\* So does a stuttering step.
LEMMA FreshStutter == Fresh /\ UNCHANGED vars => Fresh'
  BY DEF Fresh, Known, KnownBy, Stored, vars, server

\* A rotated token is new until the worker stores it.
LEMMA FreshInvariant == Spec => []Fresh
<1>1. ASSUME Init PROVE Fresh
  <2>1. \A c \in Calls : reg[c].rt = 0 /\ reg[c].rts = {} /\ reg[c].answer.rt = 0
    BY <1>1 DEF Init, NoReg, NoAnswer
  <2>2. (\A k \in Keys : store[k] \in {0, 1}) /\ latest \in {0, 1} /\ issued = 1
    BY <1>1 DEF Init
  <2>3. \A v \in Known : v \in {0, 1}
    BY <1>1, <2>1, <2>2 DEF Init, Known, KnownBy, Stored
  <2> QED
    BY <2>1, <2>2, <2>3 DEF Fresh
<1>2. Worker /\ Worker' /\ Fresh /\ [Next]_vars => Fresh'
  <2>1. ASSUME Worker, Worker', Fresh, Next PROVE Fresh'
    BY <2>1, Steps, FreshStep DEF Worker
  <2> QED
    BY <2>1, FreshStutter
<1> QED
  BY <1>1, <1>2, WorkerInvariant, PTL DEF Spec

-----------------------------------------------------------------------------
(* Revoked tokens are forgotten *)

\* A revoked token that is still stored is about to be deleted.
Deleting ==
  ~profile.lossy =>
    \A v \in Stored \cap revoked : \E c \in Calls : pc[c] = "revDone" /\ reg[c].rt = v

\* Every step keeps revoked tokens on the way out.
LEMMA DeletingStep ==
  ASSUME Typed, Server, Fresh, Deleting, NEW c \in Calls, Local(c), Only(c), Step(c)
  PROVE  Deleting'
<1>0. profile' = profile
  BY ServerStep
<1> SUFFICES ASSUME ~profile.lossy, NEW v \in Stored', v \in revoked'
             PROVE  \E d \in Calls : pc'[d] = "revDone" /\ reg'[d].rt = v
  BY <1>0 DEF Deleting
<1>1. v \in revoked \/ (Revoked(c) /\ v = reg[c].rt)
  BY DEF Step, Begins, Misses, Fetches, Lists, Clears, Stores, Loses, Finishes, Picks, Forgets,
         Granted, Refused, Revoked, Ends, Repeats, Outside
<1>2. CASE Revoked(c) /\ v = reg[c].rt
  BY <1>2 DEF Revoked
<1>3. CASE v \in revoked
  <2>1. v # 0 /\ v \in Known
    BY <1>3, KnownParts DEF Server
  <2>2. v \in Stored
    BY <2>1, StoredStep DEF Fresh
  <2>3. PICK d \in Calls : pc[d] = "revDone" /\ reg[d].rt = v
    BY <1>3, <2>2 DEF Deleting
  <2>4. CASE d # c
    BY <2>3, <2>4 DEF Only
  <2>5. CASE d = c
    <3>1. Forgets(c)
      BY <2>3, <2>5 DEF Step, Begins, Misses, Fetches, Lists, Clears, Stores, Loses, Finishes, Picks,
             Granted, Refused, Revoked, Ends, Repeats, Routed
    <3>2. v \notin Stored'
      BY <2>1, <2>3, <2>5, <3>1 DEF Forgets, Stored
    <3> QED
      BY <3>2
  <2> QED
    BY <2>4, <2>5
<1> QED
  BY <1>1, <1>2, <1>3

\* When nothing is under way the worker holds no token that the server has
\* revoked, whatever was refreshed, rotated or revoked meanwhile, under any key
\* (token.worker.ts 39-45, 222-290).
THEOREM RevokedTokensForgotten == Spec => []RevokedForgotten
<1>1. Init => Deleting
  BY DEF Init, Deleting
<1>2. Worker /\ Fresh /\ Deleting /\ [Next]_vars => Deleting'
  <2>1. ASSUME Worker, Fresh, Deleting, Next PROVE Deleting'
    BY <2>1, Steps, DeletingStep DEF Worker
  <2>2. ASSUME Deleting, UNCHANGED vars PROVE Deleting'
    BY <2>2 DEF Deleting, Stored, vars, server
  <2> QED
    BY <2>1, <2>2
<1>3. Deleting => RevokedForgotten
  BY DEF Deleting, RevokedForgotten, Quiet
<1> QED
  BY <1>1, <1>2, <1>3, WorkerInvariant, FreshInvariant, PTL DEF Spec

-----------------------------------------------------------------------------
(* Without MRRT no spent token is sent or kept *)

Running(c) == req[c].kind = "refresh" /\ pc[c] \notin {"idle", "settled"}

\* The lock of getTokenSilently: one refresh at a time for an audience.
Locked ==
  \A c, d \in Calls : Running(c) /\ Running(d) /\ AudOf[req[c].key] = AudOf[req[d].key] => c = d

\* Without MRRT, rotating, and no answer is lost.
Single == ~profile.useMrrt /\ ~profile.onlineAccess /\ ~profile.lossy

\* A refresh whose handler holds its token, and one whose new token has come.
Refreshing(c) == req[c].kind = "refresh" /\ pc[c] \in {"fetching", "responded"}

Leaving(c) == Refreshing(c) /\ pc[c] = "responded" /\ reg[c].answer.rt # 0

\* The token of a refused exchange, which a challenge can still rotate.
Orphan(v) ==
  \/ \E ch \in challenges : v = ch[2]
  \/ \E c \in Calls : pc[c] = "replied" /\ reg[c].answer.kind = "mfa" /\ v = reg[c].rt

\* A token is under one key, ...
UniqueKeys == \A j, k \in Keys : store[j] # 0 /\ store[j] = store[k] => j = k

\* ... a handler's token is under its own key if it is stored at all, ...
OwnKey == \A c \in Calls : Refreshing(c) => \A k \in Keys : store[k] = reg[c].rt => k = req[c].key

\* ... and no other handler has it.
OwnToken == \A c, d \in Calls : Refreshing(c) /\ Refreshing(d) /\ reg[c].rt = reg[d].rt => c = d

SendsUnspent == \A c \in Calls : Refreshing(c) /\ pc[c] = "fetching" => reg[c].rt \notin spent

\* A spent token that is still stored is about to be replaced.
SpentLeaves ==
  \A k \in Keys : store[k] \in spent => \E c \in Calls : Leaving(c) /\ reg[c].rt = store[k]

OrphansAlone ==
  \A v \in Nat : Orphan(v) => /\ \A k \in Keys : store[k] # v
                              /\ \A c \in Calls : Refreshing(c) => reg[c].rt # v

Separate ==
  Single => UniqueKeys /\ OwnKey /\ OwnToken /\ SendsUnspent /\ SpentLeaves /\ OrphansAlone

\* Every step keeps the refreshes of an audience apart.
LEMMA LockedStep ==
  ASSUME Typed, Locked, NEW c \in Calls, Local(c), Only(c), Step(c)
  PROVE  Locked'
<1>1. CASE Begins(c)
  <2>1. ASSUME NEW d \in Calls \ {c}, Running(c)', Running(d)', AudOf[req'[c].key] = AudOf[req'[d].key]
        PROVE  FALSE
    <3>1. req'[c].kind = "refresh" /\ LockFree(req'[c].key)
      BY <1>1, <2>1 DEF Begins, Running
    <3>2. req[d].kind = "refresh" /\ pc[d] \notin {"idle", "settled"} /\ req'[d] = req[d]
      BY <2>1 DEF Only, Running
    <3> QED
      BY <2>1, <3>1, <3>2 DEF LockFree
  <2> QED
    BY <2>1 DEF Locked, Only, Running
<1>2. CASE ~Begins(c)
  <2>1. Running(c)' => Running(c) /\ req'[c] = req[c]
    BY <1>2 DEF Running, Step, Misses, Fetches, Lists, Clears, Stores, Loses, Finishes, Picks,
           Forgets, Granted, Refused, Revoked, Ends, Settles, Repeats, Reposts, Answers, Routed
  <2> QED
    BY <2>1 DEF Locked, Only, Running
<1> QED
  BY <1>1, <1>2

\* A step that sends no stored token, and neither spends nor stores one.
Calm(c) ==
  /\ spent' = spent
  /\ \A k \in Keys : store'[k] \in {store[k], 0}
  /\ Refreshing(c)' => /\ Refreshing(c) /\ reg'[c].rt = reg[c].rt /\ req'[c] = req[c]
                       /\ pc'[c] = "fetching" => pc[c] = "fetching"
  /\ Leaving(c) => Leaving(c)' /\ reg'[c].rt = reg[c].rt
  /\ \A v \in Nat : Orphan(v)' => Orphan(v)

\* The only new orphan is the token of a challenge that has just arrived.
LEMMA OrphanStep ==
  ASSUME NEW c \in Calls, Only(c), UNCHANGED challenges, NEW v \in Nat, Orphan(v)'
  PROVE  Orphan(v) \/ (pc'[c] = "replied" /\ reg'[c].answer.kind = "mfa" /\ v = reg'[c].rt)
  BY DEF Orphan, Only

\* The steps that neither send, store nor grant a token.
LEMMA CalmSteps ==
  ASSUME Typed, Typed', ~profile.lossy, NEW c \in Calls, Local(c), Only(c), Step(c)
  PROVE  Calm(c) \/ (Fetches(c) /\ req[c].kind = "refresh") \/ Stores(c) \/ Granted(c)
<1>1. CASE Ends(c)
  <2>1. \A v \in Nat : Orphan(v)' => Orphan(v)
    <3>1. \A d \in Calls : pc'[d] = "replied" => pc[d] = "replied" /\ reg'[d] = reg[d]
      BY <1>1 DEF Ends, Settles, Only
    <3>2. \A ch \in challenges' : ch \in challenges \/ (reg[c].answer.kind = "mfa" /\ ch[2] = reg[c].rt)
      BY <1>1 DEF Ends, Settles
    <3> QED
      BY <1>1, <3>1, <3>2 DEF Orphan, Ends
  <2> QED
    BY <1>1, <2>1 DEF Ends, Settles, Calm, Refreshing, Leaving, Memory
<1>2. ASSUME UNCHANGED challenges, ~(pc'[c] = "replied" /\ reg'[c].answer.kind = "mfa")
      PROVE  \A v \in Nat : Orphan(v)' => Orphan(v)
  BY <1>2, OrphanStep
<1> USE DEF Calm, Refreshing, Leaving, Memory, Outside
<1>3. CASE Begins(c)
  BY <1>2, <1>3 DEF Begins
<1>4. CASE Misses(c)
  BY <1>2, <1>4 DEF Misses, Routed, Answers
<1>5. CASE Fetches(c) /\ req[c].kind # "refresh"
  BY <1>2, <1>5 DEF Fetches, Routed
<1>6. CASE Lists(c)
  BY <1>2, <1>6 DEF Lists, Routed
<1>7. CASE Clears(c)
  BY <1>2, <1>7 DEF Clears, Routed, Answers
<1>8. CASE Loses(c)
  BY <1>2, <1>8 DEF Loses, Answers
<1>9. CASE Finishes(c)
  BY <1>2, <1>9 DEF Finishes, Answers
<1>10. CASE Picks(c)
  BY <1>2, <1>10 DEF Picks
<1>11. CASE Forgets(c)
  BY <1>2, <1>11 DEF Forgets
<1>12. CASE Refused(c)
  BY <1>2, <1>12 DEF Refused
<1>13. CASE Revoked(c)
  BY <1>2, <1>13 DEF Revoked
<1>14. CASE Repeats(c)
  BY <1>2, <1>14 DEF Repeats, Reposts
<1> QED
  BY <1>1, <1>3, <1>4, <1>5, <1>6, <1>7, <1>8, <1>9, <1>10, <1>11, <1>12, <1>13, <1>14 DEF Step

\* They keep chains apart.
LEMMA CalmSeparate ==
  ASSUME Typed, Typed', Server, Separate, Single, \A d \in Calls : Local(d),
         NEW c \in Calls, Only(c), Calm(c)
  PROVE  UniqueKeys' /\ OwnKey' /\ OwnToken' /\ SendsUnspent' /\ SpentLeaves' /\ OrphansAlone'
<1>1. UniqueKeys /\ OwnKey /\ OwnToken /\ SendsUnspent /\ SpentLeaves /\ OrphansAlone
  BY DEF Separate
<1>2. \A d \in Calls : Refreshing(d)' => /\ Refreshing(d) /\ reg'[d].rt = reg[d].rt /\ req'[d] = req[d]
                                         /\ pc'[d] = "fetching" => pc[d] = "fetching"
  BY DEF Calm, Only, Refreshing
<1>3. \A d \in Calls : Leaving(d) => Leaving(d)' /\ reg'[d].rt = reg[d].rt
  BY DEF Calm, Only, Leaving, Refreshing
<1>4. spent' = spent /\ \A k \in Keys : store'[k] \in {store[k], 0}
  BY DEF Calm
<1>5. 0 \notin spent
  BY DEF Server
<1>6. UniqueKeys'
  BY <1>1, <1>4 DEF UniqueKeys
<1>7. OwnKey'
  <2>1. \A d \in Calls : Refreshing(d)' => reg'[d].rt # 0
    BY <1>2 DEF Local, Refreshing
  <2> QED
    BY <1>1, <1>2, <1>4, <2>1 DEF OwnKey
<1>8. OwnToken'
  BY <1>1, <1>2 DEF OwnToken
<1>9. SendsUnspent'
  BY <1>1, <1>2, <1>4 DEF SendsUnspent
<1>10. SpentLeaves'
  BY <1>1, <1>3, <1>4, <1>5 DEF SpentLeaves
<1>11. OrphansAlone'
  <2>1. \A v \in Nat : Orphan(v) => v # 0
    BY DEF Orphan, Server, Local
  <2> QED
    BY <1>1, <1>2, <1>4, <2>1 DEF OrphansAlone, Calm
<1> QED
  BY <1>6, <1>7, <1>8, <1>9, <1>10, <1>11

\* Sending a request keeps chains apart.
LEMMA FetchSeparate ==
  ASSUME Typed, Typed', Server, Locked, Separate, Single, \A d \in Calls : Local(d),
         NEW c \in Calls, Only(c), Fetches(c), req[c].kind = "refresh"
  PROVE  UniqueKeys' /\ OwnKey' /\ OwnToken' /\ SendsUnspent' /\ SpentLeaves' /\ OrphansAlone'
<1>1. UniqueKeys /\ OwnKey /\ OwnToken /\ SendsUnspent /\ SpentLeaves /\ OrphansAlone
  BY DEF Separate
<1>2. /\ req[c].key \in Keys /\ req'[c] = req[c] /\ pc[c] = "posted" /\ pc'[c] = "fetching"
      /\ reg'[c].rt = store[req[c].key] /\ reg'[c].rt # 0 /\ reg'[c].rt \in Nat
      /\ reg'[c].answer = reg[c].answer
      /\ UNCHANGED <<store, latest, challenges, spent>>
  <2>1. /\ req'[c] = req[c] /\ pc[c] = "posted" /\ pc'[c] = "fetching"
        /\ reg'[c].rt = TokenFor("refresh", req[c].key) /\ reg'[c].rt # 0
        /\ reg'[c].answer = reg[c].answer
        /\ UNCHANGED <<store, latest, challenges, spent>>
    BY DEF Fetches, Routed, Memory, Outside
  <2>2. req[c].key \in Keys /\ "refresh" \in TokenKinds
    BY DEF Typed, TokenKinds
  <2>3. reg'[c].rt = store[req[c].key] /\ reg'[c].rt \in Nat
    BY <2>1, <2>2, TokenForType DEF Single
  <2> QED
    BY <2>1, <2>2, <2>3
<1>3. \A d \in Calls \ {c} : /\ Refreshing(d)' <=> Refreshing(d)
                             /\ Leaving(d)' <=> Leaving(d)
                             /\ pc'[d] = pc[d] /\ req'[d] = req[d] /\ reg'[d] = reg[d]
  BY DEF Only, Refreshing, Leaving
<1>4. ~Refreshing(c) /\ ~Leaving(c) /\ Running(c)
  BY <1>2 DEF Refreshing, Leaving, Running
\* A refresh with the same token would hold the lock of the same audience.
<1>5. \A d \in Calls : Refreshing(d) => reg[d].rt # store[req[c].key]
  <2>1. SUFFICES ASSUME NEW d \in Calls, Refreshing(d), reg[d].rt = store[req[c].key] PROVE FALSE
    OBVIOUS
  <2>2. req[d].key = req[c].key /\ Running(d)
    BY <1>1, <1>2, <2>1 DEF OwnKey, Refreshing, Running
  <2> QED
    BY <1>4, <2>1, <2>2 DEF Locked
<1>6. UniqueKeys'
  BY <1>1, <1>2 DEF UniqueKeys
<1>7. OwnKey'
  BY <1>1, <1>2, <1>3 DEF OwnKey, UniqueKeys
<1>8. OwnToken'
  BY <1>1, <1>2, <1>3, <1>5 DEF OwnToken
<1>9. SendsUnspent'
  <2>1. store[req[c].key] \notin spent
    BY <1>1, <1>2, <1>5 DEF SpentLeaves, Leaving
  <2> QED
    BY <1>1, <1>2, <1>3, <2>1 DEF SendsUnspent
<1>10. SpentLeaves'
  BY <1>1, <1>2, <1>3, <1>4 DEF SpentLeaves
<1>11. OrphansAlone'
  <2>1. \A v \in Nat : Orphan(v)' => Orphan(v)
    BY <1>2, OrphanStep
  <2> QED
    BY <1>1, <1>2, <1>3, <2>1 DEF OrphansAlone
<1> QED
  BY <1>6, <1>7, <1>8, <1>9, <1>10, <1>11

\* A grant keeps chains apart.
LEMMA GrantSeparate ==
  ASSUME Typed, Typed', Server, Separate, Single, \A d \in Calls : Local(d),
         NEW c \in Calls, Only(c), Granted(c)
  PROVE  UniqueKeys' /\ OwnKey' /\ OwnToken' /\ SendsUnspent' /\ SpentLeaves' /\ OrphansAlone'
<1>1. UniqueKeys /\ OwnKey /\ OwnToken /\ SendsUnspent /\ SpentLeaves /\ OrphansAlone
  BY DEF Separate
<1>2. /\ pc[c] = "fetching" /\ pc'[c] = "responded" /\ req'[c] = req[c] /\ reg'[c].rt = reg[c].rt
      /\ reg'[c].answer.rt = issued + 1 /\ issued + 1 # 0
      /\ \A v \in spent' : v \in spent \/ (v = Exchanged(c) /\ req[c].kind \in {"refresh", "mfa"})
      /\ UNCHANGED <<store, latest, challenges>>
  BY DEF Granted, Rotates, Single, Memory, Typed
<1>3. \A d \in Calls \ {c} : /\ Refreshing(d)' <=> Refreshing(d)
                             /\ Leaving(d)' <=> Leaving(d)
                             /\ pc'[d] = pc[d] /\ req'[d] = req[d] /\ reg'[d] = reg[d]
  BY DEF Only, Refreshing, Leaving
<1>4. (Refreshing(c)' <=> Refreshing(c)) /\ (Leaving(c)' <=> Refreshing(c)) /\ ~Leaving(c)
  BY <1>2 DEF Refreshing, Leaving
<1>5. req[c].kind = "mfa" => Exchanged(c) \in Nat /\ Orphan(Exchanged(c))
  BY DEF Exchanged, Local, Orphan, Typed
<1>6. req[c].kind = "refresh" => Refreshing(c) /\ Exchanged(c) = reg[c].rt
  BY <1>2 DEF Refreshing, Exchanged
<1>7. UniqueKeys' /\ OwnKey' /\ OwnToken'
  BY <1>1, <1>2, <1>3, <1>4 DEF UniqueKeys, OwnKey, OwnToken
<1>8. SendsUnspent'
  <2>1. SUFFICES ASSUME NEW d \in Calls, Refreshing(d)', pc'[d] = "fetching" PROVE reg'[d].rt \notin spent'
    BY DEF SendsUnspent
  <2>2. d # c /\ Refreshing(d) /\ reg[d].rt \notin spent /\ reg'[d] = reg[d]
    BY <1>1, <1>2, <1>3, <2>1 DEF SendsUnspent
  <2>3. CASE req[c].kind = "refresh"
    BY <1>1, <1>2, <1>6, <2>2, <2>3 DEF OwnToken
  <2>4. CASE req[c].kind = "mfa"
    BY <1>1, <1>2, <1>5, <2>2, <2>4 DEF OrphansAlone
  <2> QED
    BY <1>2, <2>2, <2>3, <2>4
<1>9. SpentLeaves'
  <2>1. SUFFICES ASSUME NEW k \in Keys, store[k] \in spent'
                 PROVE  \E d \in Calls : Leaving(d)' /\ reg'[d].rt = store[k]
    BY <1>2 DEF SpentLeaves
  <2>2. CASE store[k] \in spent
    BY <1>1, <1>3, <1>4, <2>2 DEF SpentLeaves
  <2>3. CASE store[k] = Exchanged(c) /\ req[c].kind = "refresh"
    BY <1>2, <1>4, <1>6, <2>3
  <2>4. CASE store[k] = Exchanged(c) /\ req[c].kind = "mfa"
    BY <1>1, <1>5, <2>4 DEF OrphansAlone
  <2> QED
    BY <1>2, <2>1, <2>2, <2>3, <2>4
<1>10. OrphansAlone'
  <2>1. \A v \in Nat : Orphan(v)' => Orphan(v)
    BY <1>2, OrphanStep
  <2> QED
    BY <1>1, <1>2, <1>3, <1>4, <2>1 DEF OrphansAlone
<1> QED
  BY <1>7, <1>8, <1>9, <1>10

\* Storing a token keeps chains apart.
LEMMA StoreSeparate ==
  ASSUME Typed, Typed', Server, Fresh, Separate, Single, \A d \in Calls : Local(d),
         NEW c \in Calls, Only(c), Stores(c)
  PROVE  UniqueKeys' /\ OwnKey' /\ OwnToken' /\ SendsUnspent' /\ SpentLeaves' /\ OrphansAlone'
<1> DEFINE new == reg[c].answer.rt
<1>1. UniqueKeys /\ OwnKey /\ OwnToken /\ SendsUnspent /\ SpentLeaves /\ OrphansAlone
  BY DEF Separate
<1>2. /\ pc[c] = "responded" /\ pc'[c] = "replied" /\ req'[c] = req[c] /\ reg'[c].rt = reg[c].rt
      /\ reg'[c].answer.kind = reg[c].answer.kind
      /\ UNCHANGED <<challenges, spent>> /\ req[c].key \in Keys
  BY DEF Stores, Answers, Outside, Typed
<1>3. \A d \in Calls \ {c} : /\ Refreshing(d)' <=> Refreshing(d)
                             /\ Leaving(d)' <=> Leaving(d)
                             /\ pc'[d] = pc[d] /\ req'[d] = req[d] /\ reg'[d] = reg[d]
  BY DEF Only, Refreshing, Leaving
<1>4. ~Refreshing(c)' /\ ~Leaving(c)'
  BY <1>2 DEF Refreshing, Leaving
<1>5. \/ req[c].kind = "custom" /\ UNCHANGED store
      \/ /\ req[c].kind # "custom"
         /\ \A k \in Keys : store'[k] = IF k = req[c].key THEN new ELSE store[k]
  BY DEF Stores, Remembers, Keeps, Reached, Memory, Single
\* The new token is nowhere yet.
<1>6. new # 0 => /\ new \notin spent /\ \A k \in Keys : store[k] # new
                 /\ \A d \in Calls : reg[d].rt # new
                 /\ \A v \in Nat : Orphan(v) => v # new
  <2>1. \A v \in Nat : Orphan(v) => v \in Known
    BY KnownParts DEF Orphan
  <2>2. \A k \in Keys : store[k] \in Known
    BY KnownParts DEF Stored
  <2> QED
    BY <2>1, <2>2, KnownParts DEF Fresh
<1>7. 0 \notin spent /\ \A d \in Calls : Refreshing(d) => reg[d].rt # 0
  BY DEF Server, Local, Refreshing
<1>8. UniqueKeys'
  BY <1>1, <1>2, <1>5, <1>6 DEF UniqueKeys
<1>9. OwnKey'
  BY <1>1, <1>2, <1>3, <1>4, <1>5, <1>6, <1>7 DEF OwnKey
<1>10. OwnToken' /\ SendsUnspent'
  BY <1>1, <1>2, <1>3, <1>4 DEF OwnToken, SendsUnspent
<1>11. SpentLeaves'
  <2>1. SUFFICES ASSUME NEW k \in Keys, store'[k] \in spent
                 PROVE  \E d \in Calls : Leaving(d)' /\ reg'[d].rt = store'[k]
    BY <1>2 DEF SpentLeaves
  <2>2. store'[k] = store[k] /\ (req[c].kind = "custom" \/ k # req[c].key)
    BY <1>5, <1>6, <1>7, <2>1
  <2>3. PICK d \in Calls : Leaving(d) /\ reg[d].rt = store[k]
    BY <1>1, <2>1, <2>2 DEF SpentLeaves
  <2>4. d # c
    BY <1>1, <2>2, <2>3 DEF OwnKey, Leaving, Refreshing
  <2> QED
    BY <1>3, <2>2, <2>3, <2>4
<1>12. OrphansAlone'
  <2>1. SUFFICES ASSUME NEW v \in Nat, Orphan(v)'
                 PROVE  (\A k \in Keys : store'[k] # v) /\ \A d \in Calls : Refreshing(d)' => reg'[d].rt # v
    BY DEF OrphansAlone
  <2>2. CASE Orphan(v)
    <3>1. v # 0
      BY <2>2 DEF Orphan, Server, Local
    <3> QED
      BY <1>1, <1>3, <1>4, <1>5, <1>6, <2>2, <3>1 DEF OrphansAlone
  <2>3. CASE reg[c].answer.kind = "mfa" /\ v = reg[c].rt
    <3>1. Refreshing(c) /\ new = 0 /\ v # 0
      BY <1>2, <2>3 DEF Local, Refreshing
    <3>2. \A k \in Keys : store'[k] # v
      BY <1>1, <1>2, <1>5, <2>3, <3>1 DEF OwnKey, Refreshing
    <3> QED
      BY <1>1, <1>3, <1>4, <2>3, <3>1, <3>2 DEF OwnToken
  <2> QED
    BY <1>2, <2>1, <2>2, <2>3, OrphanStep
<1> QED
  BY <1>8, <1>9, <1>10, <1>11, <1>12

\* Every step keeps chains apart.
LEMMA SeparateStep ==
  ASSUME Worker, Worker', Fresh, Locked, Separate, Next
  PROVE  Separate'
<1>1. Typed /\ Typed' /\ Server /\ \A d \in Calls : Local(d)
  BY DEF Worker
<1>2. PICK c \in Calls : Only(c) /\ Step(c)
  BY Steps
<1>3. profile' = profile
  BY <1>1, <1>2, ServerStep
<1> SUFFICES ASSUME Single
             PROVE  UniqueKeys' /\ OwnKey' /\ OwnToken' /\ SendsUnspent' /\ SpentLeaves' /\ OrphansAlone'
  BY <1>3 DEF Separate, Single
<1>4. Calm(c) \/ (Fetches(c) /\ req[c].kind = "refresh") \/ Stores(c) \/ Granted(c)
  BY <1>1, <1>2, CalmSteps DEF Single
<1> QED
  BY <1>1, <1>2, <1>4, CalmSeparate, FetchSeparate, StoreSeparate, GrantSeparate

\* Without MRRT every token is under one key and in the hands of one handler.
LEMMA SeparateInvariant == Spec => [](Locked /\ Separate)
<1>1. ASSUME Init PROVE Locked /\ Separate
  <2>1. \A c \in Calls : pc[c] = "idle" /\ req[c].kind = "none"
    BY <1>1 DEF Init
  <2>2. Locked /\ OwnKey /\ OwnToken /\ SendsUnspent
    BY <2>1 DEF Locked, Running, OwnKey, OwnToken, SendsUnspent, Refreshing
  <2>3. UniqueKeys
    BY <1>1 DEF Init, UniqueKeys
  <2>4. SpentLeaves /\ OrphansAlone
    BY <1>1, <2>1 DEF Init, SpentLeaves, OrphansAlone, Orphan
  <2> QED
    BY <2>2, <2>3, <2>4 DEF Separate
<1>2. Worker /\ Worker' /\ Fresh /\ Locked /\ Separate /\ [Next]_vars => Locked' /\ Separate'
  <2>1. ASSUME Worker, Worker', Fresh, Locked, Separate, Next PROVE Locked' /\ Separate'
    <3>1. Locked'
      BY <2>1, Steps, LockedStep DEF Worker
    <3> QED
      BY <2>1, <3>1, SeparateStep
  <2>2. ASSUME Locked, Separate, UNCHANGED vars PROVE Locked' /\ Separate'
    <3>1. UNCHANGED <<store, latest, pc, req, reg, challenges, spent, profile>>
      BY <2>2 DEF vars, server
    <3>2. Locked'
      BY <2>2, <3>1 DEF Locked, Running
    <3>3. Separate'
      BY <2>2, <3>1 DEF Separate, Single, UniqueKeys, OwnKey, OwnToken, SendsUnspent, SpentLeaves,
           OrphansAlone, Orphan, Leaving, Refreshing
    <3> QED
      BY <3>2, <3>3
  <2> QED
    BY <2>1, <2>2
<1> QED
  BY <1>1, <1>2, WorkerInvariant, FreshInvariant, PTL DEF Spec

\* Without MRRT no request leaves the worker with a refresh token that has been
\* spent, for any number of refreshes, logins, MFA completions and
\* revocations at a time: the lock of the audience is enough.
THEOREM ReplayFree == Spec => []NoReplay
<1>1. Worker /\ Separate => NoReplay
  <2>1. SUFFICES ASSUME Worker, Separate, ~profile.useMrrt, NothingLost,
                        NEW c \in Calls, pc[c] = "fetching", req[c].kind = "refresh"
                 PROVE  reg[c].rt \notin spent
    BY DEF NoReplay
  <2>2. CASE profile.onlineAccess
    BY <2>1, <2>2 DEF Worker, Server
  <2>3. CASE ~profile.onlineAccess
    BY <2>1, <2>3 DEF NothingLost, Separate, Single, SendsUnspent, Refreshing
  <2> QED
    BY <2>2, <2>3
<1> QED
  BY <1>1, WorkerInvariant, SeparateInvariant, PTL

-----------------------------------------------------------------------------
(* With MRRT the rotation reaches every key *)

Exchanges(c) == req[c].kind \in {"refresh", "mfa"}

\* The new token of an exchange has come and is not stored yet.
Arriving(c) == Exchanges(c) /\ pc[c] = "responded" /\ reg[c].answer.rt # 0

\* With MRRT, rotating, and no answer is lost.
Multi == profile.useMrrt /\ ~profile.onlineAccess /\ ~profile.lossy

\* Every exchange is that of another token, and no login adds a second one.
Straight == ~Used("code") /\ ~ExchangedTwice

\* A spent token has the call that exchanged it.
SpentBy ==
  \A v \in spent : \E c \in Calls : Exchanges(c) /\ reg[c].answer.kind = "ok" /\ Exchanged(c) = v

\* A spent token that is still stored is about to be replaced, wherever it is.
SpentArrives == \A v \in Stored \cap spent : \E c \in Calls : Arriving(c) /\ reg[c].rt = v

\* The tokens that can be exchanged, now or by a challenge.
Held == Stored \cup {ch[2] : ch \in challenges} \cup {reg[c].rt : c \in {d \in Calls : Exchanges(d)}}

\* There is one chain of tokens: at most one of them is unspent, ...
OneLive == \A u, v \in Held \ (spent \cup {0}) : u = v

\* ... none while its successor is on the way, ...
NoneLive == \A c \in Calls : Arriving(c) => Held \subseteq spent \cup {0}

OneArriving == \A c, d \in Calls : Arriving(c) /\ Arriving(d) => c = d

\* ... every key has the latest one, ...
StoredLatest == \A k \in Keys : store[k] # 0 => store[k] = latest

\* ... and an MFA completion has captured the token it will rotate.
Captured ==
  \A c \in Calls : req[c].kind = "mfa" /\ pc[c] = "fetching" /\ req[c].bound \in Stored
                     => reg[c].rt = req[c].bound

Lineage ==
  Multi => /\ SpentBy
           /\ Straight => OneLive /\ NoneLive /\ OneArriving /\ StoredLatest /\ Captured
           /\ Straight \/ ~Used("mfa") => SpentArrives

\* The configuration is fixed.
LEMMA ProfileStep == ASSUME Typed, NEW c \in Calls, Step(c) PROVE profile' = profile
  BY DEF Step, Begins, Misses, Fetches, Lists, Clears, Stores, Loses, Finishes, Picks, Forgets,
         Granted, Refused, Revoked, Ends, Repeats, Outside

\* A successful exchange stays on record.
LEMMA OkStays ==
  ASSUME Typed, ~profile.lossy, NEW c \in Calls, Local(c), Only(c), Step(c),
         NEW d \in Calls, Local(d), Exchanges(d), reg[d].answer.kind = "ok"
  PROVE  Exchanges(d)' /\ reg'[d].answer.kind = "ok" /\ Exchanged(d)' = Exchanged(d)
<1>1. CASE d # c
  BY <1>1 DEF Only, Exchanges, Exchanged
<1>2. CASE d = c
  <2>1. NoAnswer.kind = "none"
    BY DEF NoAnswer
  <2>2. pc[c] \in {"responded", "replied", "settled"}
    BY <1>2, <2>1 DEF Local, Typed, Points, Exchanges
  <2>3. Stores(c) \/ Ends(c)
    BY <1>2, <2>2 DEF Step, Begins, Misses, Fetches, Lists, Clears, Loses, Finishes, Picks, Forgets,
         Granted, Refused, Revoked, Repeats, Reposts, Routed, Exchanges
  <2>4. req'[c] = req[c] /\ reg'[c].rt = reg[c].rt /\ reg'[c].answer.kind = reg[c].answer.kind
    BY <2>3 DEF Stores, Answers, Ends, Settles
  <2> QED
    BY <1>2, <2>4 DEF Exchanges, Exchanged
<1> QED
  BY <1>1, <1>2

\* What was done stays done.
LEMMA UsedStays ==
  ASSUME Typed, NEW c \in Calls, Local(c), Only(c), Step(c), NEW kind \in {"code", "mfa"}, Used(kind)
  PROVE  Used(kind)'
<1>1. PICK d \in Calls : req[d].kind = kind
  BY DEF Used
<1>2. req'[d].kind = kind
  <2>1. CASE d # c
    BY <1>1, <2>1 DEF Only
  <2>2. CASE d = c
    BY <1>1, <2>2 DEF Local, Step, Begins, Misses, Fetches, Lists, Clears, Stores, Loses, Finishes, Picks,
         Forgets, Granted, Refused, Revoked, Ends, Settles, Repeats, Reposts, Routed, Answers
  <2> QED
    BY <2>1, <2>2
<1> QED
  BY <1>2 DEF Used

\* A chain that has not forked had not forked before.
LEMMA StraightBefore ==
  ASSUME Typed, ~profile.lossy, \A d \in Calls : Local(d), NEW c \in Calls, Only(c), Step(c), Straight'
  PROVE  Straight
<1>1. ~Used("code")
  BY UsedStays DEF Straight
<1>2. ASSUME ExchangedTwice PROVE ExchangedTwice'
  <2>1. PICK d, e \in Calls : /\ d # e /\ Exchanges(d) /\ Exchanges(e)
                              /\ reg[d].answer.kind = "ok" /\ reg[e].answer.kind = "ok"
                              /\ Exchanged(d) = Exchanged(e)
    BY <1>2 DEF ExchangedTwice, Exchanges
  <2>2. Exchanges(d)' /\ reg'[d].answer.kind = "ok" /\ Exchanged(d)' = Exchanged(d)
    BY <2>1, OkStays
  <2>3. Exchanges(e)' /\ reg'[e].answer.kind = "ok" /\ Exchanged(e)' = Exchanged(e)
    BY <2>1, OkStays
  <2> QED
    BY <2>1, <2>2, <2>3 DEF ExchangedTwice, Exchanges
<1> QED
  BY <1>1, <1>2 DEF Straight

\* The spent tokens, and the exchange of another one.
LEMMA SpentStep ==
  ASSUME Typed, NEW c \in Calls, Step(c)
  PROVE  /\ spent \subseteq spent'
         /\ \A v \in spent' : v \in spent \/ (Granted(c) /\ Exchanges(c) /\ v = Exchanged(c))
  BY DEF Step, Begins, Misses, Fetches, Lists, Clears, Stores, Loses, Finishes, Picks, Forgets,
         Granted, Refused, Revoked, Ends, Repeats, Outside, Exchanges

\* Which answers are on their way.
LEMMA ArrivingStep ==
  ASSUME Typed, ~profile.lossy, NEW c \in Calls, Local(c), Only(c), Step(c), NEW d \in Calls
  PROVE  /\ Arriving(d)' => \/ Arriving(d) /\ reg'[d].rt = reg[d].rt
                            \/ d = c /\ Granted(c) /\ Exchanges(c)
         /\ Arriving(d) => \/ Arriving(d)' /\ reg'[d].rt = reg[d].rt
                           \/ d = c /\ Stores(c)
<1>1. CASE d # c
  BY <1>1 DEF Only, Arriving, Exchanges
<1>2. CASE d = c
  BY <1>2 DEF Arriving, Exchanges, Step, Begins, Misses, Fetches, Lists, Clears, Stores, Loses, Finishes,
       Picks, Forgets, Granted, Refused, Revoked, Ends, Settles, Repeats, Reposts, Routed, Answers
<1> QED
  BY <1>1, <1>2

\* Which tokens are held.
LEMMA HeldParts ==
  /\ Stored \subseteq Held
  /\ \A ch \in challenges : ch[2] \in Held
  /\ \A c \in Calls : Exchanges(c) => reg[c].rt \in Held
  BY DEF Held

\* What can be exchanged after a step could be before, or has just been stored.
LEMMA HeldStep ==
  ASSUME Typed, NEW c \in Calls, Local(c), Only(c), Step(c), NEW v \in Held'
  PROVE  v \in Held \/ v = 0 \/ (Stores(c) /\ v = reg[c].answer.rt)
<1>1. CASE v \in Stored'
  BY <1>1, StoredStep, HeldParts
<1>2. CASE \E ch \in challenges' : v = ch[2]
  <2>1. CASE UNCHANGED challenges
    BY <1>2, <2>1, HeldParts
  <2>2. CASE Ends(c)
    BY <1>2, <2>2, HeldParts DEF Ends, Settles, Local, Exchanges
  <2> QED
    BY <2>1, <2>2 DEF Step, Begins, Misses, Fetches, Lists, Clears, Stores, Loses, Finishes, Picks,
         Forgets, Granted, Refused, Revoked, Repeats, Outside
<1>3. ASSUME NEW d \in Calls, Exchanges(d)', v = reg'[d].rt PROVE v \in Held \/ v = 0
  <2>1. CASE d # c
    BY <1>3, <2>1, HeldParts DEF Only, Exchanges
  <2>2. CASE d = c /\ Fetches(c)
    <3>1. reg'[c].rt \in Stored \cup {0}
      BY <2>2, TokenForType DEF Fetches, Typed
    <3> QED
      BY <1>3, <2>2, <3>1, HeldParts
  <2>3. CASE d = c /\ (Begins(c) \/ Repeats(c))
    BY <1>3, <2>3 DEF Begins, Repeats, Reposts, Local
  <2>4. CASE d = c /\ ~Fetches(c) /\ ~Begins(c) /\ ~Repeats(c)
    <3>1. req'[c] = req[c] /\ (reg'[c].rt = reg[c].rt \/ Picks(c))
      BY <2>4 DEF Step, Misses, Lists, Clears, Stores, Loses, Finishes, Forgets, Granted, Refused, Revoked,
           Ends, Settles, Routed, Answers, Picks
    <3>2. ~Picks(c)
      BY <1>3, <2>4, <3>1 DEF Picks, Local, Exchanges
    <3> QED
      BY <1>3, <2>4, <3>1, <3>2, HeldParts DEF Exchanges
  <2> QED
    BY <2>1, <2>2, <2>3, <2>4
<1> QED
  BY <1>1, <1>2, <1>3 DEF Held

\* Every step keeps track of who spent a token.
LEMMA SpentByStep ==
  ASSUME Typed, ~profile.lossy, \A d \in Calls : Local(d), SpentBy, NEW c \in Calls, Only(c), Step(c)
  PROVE  SpentBy'
<1> SUFFICES ASSUME NEW v \in spent'
             PROVE  \E d \in Calls : Exchanges(d)' /\ reg'[d].answer.kind = "ok" /\ Exchanged(d)' = v
  BY DEF SpentBy
<1>1. CASE v \in spent
  BY <1>1, OkStays DEF SpentBy
<1>2. CASE Granted(c) /\ Exchanges(c) /\ v = Exchanged(c)
  BY <1>2 DEF Granted, Exchanges, Exchanged
<1> QED
  BY <1>1, <1>2, SpentStep

\* An exchange that leaves the chain straight is that of an unspent token.
LEMMA ExchangeUnspent ==
  ASSUME Typed, ~profile.lossy, Server, \A d \in Calls : Local(d), SpentBy, NEW c \in Calls, Only(c), Step(c),
         Granted(c), Exchanges(c), Straight'
  PROVE  Exchanged(c) \notin spent /\ Exchanged(c) # 0 /\ Exchanged(c) \in Held
<1>1. Exchanged(c) # 0 /\ Exchanged(c) \in Held
  <2>1. CASE req[c].kind = "mfa"
    BY <2>1, HeldParts DEF Exchanged, Local, Server
  <2>2. CASE req[c].kind = "refresh"
    BY <2>2, HeldParts DEF Exchanged, Exchanges, Local, Granted
  <2> QED
    BY <2>1, <2>2 DEF Exchanges
<1>2. ASSUME Exchanged(c) \in spent PROVE FALSE
  <2>1. PICK d \in Calls : Exchanges(d) /\ reg[d].answer.kind = "ok" /\ Exchanged(d) = Exchanged(c)
    BY <1>2 DEF SpentBy
  <2>2. d # c
    <3>1. reg[c].answer = NoAnswer
      BY DEF Granted, Local
    <3>2. NoAnswer.kind = "none"
      BY DEF NoAnswer
    <3> QED
      BY <2>1, <3>1, <3>2
  <2>3. Exchanges(d)' /\ reg'[d].answer.kind = "ok" /\ Exchanged(d)' = Exchanged(d)
    BY <2>1, OkStays
  <2>4. Exchanges(c)' /\ reg'[c].answer.kind = "ok" /\ Exchanged(c)' = Exchanged(c)
    BY DEF Granted, Exchanges, Exchanged
  <2>5. ExchangedTwice'
    BY <2>1, <2>2, <2>3, <2>4 DEF ExchangedTwice, Exchanges
  <2> QED
    BY <2>5 DEF Straight
<1> QED
  BY <1>1, <1>2

\* Every step keeps the successor of a stored, spent token on its way.
LEMMA SpentArrivesStep ==
  ASSUME Typed, Server, Server', Fresh, Multi, \A d \in Calls : Local(d), SpentArrives,
         Used("mfa") => Captured, NEW c \in Calls, Only(c), Step(c)
  PROVE  SpentArrives'
<1> SUFFICES ASSUME NEW v \in Stored', v \in spent'
             PROVE  \E d \in Calls : Arriving(d)' /\ reg'[d].rt = v
  BY DEF SpentArrives
<1>1. v # 0 /\ ~profile.lossy /\ profile.useMrrt
  BY DEF Server, Multi
<1>2. v \in Stored
  <2>1. ASSUME Stores(c), v = reg[c].answer.rt PROVE FALSE
    <3>1. spent' = spent
      BY <2>1 DEF Stores, Outside
    <3> QED
      BY <1>1, <2>1, <3>1, KnownParts DEF Fresh
  <2> QED
    BY <1>1, <2>1, StoredStep
<1>3. CASE v \in spent
  <2>1. PICK d \in Calls : Arriving(d) /\ reg[d].rt = v
    BY <1>2, <1>3 DEF SpentArrives
  <2>2. ASSUME d = c, Stores(c) PROVE FALSE
    <3>1. reg[c].answer.rt # 0 /\ req[c].kind # "custom" /\ reg[c].rt = v /\ ~Keeps(c)
      BY <2>1, <2>2 DEF Arriving, Exchanges, Keeps
    <3>2. reg[c].answer.rt # v
      BY <3>1, KnownParts DEF Fresh
    <3>3. /\ \A j \in Keys : store'[j] = IF j \in Reached(c) THEN reg[c].answer.rt ELSE store[j]
          /\ latest' = reg[c].answer.rt
      BY <1>1, <2>2, <3>1 DEF Stores, Remembers
    <3>4. \A j \in Keys : store[j] = v => j \in Reached(c)
      BY <1>1, <3>1 DEF Reached
    <3> QED
      BY <3>2, <3>3, <3>4 DEF Stored
  <2> QED
    BY <1>1, <2>1, <2>2, ArrivingStep
<1>4. CASE Granted(c) /\ Exchanges(c) /\ v = Exchanged(c)
  <2>1. Arriving(c)' /\ reg'[c].rt = reg[c].rt
    BY <1>4 DEF Granted, Rotates, Multi, Arriving, Exchanges, Typed
  <2>2. reg[c].rt = v
    <3>1. CASE req[c].kind = "mfa"
      BY <1>2, <1>4, <3>1 DEF Used, Captured, Granted, Exchanged
    <3>2. CASE req[c].kind # "mfa"
      BY <1>4, <3>2 DEF Exchanged
    <3> QED
      BY <3>1, <3>2
  <2> QED
    BY <2>1, <2>2
<1> QED
  BY <1>3, <1>4, SpentStep

\* The chain of tokens, while it is straight.
LEMMA ChainStep ==
  ASSUME Typed, Server, Fresh, Multi, \A d \in Calls : Local(d), SpentBy,
         OneLive, NoneLive, OneArriving, Straight, NEW c \in Calls, Only(c), Step(c), Straight'
  PROVE  OneLive' /\ NoneLive' /\ OneArriving'
<1>0. ~profile.lossy
  BY DEF Multi
<1>1. \A v \in Held' : v \in Held \/ v = 0 \/ (Stores(c) /\ v = reg[c].answer.rt)
  BY HeldStep
<1>2. spent \subseteq spent'
  BY SpentStep
<1>3. CASE Granted(c) /\ Exchanges(c)
  <2>1. Exchanged(c) \notin spent /\ Exchanged(c) # 0 /\ Exchanged(c) \in Held
    BY <1>0, <1>3, ExchangeUnspent
  <2>2. \A d \in Calls : ~Arriving(d)
    BY <2>1 DEF NoneLive
  <2>3. \A d \in Calls : Arriving(d)' => d = c
    BY <1>0, <2>2, ArrivingStep
  <2>4. spent' = spent \cup {Exchanged(c)} /\ ~Stores(c)
    BY <1>3 DEF Granted, Rotates, Multi, Exchanges, Stores
  <2>5. Held' \subseteq spent' \cup {0}
    BY <1>1, <2>1, <2>4 DEF OneLive
  <2> QED
    BY <2>3, <2>5 DEF OneLive, NoneLive, OneArriving
<1>4. CASE ~(Granted(c) /\ Exchanges(c))
  <2>1. \A d \in Calls : Arriving(d)' => Arriving(d)
    BY <1>0, <1>4, ArrivingStep
  <2>2. OneArriving'
    BY <2>1 DEF OneArriving
  <2>3. CASE Stores(c) /\ Arriving(c)
    <3>1. Held \subseteq spent \cup {0}
      BY <2>3 DEF NoneLive
    <3>2. OneLive'
      BY <1>1, <1>2, <3>1 DEF OneLive
    <3>3. ~Arriving(c)'
      BY <2>3 DEF Stores, Answers, Arriving
    <3>4. NoneLive'
      BY <2>1, <2>3, <3>3 DEF OneArriving, NoneLive
    <3> QED
      BY <2>2, <3>2, <3>4
  <2>4. CASE ~(Stores(c) /\ Arriving(c))
    <3>1. \A v \in Held' : v \in Held \/ v = 0
      <4>1. ASSUME Stores(c), NEW v \in Held', v = reg[c].answer.rt, v # 0 PROVE v \in Held
        <5>1. req[c].kind = "custom"
          BY <2>4, <4>1 DEF Stores, Arriving, Exchanges, Local, TokenKinds, Straight, Used
        <5>2. UNCHANGED Memory /\ UNCHANGED challenges
          BY <4>1, <5>1 DEF Stores, Remembers, Keeps, Outside
        <5>3. \A d \in Calls : Exchanges(d)' => Exchanges(d) /\ reg'[d].rt = reg[d].rt
          BY <4>1 DEF Only, Exchanges, Stores, Answers
        <5> QED
          BY <4>1, <5>2, <5>3 DEF Held, Stored, Memory
      <4> QED
        BY <1>1, <4>1
    <3> QED
      BY <1>2, <2>1, <2>2, <3>1 DEF OneLive, NoneLive
  <2> QED
    BY <2>3, <2>4
<1> QED
  BY <1>3, <1>4

\* Every step keeps what is stored the latest.
LEMMA StoredLatestStep ==
  ASSUME Typed, Typed', Server, Multi, \A d \in Calls : Local(d), SpentArrives,
         NoneLive, OneArriving, StoredLatest, Straight, NEW c \in Calls, Only(c), Step(c)
  PROVE  StoredLatest'
<1>1. CASE UNCHANGED Memory
  BY <1>1 DEF StoredLatest, Memory
<1>2. CASE Clears(c)
  BY <1>2 DEF StoredLatest, Clears
<1>3. CASE Forgets(c)
  BY <1>3 DEF StoredLatest, Forgets
<1>4. CASE Stores(c) /\ Arriving(c)
  <2>1. reg[c].answer.rt # 0 /\ ~Keeps(c)
    BY <1>4 DEF Arriving, Exchanges, Keeps
  <2>2. /\ \A j \in Keys : store'[j] = IF j \in Reached(c) THEN reg[c].answer.rt ELSE store[j]
        /\ latest' = reg[c].answer.rt
    BY <1>4, <2>1 DEF Stores, Remembers, Multi
  <2>3. ASSUME NEW j \in Keys, store[j] # 0 PROVE store[j] = reg[c].rt
    <3>1. store[j] \in Stored /\ store[j] \in Held
      BY HeldParts DEF Stored
    <3>2. store[j] \in spent
      BY <1>4, <2>3, <3>1 DEF NoneLive
    <3>3. PICK d \in Calls : Arriving(d) /\ reg[d].rt = store[j]
      BY <3>1, <3>2 DEF SpentArrives
    <3> QED
      BY <1>4, <3>3 DEF OneArriving
  <2> QED
    BY <2>2, <2>3 DEF StoredLatest, Reached, Multi
<1>5. CASE Stores(c) /\ ~Arriving(c)
  <2>1. req[c].kind # "custom" => reg[c].answer.rt = 0
    BY <1>5 DEF Stores, Arriving, Exchanges, Local, TokenKinds, Straight, Used
  <2>2. latest' = latest /\ \A j \in Keys : store'[j] \in {store[j], 0}
    BY <1>5, <2>1 DEF Stores, Remembers, Keeps, Memory
  <2> QED
    BY <2>2 DEF StoredLatest
<1> QED
  BY <1>1, <1>2, <1>3, <1>4, <1>5 DEF Step, Begins, Misses, Fetches, Lists, Loses, Finishes, Picks,
       Granted, Refused, Revoked, Ends, Repeats

\* Every step keeps a completion bound to the token of its challenge.
LEMMA CapturedStep ==
  ASSUME Typed, Typed', Server, Fresh, Multi, \A d \in Calls : Local(d), StoredLatest, Captured,
         NEW c \in Calls, Only(c), Step(c), \A d \in Calls : Local(d)', Server'
  PROVE  Captured'
<1> SUFFICES ASSUME NEW d \in Calls, req'[d].kind = "mfa", pc'[d] = "fetching", req'[d].bound \in Stored'
             PROVE  reg'[d].rt = req'[d].bound
  BY DEF Captured
<1>1. req'[d] = req[d]
  BY DEF Only, Step, Begins, Misses, Fetches, Lists, Clears, Stores, Loses, Finishes, Picks, Forgets,
         Granted, Refused, Revoked, Ends, Settles, Repeats, Reposts, Routed, Answers
<1> DEFINE b == req[d].bound
<1>2. <<req[d].key, b>> \in challenges /\ b # 0 /\ b \in Known
  BY <1>1, KnownParts DEF Local, Server
<1>3. b \in Stored
  <2>1. ASSUME Stores(c), b = reg[c].answer.rt PROVE FALSE
    BY <1>2, <2>1 DEF Fresh
  <2> QED
    BY <1>1, <1>2, <2>1, StoredStep
<1>4. CASE d = c /\ Fetches(c)
  <2>1. latest = b
    BY <1>2, <1>3 DEF Stored, StoredLatest
  <2>2. reg'[c].rt = TokenFor("mfa", req[c].key)
    BY <1>1, <1>4 DEF Fetches
  <2>3. TokenFor("mfa", req[c].key) = IF store[req[c].key] = 0 /\ profile.useMrrt
                                      THEN latest ELSE store[req[c].key]
    BY DEF TokenFor
  <2>4. req[c].key \in Keys
    BY DEF Typed
  <2> QED
    BY <1>1, <1>4, <2>1, <2>2, <2>3, <2>4 DEF StoredLatest, Multi
<1>5. CASE ~(d = c /\ Fetches(c))
  <2>1. pc[d] = "fetching" /\ reg'[d].rt = reg[d].rt
    BY <1>5 DEF Only, Step, Begins, Misses, Lists, Clears, Stores, Loses, Finishes, Picks, Forgets,
           Granted, Refused, Revoked, Ends, Settles, Repeats, Reposts, Routed, Answers
  <2> QED
    BY <1>1, <1>3, <2>1 DEF Captured
<1> QED
  BY <1>4, <1>5

\* Every step keeps the lineage.
LEMMA LineageStep ==
  ASSUME Worker, Worker', Fresh, Lineage, Next
  PROVE  Lineage'
<1>1. Typed /\ Typed' /\ Server /\ Server' /\ (\A d \in Calls : Local(d)) /\ \A d \in Calls : Local(d)'
  BY DEF Worker
<1>2. PICK c \in Calls : Only(c) /\ Step(c)
  BY Steps
<1>3. profile' = profile
  BY <1>2, <1>1, ProfileStep
<1> SUFFICES ASSUME Multi
             PROVE  /\ SpentBy'
                    /\ Straight' => OneLive' /\ NoneLive' /\ OneArriving' /\ StoredLatest' /\ Captured'
                    /\ Straight' \/ ~Used("mfa")' => SpentArrives'
  BY <1>3 DEF Lineage, Multi
<1>4. SpentBy /\ ~profile.lossy
  BY DEF Lineage, Multi
<1>5. SpentBy'
  BY <1>1, <1>2, <1>4, SpentByStep
<1>6. ASSUME Straight' PROVE OneLive' /\ NoneLive' /\ OneArriving' /\ StoredLatest' /\ Captured' /\ SpentArrives'
  <2>1. Straight
    BY <1>1, <1>2, <1>4, <1>6, StraightBefore
  <2>2. OneLive /\ NoneLive /\ OneArriving /\ StoredLatest /\ Captured /\ SpentArrives
    BY <2>1 DEF Lineage
  <2>3. OneLive' /\ NoneLive' /\ OneArriving'
    BY <1>1, <1>2, <1>4, <1>6, <2>1, <2>2, ChainStep
  <2>4. StoredLatest'
    BY <1>1, <1>2, <2>1, <2>2, StoredLatestStep
  <2>5. Captured'
    BY <1>1, <1>2, <2>2, CapturedStep
  <2>6. SpentArrives'
    BY <1>1, <1>2, <2>2, SpentArrivesStep
  <2> QED
    BY <2>3, <2>4, <2>5, <2>6
<1>7. ASSUME ~Used("mfa")' PROVE SpentArrives'
  <2>1. ~Used("mfa")
    BY <1>1, <1>2, <1>7, UsedStays
  <2>2. SpentArrives
    BY <2>1 DEF Lineage
  <2> QED
    BY <1>1, <1>2, <2>1, <2>2, SpentArrivesStep
<1> QED
  BY <1>5, <1>6, <1>7

\* With MRRT all keys follow one lineage of tokens.
LEMMA LineageInvariant == Spec => []Lineage
<1>1. ASSUME Init PROVE Lineage
  <2>1. \A c \in Calls : req[c].kind = "none" /\ pc[c] = "idle"
    BY <1>1 DEF Init
  <2>2. spent = {} /\ challenges = {}
    BY <1>1 DEF Init
  <2>3. SpentBy /\ SpentArrives
    BY <2>2 DEF SpentBy, SpentArrives
  <2>4. NoneLive /\ OneArriving /\ Captured
    BY <2>1 DEF NoneLive, OneArriving, Captured, Arriving, Exchanges
  <2>5. Multi => StoredLatest /\ \A v \in Stored : v \in {0, 1}
    BY <1>1 DEF Init, StoredLatest, Stored, Multi
  <2>6. \A v \in Held : v \in Stored
    BY <2>1, <2>2 DEF Held, Exchanges
  <2>7. Multi => OneLive
    BY <2>5, <2>6 DEF OneLive
  <2> QED
    BY <2>3, <2>4, <2>5, <2>7 DEF Lineage
<1>2. Worker /\ Worker' /\ Fresh /\ Lineage /\ [Next]_vars => Lineage'
  <2>1. ASSUME Lineage, UNCHANGED vars PROVE Lineage'
    <3>1. UNCHANGED <<store, latest, pc, req, reg, challenges, spent, profile>>
      BY <2>1 DEF vars, server
    <3> QED
      BY <2>1, <3>1 DEF Lineage, Multi, Straight, SpentBy, SpentArrives, OneLive, NoneLive, OneArriving,
           StoredLatest, Captured, Held, Arriving, Exchanges, Exchanged, ExchangedTwice, Used, Stored
  <2> QED
    BY <2>1, LineageStep
<1> QED
  BY <1>1, <1>2, WorkerInvariant, FreshInvariant, PTL DEF Spec

\* When nothing is under way the worker holds no spent token, with and without
\* MRRT: the rotation reached every key it had to reach.
THEOREM StoredTokensUnspent == Spec => []StoredUnspent
<1>1. Worker /\ Separate /\ Lineage => StoredUnspent
  <2>1. SUFFICES ASSUME Worker, Separate, Lineage, Quiet, NothingLost, ~Forked
                 PROVE  Stored \cap spent = {}
    BY DEF StoredUnspent
  <2>2. Server
    BY <2>1 DEF Worker
  <2>3. CASE profile.onlineAccess
    BY <2>2, <2>3 DEF Server
  <2>4. CASE ~profile.onlineAccess /\ ~profile.useMrrt
    <3>1. SpentLeaves
      BY <2>1, <2>4 DEF NothingLost, Separate, Single
    <3>2. \A k \in Keys : store[k] \notin spent
      BY <2>1, <3>1 DEF SpentLeaves, Leaving, Quiet
    <3> QED
      BY <2>2, <2>4, <3>2 DEF Stored, Server
  <2>5. CASE ~profile.onlineAccess /\ profile.useMrrt
    <3>1. SpentArrives
      BY <2>1, <2>5 DEF NothingLost, Lineage, Multi, Straight, Forked
    <3> QED
      BY <2>1, <3>1 DEF SpentArrives, Arriving, Quiet
  <2> QED
    BY <2>3, <2>4, <2>5
<1> QED
  BY <1>1, WorkerInvariant, SeparateInvariant, LineageInvariant, PTL

-----------------------------------------------------------------------------
(* Every call ends: the budget of a call, and how its steps use it up *)

\* An attempt is left to every call, what it has to revoke is stored under the
\* keys of one audience, and its message is in the queue while it is on its way.
Budget ==
  \A c \in Calls :
    /\ reg[c].tries < RetryCount
    /\ IsFiniteSet(reg[c].rts) /\ Cardinality(reg[c].rts) <= Cardinality(Keys)
    /\ pc[c] = "posted" => \E i \in 1 .. Len(inbox) : inbox[i] = c

\* What a step of c does to the counters of getJSON: none but the repetition of a
\* message changes them, and that is the nonce retry, the next attempt, or the
\* second message of revokeRefreshToken.
Goes(c) ==
  /\ pc[c] = "replied" => pc'[c] # "posted"
  /\ reg'[c].tries = reg[c].tries /\ reg'[c].again = reg[c].again
  /\ pc[c] = "posted" => reg'[c].rts = reg[c].rts \/ reg'[c].rts = TokensOf(AudOf[req[c].key])

GoesAgain(c) ==
  /\ pc[c] = "replied" /\ pc'[c] = "posted"
  /\ \/ /\ ~reg[c].again /\ reg'[c].again /\ reg'[c].tries = 0 /\ req'[c] = req[c]
     \/ /\ reg'[c].again = reg[c].again /\ reg'[c].tries = reg[c].tries + 1
        /\ reg[c].tries + 1 < RetryCount /\ req'[c] = req[c]
     \/ /\ ~reg'[c].again /\ reg'[c].tries = 0
        /\ req[c].kind = "revoke" /\ req'[c].kind = "clear"

\* A reply leaves the counters alone.
LEMMA ReplyCounts ==
  ASSUME Typed, NEW c \in Calls, NEW kind, NEW rt, Reply(c, kind, rt)
  PROVE  /\ reg'[c].tries = reg[c].tries /\ reg'[c].again = reg[c].again /\ reg'[c].rts = reg[c].rts
         /\ pc'[c] = "replied"
  BY DEF Typed, AnyReg, Reply, Goto

\* The router leaves them alone.
LEMMA RouterCounts ==
  ASSUME Typed, Queue, MessageRouter, NEW c \in Calls, c = Head(inbox)
  PROVE  Goes(c)
<1>1. pc[c] = "posted"
  BY RouterTakes
<1>2. ASSUME NEW kind, NEW rt, Reply(c, kind, rt) PROVE Goes(c)
  BY <1>1, <1>2, ReplyCounts DEF Goes
<1>3. CASE RouteToken(c)
  <2>1. CASE Reply(c, "missing", 0)
    BY <1>2, <2>1
  <2>2. CASE ~Reply(c, "missing", 0)
    <3> DEFINE rt == TokenFor(req[c].kind, req[c].key)
    <3>1. reg' = [reg EXCEPT ![c].rt = rt] /\ pc' = [pc EXCEPT ![c] = "fetching"]
      BY <1>3, <2>2 DEF RouteToken, Goto
    <3> HIDE DEF rt
    <3> QED
      BY <1>1, <3>1 DEF Goes, Typed, AnyReg
  <2> QED
    BY <2>1, <2>2
<1>4. CASE RouteRevoke(c)
  <2> DEFINE rts == TokensOf(AudOf[req[c].key])
  <2>1. reg' = [reg EXCEPT ![c].rts = rts] /\ pc' = [pc EXCEPT ![c] = "revoking"]
    BY <1>4 DEF RouteRevoke, Goto
  <2> HIDE DEF rts
  <2>2. reg'[c].tries = reg[c].tries /\ reg'[c].again = reg[c].again /\ reg'[c].rts = rts
    BY <2>1 DEF Typed, AnyReg
  <2> QED
    BY <1>1, <2>1, <2>2 DEF Goes, rts
<1>5. CASE RouteClear(c)
  BY <1>2, <1>5 DEF RouteClear
<1> QED
  BY <1>3, <1>4, <1>5 DEF MessageRouter

\* So do a call that begins, the handlers and the server.
LEMMA OtherCounts ==
  ASSUME Typed, NEW c \in Calls, Invoke(c) \/ (Handle(c) /\ ~Receive(c)) \/ Serve(c), Queue
  PROVE  Goes(c)
<1>1. ASSUME NEW r, Start(c, r) PROVE Goes(c)
  BY <1>1 DEF Start, Post, Goto, Goes, Typed
<1>2. ASSUME NEW kind, NEW rt, Reply(c, kind, rt) PROVE Goes(c)
  BY <1>2, ReplyCounts DEF Goes
<1>3. CASE Invoke(c)
  BY <1>1, <1>3 DEF Invoke, RequestToken, RequestTokenForMfa, RevokeRefreshToken, Logout
<1>4. CASE FetchFails(c) \/ BodyUnreadable(c) \/ StoreAnswer(c)
  BY <1>2, <1>4 DEF FetchFails, BodyUnreadable, StoreAnswer
<1>5. CASE RevokeNext(c)
  <2>1. CASE Reply(c, "ok", 0)
    BY <1>2, <2>1
  <2>2. ASSUME NEW rt \in reg[c].rts, reg' = [reg EXCEPT ![c].rt = rt, ![c].rts = @ \ {rt}]
        PROVE  reg'[c].tries = reg[c].tries /\ reg'[c].again = reg[c].again
    BY <2>2 DEF Typed, AnyReg
  <2> QED
    BY <1>5, <2>1, <2>2 DEF RevokeNext, Goto, Goes, Typed
<1>6. CASE DeleteToken(c) \/ Revokes(c)
  BY <1>6 DEF DeleteToken, Revokes, Goto, Goes, Typed
<1>7. ASSUME NEW a, reg' = [reg EXCEPT ![c].answer = a], Goto(c, "responded"), pc[c] = "fetching" PROVE Goes(c)
  BY <1>7 DEF Goto, Goes, Typed, AnyReg
<1>8. CASE Grants(c) \/ \E why \in {"nonce", "mfa", "fail"} : Refuses(c, why)
  BY <1>7, <1>8 DEF Grants, Refuses
<1> QED
  BY <1>3, <1>4, <1>5, <1>6, <1>8 DEF Handle, Serve

\* The page ends a call or repeats its message.
LEMMA ReceiveCounts ==
  ASSUME Typed, NEW c \in Calls, Receive(c)
  PROVE  Goes(c) \/ GoesAgain(c)
<1>1. pc[c] = "replied"
  BY DEF Receive
<1>2. ASSUME Settle(c), reg' = reg PROVE Goes(c)
  BY <1>1, <1>2 DEF Settle, Goto, Goes, Typed
<1>3. ASSUME Post(c) PROVE pc'[c] = "posted"
  BY <1>3 DEF Post, Goto, Typed
<1>4. CASE NonceAnswers(c)
  <2>1. CASE ~reg[c].again
    <3>1. /\ reg'[c] = [NoReg EXCEPT !.again = TRUE] /\ Post(c) /\ req' = req
      BY <1>4, <2>1 DEF NonceAnswers, Typed
    <3>2. reg'[c].again /\ reg'[c].tries = 0 /\ req'[c] = req[c]
      BY <3>1 DEF NoReg
    <3> QED
      BY <1>1, <1>3, <2>1, <3>1, <3>2 DEF GoesAgain
  <2> QED
    BY <1>2, <1>4, <2>1 DEF NonceAnswers
<1>5. CASE ErrorAnswers(c)
  <2>1. CASE req[c].kind \in TokenKinds /\ reg[c].tries + 1 < RetryCount
    <3>1. /\ reg'[c] = [NoReg EXCEPT !.again = reg[c].again, !.tries = reg[c].tries + 1]
          /\ Post(c) /\ req' = req
      BY <1>5, <2>1 DEF ErrorAnswers, Typed
    <3>2. reg'[c].again = reg[c].again /\ reg'[c].tries = reg[c].tries + 1
      BY <3>1 DEF NoReg
    <3> QED
      BY <1>1, <1>3, <2>1, <3>1, <3>2 DEF GoesAgain
  <2> QED
    BY <1>2, <1>5, <2>1 DEF ErrorAnswers
<1>6. CASE RefusalAnswers(c) \/ TokenAnswers(c)
  BY <1>2, <1>6 DEF RefusalAnswers, TokenAnswers
<1>7. CASE DoneAnswers(c)
  <2>1. CASE req[c].kind = "revoke" /\ profile.onlineAccess
    <3>1. req' = [req EXCEPT ![c].kind = "clear"] /\ reg'[c] = NoReg /\ Post(c)
      BY <1>7, <2>1 DEF DoneAnswers, Typed
    <3>2. req'[c].kind = "clear"
      BY <3>1 DEF Typed
    <3>3. ~reg'[c].again /\ reg'[c].tries = 0
      BY <3>1 DEF NoReg
    <3> QED
      BY <1>1, <1>3, <2>1, <3>1, <3>2, <3>3 DEF GoesAgain
  <2> QED
    BY <1>2, <1>7, <2>1 DEF DoneAnswers
<1> QED
  BY <1>4, <1>5, <1>6, <1>7 DEF Receive

\* Every step of the specification, with what it does to the counters.
LEMMA CountedSteps ==
  ASSUME Worker, Next
  PROVE  \E c \in Calls : Typed' /\ Only(c) /\ Step(c) /\ (Goes(c) \/ GoesAgain(c))
<1>1. Typed /\ Queue /\ \A c \in Calls : Local(c)
  BY DEF Worker
<1>2. CASE MessageRouter
  BY <1>1, <1>2, RouterStep, RouterCounts
<1>3. ASSUME NEW c \in Calls, Invoke(c) \/ Handle(c) \/ Serve(c)
      PROVE  Typed' /\ Only(c) /\ Step(c) /\ (Goes(c) \/ GoesAgain(c))
  <2>1. Typed' /\ Only(c) /\ Step(c)
    BY <1>1, <1>3, InvokeStep, HandleStep, ServeStep
  <2>2. Goes(c) \/ GoesAgain(c)
    BY <1>1, <1>3, OtherCounts, ReceiveCounts
  <2> QED
    BY <2>1, <2>2
<1> QED
  BY <1>2, <1>3 DEF Next

\* The tokens of an audience are at most as many as there are keys.
LEMMA TokensOfBound ==
  ASSUME Typed, NEW a
  PROVE  IsFiniteSet(TokensOf(a)) /\ Cardinality(TokensOf(a)) <= Cardinality(Keys)
<1> DEFINE J == {i \in Keys : AudOf[i] = a}
           I == {store[j] : j \in J}
           T == TokensOf(a)
<1>1. IsFiniteSet(J) /\ Cardinality(J) <= Cardinality(Keys) /\ Cardinality(J) \in Nat /\ Cardinality(Keys) \in Nat
  BY FS_Subset, FS_CardinalityType
<1>2. IsFiniteSet(I) /\ Cardinality(I) <= Cardinality(J) /\ Cardinality(I) \in Nat
  <2> DEFINE f == [j \in J |-> store[j]]
  <2>1. f \in Surjection(J, I)
    BY DEF Surjection
  <2> QED
    BY <1>1, <2>1, FS_Surjection, FS_CardinalityType
<1>3. T \in SUBSET I
  BY DEF TokensOf
<1>4. IsFiniteSet(T) /\ Cardinality(T) <= Cardinality(I) /\ Cardinality(T) \in Nat
  BY <1>2, <1>3, FS_Subset, FS_CardinalityType
<1> QED
  BY <1>1, <1>2, <1>4

\* A message that is not taken stays in the queue.
LEMMA QueueReached ==
  ASSUME Typed, Budget, NEW c \in Calls, Only(c), Step(c), NEW d \in Calls, pc'[d] = "posted"
  PROVE  \E i \in 1 .. Len(inbox') : inbox'[i] = d
<1>0. inbox \in Seq(Calls) /\ Len(inbox) \in Nat
  BY DEF Typed
<1>1. \/ pc[c] # "posted" /\ UNCHANGED inbox /\ pc'[c] # "posted"
      \/ pc[c] # "posted" /\ inbox' = Append(inbox, c)
      \/ Routed(c) /\ pc'[c] # "posted"
  BY DEF Step, Begins, Misses, Fetches, Lists, Clears, Stores, Loses, Finishes, Picks, Forgets,
         Granted, Refused, Revoked, Ends, Repeats, Settles, Reposts, Answers
<1>2. CASE d # c
  <2>1. PICK i \in 1 .. Len(inbox) : inbox[i] = d
    BY <1>2 DEF Budget, Only
  <2>2. CASE UNCHANGED inbox
    BY <2>1, <2>2
  <2>3. CASE inbox' = Append(inbox, c)
    BY <1>0, <2>1, <2>3
  <2>4. CASE Routed(c)
    <3>1. inbox' = Tail(inbox) /\ inbox # <<>> /\ c = inbox[1]
      BY <1>0, <2>4 DEF Routed
    <3>2. i # 1 /\ i - 1 \in 1 .. Len(inbox) - 1
      BY <1>0, <1>2, <2>1, <3>1
    <3>3. Len(inbox') = Len(inbox) - 1 /\ inbox'[i - 1] = inbox[i]
      BY <1>0, <3>1, <3>2
    <3> QED
      BY <2>1, <3>2, <3>3
  <2> QED
    BY <1>1, <2>2, <2>3, <2>4
<1>3. CASE d = c
  <2>1. inbox' = Append(inbox, c)
    BY <1>1, <1>3
  <2> QED
    BY <1>0, <1>3, <2>1
<1> QED
  BY <1>2, <1>3

\* Every step stays within the budget.
LEMMA BudgetStep ==
  ASSUME Worker, Budget, Next
  PROVE  Budget'
<1>1. PICK c \in Calls : Typed' /\ Only(c) /\ Step(c) /\ (Goes(c) \/ GoesAgain(c))
  BY CountedSteps
<1>2. Typed
  BY DEF Worker
<1>3. \A d \in Calls : pc'[d] = "posted" => \E i \in 1 .. Len(inbox') : inbox'[i] = d
  BY <1>1, <1>2, QueueReached
<1>4. reg'[c].tries < RetryCount
  <2>1. reg[c].tries < RetryCount
    BY DEF Budget
  <2> QED
    BY <1>1, <2>1 DEF Goes, GoesAgain
<1>5. IsFiniteSet(reg'[c].rts) /\ Cardinality(reg'[c].rts) <= Cardinality(Keys)
  <2>1. /\ IsFiniteSet(reg[c].rts) /\ Cardinality(reg[c].rts) <= Cardinality(Keys)
        /\ Cardinality(reg[c].rts) \in Nat /\ Cardinality(Keys) \in Nat
    BY FS_CardinalityType DEF Budget
  <2>2. \/ reg'[c].rts = reg[c].rts
        \/ pc[c] = "posted" /\ Goes(c)
        \/ \E rt : reg'[c].rts = reg[c].rts \ {rt}
        \/ reg'[c].rts = {}
    <3>1. CASE Picks(c)
      BY <3>1 DEF Picks
    <3>2. CASE Lists(c)
      BY <1>1, <3>2 DEF Lists, Routed, GoesAgain
    <3>3. CASE Repeats(c)
      BY <3>3 DEF Repeats, Reposts
    <3> QED
      BY <1>1, <3>1, <3>2, <3>3 DEF Step, Begins, Misses, Fetches, Clears, Stores, Loses, Finishes,
           Forgets, Granted, Refused, Revoked, Ends, Settles, Answers
  <2>3. CASE \E rt : reg'[c].rts = reg[c].rts \ {rt}
    <3>1. PICK rt : reg'[c].rts = reg[c].rts \ {rt}
      BY <2>3
    <3>2. /\ IsFiniteSet(reg[c].rts \ {rt})
          /\ Cardinality(reg[c].rts \ {rt}) =
               IF rt \in reg[c].rts THEN Cardinality(reg[c].rts) - 1 ELSE Cardinality(reg[c].rts)
      BY <2>1, FS_RemoveElement
    <3> QED
      BY <2>1, <3>1, <3>2
  <2>4. CASE reg'[c].rts = TokensOf(AudOf[req[c].key])
    BY <1>2, <2>4, TokensOfBound
  <2>5. CASE reg'[c].rts = {}
    BY <2>1, <2>5, FS_EmptySet
  <2> QED
    BY <2>1, <2>2, <2>3, <2>4, <2>5 DEF Goes
<1>6. \A d \in Calls \ {c} : reg'[d] = reg[d]
  BY <1>1 DEF Only
<1> QED
  BY <1>3, <1>4, <1>5, <1>6 DEF Budget

\* The budget is kept in every reachable state.
LEMMA BudgetInvariant == Spec => []Budget
<1>1. Init => Budget
  <2>1. IsFiniteSet({}) /\ Cardinality({}) <= Cardinality(Keys)
    BY FS_EmptySet, FS_CardinalityType
  <2>2. ASSUME Init, NEW c \in Calls
        PROVE  reg[c].tries = 0 /\ reg[c].rts = {} /\ pc[c] = "idle"
    BY <2>2 DEF Init, NoReg
  <2> SUFFICES ASSUME Init, NEW c \in Calls
               PROVE  /\ reg[c].tries < RetryCount
                      /\ IsFiniteSet(reg[c].rts) /\ Cardinality(reg[c].rts) <= Cardinality(Keys)
                      /\ pc[c] = "posted" => \E i \in 1 .. Len(inbox) : inbox[i] = c
    BY DEF Budget
  <2>3. reg[c].tries = 0 /\ reg[c].rts = {} /\ pc[c] = "idle"
    BY <2>2
  <2>4. 0 < RetryCount
    OBVIOUS
  <2> QED
    BY <2>1, <2>3, <2>4
<1>2. Worker /\ Budget /\ UNCHANGED vars => Budget'
  BY DEF Budget, vars
<1>3. Worker /\ Budget /\ [Next]_vars => Budget'
  BY <1>2, BudgetStep
<1> QED
  BY <1>1, <1>3, WorkerInvariant, PTL DEF Spec

\* What a call has still to do at each control point, before a step and after it.
LEMMA StageNow ==
  ASSUME NEW c \in Calls
  PROVE  /\ pc[c] = "posted"      => Stage(c) = 3 * Cardinality(Keys) + 5
         /\ pc[c] = "fetching"    => Stage(c) = 3
         /\ pc[c] = "responded"   => Stage(c) = 2
         /\ pc[c] = "revoking"    => Stage(c) = 3 * Cardinality(reg[c].rts) + 2
         /\ pc[c] = "revFetching" => Stage(c) = 3 * Cardinality(reg[c].rts) + 4
         /\ pc[c] = "revDone"     => Stage(c) = 3 * Cardinality(reg[c].rts) + 3
         /\ pc[c] = "replied"     => Stage(c) = 1
  BY DEF Stage

\* The same after the step.
LEMMA StageThen ==
  ASSUME NEW c \in Calls
  PROVE  /\ pc'[c] = "posted"      => Stage(c)' = 3 * Cardinality(Keys) + 5
         /\ pc'[c] = "fetching"    => Stage(c)' = 3
         /\ pc'[c] = "responded"   => Stage(c)' = 2
         /\ pc'[c] = "revoking"    => Stage(c)' = 3 * Cardinality(reg'[c].rts) + 2
         /\ pc'[c] = "revFetching" => Stage(c)' = 3 * Cardinality(reg'[c].rts) + 4
         /\ pc'[c] = "revDone"     => Stage(c)' = 3 * Cardinality(reg'[c].rts) + 3
         /\ pc'[c] = "replied"     => Stage(c)' = 1
  BY DEF Stage

\* The attempts left to a call, those of a second message included.
Left(c) == Attempts(c) + IF req[c].kind = "revoke" THEN 2 * RetryCount + 2 ELSE 0

\* The two ways in which a rank falls: within an attempt,
LEMMA FallsWithin ==
  ASSUME NEW w \in Nat, NEW a \in Nat, NEW b \in Nat, b = a, NEW s \in Nat, NEW t \in Nat, t < s
  PROVE  t + w * b < s + w * a
<1>1. w * a \in Nat
  OBVIOUS
<1> QED
  BY <1>1

\* and with an attempt.
LEMMA FallsAcross ==
  ASSUME NEW w \in Nat, NEW a \in Nat, NEW b \in Nat, b < a, NEW s \in Nat, NEW t \in Nat, t < w
  PROVE  t + w * b < s + w * a
<1>1. PICK d \in Nat : a = b + 1 + d
  BY a - b - 1 \in Nat
<1>2. w * a = w * b + w + w * d /\ w * b \in Nat /\ w * d \in Nat
  BY <1>1
<1> QED
  BY <1>2

\* The steps of one attempt leave less of it.
LEMMA StageFalls ==
  ASSUME Typed, Budget, Budget', NEW c \in Calls, Local(c), Step(c), Goes(c),
         pc[c] \notin {"idle", "settled"}, pc'[c] # "settled"
  PROVE  Stage(c) \in Nat /\ Stage(c)' \in Nat /\ Stage(c)' < Stage(c) /\ req'[c] = req[c]
<1> DEFINE k == Cardinality(Keys)
           n == Cardinality(reg[c].rts)
           m == Cardinality(reg'[c].rts)
<1>1. k \in Nat /\ n \in Nat /\ m \in Nat /\ m <= k
  BY FS_CardinalityType DEF Budget
<1>2. /\ pc[c] = "posted" => Stage(c) = 3 * k + 5
      /\ pc[c] = "fetching" => Stage(c) = 3
      /\ pc[c] = "responded" => Stage(c) = 2
      /\ pc[c] = "revoking" => Stage(c) = 3 * n + 2
      /\ pc[c] = "revFetching" => Stage(c) = 3 * n + 4
      /\ pc[c] = "revDone" => Stage(c) = 3 * n + 3
  BY StageNow
<1>3. /\ pc'[c] = "fetching" => Stage(c)' = 3
      /\ pc'[c] = "responded" => Stage(c)' = 2
      /\ pc'[c] = "revoking" => Stage(c)' = 3 * m + 2
      /\ pc'[c] = "revFetching" => Stage(c)' = 3 * m + 4
      /\ pc'[c] = "revDone" => Stage(c)' = 3 * m + 3
      /\ pc'[c] = "replied" => Stage(c)' = 1
  BY StageThen
<1>4. reg'[c] = reg[c] => m = n
  OBVIOUS
<1>5. Picks(c) => m = n - 1
  BY FS_RemoveElement DEF Picks, Budget
<1> HIDE DEF k, n, m
<1>6. CASE Answers(c)
  BY <1>1, <1>2, <1>3, <1>6 DEF Step, Begins, Misses, Fetches, Lists, Clears, Stores, Loses, Finishes,
       Picks, Forgets, Granted, Refused, Revoked, Ends, Repeats, Settles, Reposts, Answers, Routed
<1>7. CASE Fetches(c) \/ Lists(c)
  BY <1>1, <1>2, <1>3, <1>7 DEF Fetches, Lists, Routed
<1>8. CASE Granted(c) \/ Refused(c)
  BY <1>2, <1>3, <1>8 DEF Granted, Refused
<1>9. CASE Picks(c)
  BY <1>1, <1>2, <1>3, <1>5, <1>9 DEF Picks
<1>10. CASE Forgets(c) \/ Revoked(c)
  BY <1>1, <1>2, <1>3, <1>4, <1>10 DEF Forgets, Revoked
<1>11. ~Begins(c) /\ ~Ends(c) /\ ~Repeats(c)
  BY DEF Begins, Ends, Repeats, Settles, Reposts, Goes
<1> QED
  BY <1>6, <1>7, <1>8, <1>9, <1>10, <1>11 DEF Step, Misses, Clears, Stores, Loses, Finishes

\* The attempts left are a natural number before a step and after it.
LEMMA LeftType ==
  ASSUME Typed, Budget, Typed', Budget', NEW c \in Calls
  PROVE  Left(c) \in Nat /\ Left(c) > 0 /\ Left(c)' \in Nat
<1>1. /\ reg[c].tries \in Nat /\ reg[c].tries < RetryCount
      /\ reg'[c].tries \in Nat /\ reg'[c].tries < RetryCount
  BY DEF Typed, AnyReg, Budget
<1>2. /\ Left(c) = (IF reg[c].again THEN 0 ELSE RetryCount + 1) + RetryCount - reg[c].tries
                   + IF req[c].kind = "revoke" THEN 2 * RetryCount + 2 ELSE 0
      /\ Left(c)' = (IF reg'[c].again THEN 0 ELSE RetryCount + 1) + RetryCount - reg'[c].tries
                    + IF req'[c].kind = "revoke" THEN 2 * RetryCount + 2 ELSE 0
  BY DEF Left, Attempts
<1> QED
  BY <1>1, <1>2

\* A step within an attempt keeps them, a repetition takes one away.
LEMMA LeftFalls ==
  ASSUME Typed, Budget, Typed', Budget', NEW c \in Calls
  PROVE  /\ Goes(c) /\ req'[c] = req[c] => Left(c)' = Left(c)
         /\ GoesAgain(c) => Left(c)' < Left(c)
<1>1. /\ reg[c].tries \in Nat /\ reg[c].tries < RetryCount
      /\ reg'[c].tries \in Nat /\ reg'[c].tries < RetryCount
      /\ reg[c].again \in BOOLEAN /\ reg'[c].again \in BOOLEAN
  BY DEF Typed, AnyReg, Budget
<1>2. /\ Left(c) = (IF reg[c].again THEN 0 ELSE RetryCount + 1) + RetryCount - reg[c].tries
                   + IF req[c].kind = "revoke" THEN 2 * RetryCount + 2 ELSE 0
      /\ Left(c)' = (IF reg'[c].again THEN 0 ELSE RetryCount + 1) + RetryCount - reg'[c].tries
                    + IF req'[c].kind = "revoke" THEN 2 * RetryCount + 2 ELSE 0
  BY DEF Left, Attempts
<1>3. Goes(c) /\ req'[c] = req[c] => Left(c)' = Left(c)
  BY <1>2 DEF Goes
<1>4. ASSUME GoesAgain(c) PROVE Left(c)' < Left(c)
  <2>1. CASE ~reg[c].again /\ reg'[c].again /\ reg'[c].tries = 0 /\ req'[c] = req[c]
    BY <1>1, <1>2, <2>1
  <2>2. CASE reg'[c].again = reg[c].again /\ reg'[c].tries = reg[c].tries + 1 /\ req'[c] = req[c]
    BY <1>1, <1>2, <2>2
  <2>3. CASE /\ ~reg'[c].again /\ reg'[c].tries = 0
             /\ req[c].kind = "revoke" /\ req'[c].kind = "clear"
    BY <1>1, <1>2, <2>3
  <2> QED
    BY <1>4, <2>1, <2>2, <2>3 DEF GoesAgain
<1> QED
  BY <1>3, <1>4

\* Every step of a call leaves it less to do.
LEMMA RankFalls ==
  ASSUME Typed, Budget, Typed', Budget', NEW c \in Calls, Local(c), Step(c), Goes(c) \/ GoesAgain(c),
         pc[c] \notin {"idle", "settled"}
  PROVE  Rank(c)' < Rank(c)
<1>1. /\ Rank(c) = Stage(c) + Weight * Left(c)
      /\ Rank(c)' = IF pc'[c] = "settled" THEN 0 ELSE Stage(c)' + Weight * Left(c)'
  BY DEF Rank, Left, Weight
<1>2. Cardinality(Keys) \in Nat /\ Weight = 3 * Cardinality(Keys) + 6 /\ Weight \in Nat /\ Weight > 0
  BY FS_CardinalityType DEF Weight
<1>3. Left(c) \in Nat /\ Left(c) > 0 /\ Left(c)' \in Nat
  BY LeftType
<1>4. CASE GoesAgain(c)
  <2>1. Stage(c)' = 3 * Cardinality(Keys) + 5 /\ Stage(c) = 1 /\ pc'[c] # "settled"
    BY <1>4, StageNow, StageThen DEF GoesAgain
  <2>2. Left(c)' < Left(c)
    BY <1>4, LeftFalls
  <2>3. Stage(c)' \in Nat /\ Stage(c) \in Nat /\ Stage(c)' < Weight
    BY <1>2, <2>1
  <2>4. Stage(c)' + Weight * Left(c)' < Stage(c) + Weight * Left(c)
    BY <1>2, <1>3, <2>2, <2>3, FallsAcross
  <2> QED
    BY <1>1, <2>1, <2>4
<1>5. CASE Goes(c) /\ pc'[c] # "settled"
  <2>1. Stage(c) \in Nat /\ Stage(c)' \in Nat /\ Stage(c)' < Stage(c) /\ req'[c] = req[c]
    BY <1>5, StageFalls
  <2>2. Left(c)' = Left(c)
    BY <1>5, <2>1, LeftFalls
  <2>3. Stage(c)' + Weight * Left(c)' < Stage(c) + Weight * Left(c)
    BY <1>2, <1>3, <2>1, <2>2, FallsWithin
  <2> QED
    BY <1>1, <1>5, <2>3
<1>6. CASE pc'[c] = "settled"
  <2>1. pc[c] = "replied"
    BY <1>6 DEF Step, Begins, Misses, Fetches, Lists, Clears, Stores, Loses, Finishes,
         Picks, Forgets, Granted, Refused, Revoked, Ends, Repeats, Settles, Reposts, Answers, Routed
  <2>2. Stage(c) = 1
    BY <2>1, StageNow
  <2>3. Weight * Left(c) \in Nat
    BY <1>2, <1>3
  <2> QED
    BY <1>1, <1>6, <2>2, <2>3
<1> QED
  BY <1>4, <1>5, <1>6

\* A call on its way to the worker is in its queue once, and no other is in it.
LEMMA QueuedOnce ==
  ASSUME Typed', Queue', Budget', NEW c \in Calls
  PROVE  Queued(c)' = IF pc'[c] = "posted" THEN 1 ELSE 0
<1> DEFINE I == {i \in DOMAIN inbox' : inbox'[i] = c}
<1>1. DOMAIN inbox' = 1 .. Len(inbox') /\ Queued(c)' = Cardinality(I)
  BY DEF Queued, Typed
<1>2. CASE pc'[c] = "posted"
  <2>1. PICK i \in 1 .. Len(inbox') : inbox'[i] = c
    BY <1>2 DEF Budget
  <2>2. I = {i}
    BY <1>1, <2>1 DEF Queue
  <2> HIDE DEF I
  <2> QED
    BY <1>1, <1>2, <2>2, FS_Singleton
<1>3. CASE pc'[c] # "posted"
  <2>1. I = {}
    BY <1>1, <1>3 DEF Queue
  <2> HIDE DEF I
  <2> QED
    BY <1>1, <1>3, <2>1, FS_EmptySet
<1> QED
  BY <1>2, <1>3

\* Every call ends, whatever the server and the network do: no step of getJSON,
\* of its retries or of a worker's handler leaves a call as much to do as it had,
\* and a call that waits for the worker is in its queue (http.ts 160-183,
\* 217-234; token.worker.ts).
THEOREM CallsFinish == Spec => CallsEnd
<1> DEFINE Good == Worker /\ Budget
<1>1. Spec => []Good
  BY WorkerInvariant, BudgetInvariant, PTL
<1>2. ASSUME Good, Good', [Next]_vars, NEW c \in Calls
      PROVE  /\ pc[c] \notin {"idle", "settled"} /\ Moves(c) => Rank(c)' < Rank(c)
             /\ Queued(c)' = IF pc'[c] = "posted" THEN 1 ELSE 0
  <2>1. /\ Typed /\ Budget /\ Local(c)
        /\ Typed' /\ Queue' /\ Budget'
    BY <1>2 DEF Worker
  <2>2. Queued(c)' = IF pc'[c] = "posted" THEN 1 ELSE 0
    BY <2>1, QueuedOnce
  <2>3. ASSUME pc[c] \notin {"idle", "settled"}, Moves(c) PROVE Rank(c)' < Rank(c)
    <3>1. Next
      BY <1>2, <2>3 DEF Moves, vars
    <3>2. PICK d \in Calls : Only(d) /\ Step(d) /\ (Goes(d) \/ GoesAgain(d))
      BY <1>2, <3>1, CountedSteps
    <3>3. d = c
      BY <2>3, <3>2 DEF Moves, Only
    <3> QED
      BY <2>1, <2>3, <3>2, <3>3, RankFalls
  <2> QED
    BY <2>2, <2>3
<1>3. Good /\ Good' /\ [Next]_vars =>
        [\A c \in Calls :
           /\ pc[c] \notin {"idle", "settled"} /\ Moves(c) => Rank(c)' < Rank(c)
           /\ Queued(c)' = IF pc'[c] = "posted" THEN 1 ELSE 0]_vars
  BY <1>2
<1> QED
  BY <1>1, <1>3, PTL DEF Spec, CallsEnd
=============================================================================
