----------------------------- MODULE DpopProofs -----------------------------
(***************************************************************************)
(* For any number of calls, of all tabs and kinds, and any set of nonces:  *)
(* while nobody logs out, the proof of a request is by the key its token   *)
(* or code is bound to, and the one retry for a nonce gets through unless  *)
(* the server changes the nonce.                                           *)
(***************************************************************************)
EXTENDS Dpop, FiniteSetTheorems, TLAPS

\* Control points of a logout, of a call that has found no key pair and makes
\* one, and of a call that has made its proof.
Clearing == {"listNonces", "listKeyPairs", "delete"}

Generating == {"generate", "put"}

Proved == {"sent", "answered"}

Points ==
  Settled \cup {"idle", "getToken", "getNonce", "find", "consent"} \cup Generating \cup Proved \cup Clearing

Request == [kind : TokenKinds \cup FetchKinds \cup {"proof", "logout", "none"}, replayable : BOOLEAN]

Answer == [kind : {"none", "nonce", "fail", "ok"}, new : Nonces \cup {0}, json : BOOLEAN]

Registers ==
  [key : Nat, nonce : Nonces \cup {0}, bound : Nat, again : BOOLEAN, answer : Answer,
   doomed : SUBSET (Servers \cup {"keypair"})]

Typed ==
  /\ keyPair \in Nat /\ token \in Nat /\ made \in Nat
  /\ nonce \in [Servers -> Nonces \cup {0}]
  /\ pc \in [Calls -> Points]
  /\ req \in [Calls -> Request]
  /\ reg \in [Calls -> Registers]
  /\ current \in [Servers -> Nonces]
  /\ rotated \in [Servers -> BOOLEAN]

\* Only a logout deletes; a call that has not begun has no arguments and empty
\* registers.
Shape ==
  \A c \in Calls :
    /\ pc[c] \in Clearing => req[c].kind = "logout"
    /\ pc[c] = "idle" => req[c].kind = "none" /\ reg[c] = NoReg

-----------------------------------------------------------------------------
\* While there is no key pair there is one call at most, and nothing is bound to
\* a key; only then is one generated. From then on there is one key: whatever is
\* bound is bound to it, and whatever is sent is signed with it.
OneKey ==
  /\ token \in {0, keyPair}
  /\ keyPair = 0 => \A c, d \in Calls : Active(c) /\ Active(d) => c = d
  /\ \A c \in Calls :
       /\ pc[c] \in Generating => keyPair = 0
       /\ pc[c] = "put" => reg[c].key # 0
       /\ reg[c].bound \in {0, keyPair}
       /\ pc[c] \in Proved => keyPair # 0 /\ reg[c].key = keyPair

KeyInv == Alone /\ NoLogout => OneKey

-----------------------------------------------------------------------------
\* Control points between the reading of the nonce and the answer, for a call
\* that is at its retry.
Carrying == {"find", "sent"} \cup Generating

\* As long as a server has not changed its nonce, every nonce that is stored or
\* on its way from it is that one. A call that was refused has stored it before
\* its retry, so that the retry carries it and is not refused for it.
NonceKnown ==
  \A c \in Calls :
    ~rotated[ServerOf(c)] =>
      /\ reg[c].answer.new \in {0, current[ServerOf(c)]}
      /\ reg[c].again => nonce[ServerOf(c)] = current[ServerOf(c)]
      /\ reg[c].again /\ pc[c] \in Carrying => reg[c].nonce = current[ServerOf(c)]
      /\ reg[c].again /\ pc[c] = "answered" => reg[c].answer.kind # "nonce"
      /\ pc[c] # "gaveUp"

NonceInv == NoLogout => NonceKnown

IInv == Typed /\ Shape /\ KeyInv /\ NonceInv
-----------------------------------------------------------------------------
\* Nonces are numbers other than the 0 of an empty record, and there are some.
LEMMA NoncesUsable == Nonces \subseteq Nat /\ 0 \notin Nonces /\ Nonces # {}
<1>1. Nonces # {}
  BY FS_EmptySet, ConstantsAssumption DEF ConstantsAssumption
<1> QED
  BY <1>1, ConstantsAssumption DEF ConstantsAssumption

\* Empty registers are registers.
LEMMA NoRegTyped == NoReg \in Registers /\ NoAnswer \in Answer
BY DEF NoReg, NoAnswer, Registers, Answer

\* Before the first call everything is in order: a session has its key.
LEMMA InitIInv == Init => IInv
<1> SUFFICES ASSUME Init PROVE IInv
  OBVIOUS
<1>1. Typed
  BY NoncesUsable, NoRegTyped DEF Init, Typed, Points, Request
<1>2. Shape
  BY DEF Init, Shape, Clearing
<1>3. OneKey
  BY DEF Init, OneKey, Active, Generating, Proved, NoReg
<1>4. NonceKnown
  BY DEF Init, NonceKnown, NoReg, NoAnswer, ServerOf
<1> QED
  BY <1>1, <1>2, <1>3, <1>4 DEF IInv, KeyInv, NonceInv

-----------------------------------------------------------------------------
\* A register with another bound key.
LEMMA SetBound ==
  ASSUME NEW r \in Registers, NEW b \in Nat,
         NEW x, x = [r EXCEPT !.bound = b]
  PROVE  /\ x \in Registers
         /\ x.bound = b
         /\ x.key = r.key /\ x.nonce = r.nonce /\ x.again = r.again /\ x.answer = r.answer /\ x.doomed = r.doomed
BY DEF Registers

\* A register with another key of the proof.
LEMMA SetKey ==
  ASSUME NEW r \in Registers, NEW k \in Nat,
         NEW x, x = [r EXCEPT !.key = k]
  PROVE  /\ x \in Registers
         /\ x.key = k
         /\ x.nonce = r.nonce /\ x.bound = r.bound /\ x.again = r.again /\ x.answer = r.answer /\ x.doomed = r.doomed
BY DEF Registers

\* A register with another nonce.
LEMMA SetNonce ==
  ASSUME NEW r \in Registers, NEW n \in Nonces \cup {0},
         NEW x, x = [r EXCEPT !.nonce = n]
  PROVE  /\ x \in Registers
         /\ x.nonce = n
         /\ x.key = r.key /\ x.bound = r.bound /\ x.again = r.again /\ x.answer = r.answer /\ x.doomed = r.doomed
BY DEF Registers

\* A register with an answer.
LEMMA SetAnswer ==
  ASSUME NEW r \in Registers, NEW a \in Answer,
         NEW x, x = [r EXCEPT !.answer = a]
  PROVE  /\ x \in Registers
         /\ x.answer = a
         /\ x.key = r.key /\ x.nonce = r.nonce /\ x.bound = r.bound /\ x.again = r.again /\ x.doomed = r.doomed
BY DEF Registers

\* A register with other records to delete.
LEMMA SetDoomed ==
  ASSUME NEW r \in Registers, NEW D \in SUBSET (Servers \cup {"keypair"}),
         NEW x, x = [r EXCEPT !.doomed = D]
  PROVE  /\ x \in Registers
         /\ x.doomed = D
         /\ x.key = r.key /\ x.nonce = r.nonce /\ x.bound = r.bound /\ x.again = r.again /\ x.answer = r.answer
BY DEF Registers

-----------------------------------------------------------------------------
(* What the steps that change registers do to those of their call *)

\* A token request begins bound to nothing, or to the key of the refresh token.
LEMMA RequestTokenDoes ==
  ASSUME Typed, NEW c \in Calls, NEW kind \in TokenKinds, RequestToken(c, kind)
  PROVE  \E x \in Registers :
           /\ reg' = [reg EXCEPT ![c] = x]
           /\ x.bound \in {0, token} /\ x.again = reg[c].again /\ x.answer = reg[c].answer
           /\ x.bound # 0 => token # 0
<1> DEFINE b == IF kind = "refresh" THEN token ELSE 0
           x == [reg[c] EXCEPT !.bound = b]
<1>1. reg[c] \in Registers /\ b \in Nat
  BY DEF Typed
<1>2. reg' = [reg EXCEPT ![c] = x]
  BY DEF RequestToken
<1> HIDE DEF x
<1>3. /\ x \in Registers
      /\ x.bound = b /\ x.again = reg[c].again /\ x.answer = reg[c].answer
  BY <1>1, SetBound DEF x
<1> QED
  BY <1>2, <1>3 DEF RequestToken

\* A fetch ends for want of a token or is bound to the token's key.
LEMMA GetAccessTokenDoes ==
  ASSUME Typed, NEW c \in Calls, GetAccessToken(c)
  PROVE  \E x \in Registers :
           /\ reg' = [reg EXCEPT ![c] = x]
           /\ \/ pc' = [pc EXCEPT ![c] = "error"] /\ x = NoReg
              \/ /\ pc' = [pc EXCEPT ![c] = "getNonce"]
                 /\ x.bound = token /\ x.again = reg[c].again /\ x.answer = reg[c].answer
<1>1. CASE token = 0
  BY <1>1, NoRegTyped DEF GetAccessToken, Settle, Goto
<1>2. CASE token # 0
  <2> DEFINE x == [reg[c] EXCEPT !.bound = token]
  <2>1. reg[c] \in Registers /\ token \in Nat
    BY DEF Typed
  <2>2. reg' = [reg EXCEPT ![c] = x] /\ pc' = [pc EXCEPT ![c] = "getNonce"]
    BY <1>2 DEF GetAccessToken, Goto
  <2> HIDE DEF x
  <2>3. x \in Registers /\ x.bound = token /\ x.again = reg[c].again /\ x.answer = reg[c].answer
    BY <2>1, SetBound DEF x
  <2> QED
    BY <2>2, <2>3
<1> QED
  BY <1>1, <1>2

\* The nonce that will go into the proof is the stored one.
LEMMA FindNonceDoes ==
  ASSUME Typed, NEW c \in Calls, FindNonce(c)
  PROVE  \E x \in Registers :
           /\ reg' = [reg EXCEPT ![c] = x]
           /\ x.nonce = nonce[ServerOf(c)] /\ x.bound = reg[c].bound
           /\ x.again = reg[c].again /\ x.answer = reg[c].answer
<1> DEFINE n == nonce[ServerOf(c)]
           x == [reg[c] EXCEPT !.nonce = n]
<1>1. reg[c] \in Registers /\ n \in Nonces \cup {0}
  BY DEF Typed, ServerOf, Servers
<1>2. reg' = [reg EXCEPT ![c] = x]
  BY DEF FindNonce
<1> HIDE DEF x
<1>3. /\ x \in Registers
      /\ x.nonce = n /\ x.bound = reg[c].bound /\ x.again = reg[c].again /\ x.answer = reg[c].answer
  BY <1>1, SetNonce DEF x
<1> QED
  BY <1>2, <1>3

\* With a key pair a proof for the application is done, a code is bound to the
\* key, and any other request is signed with it and sent.
LEMMA WithKeyDoes ==
  ASSUME Typed, NEW c \in Calls, NEW k \in Nat, WithKey(c, k)
  PROVE  \E x \in Registers :
           /\ reg' = [reg EXCEPT ![c] = x]
           /\ \/ pc' = [pc EXCEPT ![c] = "ok"] /\ x = NoReg
              \/ /\ pc' = [pc EXCEPT ![c] = "consent"] /\ x.bound = k
                 /\ x.again = reg[c].again /\ x.answer = reg[c].answer
              \/ /\ pc' = [pc EXCEPT ![c] = "sent"] /\ x.key = k /\ x.bound = reg[c].bound
                 /\ x.nonce = reg[c].nonce /\ x.again = reg[c].again /\ x.answer = reg[c].answer
<1>1. CASE req[c].kind = "proof"
  BY <1>1, NoRegTyped DEF WithKey, Settle, Goto
<1>2. CASE req[c].kind # "proof"
  <2> DEFINE thumbprint == req[c].kind = "login" /\ reg[c].bound = 0
             p == IF thumbprint THEN 0 ELSE k
             b == IF thumbprint THEN k ELSE reg[c].bound
             x == [reg[c] EXCEPT !.key = p, !.bound = b]
  <2>1. reg[c] \in Registers /\ reg[c].bound \in Nat /\ p \in Nat /\ b \in Nat
    BY DEF Typed, Registers
  <2>2. reg' = [reg EXCEPT ![c] = x]
    BY <1>2 DEF WithKey
  <2>3. pc' = [pc EXCEPT ![c] = IF thumbprint THEN "consent" ELSE "sent"]
    BY <1>2 DEF WithKey, Goto
  <2> HIDE DEF p, b, x
  <2>4. /\ x \in Registers /\ x.key = p /\ x.bound = b
        /\ x.nonce = reg[c].nonce /\ x.again = reg[c].again /\ x.answer = reg[c].answer
    BY <2>1 DEF x, Registers
  <2>5. CASE thumbprint
    BY <2>2, <2>3, <2>4, <2>5 DEF b
  <2>6. CASE ~thumbprint
    BY <2>2, <2>3, <2>4, <2>6 DEF p, b
  <2> QED
    BY <2>5, <2>6
<1> QED
  BY <1>1, <1>2

\* A new key pair is in the call's hands before it is stored.
LEMMA GenerateKeyPairDoes ==
  ASSUME Typed, NEW c \in Calls, GenerateKeyPair(c)
  PROVE  \E x \in Registers :
           /\ reg' = [reg EXCEPT ![c] = x]
           /\ x.key # 0 /\ x.bound = reg[c].bound
           /\ x.nonce = reg[c].nonce /\ x.again = reg[c].again /\ x.answer = reg[c].answer
<1> DEFINE k == made + 1
           x == [reg[c] EXCEPT !.key = k]
<1>1. reg[c] \in Registers /\ k \in Nat /\ k # 0
  BY DEF Typed
<1>2. reg' = [reg EXCEPT ![c] = x]
  BY DEF GenerateKeyPair
<1> HIDE DEF k, x
<1>3. /\ x \in Registers /\ x.key = k /\ x.bound = reg[c].bound
      /\ x.nonce = reg[c].nonce /\ x.again = reg[c].again /\ x.answer = reg[c].answer
  BY <1>1, SetKey DEF x
<1> QED
  BY <1>1, <1>2, <1>3

\* A proof with the server's nonce is not refused for its nonce; an answer brings
\* no nonce or the server's.
LEMMA AnswersDoes ==
  ASSUME Typed, NEW c \in Calls, NEW new \in {0} \cup Nonces, NEW json \in BOOLEAN, Answers(c, new, json)
  PROVE  \E x \in Registers :
           /\ reg' = [reg EXCEPT ![c] = x]
           /\ x.key = reg[c].key /\ x.bound = reg[c].bound
           /\ x.nonce = reg[c].nonce /\ x.again = reg[c].again
           /\ x.answer.new \in {0, current[ServerOf(c)]}
           /\ reg[c].nonce = current[ServerOf(c)] => x.answer.kind # "nonce"
<1> DEFINE s == ServerOf(c)
           why == IF reg[c].nonce # current[s] THEN "nonce"
                  ELSE IF reg[c].bound \notin {0, reg[c].key} THEN "fail" ELSE "ok"
           a == [kind |-> why, new |-> new, json |-> json]
           x == [reg[c] EXCEPT !.answer = a]
<1>1. reg[c] \in Registers
  BY DEF Typed
<1>2. a \in Answer
  BY DEF Answer
<1>3. new \in {0, current[s]} /\ reg' = [reg EXCEPT ![c] = x]
  BY DEF Answers
<1>4. a.new = new /\ (reg[c].nonce = current[s] => a.kind # "nonce")
  OBVIOUS
<1> HIDE DEF a, x
<1>5. /\ x \in Registers /\ x.answer = a
      /\ x.key = reg[c].key /\ x.bound = reg[c].bound
      /\ x.nonce = reg[c].nonce /\ x.again = reg[c].again
  BY <1>1, <1>2, SetAnswer DEF x
<1> QED
  BY <1>3, <1>4, <1>5

\* A retry begins with empty registers, but for the key a code or a refresh token
\* is bound to; a request that cannot be built again ends.
LEMMA RetryDoes ==
  ASSUME Typed, NEW c \in Calls, Retry(c)
  PROVE  \E x \in Registers, l \in {"notReplayable", "getToken", "getNonce"} :
           /\ reg' = [reg EXCEPT ![c] = x] /\ pc' = [pc EXCEPT ![c] = l]
           /\ x.bound \in {0, reg[c].bound} /\ x.answer = NoAnswer
           /\ x.again => l # "notReplayable"
<1>1. CASE ~req[c].replayable
  <2>1. reg' = [reg EXCEPT ![c] = NoReg] /\ pc' = [pc EXCEPT ![c] = "notReplayable"]
    BY <1>1 DEF Retry, Settle, Goto
  <2>2. NoReg.bound = 0 /\ NoReg.answer = NoAnswer /\ ~NoReg.again
    BY DEF NoReg
  <2> QED
    BY <2>1, <2>2, NoRegTyped
<1>2. CASE req[c].replayable
  <2> DEFINE fetching == req[c].kind \in FetchKinds
             b == IF fetching THEN 0 ELSE reg[c].bound
             x == [NoReg EXCEPT !.again = TRUE, !.bound = b]
             l == IF fetching THEN "getToken" ELSE "getNonce"
  <2>1. b \in Nat
    BY DEF Typed, Registers
  <2>2. reg' = [reg EXCEPT ![c] = x] /\ pc' = [pc EXCEPT ![c] = l]
    BY <1>2 DEF Retry, Goto
  <2>3. b \in {0, reg[c].bound} /\ l \in {"getToken", "getNonce"}
    OBVIOUS
  <2> HIDE DEF b, x, l
  <2>4. x \in Registers /\ x.bound = b /\ x.answer = NoAnswer
    BY <2>1, NoRegTyped DEF x, NoReg, Registers
  <2> QED
    BY <2>2, <2>3, <2>4
<1> QED
  BY <1>1, <1>2

\* The steps of a logout leave all registers but its list of records alone.
LEMMA ClearingDoes ==
  ASSUME Typed, NEW c \in Calls, ListNonces(c) \/ ListKeyPairs(c) \/ DeleteRecord(c)
  PROVE  \E x \in Registers : reg' = [reg EXCEPT ![c] = x]
<1>1. PICK D \in SUBSET (Servers \cup {"keypair"}) : reg' = [reg EXCEPT ![c] = [reg[c] EXCEPT !.doomed = D]]
  <2>1. reg[c] \in Registers /\ reg[c].doomed \subseteq Servers \cup {"keypair"}
    BY DEF Typed, Registers
  <2>2. CASE ListNonces(c)
    BY <2>2 DEF ListNonces
  <2>3. CASE ListKeyPairs(c)
    BY <2>1, <2>3 DEF ListKeyPairs
  <2>4. CASE DeleteRecord(c)
    BY <2>1, <2>4 DEF DeleteRecord
  <2> QED
    BY <2>2, <2>3, <2>4
<1> DEFINE x == [reg[c] EXCEPT !.doomed = D]
<1>2. x \in Registers
  BY SetDoomed DEF Typed
<1> QED
  BY <1>1, <1>2

-----------------------------------------------------------------------------
\* The types are kept by every step.
LEMMA TypedNext == Typed /\ [Next]_vars => Typed'
<1> SUFFICES ASSUME Typed, [Next]_vars PROVE Typed'
  OBVIOUS
<1> USE DEF Typed
<1>0. CASE UNCHANGED vars
  BY <1>0 DEF vars, db, servers
<1>1. ASSUME NEW c \in Calls, NEW kind \in TokenKinds, RequestToken(c, kind) PROVE Typed'
  <2>1. reg' \in [Calls -> Registers]
    BY <1>1, RequestTokenDoes
  <2> QED
    BY <1>1, <2>1 DEF RequestToken, Start, Goto, Points, Request, db, servers
<1>2. ASSUME NEW c \in Calls, NEW kind \in FetchKinds, NEW r \in BOOLEAN, FetchWithAuth(c, kind, r) PROVE Typed'
  BY <1>2 DEF FetchWithAuth, Start, Goto, Points, Request, db, servers
<1>3. ASSUME NEW c \in Calls, GenerateDpopProof(c) PROVE Typed'
  BY <1>3 DEF GenerateDpopProof, Start, Goto, Points, Request, db, servers
<1>4. ASSUME NEW c \in Calls, Logout(c) PROVE Typed'
  BY <1>4 DEF Logout, Start, Goto, Points, Clearing, Request, db, servers
<1>5. ASSUME NEW c \in Calls, GetAccessToken(c) PROVE Typed'
  <2>1. reg' \in [Calls -> Registers]
    BY <1>5, GetAccessTokenDoes
  <2> QED
    BY <1>5, <2>1 DEF GetAccessToken, Settle, Goto, Points, Settled, db, servers
<1>6. ASSUME NEW c \in Calls, FindNonce(c) PROVE Typed'
  <2>1. reg' \in [Calls -> Registers]
    BY <1>6, FindNonceDoes
  <2> QED
    BY <1>6, <2>1 DEF FindNonce, Goto, Points, db, servers
<1>7. ASSUME NEW c \in Calls, FindKeyPair(c) PROVE Typed'
  <2>1. CASE keyPair # 0
    <3>1. WithKey(c, keyPair)
      BY <1>7, <2>1 DEF FindKeyPair
    <3>2. reg' \in [Calls -> Registers] /\ pc' \in [Calls -> Points]
      BY <3>1, WithKeyDoes DEF Points, Proved, Settled
    <3> QED
      BY <1>7, <3>2 DEF FindKeyPair, db, servers
  <2>2. CASE keyPair = 0
    BY <1>7, <2>2 DEF FindKeyPair, Goto, Points, Generating, db, servers
  <2> QED
    BY <2>1, <2>2
<1>8. ASSUME NEW c \in Calls, GenerateKeyPair(c) PROVE Typed'
  <2>1. reg' \in [Calls -> Registers]
    BY <1>8, GenerateKeyPairDoes
  <2> QED
    BY <1>8, <2>1 DEF GenerateKeyPair, Goto, Points, Generating, db, servers
<1>9. ASSUME NEW c \in Calls, SetKeyPair(c) PROVE Typed'
  <2>1. reg[c].key \in Nat /\ WithKey(c, reg[c].key)
    BY <1>9 DEF SetKeyPair, Registers
  <2>2. reg' \in [Calls -> Registers] /\ pc' \in [Calls -> Points]
    BY <2>1, WithKeyDoes DEF Points, Proved, Settled
  <2> QED
    BY <1>9, <2>1, <2>2 DEF SetKeyPair, servers
<1>10. ASSUME NEW c \in Calls, HandleResponse(c) PROVE Typed'
  <2>1. nonce' \in [Servers -> Nonces \cup {0}]
    BY <1>10 DEF HandleResponse, StoreNonce, Registers, Answer
  <2>2. reg' \in [Calls -> Registers] /\ pc' \in [Calls -> Points]
    <3>1. CASE Retry(c)
      BY <3>1, RetryDoes DEF Points, Settled
    <3>2. ASSUME NEW l \in Settled, Settle(c, l) PROVE reg' \in [Calls -> Registers] /\ pc' \in [Calls -> Points]
      BY <3>2, NoRegTyped DEF Settle, Goto, Points
    <3>3. Retry(c) \/ \E l \in Settled : Settle(c, l)
      BY <1>10 DEF HandleResponse, Outcome, Settled
    <3> QED
      BY <3>1, <3>2, <3>3
  <2>3. token' \in Nat
    BY <1>10 DEF HandleResponse, Registers
  <2> QED
    BY <1>10, <2>1, <2>2, <2>3 DEF HandleResponse, servers
<1>11. ASSUME NEW c \in Calls, ListNonces(c) PROVE Typed'
  <2>1. reg' \in [Calls -> Registers]
    BY <1>11, ClearingDoes
  <2> QED
    BY <1>11, <2>1 DEF ListNonces, Goto, Points, Clearing, db, servers
<1>12. ASSUME NEW c \in Calls, ListKeyPairs(c) PROVE Typed'
  <2>1. reg' \in [Calls -> Registers]
    BY <1>12, ClearingDoes
  <2> QED
    BY <1>12, <2>1 DEF ListKeyPairs, Goto, Points, Clearing, db, servers
<1>13. ASSUME NEW c \in Calls, DeleteRecord(c) PROVE Typed'
  <2>1. reg' \in [Calls -> Registers]
    BY <1>13, ClearingDoes
  <2> QED
    BY <1>13, <2>1 DEF DeleteRecord, db, servers
<1>14. ASSUME NEW c \in Calls, Cleared(c) PROVE Typed'
  BY <1>14 DEF Cleared, Goto, Points, Settled, db, servers
<1>15. ASSUME NEW c \in Calls, NEW new \in {0} \cup Nonces, NEW json \in BOOLEAN, Answers(c, new, json) PROVE Typed'
  <2>1. reg' \in [Calls -> Registers]
    BY <1>15, AnswersDoes
  <2> QED
    BY <1>15, <2>1 DEF Answers, Goto, Points, Proved, db, servers
<1>16. ASSUME NEW c \in Calls, FetchFails(c) PROVE Typed'
  BY <1>16, NoRegTyped DEF FetchFails, Settle, Goto, Points, Settled, db, servers
<1>17. ASSUME NEW c \in Calls, Consent(c) PROVE Typed'
  BY <1>17 DEF Consent, Goto, Points, db, servers
<1>18. ASSUME NEW s \in Servers, RotateNonce(s) PROVE Typed'
  BY <1>18 DEF RotateNonce, db, servers
<1> QED
  BY <1>0, <1>1, <1>2, <1>3, <1>4, <1>5, <1>6, <1>7, <1>8, <1>9, <1>10, <1>11, <1>12, <1>13, <1>14, <1>15, <1>16, <1>17, <1>18
     DEF Next, Invoke, Step, Respond

\* Logouts stay what they are, and so do calls that have not begun.
LEMMA ShapeNext == Typed /\ Shape /\ [Next]_vars => Shape'
<1> SUFFICES ASSUME Typed, Shape, [Next]_vars PROVE Shape'
  OBVIOUS
<1> USE DEF Typed, Shape, Clearing
<1>0. CASE UNCHANGED vars
  BY <1>0 DEF vars, db, servers
<1>1. ASSUME NEW c \in Calls, NEW kind \in TokenKinds, RequestToken(c, kind) PROVE Shape'
  BY <1>1, RequestTokenDoes DEF RequestToken, Start, Goto, Request, db, servers
<1>2. ASSUME NEW c \in Calls, NEW kind \in FetchKinds, NEW r \in BOOLEAN, FetchWithAuth(c, kind, r) PROVE Shape'
  BY <1>2 DEF FetchWithAuth, Start, Goto, Request, db, servers
<1>3. ASSUME NEW c \in Calls, GenerateDpopProof(c) PROVE Shape'
  BY <1>3 DEF GenerateDpopProof, Start, Goto, Request, db, servers
<1>4. ASSUME NEW c \in Calls, Logout(c) PROVE Shape'
  BY <1>4 DEF Logout, Start, Goto, Request, db, servers
<1>5. ASSUME NEW c \in Calls, GetAccessToken(c) PROVE Shape'
  BY <1>5, GetAccessTokenDoes DEF GetAccessToken, db, servers
<1>6. ASSUME NEW c \in Calls, FindNonce(c) PROVE Shape'
  BY <1>6, FindNonceDoes DEF FindNonce, Goto, db, servers
<1>7. ASSUME NEW c \in Calls, FindKeyPair(c) PROVE Shape'
  <2>1. CASE keyPair # 0
    <3>1. WithKey(c, keyPair) /\ req' = req
      BY <1>7, <2>1 DEF FindKeyPair
    <3> QED
      BY <3>1, WithKeyDoes
  <2>2. CASE keyPair = 0
    BY <1>7, <2>2 DEF FindKeyPair, Goto, db, servers
  <2> QED
    BY <2>1, <2>2
<1>8. ASSUME NEW c \in Calls, GenerateKeyPair(c) PROVE Shape'
  BY <1>8, GenerateKeyPairDoes DEF GenerateKeyPair, Goto, db, servers
<1>9. ASSUME NEW c \in Calls, SetKeyPair(c) PROVE Shape'
  <2>1. reg[c].key \in Nat /\ WithKey(c, reg[c].key) /\ req' = req
    BY <1>9 DEF SetKeyPair, Registers
  <2> QED
    BY <2>1, WithKeyDoes
<1>10. ASSUME NEW c \in Calls, HandleResponse(c) PROVE Shape'
  <2>1. pc[c] = "answered" /\ req' = req
    BY <1>10 DEF HandleResponse
  <2>2. CASE Retry(c)
    BY <2>1, <2>2, RetryDoes
  <2>3. ASSUME NEW l \in Settled, Settle(c, l) PROVE Shape'
    BY <2>1, <2>3 DEF Settle, Goto, Settled
  <2>4. Retry(c) \/ \E l \in Settled : Settle(c, l)
    BY <1>10 DEF HandleResponse, Outcome, Settled
  <2> QED
    BY <2>2, <2>3, <2>4
<1>11. ASSUME NEW c \in Calls, ListNonces(c) PROVE Shape'
  BY <1>11, ClearingDoes DEF ListNonces, Goto, db, servers
<1>12. ASSUME NEW c \in Calls, ListKeyPairs(c) PROVE Shape'
  BY <1>12, ClearingDoes DEF ListKeyPairs, Goto, db, servers
<1>13. ASSUME NEW c \in Calls, DeleteRecord(c) PROVE Shape'
  BY <1>13, ClearingDoes DEF DeleteRecord, db, servers
<1>14. ASSUME NEW c \in Calls, Cleared(c) PROVE Shape'
  BY <1>14 DEF Cleared, Goto, db, servers
<1>15. ASSUME NEW c \in Calls, NEW new \in {0} \cup Nonces, NEW json \in BOOLEAN, Answers(c, new, json) PROVE Shape'
  BY <1>15, AnswersDoes DEF Answers, Goto, db, servers
<1>16. ASSUME NEW c \in Calls, FetchFails(c) PROVE Shape'
  BY <1>16 DEF FetchFails, Settle, Goto, db, servers
<1>17. ASSUME NEW c \in Calls, Consent(c) PROVE Shape'
  BY <1>17 DEF Consent, Goto, db, servers
<1>18. ASSUME NEW s \in Servers, RotateNonce(s) PROVE Shape'
  BY <1>18 DEF RotateNonce, db, servers
<1> QED
  BY <1>0, <1>1, <1>2, <1>3, <1>4, <1>5, <1>6, <1>7, <1>8, <1>9, <1>10, <1>11, <1>12, <1>13, <1>14, <1>15, <1>16, <1>17, <1>18
     DEF Next, Invoke, Step, Respond

\* A call that is a logout has been one since it began.
LEMMA NoLogoutBefore == Typed /\ Shape /\ [Next]_vars /\ NoLogout' => NoLogout
<1> SUFFICES ASSUME Typed, Shape, [Next]_vars, NoLogout', NEW c \in Calls PROVE req[c].kind # "logout"
  BY DEF NoLogout
<1> DEFINE Begun == \E d \in Calls, q \in Request : pc[d] = "idle" /\ req' = [req EXCEPT ![d] = q]
<1>1. ASSUME NEW d \in Calls, Invoke(d) PROVE Begun
  <2>1. PICK kind \in TokenKinds \cup FetchKinds \cup {"proof", "logout"}, r \in BOOLEAN,
             l \in {"find", "getNonce", "getToken", "listNonces"} : Start(d, kind, r, l)
    BY <1>1 DEF Invoke, RequestToken, FetchWithAuth, GenerateDpopProof, Logout
  <2>2. [kind |-> kind, replayable |-> r] \in Request
    BY DEF Request
  <2> QED
    BY <2>1, <2>2 DEF Start
<1>2. ASSUME NEW d \in Calls, Step(d) PROVE req' = req
  BY <1>2 DEF Step, GetAccessToken, FindNonce, FindKeyPair, GenerateKeyPair, SetKeyPair, HandleResponse,
       ListNonces, ListKeyPairs, DeleteRecord, Cleared
<1>3. ASSUME NEW d \in Calls, Respond(d) \/ Consent(d) PROVE req' = req
  BY <1>3 DEF Respond, Answers, FetchFails, Consent
<1>4. ASSUME NEW s \in Servers, RotateNonce(s) PROVE req' = req
  BY <1>4 DEF RotateNonce
<1>5. req' = req \/ Begun
  BY <1>1, <1>2, <1>3, <1>4 DEF Next, vars
<1> QED
  BY <1>5 DEF NoLogout, Typed, Shape

\* The one key stays the one key while nobody logs out.
LEMMA KeyNext == Alone /\ NoLogout /\ NoLogout' /\ Typed /\ Shape /\ OneKey /\ [Next]_vars => OneKey'
<1> SUFFICES ASSUME Alone, NoLogout, NoLogout', Typed, Shape, OneKey, [Next]_vars PROVE OneKey'
  OBVIOUS
<1> USE DEF Typed, OneKey, Active, Settled, Generating, Proved, NoReg
<1>0. CASE UNCHANGED vars
  BY <1>0 DEF vars, db, servers
<1>1. ASSUME NEW c \in Calls, NEW kind \in TokenKinds, RequestToken(c, kind) PROVE OneKey'
  BY <1>1, RequestTokenDoes DEF RequestToken, Start, Goto, db, servers
<1>2. ASSUME NEW c \in Calls, NEW kind \in FetchKinds, NEW r \in BOOLEAN, FetchWithAuth(c, kind, r) PROVE OneKey'
  BY <1>2 DEF FetchWithAuth, Start, Goto, db, servers
<1>3. ASSUME NEW c \in Calls, GenerateDpopProof(c) PROVE OneKey'
  BY <1>3 DEF GenerateDpopProof, Start, Goto, db, servers
<1>4. ASSUME NEW c \in Calls, Logout(c) PROVE OneKey'
  BY <1>4 DEF Logout, Start, NoLogout, Typed
<1>5. ASSUME NEW c \in Calls, GetAccessToken(c) PROVE OneKey'
  BY <1>5, GetAccessTokenDoes DEF GetAccessToken, db, servers
<1>6. ASSUME NEW c \in Calls, FindNonce(c) PROVE OneKey'
  BY <1>6, FindNonceDoes DEF FindNonce, Goto, db, servers
<1>7. ASSUME NEW c \in Calls, FindKeyPair(c) PROVE OneKey'
  <2>1. CASE keyPair # 0
    <3>1. WithKey(c, keyPair) /\ UNCHANGED <<db, req>> /\ pc[c] = "find"
      BY <1>7, <2>1 DEF FindKeyPair
    <3> QED
      BY <2>1, <3>1, WithKeyDoes DEF db
  <2>2. CASE keyPair = 0
    BY <1>7, <2>2 DEF FindKeyPair, Goto, db, servers
  <2> QED
    BY <2>1, <2>2
<1>8. ASSUME NEW c \in Calls, GenerateKeyPair(c) PROVE OneKey'
  BY <1>8, GenerateKeyPairDoes DEF GenerateKeyPair, Goto, db, servers
<1>9. ASSUME NEW c \in Calls, SetKeyPair(c) PROVE OneKey'
  <2>1. /\ pc[c] = "put" /\ reg[c].key \in Nat /\ WithKey(c, reg[c].key)
        /\ keyPair' = reg[c].key /\ UNCHANGED <<token, req>>
    BY <1>9 DEF SetKeyPair, Registers
  <2>2. keyPair = 0 /\ keyPair' # 0 /\ token = 0
    BY <2>1
  <2>3. \A d \in Calls : d # c => ~Active(d)
    BY <2>1, <2>2
  <2> QED
    BY <2>1, <2>2, <2>3, WithKeyDoes
<1>10. ASSUME NEW c \in Calls, HandleResponse(c) PROVE OneKey'
  <2>1. pc[c] = "answered" /\ UNCHANGED <<keyPair, req>>
    BY <1>10 DEF HandleResponse
  <2>2. keyPair # 0 /\ reg[c].key = keyPair
    BY <2>1
  <2>3. token' \in {0, keyPair'}
    BY <1>10, <2>1, <2>2 DEF HandleResponse
  <2>4. CASE Retry(c)
    BY <2>1, <2>2, <2>3, <2>4, RetryDoes
  <2>5. ASSUME NEW l \in Settled, Settle(c, l) PROVE OneKey'
    BY <2>1, <2>2, <2>3, <2>5 DEF Settle, Goto, Settled
  <2>6. Retry(c) \/ \E l \in Settled : Settle(c, l)
    BY <1>10 DEF HandleResponse, Outcome, Settled
  <2> QED
    BY <2>4, <2>5, <2>6
<1>11. ASSUME NEW c \in Calls, ListNonces(c) PROVE OneKey'
  BY <1>11 DEF ListNonces, NoLogout, Shape, Clearing
<1>12. ASSUME NEW c \in Calls, ListKeyPairs(c) PROVE OneKey'
  BY <1>12 DEF ListKeyPairs, NoLogout, Shape, Clearing
<1>13. ASSUME NEW c \in Calls, DeleteRecord(c) PROVE OneKey'
  BY <1>13 DEF DeleteRecord, NoLogout, Shape, Clearing
<1>14. ASSUME NEW c \in Calls, Cleared(c) PROVE OneKey'
  BY <1>14 DEF Cleared, NoLogout, Shape, Clearing
<1>15. ASSUME NEW c \in Calls, NEW new \in {0} \cup Nonces, NEW json \in BOOLEAN, Answers(c, new, json) PROVE OneKey'
  BY <1>15, AnswersDoes DEF Answers, Goto, db, servers
<1>16. ASSUME NEW c \in Calls, FetchFails(c) PROVE OneKey'
  BY <1>16 DEF FetchFails, Settle, Goto, db, servers
<1>17. ASSUME NEW c \in Calls, Consent(c) PROVE OneKey'
  BY <1>17 DEF Consent, Goto, db, servers
<1>18. ASSUME NEW s \in Servers, RotateNonce(s) PROVE OneKey'
  BY <1>18 DEF RotateNonce, db, servers
<1> QED
  BY <1>0, <1>1, <1>2, <1>3, <1>4, <1>5, <1>6, <1>7, <1>8, <1>9, <1>10, <1>11, <1>12, <1>13, <1>14, <1>15, <1>16, <1>17, <1>18
     DEF Next, Invoke, Step, Respond

\* While nobody logs out, a server that has not changed its nonce gets it back.
LEMMA NonceNext == NoLogout /\ NoLogout' /\ Typed /\ Shape /\ NonceKnown /\ [Next]_vars => NonceKnown'
<1> SUFFICES ASSUME NoLogout, NoLogout', Typed, Shape, NonceKnown, [Next]_vars PROVE NonceKnown'
  OBVIOUS
<1> USE DEF Typed, NonceKnown, ServerOf, Servers, Generating, Carrying, NoReg, NoAnswer
<1>0. CASE UNCHANGED vars
  BY <1>0 DEF vars, db, servers
<1>1. ASSUME NEW c \in Calls, NEW kind \in TokenKinds, RequestToken(c, kind) PROVE NonceKnown'
  BY <1>1, RequestTokenDoes DEF RequestToken, Start, Goto, Shape, NoReg, db, servers
<1>2. ASSUME NEW c \in Calls, NEW kind \in FetchKinds, NEW r \in BOOLEAN, FetchWithAuth(c, kind, r) PROVE NonceKnown'
  BY <1>2 DEF FetchWithAuth, Start, Goto, Shape, NoReg, db, servers
<1>3. ASSUME NEW c \in Calls, GenerateDpopProof(c) PROVE NonceKnown'
  BY <1>3 DEF GenerateDpopProof, Start, Goto, Shape, NoReg, db, servers
<1>4. ASSUME NEW c \in Calls, Logout(c) PROVE NonceKnown'
  BY <1>4 DEF Logout, Start, NoLogout, Typed
<1>5. ASSUME NEW c \in Calls, GetAccessToken(c) PROVE NonceKnown'
  BY <1>5, GetAccessTokenDoes DEF GetAccessToken, db, servers
<1>6. ASSUME NEW c \in Calls, FindNonce(c) PROVE NonceKnown'
  BY <1>6, FindNonceDoes DEF FindNonce, Goto, db, servers
<1>7. ASSUME NEW c \in Calls, FindKeyPair(c) PROVE NonceKnown'
  <2>1. CASE keyPair # 0
    <3>1. WithKey(c, keyPair) /\ UNCHANGED <<nonce, req, current, rotated>> /\ pc[c] = "find"
      BY <1>7, <2>1 DEF FindKeyPair, db, servers
    <3> QED
      BY <3>1, WithKeyDoes
  <2>2. CASE keyPair = 0
    BY <1>7, <2>2 DEF FindKeyPair, Goto, db, servers
  <2> QED
    BY <2>1, <2>2
<1>8. ASSUME NEW c \in Calls, GenerateKeyPair(c) PROVE NonceKnown'
  BY <1>8, GenerateKeyPairDoes DEF GenerateKeyPair, Goto, db, servers
<1>9. ASSUME NEW c \in Calls, SetKeyPair(c) PROVE NonceKnown'
  <2>1. /\ pc[c] = "put" /\ reg[c].key \in Nat /\ WithKey(c, reg[c].key)
        /\ UNCHANGED <<nonce, req, current, rotated>>
    BY <1>9 DEF SetKeyPair, Registers, servers
  <2> QED
    BY <2>1, WithKeyDoes
<1>10. ASSUME NEW c \in Calls, HandleResponse(c) PROVE NonceKnown'
  <2> DEFINE s == ServerOf(c)
  <2>1. /\ pc[c] = "answered" /\ UNCHANGED <<req, current, rotated>>
        /\ nonce' = IF reg[c].answer.new = 0 THEN nonce ELSE [nonce EXCEPT ![s] = reg[c].answer.new]
    BY <1>10 DEF HandleResponse, StoreNonce, servers
  <2>2. ASSUME NEW d \in Calls, ~rotated[ServerOf(d)], nonce[ServerOf(d)] = current[ServerOf(d)]
        PROVE  nonce'[ServerOf(d)] = current[ServerOf(d)]
    BY <2>1, <2>2
  <2>3. CASE reg[c].answer.kind = "nonce" /\ RetryAllowed(c)
    <3>1. Retry(c)
      BY <1>10, <2>3 DEF HandleResponse
    <3>2. ~rotated[s] => nonce'[s] = current[s]
      BY <2>1, <2>3 DEF RetryAllowed
    <3> QED
      BY <2>1, <2>2, <3>1, <3>2, RetryDoes
  <2>4. CASE reg[c].answer.kind = "nonce" /\ ~RetryAllowed(c)
    <3>1. PICK l \in {"noNonce", "gaveUp"} : Settle(c, l) /\ (l = "gaveUp" => reg[c].answer.new # 0)
      BY <1>10, <2>4 DEF HandleResponse
    <3>2. l = "gaveUp" => rotated[s]
      BY <2>1, <2>4, <3>1 DEF RetryAllowed
    <3> QED
      BY <2>1, <2>2, <3>1, <3>2 DEF Settle, Goto
  <2>5. CASE reg[c].answer.kind # "nonce"
    <3>1. PICK l \in {"ok", "error"} : Settle(c, l)
      BY <1>10, <2>5 DEF HandleResponse, Outcome
    <3> QED
      BY <2>1, <2>2, <3>1 DEF Settle, Goto
  <2> QED
    BY <2>3, <2>4, <2>5
<1>11. ASSUME NEW c \in Calls, ListNonces(c) PROVE NonceKnown'
  BY <1>11 DEF ListNonces, NoLogout, Shape, Clearing
<1>12. ASSUME NEW c \in Calls, ListKeyPairs(c) PROVE NonceKnown'
  BY <1>12 DEF ListKeyPairs, NoLogout, Shape, Clearing
<1>13. ASSUME NEW c \in Calls, DeleteRecord(c) PROVE NonceKnown'
  BY <1>13 DEF DeleteRecord, NoLogout, Shape, Clearing
<1>14. ASSUME NEW c \in Calls, Cleared(c) PROVE NonceKnown'
  BY <1>14 DEF Cleared, NoLogout, Shape, Clearing
<1>15. ASSUME NEW c \in Calls, NEW new \in {0} \cup Nonces, NEW json \in BOOLEAN, Answers(c, new, json) PROVE NonceKnown'
  BY <1>15, AnswersDoes DEF Answers, Goto, db, servers
<1>16. ASSUME NEW c \in Calls, FetchFails(c) PROVE NonceKnown'
  BY <1>16 DEF FetchFails, Settle, Goto, db, servers
<1>17. ASSUME NEW c \in Calls, Consent(c) PROVE NonceKnown'
  BY <1>17 DEF Consent, Goto, db, servers
<1>18. ASSUME NEW s \in Servers, RotateNonce(s) PROVE NonceKnown'
  BY <1>18 DEF RotateNonce, db, servers
<1> QED
  BY <1>0, <1>1, <1>2, <1>3, <1>4, <1>5, <1>6, <1>7, <1>8, <1>9, <1>10, <1>11, <1>12, <1>13, <1>14, <1>15, <1>16, <1>17, <1>18
     DEF Next, Invoke, Step, Respond

-----------------------------------------------------------------------------
\* The invariant holds in every reachable state.
LEMMA Invariance == Spec => []IInv
<1>1. IInv /\ [Next]_vars => IInv'
  <2> SUFFICES ASSUME IInv, [Next]_vars PROVE IInv'
    OBVIOUS
  <2>1. Typed' /\ Shape'
    BY TypedNext, ShapeNext DEF IInv
  <2>2. NoLogout' => NoLogout
    BY NoLogoutBefore DEF IInv
  <2>3. KeyInv'
    BY <2>2, KeyNext DEF IInv, KeyInv
  <2>4. NonceInv'
    BY <2>2, NonceNext DEF IInv, NonceInv
  <2> QED
    BY <2>1, <2>3, <2>4 DEF IInv
<1> QED
  BY <1>1, InitIInv, PTL DEF Spec

\* While nobody logs out, and if the call that makes the first key pair is alone
\* at it, every proof is by the key the token, the code or the refresh token is
\* bound to (dpop.ts 19-28), for any number of calls in any number of tabs.
THEOREM ProofsFit == Spec => []ProofFits
<1>1. IInv => ProofFits
  BY DEF IInv, KeyInv, OneKey, ProofFits, Proved
<1> QED
  BY <1>1, Invariance, PTL

\* While nobody logs out, a call gives up on the nonce only if its server has
\* changed it (fetcher.ts 230-251, http.ts 217-223), whatever answers to other
\* calls are stored between a refusal and its retry.
THEOREM RetriesGetThrough == Spec => []RetryGetsThrough
<1>1. IInv => RetryGetsThrough
  BY DEF IInv, NonceInv, NonceKnown, RetryGetsThrough
<1> QED
  BY <1>1, Invariance, PTL
=============================================================================
