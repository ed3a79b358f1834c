------------------------------- MODULE Dpop -------------------------------
(***************************************************************************)
(* DPoP: the key pair and the nonces in IndexedDB (dpop/dpop.ts,           *)
(* dpop/storage.ts), the token requests that carry a proof (getJSON of     *)
(* http.ts), the fetcher for API requests (fetcher.ts) with the My Account *)
(* client on top of it, and the clean-up at logout. The calls of all tabs  *)
(* of one client share the database, and every database request is an      *)
(* await: each is a step of its own.                                       *)
(***************************************************************************)
EXTENDS Naturals, FiniteSets

CONSTANTS
  Calls,      \* invocations by the application
  Kinds,      \* kinds of invocation in use
  Nonces,     \* nonces of a server, numbers above 0; it uses them in turn
  Alone       \* is the call that needs the first key pair made on its own

\* What a call sends a request for. "login" is an authorization code flow,
\* which binds the code to the key's thumbprint; "refresh" is bound to the key
\* of the refresh token; "grant" is any other request to the token endpoint.
TokenKinds == {"login", "refresh", "grant"}

\* My Account operations that read the body of every answer, and the one that
\* reads it only to find out what went wrong.
MyAccountKinds == {"myAccount", "deleteAuthenticationMethod"}

FetchKinds == {"fetch"} \cup MyAccountKinds

ASSUME ConstantsAssumption ==
  /\ Kinds \subseteq TokenKinds \cup FetchKinds \cup {"proof", "logout"}
  /\ Nonces \subseteq Nat \ {0} /\ IsFiniteSet(Nonces) /\ Cardinality(Nonces) > 1
  /\ Alone \in BOOLEAN

Servers == {"auth0", "api"}

VARIABLES
  \* IndexedDB, and the access token in the cache
  keyPair,    \* key pair of the client, 0 = none
  nonce,      \* nonce under the id of each server, 0 = none
  token,      \* key pair the cached token is bound to, 0 = no token
  \* page
  pc, req,    \* control point and arguments of each call
  reg,        \* its local variables
  made,       \* key pairs generated so far
  \* servers (external)
  current,    \* the nonce each server accepts
  rotated     \* has it ever changed

db == <<keyPair, nonce, token>>
servers == <<current, rotated>>
vars == <<db, pc, req, reg, made, servers>>

NoAnswer == [kind |-> "none", new |-> 0, json |-> FALSE]

\* The key and the nonce of the proof, the key the code or the access token is
\* bound to, is this the retry, the answer, and the records still to delete.
NoReg == [key |-> 0, nonce |-> 0, bound |-> 0, again |-> FALSE, answer |-> NoAnswer, doomed |-> {}]

\* A page that is opened for the first time, or again in a session.
Init ==
  /\ made \in {0, 1} /\ keyPair = made /\ token = made
  /\ nonce = [s \in Servers |-> 0]
  /\ pc = [c \in Calls |-> "idle"]
  /\ req = [c \in Calls |-> [kind |-> "none", replayable |-> TRUE]]
  /\ reg = [c \in Calls |-> NoReg]
  /\ current = [s \in Servers |-> CHOOSE n \in Nonces : TRUE]
  /\ rotated = [s \in Servers |-> FALSE]

Goto(c, l) == pc' = [pc EXCEPT ![c] = l]

ServerOf(c) == IF req[c].kind \in FetchKinds THEN "api" ELSE "auth0"

Settled == {"ok", "error", "gaveUp", "noNonce", "notReplayable"}

Active(c) == pc[c] \notin Settled \cup {"idle"}

Settle(c, outcome) == Goto(c, outcome) /\ reg' = [reg EXCEPT ![c] = NoReg]

-----------------------------------------------------------------------------
(* A call starts *)

\* "replayable": can the request be built a second time, which a body that is
\* a stream, or inside a Request object, cannot.
Start(c, kind, replayable, l) ==
  /\ pc[c] = "idle" /\ kind \in Kinds
  /\ Alone /\ keyPair = 0 => \A d \in Calls : ~Active(d)
  /\ req' = [req EXCEPT ![c] = [kind |-> kind, replayable |-> replayable]]
  /\ Goto(c, l)

\* _prepareAuthorizeUrl asks for the thumbprint; the other token requests
\* begin in getJSON, which reads the nonce first.
RequestToken(c, kind) ==
  /\ kind = "refresh" => token # 0
  /\ Start(c, kind, TRUE, IF kind = "login" THEN "find" ELSE "getNonce")
  /\ reg' = [reg EXCEPT ![c].bound = IF kind = "refresh" THEN token ELSE 0]
  /\ UNCHANGED <<db, made, servers>>

FetchWithAuth(c, kind, replayable) ==
  /\ kind \in MyAccountKinds => replayable
  /\ Start(c, kind, replayable, "getToken")
  /\ UNCHANGED <<db, reg, made, servers>>

\* generateDpopProof, for an application that makes its own requests.
GenerateDpopProof(c) ==
  /\ Start(c, "proof", TRUE, "find")
  /\ UNCHANGED <<db, reg, made, servers>>

\* _clearLocalSession: the cache first, the DPoP tables at the end.
Logout(c) ==
  /\ Start(c, "logout", TRUE, "listNonces")
  /\ token' = 0
  /\ UNCHANGED <<keyPair, nonce, reg, made, servers>>

-----------------------------------------------------------------------------
(* Preparing a request *)

\* prepareRequest: getTokenSilently, then the two headers.
GetAccessToken(c) ==
  /\ pc[c] = "getToken"
  /\ IF token = 0 THEN Settle(c, "error")
     ELSE Goto(c, "getNonce") /\ reg' = [reg EXCEPT ![c].bound = token]
  /\ UNCHANGED <<db, req, made, servers>>

FindNonce(c) ==
  /\ pc[c] = "getNonce"
  /\ reg' = [reg EXCEPT ![c].nonce = nonce[ServerOf(c)]]
  /\ Goto(c, "find")
  /\ UNCHANGED <<db, req, made, servers>>

\* What follows getOrGenerateKeyPair: the thumbprint goes to /authorize with
\* the user, a proof made for the application is returned, others are sent.
WithKey(c, k) ==
  LET thumbprint == req[c].kind = "login" /\ reg[c].bound = 0
  IN IF req[c].kind = "proof" THEN Settle(c, "ok")
     ELSE /\ reg' = [reg EXCEPT ![c].key = IF thumbprint THEN 0 ELSE k,
                                ![c].bound = IF thumbprint THEN k ELSE @]
          /\ Goto(c, IF thumbprint THEN "consent" ELSE "sent")

FindKeyPair(c) ==
  /\ pc[c] = "find"
  /\ IF keyPair # 0 THEN WithKey(c, keyPair) ELSE Goto(c, "generate") /\ UNCHANGED reg
  /\ UNCHANGED <<db, req, made, servers>>

GenerateKeyPair(c) ==
  /\ pc[c] = "generate"
  /\ made' = made + 1
  /\ reg' = [reg EXCEPT ![c].key = made + 1]
  /\ Goto(c, "put")
  /\ UNCHANGED <<db, req, servers>>

\* The key pair is used and not stored.
SetKeyPairForgets(c) ==
  /\ pc[c] = "put"
  /\ WithKey(c, reg[c].key)
  /\ UNCHANGED <<db, req, made, servers>>

SetKeyPair(c) ==
  /\ pc[c] = "put"
  /\ keyPair' = reg[c].key
  /\ WithKey(c, reg[c].key)
  /\ UNCHANGED <<nonce, token, req, made, servers>>

-----------------------------------------------------------------------------
(* The servers, the network and the user (external) *)

\* The user comes back with the code.
Consent(c) ==
  /\ pc[c] = "consent"
  /\ Goto(c, "getNonce")
  /\ UNCHANGED <<db, req, reg, made, servers>>

RotateNonce(s) ==
  /\ \E n \in Nonces \ {current[s]} : current' = [current EXCEPT ![s] = n]
  /\ rotated' = [rotated EXCEPT ![s] = TRUE]
  /\ UNCHANGED <<db, pc, req, reg, made>>

\* A proof without the current nonce is refused, and so is one by another key
\* than the one the code, the refresh token or the access token is bound to.
\* Any answer may bring the current nonce.
Answers(c, new, json) ==
  LET s == ServerOf(c)
      why == IF reg[c].nonce # current[s] THEN "nonce"
             ELSE IF reg[c].bound \notin {0, reg[c].key} THEN "fail" ELSE "ok"
  IN /\ pc[c] = "sent"
     /\ new \in {0, current[s]}
     /\ json => req[c].kind \in MyAccountKinds
     /\ reg' = [reg EXCEPT ![c].answer = [kind |-> why, new |-> new, json |-> json]]
     /\ Goto(c, "answered")
     /\ UNCHANGED <<db, req, made, servers>>

\* fetch rejects; the repetitions of getJSON carry the same proof.
FetchFails(c) ==
  /\ pc[c] = "sent"
  /\ Settle(c, "error")
  /\ UNCHANGED <<db, req, made, servers>>

-----------------------------------------------------------------------------
(* Handling the answer *)

\* The answer is a refusal for want of the nonce, and may be repeated.
RetryAllowedAlways(c) == reg[c].answer.new # 0

RetryAllowed(c) == reg[c].answer.new # 0 /\ ~reg[c].again

\* fetchWithAuth builds the request again from its arguments; getJSON repeats
\* itself with the same body.
Retry(c) ==
  IF ~req[c].replayable THEN Settle(c, "notReplayable")
  ELSE LET fetching == req[c].kind \in FetchKinds
       IN /\ Goto(c, IF fetching THEN "getToken" ELSE "getNonce")
          /\ reg' = [reg EXCEPT ![c] = [NoReg EXCEPT !.again = TRUE,
                                    !.bound = IF fetching THEN 0 ELSE reg[c].bound]]

\* _handleResponse of the My Account client: the body is read and parsed,
\* except that of a successful deletion.
BodyFits(c) ==
  \/ reg[c].answer.json
  \/ req[c].kind = "deleteAuthenticationMethod" /\ reg[c].answer.kind = "ok"

\* The fetcher hands any answer over; getJSON and the My Account client turn
\* failures into errors.
Outcome(c) ==
  IF \/ req[c].kind = "fetch"
     \/ reg[c].answer.kind = "ok" /\ (req[c].kind \in MyAccountKinds => BodyFits(c))
  THEN "ok" ELSE "error"

\* The retry is prepared with the nonce that was there before.
StoreNonceNever(c) == UNCHANGED nonce

StoreNonce(c) ==
  nonce' = IF reg[c].answer.new = 0 THEN nonce
           ELSE [nonce EXCEPT ![ServerOf(c)] = reg[c].answer.new]

\* handleResponse and the end of getJSON: the nonce of any answer is stored
\* before anything else; _requestToken then caches the token.
HandleResponse(c) ==
  /\ pc[c] = "answered"
  /\ StoreNonce(c)
  /\ \/ /\ reg[c].answer.kind = "nonce" /\ RetryAllowed(c)
        /\ Retry(c) /\ UNCHANGED token
     \/ /\ reg[c].answer.kind = "nonce" /\ ~RetryAllowed(c)
        /\ Settle(c, IF reg[c].answer.new = 0 THEN "noNonce" ELSE "gaveUp")
        /\ UNCHANGED token
     \/ /\ reg[c].answer.kind # "nonce"
        /\ Settle(c, Outcome(c))
        /\ token' = IF req[c].kind \in TokenKinds /\ Outcome(c) = "ok"
                    THEN reg[c].key ELSE token
  /\ UNCHANGED <<keyPair, req, made, servers>>

-----------------------------------------------------------------------------
(* Dpop.clear: both tables list their keys, then delete them one by one *)

ListNonces(c) ==
  /\ pc[c] = "listNonces"
  /\ reg' = [reg EXCEPT ![c].doomed = {s \in Servers : nonce[s] # 0}]
  /\ Goto(c, "listKeyPairs")
  /\ UNCHANGED <<db, req, made, servers>>

ListKeyPairs(c) ==
  /\ pc[c] = "listKeyPairs"
  /\ reg' = [reg EXCEPT ![c].doomed = @ \cup {k \in {"keypair"} : keyPair # 0}]
  /\ Goto(c, "delete")
  /\ UNCHANGED <<db, req, made, servers>>

DeleteRecord(c) ==
  /\ pc[c] = "delete" /\ reg[c].doomed # {}
  /\ \E r \in reg[c].doomed :
       /\ nonce' = [s \in Servers |-> IF s = r THEN 0 ELSE nonce[s]]
       /\ keyPair' = IF r = "keypair" THEN 0 ELSE keyPair
       /\ reg' = [reg EXCEPT ![c].doomed = @ \ {r}]
  /\ UNCHANGED <<token, pc, req, made, servers>>

Cleared(c) ==
  /\ pc[c] = "delete" /\ reg[c].doomed = {}
  /\ Goto(c, "ok")
  /\ UNCHANGED <<db, req, reg, made, servers>>

-----------------------------------------------------------------------------
Invoke(c) ==
  \/ \E kind \in TokenKinds : RequestToken(c, kind)
  \/ \E kind \in FetchKinds, r \in BOOLEAN : FetchWithAuth(c, kind, r)
  \/ GenerateDpopProof(c) \/ Logout(c)

Step(c) ==
  \/ GetAccessToken(c) \/ FindNonce(c)
  \/ FindKeyPair(c) \/ GenerateKeyPair(c) \/ SetKeyPair(c)
  \/ HandleResponse(c)
  \/ ListNonces(c) \/ ListKeyPairs(c) \/ DeleteRecord(c) \/ Cleared(c)

Respond(c) ==
  (\E new \in {0} \cup Nonces, json \in BOOLEAN : Answers(c, new, json)) \/ FetchFails(c)

Next ==
  \/ \E c \in Calls : Invoke(c) \/ Step(c) \/ Respond(c) \/ Consent(c)
  \/ \E s \in Servers : RotateNonce(s)

Spec == Init /\ [][Next]_vars

\* Database requests complete and promise chains run; a request is answered or
\* fails. The user need not come back.
FairSpec == Spec /\ \A c \in Calls : WF_vars(Step(c)) /\ WF_vars(Respond(c))

-----------------------------------------------------------------------------
(* Properties *)

NoLogout == \A c \in Calls : req[c].kind # "logout"

\* While nobody logs out, every request to an API carries a proof by the very
\* key its access token is bound to, over any number of logins, grants and
\* retries; and no token request is refused for its key (dpop.ts 19-28).
ProofFits ==
  Alone /\ NoLogout =>
    \A c \in Calls : pc[c] = "sent" => reg[c].bound \in {0, reg[c].key}

\* A call gives up on the nonce only if the server sent none or has changed it:
\* otherwise the one retry carries the nonce of the refusal, whatever answers
\* to other calls stored meanwhile (fetcher.ts 230-251, http.ts 217-223).
RetryGetsThrough ==
  NoLogout => \A c \in Calls :
    pc[c] = "gaveUp" => rotated[ServerOf(c)]

\* Every call ends, also against a server that changes its nonce all the time.
EveryCallSettles ==
  \A c \in Calls : Active(c) /\ pc[c] # "consent" ~> ~Active(c) \/ pc[c] = "consent"
=============================================================================
