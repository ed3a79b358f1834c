-------------------------- MODULE AnonymousProofs --------------------------
(***************************************************************************)
(* For any number of calls, slots and identities: tokens in the slots are  *)
(* of the stored session, an expired session stops all renewals, and of    *)
(* the identities renewals start only one reaches the page. All three rest *)
(* on the lock, which is held by the one renewal between its request and   *)
(* its answer, or the loss of it.                                          *)
(***************************************************************************)
EXTENDS Anonymous, TLAPS

Points == {"idle", "lockWait", "sent", "answered", "refused", "settled"}

Typed ==
  /\ session \in Nat /\ expired \in BOOLEAN /\ issued \in Nat
  /\ slots \in [Slots -> [id : Nat, fresh : BOOLEAN]]
  /\ pc \in [Calls -> Points]
  /\ req \in [Calls -> [kind : Kinds \cup {"none"}, slot : Slots]]
  /\ sent \in [Calls -> Nat]

Begun ==
  \A c \in Calls :
    /\ pc[c] = "idle" => req[c].kind = "none"
    /\ pc[c] = "refused" => Renewal(c)
    /\ pc[c] = "answered" => Renewal(c) \/ req[c].kind \in {"createSession", "logout"}

\* A renewal between its request and what it does with the answer.
Flying(c) == Renewal(c) /\ pc[c] \in {"sent", "answered", "refused"}

LockHeld == \A c \in Calls : Flying(c) => lock = c

\* The session the renewal was sent for is still the stored one, or gone.
SameSession == ~mixed => \A c \in Calls : Flying(c) => session \in {0, sent[c]}

\* The identities that were started and whose answer was not lost.
Known == 1 .. issued \ lost

\* Such an identity is stored, about to be stored, or marked as expired; a
\* renewal sent without a session token finds none.
Accounted ==
  /\ ~mixed /\ lost \subseteq 1 .. issued
  /\ session <= issued /\ session \notin lost
  /\ \A c \in Calls : Flying(c) => sent[c] <= issued /\ sent[c] \notin lost
  /\ \A i, j \in Known : i = j
  /\ \A i \in Known : session = i \/ expired \/ \E c \in Calls : Flying(c) /\ pc[c] = "answered" /\ sent[c] = i
  /\ \A c \in Calls : Flying(c) /\ pc[c] = "sent" /\ sent[c] = 0 => Known = {}

RenewalsOnly == ~Used("createSession") /\ ~Used("logout")

Named == \A c \in Calls : Flying(c) /\ pc[c] = "answered" => sent[c] # 0

Kept == ExpiredStops /\ SameSession /\ SharedIdentity

Sole == RenewalsOnly => Accounted

AnonymousInv == Typed /\ Begun /\ LockHeld /\ Named /\ Kept /\ Sole

-----------------------------------------------------------------------------
\* Nothing but the calls themselves decides which methods were used.
LEMMA UsedKept ==
  ASSUME Typed, Begun, NEW c \in Calls, NEW r \in [kind : Kinds, slot : Slots], pc[c] = "idle",
         req' = [req EXCEPT ![c] = r]
  PROVE  RenewalsOnly' => RenewalsOnly
<1> SUFFICES ASSUME RenewalsOnly', NEW d \in Calls
             PROVE  req[d].kind \notin {"createSession", "logout"}
  BY DEF RenewalsOnly, Used
<1>1. req'[d].kind \notin {"createSession", "logout"}
  BY DEF RenewalsOnly, Used
<1>2. CASE d = c
  BY <1>2 DEF Begun
<1>3. CASE d # c
  BY <1>1, <1>3 DEF Typed
<1> QED
  BY <1>2, <1>3

\* A step that starts no renewal's request and touches neither the session nor
\* the tokens keeps everything.
LEMMA Untouched ==
  ASSUME AnonymousInv, Typed', Begun', RenewalsOnly' => RenewalsOnly,
         UNCHANGED <<session, expired, issued, history>>,
         \A k \in Slots : slots'[k].id = slots[k].id,
         \A d \in Calls : Flying(d)' => Flying(d) /\ pc'[d] = pc[d] /\ sent'[d] = sent[d] /\ lock' = lock,
         \A d \in Calls : Flying(d) /\ pc[d] = "answered" => Flying(d)' /\ pc'[d] = "answered"
  PROVE  AnonymousInv'
<1>1. LockHeld' /\ Named'
  BY DEF AnonymousInv, LockHeld, Named
<1>2. ExpiredStops'
  BY DEF AnonymousInv, Kept, ExpiredStops, Flying, Typed, Points, Renewal
<1>3. SameSession' /\ SharedIdentity'
  BY DEF AnonymousInv, Kept, SameSession, SharedIdentity, history
<1>4. Sole'
  BY DEF AnonymousInv, Sole, Accounted, Known, history
<1> QED
  BY <1>1, <1>2, <1>3, <1>4 DEF AnonymousInv, Kept

\* The methods: only "lockWait" is the way to a renewal.
LEMMA InvokeInv == ASSUME AnonymousInv, NEW c \in Calls, Invoke(c) PROVE AnonymousInv'
<1> USE DEF AnonymousInv, history
<1>1. PICK kind \in Kinds, k \in Slots :
        /\ Start(c, kind, k)
        /\ pc' \in {[pc EXCEPT ![c] = l] : l \in {"settled", "lockWait", "sent"}}
        /\ pc'[c] = "sent" => kind \notin {"getTokenSilently", "checkSession"}
        /\ sent' \in {sent, [sent EXCEPT ![c] = session]}
        /\ UNCHANGED <<storage, lock, server, history>>
  BY ConstantsAssumption DEF Invoke, CreateSession, GetTokenSilently, MaybeCreateAnonymousSession,
     ApplyAnonTransferToken, Logout, Goto, Start, Kinds, Typed
<1>2. req' = [req EXCEPT ![c] = [kind |-> kind, slot |-> k]] /\ pc[c] = "idle"
  BY <1>1 DEF Start
<1>3. Typed' /\ Begun'
  BY <1>1, <1>2 DEF Typed, Begun, Renewal, Points, storage, server
<1>4. RenewalsOnly' => RenewalsOnly
  BY <1>2, UsedKept
<1>5. \A d \in Calls : d # c => pc'[d] = pc[d] /\ req'[d] = req[d] /\ sent'[d] = sent[d]
  BY <1>1, <1>2 DEF Typed
<1>6. ~Flying(c) /\ ~Flying(c)'
  BY <1>1, <1>2 DEF Typed, Flying, Renewal, Points
<1>7. \A d \in Calls : Flying(d)' => Flying(d) /\ pc'[d] = pc[d] /\ sent'[d] = sent[d] /\ lock' = lock
  BY <1>1, <1>5, <1>6 DEF Flying, Renewal
<1>8. \A d \in Calls : Flying(d) /\ pc[d] = "answered" => Flying(d)' /\ pc'[d] = "answered"
  BY <1>5, <1>6 DEF Flying, Renewal
<1> QED
  BY <1>1, <1>3, <1>4, <1>7, <1>8, Untouched DEF storage, server

\* A call that waits, or that is refused for good, ends without a trace.
LEMMA QuietStep ==
  ASSUME AnonymousInv, NEW c \in Calls, NEW l \in {"settled", "answered"},
         pc[c] \in {"lockWait", "sent", "refused"}, pc' = [pc EXCEPT ![c] = l],
         l = "answered" => req[c].kind = "logout",
         lock' \in {lock, IF lock = c THEN NoCall ELSE lock},
         UNCHANGED <<storage, req, sent, issued, history>>
  PROVE  AnonymousInv'
<1> USE DEF AnonymousInv, storage, history
<1>1. Typed' /\ Begun'
  BY DEF Typed, Begun, Renewal, Points
<1>2. RenewalsOnly' => RenewalsOnly
  BY DEF RenewalsOnly, Used
<1>3. \A d \in Calls : d # c => pc'[d] = pc[d]
  BY DEF Typed
<1>4. ~Flying(c)' /\ pc[c] # "answered"
  BY DEF Typed, Flying, Renewal
<1>5. \A d \in Calls : Flying(d)' => Flying(d) /\ pc'[d] = pc[d] /\ sent'[d] = sent[d] /\ lock' = lock
  BY <1>3, <1>4 DEF Flying, Renewal, LockHeld
<1>6. \A d \in Calls : Flying(d) /\ pc[d] = "answered" => Flying(d)' /\ pc'[d] = "answered"
  BY <1>3, <1>4 DEF Flying, Renewal
<1> QED
  BY <1>1, <1>2, <1>5, <1>6, Untouched

\* A renewal that times out keeps the invariant.
LEMMA LockTimeoutInv == ASSUME AnonymousInv, NEW c \in Calls, LockTimeout(c) PROVE AnonymousInv'
  BY QuietStep DEF LockTimeout, Settle, Goto, server, history

\* An answer that is lost takes its identity with it, unless that is stored.
LEMMA AnswerLostInv ==
  ASSUME AnonymousInv, NEW c \in Calls, RequestFails(c), pc[c] = "answered" PROVE AnonymousInv'
<1> USE DEF AnonymousInv
<1>1. /\ pc' = [pc EXCEPT ![c] = "settled"] /\ lock' = (IF lock = c THEN NoCall ELSE lock)
      /\ lost' = lost \cup ({sent[c]} \ {0, session})
      /\ UNCHANGED <<storage, req, sent, server, mixed>>
  BY DEF RequestFails, Settle, Goto
<1>2. Typed' /\ Begun'
  BY <1>1 DEF Typed, Begun, Renewal, Points, storage, server
<1>3. pc'[c] = "settled" /\ \A d \in Calls : d # c => pc'[d] = pc[d]
  BY <1>1 DEF Typed
<1>4. \A d \in Calls : Flying(d)' => Flying(d) /\ d # c
  BY <1>1, <1>3 DEF Flying, Renewal
<1>5. LockHeld' /\ Named'
  BY <1>1, <1>3, <1>4 DEF LockHeld, Named
<1>6. ExpiredStops'
  BY <1>1, <1>3 DEF Kept, ExpiredStops, Renewal, storage
<1>7. SameSession' /\ SharedIdentity'
  BY <1>1, <1>4 DEF Kept, SameSession, SharedIdentity, storage
<1>8. Sole'
  <2> SUFFICES ASSUME RenewalsOnly' PROVE Accounted'
    BY DEF Sole
  <2>1. RenewalsOnly /\ Accounted
    BY <1>1 DEF Sole, RenewalsOnly, Used
  <2>2. Flying(c) /\ sent[c] \in 1 .. issued
    BY <2>1 DEF Begun, RenewalsOnly, Used, Flying, Named, Accounted, Typed
  <2>3. \A d \in Calls : ~Flying(d)'
    BY <1>4, <2>2 DEF LockHeld
  <2>4. \A d \in Calls : Flying(d) => d = c
    BY <2>2 DEF LockHeld
  <2>5. sent[c] \in Known
    BY <2>1, <2>2 DEF Accounted, Known
  <2>6. \A i \in Known' : i = sent[c] /\ session = i
    BY <1>1, <2>1, <2>2, <2>5 DEF Accounted, Known, server
  <2> QED
    BY <1>1, <2>1, <2>2, <2>3, <2>6 DEF Accounted, storage, server
<1> QED
  BY <1>2, <1>5, <1>6, <1>7, <1>8 DEF Kept

\* A request that fails keeps it.
LEMMA RequestFailsInv == ASSUME AnonymousInv, NEW c \in Calls, RequestFails(c) PROVE AnonymousInv'
<1>1. CASE pc[c] = "answered"
  BY <1>1, AnswerLostInv
<1>2. CASE pc[c] # "answered"
  BY <1>2, QuietStep DEF RequestFails, Settle, Goto, server, history
<1> QED
  BY <1>1, <1>2

\* A transfer token keeps it.
LEMMA TicketMintedInv == ASSUME AnonymousInv, NEW c \in Calls, TicketMinted(c) PROVE AnonymousInv'
  BY QuietStep DEF TicketMinted, Settle, Goto, server

\* A logout keeps it.
LEMMA LogsOutInv == ASSUME AnonymousInv, NEW c \in Calls, LogsOut(c) PROVE AnonymousInv'
  BY QuietStep DEF LogsOut, Goto

\* Time and the end of sessions at the server change no identity.
LEMMA TimeInv ==
  ASSUME AnonymousInv, SessionEnds \/ \E k \in Slots : TokenExpires(k) PROVE AnonymousInv'
<1> USE DEF AnonymousInv, history
<1>1. /\ UNCHANGED <<session, expired, lock, pc, req, sent, issued, history>>
      /\ slots' = slots \/ \E k \in Slots : slots' = [slots EXCEPT ![k].fresh = FALSE]
  BY DEF SessionEnds, TokenExpires, storage, server
<1>2. Typed' /\ Begun' /\ \A k \in Slots : slots'[k].id = slots[k].id
  <2>1. CASE slots' = slots
    BY <1>1, <2>1 DEF Typed, Begun, Renewal
  <2>2. ASSUME NEW k \in Slots, slots' = [slots EXCEPT ![k].fresh = FALSE]
        PROVE  Typed' /\ Begun' /\ \A j \in Slots : slots'[j].id = slots[j].id
    <3> DEFINE token == [slots[k] EXCEPT !.fresh = FALSE]
    <3>1. slots' = [slots EXCEPT ![k] = token]
      BY <2>2
    <3>2. token \in [id : Nat, fresh : BOOLEAN] /\ token.id = slots[k].id
      BY DEF Typed
    <3> HIDE DEF token
    <3>3. slots' \in [Slots -> [id : Nat, fresh : BOOLEAN]] /\ \A j \in Slots : slots'[j].id = slots[j].id
      BY <3>1, <3>2 DEF Typed
    <3> QED
      BY <1>1, <3>3 DEF Typed, Begun, Renewal
  <2> QED
    BY <1>1, <2>1, <2>2
<1>3. RenewalsOnly' => RenewalsOnly
  BY <1>1 DEF RenewalsOnly, Used
<1>4. \A d \in Calls : Flying(d)' <=> Flying(d)
  BY <1>1 DEF Flying, Renewal
<1> QED
  BY <1>1, <1>2, <1>3, <1>4, Untouched

-----------------------------------------------------------------------------
\* A call that enters the lock is the only renewal in flight, and no identity
\* was started if it finds no session.
LEMMA EnterLockInv == ASSUME AnonymousInv, NEW c \in Calls, EnterLock(c) PROVE AnonymousInv'
<1> USE DEF AnonymousInv, history
<1>1. CASE expired \/ slots[req[c].slot].fresh
  BY <1>1, QuietStep DEF EnterLock, Goto, server
<1>2. CASE ~(expired \/ slots[req[c].slot].fresh)
  <2>1. /\ pc' = [pc EXCEPT ![c] = "sent"] /\ lock' = c /\ sent' = [sent EXCEPT ![c] = session]
        /\ UNCHANGED <<storage, req, server, history>> /\ ~expired
    BY <1>2 DEF EnterLock, Goto
  <2>2. \A d \in Calls : ~Flying(d)
    BY ConstantsAssumption DEF EnterLock, LockHeld
  <2>3. Typed' /\ Begun'
    BY <2>1 DEF Typed, Begun, Renewal, Points, storage, server
  <2>4. \A d \in Calls : Flying(d)' => d = c
    BY <2>1, <2>2 DEF Flying, Renewal, Typed
  <2>5. pc'[c] = "sent" /\ sent'[c] = session
    BY <2>1 DEF Typed
  <2>6. LockHeld' /\ Named'
    BY <2>1, <2>4, <2>5 DEF LockHeld, Named
  <2>7. Kept'
    BY <2>1, <2>4, <2>5 DEF Kept, ExpiredStops, SameSession, SharedIdentity, storage
  <2>8. Sole'
    <3> SUFFICES ASSUME RenewalsOnly' PROVE Accounted'
      BY DEF Sole
    <3>1. Accounted
      BY <2>1 DEF Sole, RenewalsOnly, Used
    <3>2. Known' = Known /\ \A i \in Known : i # 0 /\ session = i
      BY <2>1, <2>2, <3>1 DEF Accounted, Known, server
    <3> QED
      BY <2>1, <2>4, <2>5, <3>1, <3>2 DEF Accounted, storage, server
  <2> QED
    BY <2>3, <2>6, <2>7, <2>8
<1> QED
  BY <1>1, <1>2

-----------------------------------------------------------------------------
(* The answers *)

\* An identity is started by createSession, or by the first renewal.
LEMMA MintsInv == ASSUME AnonymousInv, NEW c \in Calls, Mints(c) PROVE AnonymousInv'
<1> USE DEF AnonymousInv, history
<1>1. /\ pc' = [pc EXCEPT ![c] = "answered"] /\ sent' = [sent EXCEPT ![c] = issued + 1]
      /\ issued' = issued + 1 /\ UNCHANGED <<storage, lock, req, history>>
      /\ pc[c] = "sent" /\ (req[c].kind = "createSession" \/ (Renewal(c) /\ sent[c] = 0))
  BY DEF Mints, Goto
<1>2. Typed' /\ Begun'
  BY <1>1 DEF Typed, Begun, Renewal, Points, storage
<1>3. pc'[c] = "answered" /\ sent'[c] = issued + 1 /\ sent'[c] # 0
  BY <1>1 DEF Typed
<1>4. \A d \in Calls : d # c => pc'[d] = pc[d] /\ sent'[d] = sent[d]
  BY <1>1 DEF Typed
<1>5. \A d \in Calls : Flying(d)' <=> Flying(d)
  BY <1>1, <1>3, <1>4 DEF Flying, Renewal
<1>6. LockHeld' /\ Named'
  BY <1>1, <1>3, <1>4, <1>5 DEF LockHeld, Named
<1>7. ExpiredStops'
  BY <1>1, <1>4 DEF Kept, ExpiredStops, Renewal, storage
<1>8. SameSession' /\ SharedIdentity'
  BY <1>1, <1>4, <1>5 DEF Kept, SameSession, SharedIdentity, Flying, Renewal, storage
<1>9. Sole'
  <2> SUFFICES ASSUME RenewalsOnly' PROVE Accounted'
    BY DEF Sole
  <2>1. RenewalsOnly /\ Accounted /\ Renewal(c) /\ sent[c] = 0
    BY <1>1 DEF Sole, RenewalsOnly, Used
  <2>2. Flying(c) /\ Known = {}
    BY <1>1, <2>1 DEF Flying, Accounted
  <2>3. \A d \in Calls : Flying(d) => d = c
    BY <2>2 DEF LockHeld
  <2>4. issued \in Nat /\ session \in Nat /\ lost' = lost /\ lost \subseteq 1 .. issued /\ session <= issued
    BY <1>1, <2>1 DEF Accounted, Typed
  <2>5. issued + 1 \notin lost /\ lost \subseteq 1 .. issued' /\ session <= issued'
    BY <1>1, <2>4
  <2>6. \A i \in 1 .. issued' : i \in 1 .. issued \/ i = issued + 1
    BY <1>1, <2>4
  <2>7. issued + 1 \in 1 .. issued' /\ \A i \in 1 .. issued : i \in lost
    BY <1>1, <2>2, <2>4 DEF Known
  <2>8. Known' = {issued + 1}
    BY <2>4, <2>5, <2>6, <2>7 DEF Known
  <2> QED
    BY <1>1, <1>3, <1>5, <2>1, <2>2, <2>3, <2>4, <2>5, <2>8 DEF Accounted, storage
<1> QED
  BY <1>2, <1>6, <1>7, <1>8, <1>9 DEF Kept

\* An answer of the server keeps it.
LEMMA AnswerInv ==
  ASSUME AnonymousInv, NEW c \in Calls, Renews(c) \/ SaysExpired(c) PROVE AnonymousInv'
<1> USE DEF AnonymousInv, history
<1>1. PICK l \in {"answered", "refused"} :
        /\ pc' = [pc EXCEPT ![c] = l] /\ (l = "answered" => sent[c] # 0)
        /\ UNCHANGED <<storage, lock, req, sent, issued, history>>
        /\ pc[c] = "sent" /\ Renewal(c)
  BY DEF Renews, SaysExpired, Goto, server
<1>2. Typed' /\ Begun'
  BY <1>1 DEF Typed, Begun, Renewal, Points, storage
<1>3. pc'[c] = l /\ \A d \in Calls : d # c => pc'[d] = pc[d]
  BY <1>1 DEF Typed
<1>4. \A d \in Calls : Flying(d)' <=> Flying(d)
  BY <1>1, <1>3 DEF Flying, Renewal
<1>5. LockHeld' /\ Named'
  BY <1>1, <1>3, <1>4 DEF LockHeld, Named
<1>6. Kept'
  BY <1>1, <1>3, <1>4 DEF Kept, ExpiredStops, SameSession, SharedIdentity, Renewal, storage
<1>7. Sole'
  BY <1>1, <1>3, <1>4 DEF Sole, Accounted, Known, RenewalsOnly, Used, storage
<1> QED
  BY <1>2, <1>5, <1>6, <1>7

\* createSession where nothing was; where something was the history says so.
LEMMA SessionCreatedInv == ASSUME AnonymousInv, NEW c \in Calls, SessionCreated(c) PROVE AnonymousInv'
<1> USE DEF AnonymousInv, history
<1>1. /\ pc' = [pc EXCEPT ![c] = "settled"] /\ lock' = (IF lock = c THEN NoCall ELSE lock)
      /\ session' = sent[c] /\ expired' = FALSE
      /\ slots' = [slots EXCEPT ![req[c].slot] = [id |-> sent[c], fresh |-> TRUE]]
      /\ UNCHANGED <<req, sent, issued>> /\ pc[c] = "answered" /\ req[c].kind = "createSession"
  BY DEF SessionCreated, Settle, Goto, SetSessionToken, SetToken, server
<1>2. Typed' /\ Begun'
  BY <1>1 DEF Typed, Begun, Renewal, Points
<1>3. pc'[c] = "settled" /\ \A d \in Calls : d # c => pc'[d] = pc[d]
  BY <1>1 DEF Typed
<1>4. \A d \in Calls : Flying(d)' <=> Flying(d)
  BY <1>1, <1>3 DEF Flying, Renewal
<1>5. LockHeld' /\ Named'
  <2>1. \A d \in Calls : Flying(d) => lock' = d
    BY <1>1, ConstantsAssumption DEF LockHeld, Flying, Renewal
  <2> QED
    BY <1>1, <1>3, <1>4, <2>1 DEF LockHeld, Named
<1>6. ~mixed' => /\ ~mixed /\ session = 0 /\ \A k \in Slots : slots[k].id = 0
                 /\ \A d \in Calls : ~Flying(d)
  BY DEF SessionCreated, Flying
<1>7. SameSession'
  BY <1>4, <1>6 DEF SameSession
<1>8. SharedIdentity'
  BY <1>1, <1>6 DEF SharedIdentity, Typed
<1>9. ExpiredStops'
  BY <1>1 DEF ExpiredStops
<1>10. ~RenewalsOnly'
  BY <1>1 DEF RenewalsOnly, Used
<1> QED
  BY <1>2, <1>5, <1>7, <1>8, <1>9, <1>10 DEF Kept, Sole

\* The renewal is the only one in flight, and its answer is of the stored
\* session, or there is none.
LEMMA TokenRenewedInv == ASSUME AnonymousInv, NEW c \in Calls, TokenRenewed(c) PROVE AnonymousInv'
<1> USE DEF AnonymousInv, history
<1>1. /\ pc' = [pc EXCEPT ![c] = "settled"] /\ Renewal(c) /\ pc[c] = "answered"
      /\ slots' = [slots EXCEPT ![req[c].slot] = [id |-> sent[c], fresh |-> TRUE]]
      /\ session' = (IF session = 0 THEN sent[c] ELSE session)
      /\ expired' = (IF session = 0 THEN FALSE ELSE expired)
      /\ UNCHANGED <<req, sent, issued, history>>
  BY DEF TokenRenewed, Settle, Goto, SetSessionToken, SetToken, server
<1>2. Typed' /\ Begun'
  BY <1>1 DEF Typed, Begun, Renewal, Points
<1>3. pc'[c] = "settled" /\ \A d \in Calls : d # c => pc'[d] = pc[d]
  BY <1>1 DEF Typed
<1>4. Flying(c) /\ sent[c] # 0
  BY <1>1 DEF Flying, Named
<1>5. \A d \in Calls : ~Flying(d)'
  BY <1>1, <1>3, <1>4 DEF Flying, Renewal, LockHeld
<1>6. LockHeld' /\ Named' /\ SameSession'
  BY <1>5 DEF LockHeld, Named, SameSession
<1>7. ExpiredStops'
  BY <1>2, <1>5 DEF ExpiredStops, Flying, Typed, Points
<1>8. SharedIdentity'
  <2>1. ~mixed => session \in {0, sent[c]} /\ \A k \in Slots : slots[k].id \in {0, session}
    BY <1>4 DEF Kept, SameSession, SharedIdentity
  <2> QED
    BY <1>1, <2>1 DEF SharedIdentity, Typed
<1>9. Sole'
  <2> SUFFICES ASSUME RenewalsOnly' PROVE Accounted'
    BY DEF Sole
  <2>1. RenewalsOnly /\ Accounted
    BY <1>1 DEF Sole, RenewalsOnly, Used
  <2>2. \A d \in Calls : Flying(d) => d = c
    BY <1>4 DEF LockHeld
  <2>3. ~expired /\ session \in {0, sent[c]}
    BY <1>1, <1>4, <2>1 DEF Kept, ExpiredStops, SameSession, Accounted
  <2>4. session' = sent[c] /\ sent[c] <= issued /\ sent[c] \notin lost
    BY <1>1, <1>4, <2>1, <2>3 DEF Accounted
  <2>5. Known' = Known /\ \A i \in Known : i \in Nat \ {0} /\ i = sent[c]
    BY <1>1, <2>1, <2>2, <2>3 DEF Accounted, Known, Typed
  <2> QED
    BY <1>1, <1>5, <2>1, <2>4, <2>5 DEF Accounted
<1> QED
  BY <1>2, <1>6, <1>7, <1>8, <1>9 DEF Kept

\* Removing everything leaves no token, and the mark if the session is gone.
LEMMA RemovedInv ==
  ASSUME AnonymousInv, NEW c \in Calls, RenewalRefused(c) \/ LoggedOut(c) PROVE AnonymousInv'
<1> USE DEF AnonymousInv, history
<1>1. /\ pc' = [pc EXCEPT ![c] = "settled"] /\ lock' = (IF lock = c THEN NoCall ELSE lock)
      /\ session' = 0 /\ expired' \in BOOLEAN
      /\ slots' = [k \in Slots |-> NoToken] /\ UNCHANGED <<req, sent, issued, history>>
      /\ pc[c] \in {"answered", "refused"}
  BY DEF RenewalRefused, LoggedOut, RemoveAll, Settle, Goto, server
<1>2. Typed' /\ Begun'
  BY <1>1 DEF Typed, Begun, Renewal, Points, NoToken
<1>3. pc'[c] = "settled" /\ \A d \in Calls : d # c => pc'[d] = pc[d]
  BY <1>1 DEF Typed
<1>4. \A d \in Calls : Flying(d)' => Flying(d) /\ d # c
  BY <1>1, <1>3 DEF Flying, Renewal
<1>5. LockHeld' /\ Named'
  BY <1>1, <1>3, <1>4 DEF LockHeld, Named
<1>6. SameSession' /\ SharedIdentity'
  BY <1>1 DEF SameSession, SharedIdentity, NoToken
<1>7. CASE LoggedOut(c)
  <2>1. ~expired' /\ ~RenewalsOnly'
    BY <1>1, <1>7 DEF LoggedOut, RemoveAll, RenewalsOnly, Used
  <2> QED
    BY <1>2, <1>5, <1>6, <2>1 DEF Kept, ExpiredStops, Sole
<1>8. CASE RenewalRefused(c) /\ Renewal(c)
  <2>1. \A d \in Calls : ~Flying(d)'
    BY <1>1, <1>4, <1>8 DEF LockHeld, Flying
  <2>2. ExpiredStops'
    BY <1>2, <2>1 DEF ExpiredStops, Flying, Typed, Points
  <2>3. Sole'
    <3> SUFFICES ASSUME RenewalsOnly' PROVE Accounted'
      BY DEF Sole
    <3>1. Accounted /\ expired' /\ Known' = Known /\ 0 \notin lost /\ 0 <= issued
      BY <1>1, <1>8 DEF Sole, Accounted, Known, RenewalsOnly, Used, RenewalRefused, RemoveAll, Typed
    <3> QED
      BY <1>1, <2>1, <3>1 DEF Accounted
  <2> QED
    BY <1>2, <1>5, <1>6, <2>2, <2>3 DEF Kept
<1> QED
  BY <1>7, <1>8 DEF RenewalRefused, Begun

-----------------------------------------------------------------------------
\* It holds initially.
LEMMA InitInv == Init => AnonymousInv
<1> SUFFICES ASSUME Init PROVE AnonymousInv
  OBVIOUS
<1>1. Typed /\ Begun
  BY ConstantsAssumption DEF Init, Typed, Begun, Points, NoToken
<1>2. \A c \in Calls : ~Flying(c)
  BY DEF Init, Flying
<1>3. LockHeld /\ Named /\ SameSession
  BY <1>2 DEF LockHeld, Named, SameSession
<1>4. ExpiredStops /\ SharedIdentity
  BY DEF Init, ExpiredStops, SharedIdentity, NoToken
<1>5. Sole
  BY <1>2 DEF Init, Sole, Accounted, Known
<1> QED
  BY <1>1, <1>3, <1>4, <1>5 DEF AnonymousInv, Kept

\* Every step keeps it.
LEMMA NextInv == ASSUME AnonymousInv, [Next]_vars PROVE AnonymousInv'
<1>1. CASE UNCHANGED vars
  BY <1>1 DEF vars, storage, server, history, Known, AnonymousInv, Typed, Begun, LockHeld, Named, Kept, Sole, Accounted,
     ExpiredStops, SameSession, SharedIdentity, RenewalsOnly, Used, Flying, Renewal
<1>2. ASSUME NEW c \in Calls, Invoke(c) \/ Wait(c) \/ Serve(c) \/ Receive(c) PROVE AnonymousInv'
  BY <1>2, InvokeInv, EnterLockInv, LockTimeoutInv, MintsInv, AnswerInv, LogsOutInv, RequestFailsInv,
     TicketMintedInv, SessionCreatedInv, TokenRenewedInv, RemovedInv DEF Wait, Serve, Receive
<1> QED
  BY <1>1, <1>2, TimeInv DEF Next

\* It holds for ever.
LEMMA Invariant == Spec => []AnonymousInv
  BY InitInv, NextInv, PTL DEF Spec

\* Every access token in a slot belongs to the stored session, for any number of
\* calls, tabs and slots (examples/anonymous-sessions.md 78).
THEOREM IdentityShared == Spec => []SharedIdentity
<1>1. AnonymousInv => SharedIdentity
  BY DEF AnonymousInv, Kept
<1> QED
  BY <1>1, Invariant, PTL

\* Of the identities that renewals by any number of concurrent callers start, one
\* reaches the page, also after its session has expired, whichever answers are
\* lost and whichever pages closed (AnonymousSessionApiClient.ts 100-103).
THEOREM IdentityUnique == Spec => []OneIdentity
<1>1. AnonymousInv => OneIdentity
  <2> SUFFICES ASSUME AnonymousInv, RenewalsOnly
               PROVE  /\ \A i, j \in Known : i = j
                      /\ session \notin lost /\ \A k \in Slots : slots[k].id \notin lost
    BY DEF OneIdentity, RenewalsOnly, Known
  <2>1. Accounted /\ SharedIdentity
    BY DEF AnonymousInv, Sole, Kept
  <2>2. 0 \notin lost /\ \A k \in Slots : slots[k].id \in {0, session}
    BY <2>1 DEF Accounted, SharedIdentity
  <2> QED
    BY <2>1, <2>2 DEF Accounted
<1> QED
  BY <1>1, Invariant, PTL

\* A session marked as expired has no renewal under way
\* (AnonymousSessionApiClient.ts 110-114).
THEOREM ExpiryStops == Spec => []ExpiredStops
<1>1. AnonymousInv => ExpiredStops
  BY DEF AnonymousInv, Kept
<1> QED
  BY <1>1, Invariant, PTL
=============================================================================
