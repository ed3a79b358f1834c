----------------------------- MODULE Anonymous -----------------------------
(***************************************************************************)
(* Anonymous sessions (anonymous/AnonymousSessionApiClient.ts and          *)
(* AnonymousSessionCacheManager.ts): one session token shared by all       *)
(* audience and scope slots, in localStorage and hence by all tabs (the    *)
(* default mode). Renewals run under a lock; createSession and logout      *)
(* take none. checkSession and the login methods of Auth0Client.ts are     *)
(* modelled as far as they use anonymous sessions.                         *)
(* The lock is the abstract one of LockManager.                            *)
(***************************************************************************)
EXTENDS Naturals

CONSTANTS
  Calls,          \* invocations, in any tab
  Slots,          \* an audience and a scope each
  DefaultSlot,    \* the slot without audience and scope
  MaxIdentities,  \* bound on the sessions the server starts
  NoCall          \* a lock nobody holds

Kinds == {"createSession", "getTokenSilently", "checkSession", "mintTransferToken", "logout"}

ASSUME ConstantsAssumption ==
  /\ DefaultSlot \in Slots /\ NoCall \notin Calls
  /\ MaxIdentities \in Nat

VARIABLES
  \* storage
  session,    \* identity of the stored session token, 0 = none
  expired,    \* the mark of an expired session
  slots,      \* access token of each slot
  lock,
  \* page
  pc, req,    \* control point and arguments of each call
  sent,       \* session token each call sent, 0 = none
  \* server (external)
  issued,     \* identities started so far, which are the numbers up to it
  ended,      \* those whose session has expired or was logged out
  \* history
  mixed,      \* did createSession meet a session, a token or a renewal
  lost        \* identities that were started and whose answer never arrived

storage == <<session, expired, slots>>
server == <<issued, ended>>
history == <<mixed, lost>>
vars == <<storage, lock, pc, req, sent, server, history>>

NoToken == [id |-> 0, fresh |-> FALSE]

Init ==
  /\ session = 0 /\ expired = FALSE /\ slots = [k \in Slots |-> NoToken]
  /\ lock = NoCall
  /\ pc = [c \in Calls |-> "idle"]
  /\ req = [c \in Calls |-> [kind |-> "none", slot |-> DefaultSlot]]
  /\ sent = [c \in Calls |-> 0]
  /\ issued = 0 /\ ended = {}
  /\ mixed = FALSE /\ lost = {}

-----------------------------------------------------------------------------
(* AnonymousSessionCacheManager *)

SetToken(k, id) == slots' = [slots EXCEPT ![k] = [id |-> id, fresh |-> TRUE]]

SetSessionToken(id) == session' = id /\ expired' = FALSE

\* The slots stay.
RemoveAllButSlots(mark) ==
  /\ session' = 0 /\ expired' = mark
  /\ UNCHANGED slots

\* The mark is removed after it was set.
RemoveAllAfterMark(mark) ==
  /\ session' = 0 /\ expired' = FALSE
  /\ slots' = [k \in Slots |-> NoToken]

\* removeAll, followed by markSessionExpired if "mark".
RemoveAll(mark) ==
  /\ session' = 0 /\ expired' = mark
  /\ slots' = [k \in Slots |-> NoToken]

-----------------------------------------------------------------------------
Goto(c, l) == pc' = [pc EXCEPT ![c] = l]

Settle(c) == Goto(c, "settled") /\ lock' = IF lock = c THEN NoCall ELSE lock

Start(c, kind, k) ==
  /\ pc[c] = "idle"
  /\ req' = [req EXCEPT ![c] = [kind |-> kind, slot |-> k]]

CreateSession(c, k) ==
  /\ Start(c, "createSession", k)
  /\ Goto(c, "sent")
  /\ UNCHANGED <<storage, lock, sent, server, history>>

\* The token of the slot, if it is good for more than 60 s, or the lock.
GetTokenSilently(c, k) ==
  /\ Start(c, "getTokenSilently", k)
  /\ Goto(c, IF slots[k].fresh THEN "settled" ELSE "lockWait")
  /\ UNCHANGED <<storage, lock, sent, server, history>>

\* checkSession without a user, createAnonymousSessionOnFailedSilentAuth set.
MaybeCreateAnonymousSession(c) ==
  /\ Start(c, "checkSession", DefaultSlot)
  /\ Goto(c, IF session # 0 \/ slots[DefaultSlot].fresh THEN "settled" ELSE "lockWait")
  /\ UNCHANGED <<storage, lock, sent, server, history>>

\* loginWithRedirect and loginWithPopup, which go on without a ticket too.
ApplyAnonTransferToken(c) ==
  /\ Start(c, "mintTransferToken", DefaultSlot)
  /\ Goto(c, IF session = 0 THEN "settled" ELSE "sent")
  /\ sent' = [sent EXCEPT ![c] = session]
  /\ UNCHANGED <<storage, lock, server, history>>

Logout(c) ==
  /\ Start(c, "logout", DefaultSlot)
  /\ Goto(c, "sent")
  /\ UNCHANGED <<storage, lock, sent, server, history>>

\* The slot is looked at again, but not the mark.
EnterLockUnmarked(c) ==
  /\ pc[c] = "lockWait" /\ lock = NoCall
  /\ IF slots[req[c].slot].fresh
     THEN Goto(c, "settled") /\ UNCHANGED <<lock, sent>>
     ELSE Goto(c, "sent") /\ lock' = c /\ sent' = [sent EXCEPT ![c] = session]
  /\ UNCHANGED <<storage, req, server, history>>

\* The callback up to its await: the mark, the slot and the session token are
\* read again.
EnterLock(c) ==
  /\ pc[c] = "lockWait" /\ lock = NoCall
  /\ IF expired \/ slots[req[c].slot].fresh
     THEN Goto(c, "settled") /\ UNCHANGED <<lock, sent>>
     ELSE Goto(c, "sent") /\ lock' = c /\ sent' = [sent EXCEPT ![c] = session]
  /\ UNCHANGED <<storage, req, server, history>>

\* Nor does a page that is closed while it waits.
LockTimeout(c) ==
  /\ pc[c] = "lockWait"
  /\ Settle(c)
  /\ UNCHANGED <<storage, req, sent, server, history>>

-----------------------------------------------------------------------------
(* The server (external); an answer leaves the identity it is about in "sent" *)

Renewal(c) == req[c].kind \in {"getTokenSilently", "checkSession"}

\* createSession, and a renewal without session token, start an identity.
Mints(c) ==
  /\ pc[c] = "sent" /\ issued < MaxIdentities
  /\ req[c].kind = "createSession" \/ (Renewal(c) /\ sent[c] = 0)
  /\ issued' = issued + 1
  /\ sent' = [sent EXCEPT ![c] = issued + 1]
  /\ Goto(c, "answered")
  /\ UNCHANGED <<storage, lock, req, ended, history>>

Renews(c) ==
  /\ pc[c] = "sent" /\ Renewal(c) /\ sent[c] \in 1 .. issued \ ended
  /\ Goto(c, "answered")
  /\ UNCHANGED <<storage, lock, req, sent, server, history>>

\* session_expired or invalid_session_token.
SaysExpired(c) ==
  /\ pc[c] = "sent" /\ Renewal(c) /\ sent[c] \in ended
  /\ Goto(c, "refused")
  /\ UNCHANGED <<storage, lock, req, sent, server, history>>

\* The session ends at the server, by its cookie, which is the newest one's.
LogsOut(c) ==
  /\ pc[c] = "sent" /\ req[c].kind = "logout"
  /\ ended' = IF issued = 0 THEN ended ELSE ended \cup {issued}
  /\ Goto(c, "answered")
  /\ UNCHANGED <<storage, lock, req, sent, issued, history>>

SessionEnds ==
  /\ \E id \in 1 .. issued : id \notin ended /\ ended' = ended \cup {id}
  /\ UNCHANGED <<storage, lock, pc, req, sent, issued, history>>

\* A slot's token comes within 60 s of its expiry.
TokenExpires(k) ==
  /\ slots[k].fresh
  /\ slots' = [slots EXCEPT ![k].fresh = FALSE]
  /\ UNCHANGED <<session, expired, lock, pc, req, sent, server, history>>

-----------------------------------------------------------------------------
(* The answer arrives *)

SessionCreated(c) ==
  /\ pc[c] = "answered" /\ req[c].kind = "createSession"
  /\ SetSessionToken(sent[c]) /\ SetToken(req[c].slot, sent[c])
  /\ mixed' = (mixed \/ session # 0 \/ (\E k \in Slots : slots[k].id # 0)
                     \/ \E d \in Calls : Renewal(d) /\ pc[d] \in {"sent", "answered", "refused"})
  /\ Settle(c)
  /\ UNCHANGED <<req, sent, server, lost>>

\* The access token is stored; the session token only where none is stored.
TokenRenewed(c) ==
  /\ pc[c] = "answered" /\ Renewal(c)
  /\ SetToken(req[c].slot, sent[c])
  /\ IF session = 0 THEN SetSessionToken(sent[c]) ELSE UNCHANGED <<session, expired>>
  /\ Settle(c)
  /\ UNCHANGED <<req, sent, server, history>>

RenewalRefused(c) ==
  /\ pc[c] = "refused"
  /\ RemoveAll(TRUE)
  /\ Settle(c)
  /\ UNCHANGED <<req, sent, server, history>>

\* The network or the server fails in another way, before the server has acted
\* or after, or the page of the call is closed: nothing is touched.
RequestFails(c) ==
  /\ pc[c] \in {"sent", "answered", "refused"}
  /\ lost' = IF pc[c] = "answered" THEN lost \cup ({sent[c]} \ {0, session}) ELSE lost
  /\ Settle(c)
  /\ UNCHANGED <<storage, req, sent, server, mixed>>

TicketMinted(c) ==
  /\ pc[c] = "sent" /\ req[c].kind = "mintTransferToken" /\ sent[c] \notin ended
  /\ Settle(c)
  /\ UNCHANGED <<storage, req, sent, server, history>>

LoggedOut(c) ==
  /\ pc[c] = "answered" /\ req[c].kind = "logout"
  /\ RemoveAll(FALSE)
  /\ Settle(c)
  /\ UNCHANGED <<req, sent, server, history>>

-----------------------------------------------------------------------------
Invoke(c) ==
  \/ \E k \in Slots : CreateSession(c, k) \/ GetTokenSilently(c, k)
  \/ MaybeCreateAnonymousSession(c) \/ ApplyAnonTransferToken(c) \/ Logout(c)

Wait(c) == EnterLock(c) \/ LockTimeout(c)

Serve(c) == Mints(c) \/ Renews(c) \/ SaysExpired(c) \/ LogsOut(c) \/ RequestFails(c) \/ TicketMinted(c)

Receive(c) == SessionCreated(c) \/ TokenRenewed(c) \/ RenewalRefused(c) \/ LoggedOut(c)

Next ==
  \/ \E c \in Calls : Invoke(c) \/ Wait(c) \/ Serve(c) \/ Receive(c)
  \/ SessionEnds
  \/ \E k \in Slots : TokenExpires(k)

Spec == Init /\ [][Next]_vars

-----------------------------------------------------------------------------
(* Properties *)

Used(kind) == \E c \in Calls : req[c].kind = kind

\* "All tokens share the same anonymous identity"
\* (examples/anonymous-sessions.md 78): every access token in a slot belongs to
\* the stored session, over expiries, recoveries, logouts and answers that come
\* late, unless createSession met a session or a renewal.
SharedIdentity == ~mixed => \A k \in Slots : slots[k].id \in {0, session}

\* Concurrent callers, in one tab or in several, "don't each trigger a renewal
\* that may mint a new anonymous identity" (AnonymousSessionApiClient.ts
\* 100-103): without createSession and logout no two identities ever reach the
\* page, over renewals that fail, lose their answer or are cut off, and also after
\* the session has expired; one whose answer was lost stays out of the storage.
OneIdentity ==
  ~Used("createSession") /\ ~Used("logout") =>
    /\ \A i, j \in 1 .. issued : i \notin lost /\ j \notin lost => i = j
    /\ session \notin lost /\ \A k \in Slots : slots[k].id \notin lost

\* Once the session is marked as expired no renewal is under way, in any tab,
\* and none starts before the mark is gone (AnonymousSessionApiClient.ts
\* 110-114).
ExpiredStops == expired => \A c \in Calls : Renewal(c) => pc[c] \in {"idle", "lockWait", "settled"}
=============================================================================
