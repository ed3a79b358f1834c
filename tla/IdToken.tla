------------------------------ MODULE IdToken ------------------------------
(***************************************************************************)
(* Verification of an ID token (jwt.ts verify) and of its session ceiling  *)
(* (the first half of _saveEntryInCache, Auth0Client.ts). A token is a     *)
(* record of its claims and of how its text decodes; numbers are times in  *)
(* units of the run's clock, Absent where the claim is missing.            *)
(***************************************************************************)
EXTENDS Integers, FiniteSets

CONSTANTS
  Issuer, ClientId,    \* tokenIssuer and options.clientId
  Leeway,              \* options.leeway || 60
  MillisecondsBound    \* 10_000_000_000

Absent == -1

NotANumber == -2

\* A requested organization is an id if it starts with "org_", otherwise a
\* name, which is compared in lower case.
OrgIds == {"org_1", "org_2"}

LowerCase(org) == IF org = "Acme" THEN "acme" ELSE org

-----------------------------------------------------------------------------
\* Issuer, subject, algorithm, audience and authorized party.
IssuedForClient(tok) ==
  /\ tok.iss = Issuer
  /\ tok.sub # "none"
  /\ tok.alg = "RS256"
  /\ ClientId \in tok.aud
  /\ Cardinality(tok.aud) > 1 => tok.azp = ClientId

NonceFits(options, tok) == options.nonce # Absent => tok.nonce = options.nonce

\* Without max_age the bound on auth_time is an invalid date, which no time is
\* after.
Timely(options, tok, now) ==
  /\ options.max_age # Absent => tok.auth_time \notin {Absent, NotANumber}
  /\ tok.exp \notin {Absent, NotANumber}
  /\ tok.iat \notin {Absent, NotANumber}
  /\ now <= tok.exp + Leeway
  /\ tok.nbf \notin {Absent, NotANumber} => now >= tok.nbf - Leeway
  /\ options.max_age # Absent => now <= tok.auth_time + options.max_age + Leeway

OfOrganization(options, tok) ==
  \/ options.organization = "none"
  \/ options.organization \in OrgIds /\ tok.org_id = options.organization
  \/ options.organization \notin OrgIds /\ tok.org_name = LowerCase(options.organization)

Verify(options, tok, now) ==
  /\ tok.text = "jwt"
  /\ IssuedForClient(tok)
  /\ NonceFits(options, tok)
  /\ Timely(options, tok, now)
  /\ OfOrganization(options, tok)

\* The checks _saveEntryInCache makes of a session_expiry before it stores it.
ExpiryValid(session_expiry, iat) ==
  \/ session_expiry = Absent
  \/ /\ session_expiry # NotANumber
     /\ session_expiry < MillisecondsBound
     /\ session_expiry > iat

-----------------------------------------------------------------------------
\* Answers of the server (external): a sound token, and tokens with one claim
\* that deviates from it.
Sound(options, user, ceiling, now) ==
  [text |-> "jwt", iss |-> Issuer, sub |-> user, alg |-> "RS256", aud |-> {ClientId},
   azp |-> "none", nonce |-> options.nonce, exp |-> now + 1, iat |-> now, nbf |-> Absent,
   auth_time |-> now, org_id |-> "org_1", org_name |-> "acme", session_expiry |-> ceiling]

Deviations(options, user, ceiling, now) ==
  LET tok == Sound(options, user, ceiling, now)
  IN  {[tok EXCEPT !.text = x] : x \in {"missing", "garbled"}}
      \cup {[tok EXCEPT !.iss = "other"], [tok EXCEPT !.sub = "none"], [tok EXCEPT !.alg = "HS256"],
            [tok EXCEPT !.aud = {"other"}], [tok EXCEPT !.aud = {ClientId, "other"}],
            [tok EXCEPT !.nonce = Absent], [tok EXCEPT !.exp = now - Leeway - 1],
            [tok EXCEPT !.iat = NotANumber], [tok EXCEPT !.nbf = now + Leeway + 1],
            [tok EXCEPT !.auth_time = Absent], [tok EXCEPT !.auth_time = now - Leeway - 2],
            [tok EXCEPT !.org_id = "none"], [tok EXCEPT !.session_expiry = MillisecondsBound]}
=============================================================================
