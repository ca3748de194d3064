---------------------------- MODULE HostedIdentity ----------------------------
(***************************************************************************)
(* The verification of hosted requests, src/src/server/identity.rs: signed *)
(* headers of a proxy, or JWTs against a cached key set (JWKS) that a      *)
(* request with an unknown key refreshes. Requests run concurrently; the   *)
(* key set is fetched without a lock and stored under one.                 *)
(*                                                                         *)
(* A key set is the set of its asymmetric signature keys. Signatures and   *)
(* encodings are their verdicts.                                           *)
(***************************************************************************)
EXTENDS Integers, FiniteSets

CONSTANTS
  Callers,   \* requests
  Keys,      \* keys the issuer uses in the course of time
  MaxAge,    \* proxy_identity_max_age_secs
  Skew,      \* FUTURE_IAT_SKEW_SECS
  Top        \* u64::MAX

VARIABLES
  mode,      \* DBT_NOVA_HOSTED_AUTH_MODE: "jwt" or "proxy"
  published, \* the key set at jwt_jwks_url
  jwks,      \* the cached key set
  token,     \* the credentials of each request
  at,        \* its step
  fetched,   \* the key set it fetched
  verdict,   \* its outcome, a VerificationError or "ok"
  steady     \* whether its key stayed published, and no set without it was in hand

vars == <<mode, published, jwks, token, at, fetched, verdict, steady>>

\* The claims are refused if they are expired or immature, for another issuer
\* or audience, or without a subject.
Claims == {"good", "refused"}

\* What a request may bring: a bearer token, signed with a key (its header is
\* refused if it is missing, malformed or names no kid or a wrong algorithm), or an envelope
\* with its signature, the time it was issued and the time it is looked at.
Tokens == [header : {"refused", "ok"},
           key : Keys, claims : Claims]
Envelopes == [signed : BOOLEAN, json : BOOLEAN, subject : BOOLEAN, iat : 0 .. Top, now : 0 .. Top]

\* from_config: a JWT verifier starts only with a usable key set.
Init ==
  /\ mode \in {"jwt", "proxy"}
  /\ published \in (SUBSET Keys) \ {{}}
  /\ jwks = published
  /\ token = [r \in Callers |-> <<>>]
  /\ at = [r \in Callers |-> "idle"]
  /\ fetched = [r \in Callers |-> {}]
  /\ verdict = [r \in Callers |-> "none"]
  /\ steady = [r \in Callers |-> FALSE]

Goto(r, step) == at' = [at EXCEPT ![r] = step]

\* verify_hosted_identity_request: next.run, or 401.
Decide(r, v) ==
  /\ Goto(r, "done")
  /\ verdict' = [verdict EXCEPT ![r] = v]

\* The issuer rotates its keys; a set without an asymmetric key is empty here.
Rotate ==
  /\ mode = "jwt"
  /\ \E s \in SUBSET Keys : published' = s /\ published' # published
  /\ steady' = [r \in Callers |-> steady[r] /\ token[r] # <<>> /\ token[r].key \in published']
  /\ UNCHANGED <<mode, jwks, token, at, fetched, verdict>>

ArriveJwt(r) ==
  /\ mode = "jwt" /\ at[r] = "idle"
  /\ \E t \in Tokens :
       /\ token' = [token EXCEPT ![r] = t]
       /\ steady' = [steady EXCEPT ![r] = t.key \in published /\ \A q \in Callers : at[q] = "store" => t.key \in fetched[q]]
  /\ Goto(r, "check")
  /\ UNCHANGED <<mode, published, jwks, fetched, verdict>>

\* verify_token_with_cache and bearer_token, in the order of their checks. An
\* unknown kid and a known one with another key both read "unknown" here.
TokenVerdict(t, keys) ==
  IF t.header # "ok" THEN t.header
  ELSE IF t.key \notin keys THEN "unknown"
  ELSE IF t.claims # "good" THEN t.claims
  ELSE "ok"

\* verify_headers: only an unknown key makes it fetch the key set ...
Verify(r) ==
  /\ at[r] = "check"
  /\ LET v == TokenVerdict(token[r], jwks) IN
       \/ v = "unknown" /\ Goto(r, "fetch") /\ UNCHANGED verdict
       \/ v # "unknown" /\ Decide(r, v)
  /\ UNCHANGED <<mode, published, jwks, token, fetched, steady>>

\* ... which takes a while ...
Fetch(r) ==
  /\ at[r] = "fetch"
  /\ fetched' = [fetched EXCEPT ![r] = published]
  /\ Goto(r, "store")
  /\ UNCHANGED <<mode, published, jwks, token, verdict, steady>>

FetchFails(r) ==
  /\ at[r] = "fetch"
  /\ Decide(r, "unavailable")
  /\ UNCHANGED <<mode, published, jwks, token, fetched, steady>>

\* Mutant: whatever came is stored.
StoreAny(r) ==
  /\ at[r] = "store"
  /\ jwks' = fetched[r] /\ Goto(r, "recheck")
  /\ UNCHANGED <<mode, published, token, fetched, verdict, steady>>

\* ... a set without a usable key is refused, any other replaces the cached one.
Store(r) ==
  /\ at[r] = "store"
  /\ IF fetched[r] = {}
       THEN Decide(r, "unavailable") /\ UNCHANGED jwks
       ELSE jwks' = fetched[r] /\ Goto(r, "recheck") /\ UNCHANGED verdict
  /\ fetched' = [fetched EXCEPT ![r] = {}]
  /\ UNCHANGED <<mode, published, token, steady>>

\* Mutant: the first verdict stands although the keys were refreshed.
KeepVerdict(r) ==
  /\ at[r] = "recheck"
  /\ Decide(r, "unknown")
  /\ UNCHANGED <<mode, published, jwks, token, fetched, steady>>

\* The retry reads the cache again, and not the set it stored: another request
\* may have replaced it since.
Recheck(r) ==
  /\ at[r] = "recheck"
  /\ Decide(r, TokenVerdict(token[r], jwks))
  /\ UNCHANGED <<mode, published, jwks, token, fetched, steady>>

\* saturating_add, saturating_sub.
Saturate(n) == IF n > Top THEN Top ELSE IF n < 0 THEN 0 ELSE n

\* verify_header_values_at.
EnvelopeVerdict(e) ==
  IF ~e.signed THEN "invalid"
  ELSE IF ~e.json THEN "malformed"
  ELSE IF e.iat > Saturate(e.now + Skew) \/ Saturate(e.now - e.iat) > MaxAge THEN "stale"
  ELSE IF ~e.subject THEN "malformed"
  ELSE "ok"

VerifyProxy(r) ==
  /\ mode = "proxy" /\ at[r] = "idle"
  /\ \E e \in Envelopes :
       token' = [token EXCEPT ![r] = e] /\ Decide(r, EnvelopeVerdict(e))
  /\ UNCHANGED <<mode, published, jwks, fetched, steady>>

Leave(r) ==
  /\ at[r] = "done"
  /\ Goto(r, "idle")
  /\ token' = [token EXCEPT ![r] = <<>>]
  /\ verdict' = [verdict EXCEPT ![r] = "none"]
  /\ steady' = [steady EXCEPT ![r] = FALSE]
  /\ UNCHANGED <<mode, published, jwks, fetched>>

Next ==
  \/ Rotate
  \/ \E r \in Callers :
       \/ ArriveJwt(r) \/ Verify(r) \/ Fetch(r) \/ FetchFails(r) \/ Store(r)
       \/ Recheck(r) \/ VerifyProxy(r) \/ Leave(r)

Spec == Init /\ [][Next]_vars

-----------------------------------------------------------------------------
(* Properties.                                                             *)

\* The cached key set stays usable whatever the issuer publishes meanwhile.
KeySetUsable == jwks # {}

\* A good token is accepted while the issuer rotates and requests store key sets
\* over each other's: if its key stayed published while it was verified, and no
\* request held a set without that key, fetched and not yet stored, when it came,
\* only an unreachable or empty key set may refuse it. (Such a set, stored between
\* the request's own and its second look, refuses a token of a published key.)
GoodTokenAccepted ==
  \A r \in Callers :
    at[r] = "done" /\ mode = "jwt" /\ steady[r]
      /\ token[r].header = "ok" /\ token[r].claims = "good"
      => verdict[r] \in {"ok", "unavailable"}

\* Saturation does no harm at either end of the clock: an accepted envelope was
\* issued no more than max age before and no more than the skew after it came.
AcceptedIsFresh ==
  \A r \in Callers :
    mode = "proxy" /\ verdict[r] = "ok" => token[r].now - token[r].iat \in -Skew .. MaxAge
=============================================================================
