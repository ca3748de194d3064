------------------------------ MODULE TokenCache ------------------------------
(***************************************************************************)
(* The credentials that requests to a warehouse share.                     *)
(*   "session": the Snowflake session of an external-browser login. The    *)
(*     mutex of the cache is held across the login; a refused request      *)
(*     clears the cache and is sent once more.                             *)
(*   "runtime": the BigQuery configuration with its access token, checked  *)
(*     under a read lock, loaded under none, and checked again under the   *)
(*     write lock.                                                         *)
(* Tokens are numbered as they are issued; 0 is none.                      *)
(***************************************************************************)
EXTENDS Naturals

CONSTANTS Requests, MaxTokens, Nobody  \* Nobody: not a request

VARIABLES
  kind,     \* "session" or "runtime"
  cached,   \* the cached token
  valid,    \* the tokens within their expiry or cache TTL
  revoked,  \* the tokens the server no longer accepts
  issued,   \* number of tokens issued
  lock,     \* the request that holds the mutex of the cache
  pc, token, sends, refused   \* the requests
vars == <<kind, cached, valid, revoked, issued, lock, pc, token, sends, refused>>

Init ==
  /\ kind \in {"session", "runtime"}
  /\ cached = 0 /\ valid = {} /\ revoked = {} /\ issued = 0
  /\ lock = Nobody
  /\ pc = [r \in Requests |-> "start"]
  /\ token = [r \in Requests |-> 0]
  /\ sends = [r \in Requests |-> 0]
  /\ refused = [r \in Requests |-> 0]

Goto(r, step) == pc' = [pc EXCEPT ![r] = step]
Use(r, t) == token' = [token EXCEPT ![r] = t]

\* The server's clock and its administrators.
Expire(t) ==
  /\ t \in valid
  /\ valid' = valid \ {t}
  /\ UNCHANGED <<kind, cached, revoked, issued, lock, pc, token, sends, refused>>

Revoke(t) ==
  /\ t \in 1 .. issued \ revoked
  /\ revoked' = revoked \cup {t}
  /\ UNCHANGED <<kind, cached, valid, issued, lock, pc, token, sends, refused>>

\* authorization: the mutex is taken and the session looked at, with its
\* expiry and that of the tokens stored with it; cached_bigquery_runtime: the
\* entry is looked at under the read lock.
Look(r) ==
  /\ pc[r] = "start" /\ lock = Nobody
  /\ IF cached \in valid
       THEN Use(r, cached) /\ Goto(r, "send") /\ UNCHANGED lock
       ELSE /\ Goto(r, "login") /\ UNCHANGED token
            /\ lock' = IF kind = "session" THEN r ELSE lock
  /\ UNCHANGED <<kind, cached, valid, revoked, issued, sends, refused>>

\* login_external_browser, load_bigquery_runtime: a token is issued.
Login(r) ==
  /\ pc[r] = "login" /\ issued < MaxTokens
  /\ issued' = issued + 1
  /\ valid' = valid \cup {issued + 1}
  /\ Use(r, issued + 1)
  /\ Goto(r, "store")
  /\ UNCHANGED <<kind, cached, revoked, lock, sends, refused>>

\* The login, the callback of the browser or the credentials fail.
LoginFails(r) ==
  /\ pc[r] = "login"
  /\ lock' = Nobody
  /\ Goto(r, "error")
  /\ UNCHANGED <<kind, cached, valid, revoked, issued, token, sends, refused>>

\* Mutant: the second check under the write lock is left out.
StoreAnyway(r) ==
  /\ pc[r] = "store"
  /\ cached' = token[r] /\ lock' = Nobody
  /\ Goto(r, "send")
  /\ UNCHANGED <<kind, valid, revoked, issued, token, sends, refused>>

\* The token is stored; the runtime cache first looks whether another request
\* stored one meanwhile, and then uses that.
Store(r) ==
  /\ pc[r] = "store"
  /\ IF kind = "runtime" /\ cached \in valid
       THEN Use(r, cached) /\ UNCHANGED cached
       ELSE cached' = token[r] /\ UNCHANGED token
  /\ lock' = Nobody
  /\ Goto(r, "send")
  /\ UNCHANGED <<kind, valid, revoked, issued, sends, refused>>

\* send_text with the authorization, and the server's verdict on the token.
Send(r) ==
  /\ pc[r] = "send"
  /\ sends' = [sends EXCEPT ![r] = @ + 1]
  /\ IF token[r] \notin revoked
       THEN Goto(r, "done") /\ UNCHANGED refused
       ELSE /\ refused' = [refused EXCEPT ![r] = token[r]]
            /\ Goto(r, IF kind = "session" /\ sends[r] = 0 THEN "clear" ELSE "error")
  /\ UNCHANGED <<kind, cached, valid, revoked, issued, lock, token>>

\* Mutant: the refused request is sent again without clearing the session.
RetryAtOnce(r) ==
  /\ pc[r] = "clear" /\ lock = Nobody
  /\ Goto(r, "start")
  /\ UNCHANGED <<kind, cached, valid, revoked, issued, lock, token, sends, refused>>

\* clear_external_browser_session empties the cache, even if a newer session
\* is in it by now, and the request is built anew.
Clear(r) ==
  /\ pc[r] = "clear" /\ lock = Nobody
  /\ cached' = 0
  /\ Goto(r, "start")
  /\ UNCHANGED <<kind, valid, revoked, issued, lock, token, sends, refused>>

Done ==
  /\ \A r \in Requests : pc[r] \in {"done", "error"}
  /\ UNCHANGED vars

Next ==
  \/ Done
  \/ \E t \in 1 .. MaxTokens : Expire(t) \/ Revoke(t)
  \/ \E r \in Requests :
       Look(r) \/ Login(r) \/ LoginFails(r) \/ Store(r) \/ Send(r) \/ Clear(r)

Spec == Init /\ [][Next]_vars

-----------------------------------------------------------------------------
\* The second attempt of a refused request never carries the token that was
\* refused, however the logins and clears of the requests interleave.
RetryIsFresh ==
  \A r \in Requests : sends[r] = 1 /\ pc[r] = "send" => token[r] # refused[r]

\* A token within its time is not replaced by another: of two loads that run
\* at once the first stored wins, so that both requests use the same.
NoReplacement ==
  [][(cached \in valid) => (cached' \in {0, cached})]_vars
=============================================================================
