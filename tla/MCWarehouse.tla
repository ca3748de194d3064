----------------------------- MODULE MCWarehouse -----------------------------
(***************************************************************************)
(* The way of an SQL call for TLC: a behaviour is one of the limiter that  *)
(* admits calls, of a statement execution, of the DuckDB pool or of a      *)
(* token cache, as `part` says.                                            *)
(***************************************************************************)
EXTENDS ConcurrencyLimiter, Integers

CONSTANTS Providers, Shapes, RowLimits, ChunkLimits, MaxRows, MaxChunks, DefaultRows, DefaultChunks,
          MaxPoll, GetRetries, Clients, MaxSize, MaxPanics, MaxTokens, Nobody

\* A pool has a size, and is used by finitely many requests at a time.
ASSUME PoolAssumption == IsFiniteSet(Clients) /\ MaxSize \in Nat

\* A client is one of the three; a result is a sequence of chunks, empty ones
\* among them; a limit is a number or missing (-1), and the defaults and bounds
\* are numbers.
ASSUME StatementAssumption ==
  /\ Providers \subseteq {"databricks", "snowflake", "bigquery"} /\ Shapes \subseteq Seq(Nat)
  /\ RowLimits \subseteq Nat \cup {-1} /\ ChunkLimits \subseteq Nat \cup {-1}
  /\ MaxRows \subseteq Nat /\ MaxChunks \subseteq Nat /\ DefaultRows \in Nat /\ DefaultChunks \in Nat
  /\ MaxPoll \in Nat /\ GetRetries \in Nat

\* Nobody stands for the lock being free.
ASSUME LockAssumption == Nobody \notin Clients

VARIABLES part,
          provider, request, shape, maxRows, maxChunks, withheld, job, executions, pc, elapsed, tries,
          rows, next, fetched, truncated, outcome, failed,
          connections, idle, created, task, caller, lost,
          kind, cached, valid, revoked, issued, lock, step, token, sends, refused

Statement == INSTANCE StatementExecution
Pool == INSTANCE DuckDbPool WITH Requests <- Clients, slots <- connections
Tokens == INSTANCE TokenCache WITH Requests <- Clients, pc <- step

MCShapes == {<<>>, <<2>>, <<1, 1>>, <<2, 1>>, <<1, 0>>, <<1, 1, 1>>}
MCRowLimits == {-1, 0, 1, 3}
MCChunkLimits == {-1, 0, 1}

stmtVars == <<provider, request, shape, maxRows, maxChunks, withheld, job, executions, pc, elapsed, tries,
              rows, next, fetched, truncated, outcome, failed>>
poolVars == <<connections, idle, created, task, caller, lost>>
tokenVars == <<kind, cached, valid, revoked, issued, lock, step, token, sends, refused>>
mcVars == <<part, vars, stmtVars, poolVars, tokenVars>>

MCInit ==
  /\ part \in {"limiter", "statement", "pool", "tokens"}
  /\ Init /\ Statement!Init /\ Pool!Init /\ Tokens!Init
  /\ part # "statement" =>
       /\ provider = "snowflake" /\ shape = <<>> /\ maxRows = 0 /\ maxChunks = 0 /\ ~withheld
       /\ request = [rows |-> -1, chunks |-> -1, fetchAll |-> TRUE]
  /\ part # "tokens" => kind = "session"

MCNext ==
  /\ UNCHANGED part
  /\ \/ part = "limiter" /\ Next /\ UNCHANGED <<stmtVars, poolVars, tokenVars>>
     \/ part = "statement" /\ Statement!Next /\ UNCHANGED <<vars, poolVars, tokenVars>>
     \/ part = "pool" /\ Pool!Next /\ UNCHANGED <<vars, stmtVars, tokenVars>>
     \/ part = "tokens" /\ Tokens!Next /\ UNCHANGED <<vars, stmtVars, poolVars>>

Admitted(A) == part = "limiter" /\ A /\ UNCHANGED <<part, stmtVars, poolVars, tokenVars>>

MCSpec ==
  /\ MCInit /\ [][MCNext]_mcVars
  /\ \A r \in Requests : WF_mcVars(Admitted(ReleaseSlot(r))) /\ WF_mcVars(Admitted(ReleasePlace(r)))
  /\ WF_mcVars(part = "statement" /\ Statement!ClientStep /\ UNCHANGED <<part, vars, poolVars, tokenVars>>)

\* StatementExecution!CallEnds, in the behaviours of a statement.
StatementEnds == part = "statement" => Statement!CallEnds

\* The properties of a statement, of the pool and of the token caches, by their
\* names there.
StatementTypeOK == Statement!TypeOK
StartedOnce == Statement!StartedOnce
CompleteUnlessTruncated == Statement!CompleteUnlessTruncated
TruncatedIsShort == Statement!TruncatedIsShort
RowsBounded == Statement!RowsBounded
NoOrphan == Statement!NoOrphan
NeverExhausted == Pool!NeverExhausted
ConnectionsConserved == Pool!ConnectionsConserved
RetryIsFresh == Tokens!RetryIsFresh
NoReplacement == Tokens!NoReplacement

\* One execute_sql call, whatever the warehouse and the network do: the statement
\* is started at most once; where it is left running, the caller has an error after
\* an exchange that failed, a timeout after a failed cancel, or went away itself;
\* the rows are a beginning of the result, within the limits, and an answer that
\* is not marked truncated has every row of the chunks the client asks for, which
\* are not all of them with Databricks, of what the warehouse handed out, which
\* Snowflake may have cut; and no complete answer is marked.
StatementSound == StatementTypeOK /\ StartedOnce /\ NoOrphan /\ CompleteUnlessTruncated /\ TruncatedIsShort /\ RowsBounded

\* The DuckDB pool: whatever fails or goes away, connections and slots agree and
\* a caller with a slot gets a connection.
PoolSound == NeverExhausted /\ ConnectionsConserved

\* Credentials that requests share: a refused session is not used again by the
\* retry, and a token in use is not replaced by one loaded at the same time.
TokensFresh == []RetryIsFresh /\ NoReplacement

\* A request that waits for a slot gets it and a statement's call ends, however
\* long the warehouse keeps the statement pending.
CallsEnd == WaitEnds /\ StatementEnds
=============================================================================
