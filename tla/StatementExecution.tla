-------------------------- MODULE StatementExecution --------------------------
(***************************************************************************)
(* One execute_sql call against a remote warehouse: tools/sql.rs and the   *)
(* clients of Databricks, Snowflake and BigQuery under src/src/warehouse/. *)
(* The statement is submitted once, polled until it ends or max_poll is    *)
(* over, and its result is collected chunk by chunk (chunk, partition or   *)
(* page) under the limits on rows, bytes and chunks.                       *)
(*                                                                         *)
(* The warehouse is external: `job` is its state there. A row is the pair  *)
(* of its chunk and its position, and counts as one byte. Databricks and   *)
(* Snowflake get the row limit with the statement and hand out no more     *)
(* rows; `withheld` says that there were more. Databricks says so in the   *)
(* manifest of the result, Snowflake does not.                             *)
(***************************************************************************)
EXTENDS Integers, Sequences, FiniteSets, SequencesExt

CONSTANTS
  Providers,    \* the clients to check
  Shapes,       \* results: sequences of the number of rows of each chunk
  RowLimits,    \* row_limit of the request, None if it is not given
  ChunkLimits,  \* max_chunks of the request, None if it is not given
  MaxRows,      \* sql_max_row_limit of the configuration, 0 for no maximum
  MaxChunks,    \* sql_max_chunks of the configuration, 0 for no maximum
  DefaultRows,  \* PROVIDER_DEFAULT_ROW_LIMIT
  DefaultChunks,\* PROVIDER_DEFAULT_MAX_CHUNKS
  MaxPoll,      \* max_poll in sleeps of the poll loop
  GetRetries    \* DATABRICKS_MAX_GET_RETRIES

None == -1

VARIABLES
  provider, request, shape,   \* the call and the result it would have
  maxRows, maxChunks,         \* the configured maxima
  withheld,                   \* the warehouse cuts the result to the row limit
  job,                        \* the statement in the warehouse
  executions,                 \* how often the warehouse started it
  pc, elapsed, tries,         \* the client: step, sleeps taken, GET attempts
  rows, next, fetched, truncated,
  outcome,                    \* what the caller got
  failed                      \* the exchange with the warehouse that failed last

call == <<provider, request, shape, maxRows, maxChunks, withheld>>
collected == <<rows, next, fetched, truncated>>
vars == <<call, job, executions, pc, elapsed, tries, collected, outcome, failed>>

Running == job = "running"
Rows(c) == [i \in 1 .. shape[c] |-> <<c, i>>]

-----------------------------------------------------------------------------
(* The limits of the call.                                                 *)

\* Mutant: a request without a limit is not brought under the maximum.
OnlyClampGiven(asked, max, default) ==
  IF asked # None /\ max > 0 /\ asked > max THEN max ELSE asked

\* apply_sql_limits_with_config: a missing limit becomes the default of the
\* provider and a given one is lowered, both only under a configured maximum.
Bounded(asked, max, default) ==
  LET given == IF asked = None /\ max > 0
                 THEN (IF default < max THEN default ELSE max) ELSE asked
  IN  IF given # None /\ max > 0 /\ given > max THEN max ELSE given

\* ExecuteOptions of Databricks and the resolved options of the others, which
\* raise a limit of zero to one.
RowLimit ==
  LET b == Bounded(request.rows, maxRows, DefaultRows)
      l == IF b = None THEN DefaultRows ELSE b
  IN  IF provider # "databricks" /\ l = 0 THEN 1 ELSE l

ChunkLimit ==
  LET b == Bounded(request.chunks, maxChunks, DefaultChunks)
      l == IF b = None THEN DefaultChunks ELSE b
  IN  IF provider # "databricks" /\ l = 0 THEN 1 ELSE l

FirstOf(s, n) == SubSeq(s, 1, IF n < Len(s) THEN n ELSE Len(s))

\* Mutant: the row that reaches the limit is taken as well.
AppendOneMore(rs, chunk) == FirstOf(chunk, RowLimit - Len(rs) + 1)

\* append_limited_rows, append_rows: the rows of a chunk that still fit.
Fitting(rs, chunk) == FirstOf(chunk, RowLimit - Len(rs))

RowsHandedOut == FoldLeft(LAMBDA acc, n : acc + n, 0, shape)

-----------------------------------------------------------------------------
Init ==
  /\ provider \in Providers
  /\ request \in [rows : RowLimits, chunks : ChunkLimits, fetchAll : BOOLEAN]
  /\ shape \in Shapes
  /\ maxRows \in MaxRows /\ maxChunks \in MaxChunks
  /\ withheld \in BOOLEAN
  /\ withheld => provider # "bigquery" /\ RowsHandedOut = RowLimit
  /\ job = "none" /\ executions = 0
  /\ pc = "submit" /\ elapsed = 0 /\ tries = 0
  /\ rows = <<>> /\ next = 1 /\ fetched = 0 /\ truncated = FALSE
  /\ outcome = "none" /\ failed = "none"

Finish(result) ==
  /\ pc' = "done" /\ outcome' = result
  /\ UNCHANGED <<call, job, executions, elapsed, tries, collected>>

\* The warehouse accepts the statement; a quick one has ended with the answer.
Accept ==
  /\ pc = "submit"
  /\ executions' = executions + 1
  /\ job' \in {"running", "succeeded", "failed"}
  /\ pc' = IF job' = "running" THEN "poll" ELSE "result"
  /\ UNCHANGED <<call, elapsed, tries, collected, outcome, failed>>

SubmitDatabricks == provider = "databricks" /\ Accept
SubmitSnowflake == provider = "snowflake" /\ Accept
SubmitBigQuery == provider = "bigquery" /\ Accept

\* Mutant: a submission that fails is sent again.
SubmitAgain ==
  /\ pc = "submit" /\ executions < 2
  /\ failed' = "submit" /\ executions' = executions + 1 /\ job' = "running"
  /\ UNCHANGED <<call, pc, elapsed, tries, collected, outcome>>

\* The submission fails or its answer is lost or without a handle. It is not
\* repeated: the warehouse may have started the statement. (Snowflake repeats
\* it, under the same requestId, after a refused session only.)
SubmitFails ==
  /\ pc = "submit"
  /\ failed' = "submit"
  /\ pc' = "done" /\ outcome' = "error"
  /\ \E started \in BOOLEAN :
       /\ job' = IF started THEN "running" ELSE job
       /\ executions' = IF started THEN executions + 1 ELSE executions
  /\ UNCHANGED <<call, elapsed, tries, collected>>

\* The statement ends in the warehouse; Databricks may have closed its result.
JobEnds ==
  /\ Running
  /\ job' \in {"succeeded", "failed", "canceled"}
             \cup (IF provider = "databricks" THEN {"closed"} ELSE {})
  /\ UNCHANGED <<call, executions, pc, elapsed, tries, collected, outcome, failed>>

-----------------------------------------------------------------------------
(* poll_statement of Databricks and Snowflake, the loop of run_query.      *)

\* Mutant: the poll loop forgets to compare the time with max_poll.
SleepForever ==
  /\ pc = "poll"
  /\ elapsed' = IF elapsed < MaxPoll THEN elapsed + 1 ELSE elapsed
  /\ pc' = "get" /\ tries' = 0
  /\ UNCHANGED <<call, job, executions, collected, outcome, failed>>

\* The time is compared before and after each sleep.
Sleep ==
  /\ pc = "poll"
  /\ elapsed' = IF elapsed < MaxPoll THEN elapsed + 1 ELSE elapsed
  /\ pc' = IF elapsed' >= MaxPoll THEN "cancel" ELSE "get"
  /\ tries' = 0
  /\ UNCHANGED <<call, job, executions, collected, outcome, failed>>

\* A status answer: pending, or the end of the statement. Snowflake takes a
\* refusal for too many requests as pending.
Get ==
  /\ pc = "get"
  /\ pc' = IF Running THEN "poll" ELSE "result"
  /\ UNCHANGED <<call, job, executions, elapsed, tries, collected, outcome, failed>>

PollDatabricks == provider = "databricks" /\ (Sleep \/ Get)
PollSnowflake == provider = "snowflake" /\ (Sleep \/ Get)
PollBigQuery == provider = "bigquery" /\ (Sleep \/ Get)

\* Mutant: one retry too many.
GetFailsOnceMore ==
  /\ pc \in {"get", "fetch"} /\ UNCHANGED failed
  /\ tries <= GetRetries /\ tries' = tries + 1
  /\ UNCHANGED <<call, job, executions, pc, elapsed, collected, outcome>>

\* A failing status request is retried by Databricks, if the failure is a
\* transient one (send_json_get_with_retries), and ends the call otherwise;
\* the statement goes on.
GetFails ==
  /\ pc \in {"get", "fetch"}
  /\ \/ /\ provider = "databricks" /\ tries < GetRetries
        /\ tries' = tries + 1
        /\ UNCHANGED <<call, job, executions, pc, elapsed, collected, outcome, failed>>
     \/ Finish("error") /\ failed' = "get"

\* Mutant: a timeout is reported without cancelling the statement.
TimeoutOnly == pc = "cancel" /\ Finish("timeout") /\ UNCHANGED failed

\* poll_timeout_error, query_poll_timeout_error: the statement is cancelled; a
\* failing cancel request is only logged.
Cancel ==
  /\ pc = "cancel"
  /\ pc' = "done" /\ outcome' = "timeout"
  /\ \/ job' = (IF Running THEN "canceled" ELSE job) /\ UNCHANGED failed
     \/ failed' = "cancel" /\ UNCHANGED job
  /\ UNCHANGED <<call, executions, elapsed, tries, collected>>

\* The call is dropped by its own deadline, wherever it is.
Abandon == pc # "done" /\ Finish("dropped") /\ UNCHANGED failed

-----------------------------------------------------------------------------
(* process_success and its counterparts.                                   *)

\* The statement ended without a result.
ResultFails ==
  /\ pc = "result" /\ job # "succeeded"
  /\ Finish("error") /\ UNCHANGED failed

\* The answer carries the first chunk, or no rows at all. Databricks does not
\* mark a result that fetch_all_chunks = false cuts.
FirstChunk ==
  /\ pc = "result" /\ job = "succeeded"
  /\ \E inline \in BOOLEAN :
       LET n == IF inline /\ shape # <<>> THEN 1 ELSE 0
           chunk == IF n = 1 THEN Rows(1) ELSE <<>>
       IN  /\ rows' = Fitting(rows, chunk)
           /\ fetched' = n
           /\ next' = n + 1
           /\ truncated' = \/ Fitting(rows, chunk) # chunk
                           \/ /\ provider # "databricks" /\ ~request.fetchAll
                              /\ n < Len(shape)
  /\ pc' = "fetch" /\ tries' = 0
  /\ UNCHANGED <<call, job, executions, elapsed, outcome, failed>>

More == request.fetchAll /\ ~truncated /\ next <= Len(shape)

\* Mutant: a chunk that just fills the limit marks the result.
FetchToTheBrim ==
  /\ rows' = rows \o Fitting(rows, Rows(next))
  /\ truncated' = (Len(rows') >= RowLimit)
  /\ next' = next + 1 /\ fetched' = fetched + 1 /\ tries' = 0
  /\ UNCHANGED <<call, job, executions, pc, elapsed, outcome, failed>>

FetchChunk ==
  /\ rows' = rows \o Fitting(rows, Rows(next))
  /\ truncated' = (Fitting(rows, Rows(next)) # Rows(next))
  /\ next' = next + 1 /\ fetched' = fetched + 1 /\ tries' = 0
  /\ UNCHANGED <<call, job, executions, pc, elapsed, outcome, failed>>

\* Mutant: the chunks beyond the limit are left out quietly.
LeaveOut == Finish("ok") /\ UNCHANGED failed

Mark ==
  /\ truncated' = TRUE
  /\ UNCHANGED <<call, job, executions, pc, elapsed, tries, rows, next, fetched, outcome, failed>>

\* Databricks takes the first max_chunks chunks of the manifest and forgets
\* about the others; the other two count what they fetched and mark the rest.
ResultDatabricks ==
  /\ pc = "fetch" /\ provider = "databricks" /\ More
  /\ next <= ChunkLimit /\ FetchChunk

PartitionsSnowflake ==
  /\ pc = "fetch" /\ provider = "snowflake" /\ More
  /\ IF fetched >= ChunkLimit THEN Mark ELSE FetchChunk

PagesBigQuery ==
  /\ pc = "fetch" /\ provider = "bigquery" /\ More
  /\ IF fetched >= ChunkLimit THEN Mark ELSE FetchChunk

\* The rows are handed to the caller; what the manifest of Databricks says of a
\* cut is passed on.
Deliver ==
  /\ pc = "fetch"
  /\ ~More \/ (provider = "databricks" /\ next > ChunkLimit)
  /\ pc' = "done" /\ outcome' = "ok"
  /\ truncated' = (truncated \/ (provider = "databricks" /\ withheld))
  /\ UNCHANGED <<call, job, executions, elapsed, tries, rows, next, fetched, failed>>

ClientStep ==
  \/ SubmitDatabricks \/ SubmitSnowflake \/ SubmitBigQuery
  \/ PollDatabricks \/ PollSnowflake \/ PollBigQuery \/ Cancel
  \/ ResultFails \/ FirstChunk
  \/ ResultDatabricks \/ PartitionsSnowflake \/ PagesBigQuery \/ Deliver

Done == pc = "done" /\ ~Running /\ UNCHANGED vars

Next == ClientStep \/ SubmitFails \/ GetFails \/ JobEnds \/ Abandon \/ Done

Spec == Init /\ [][Next]_vars

\* The client is scheduled; nothing is assumed of the warehouse.
FairSpec == Spec /\ WF_vars(ClientStep)

-----------------------------------------------------------------------------
(* Properties.                                                             *)

\* Every variable has its type.
TypeOK ==
  /\ provider \in Providers /\ shape \in Shapes
  /\ job \in {"none", "running", "succeeded", "failed", "canceled", "closed"}
  /\ executions \in Nat
  /\ pc \in {"submit", "poll", "get", "cancel", "result", "fetch", "done"}
  /\ elapsed \in 0 .. MaxPoll /\ tries \in 0 .. GetRetries
  /\ next \in 1 .. Len(shape) + 1 /\ fetched \in 0 .. Len(shape)
  /\ truncated \in BOOLEAN /\ failed \in {"none", "submit", "get", "cancel"}
  /\ outcome \in {"none", "ok", "error", "timeout", "dropped"}

\* The statement is never started twice by one call, whichever request of it
\* fails: only GETs are retried.
StartedOnce == executions <= 1

Before(a, b) == a[1] < b[1] \/ (a[1] = b[1] /\ a[2] < b[2])
Taken(rs, c, i) == \E k \in DOMAIN rs : rs[k] = <<c, i>>
AllTaken(rs) == \A c \in 1 .. Len(shape) : \A i \in 1 .. shape[c] : Taken(rs, c, i)

\* The rows, from the first one on, in their order, each once and none skipped.
Beginning(rs) ==
  /\ \A k \in DOMAIN rs : \E c \in 1 .. Len(shape) : \E i \in 1 .. shape[c] : rs[k] = <<c, i>>
  /\ \A j, k \in DOMAIN rs : j < k => Before(rs[j], rs[k])
  /\ \A k \in DOMAIN rs : \A c \in 1 .. Len(shape) : \A i \in 1 .. shape[c] :
       Before(<<c, i>>, rs[k]) => Taken(rs, c, i)

\* The chunks an answer is about. Databricks forgets those behind the first
\* max_chunks, and with fetch_all_chunks = false all but the one in its answer.
Asked(c) == provider = "databricks" => request.fetchAll /\ c <= ChunkLimit

\* A result is the beginning of the statement's rows in their order. Unless it is
\* marked truncated it has every row of every chunk the call asks for, which are
\* all of them but for Databricks; and a cut by the warehouse is marked but for
\* Snowflake. So the answers that are limited and do not say so, against
\* docs/api/response-format.md:48, are those in which Databricks leaves out chunks
\* and those in which Snowflake cuts the rows (rows_per_resultset), and no others.
CompleteUnlessTruncated ==
  outcome = "ok" =>
    /\ Beginning(rows)
    /\ truncated \/ \A c \in 1 .. Len(shape) : Asked(c) => \A i \in 1 .. shape[c] : Taken(rows, c, i)
    /\ withheld => truncated \/ provider = "snowflake"

\* The mark is not put on a complete result: a limit that the last row just
\* reaches does not count, and where all rows are there a chunk was not asked for.
TruncatedIsShort == outcome = "ok" /\ truncated => ~AllTaken(rows) \/ next <= Len(shape) \/ withheld

\* No result has more rows than the configuration allows.
RowsBounded == maxRows > 0 => Len(rows) <= maxRows

\* A call that ends with its statement running in the warehouse has not got its
\* rows and says so: by an error, after a submission or a poll that failed for
\* good, or by a timeout, after a cancel request that failed. Nothing is cancelled
\* in the first case: only a timeout cancels. (A call its own deadline drops says
\* nothing and cancels nothing.)
NoOrphan ==
  Running /\ outcome # "none" =>
    \/ outcome = "error" /\ failed \in {"submit", "get"}
    \/ outcome = "timeout" /\ failed = "cancel"
    \/ outcome = "dropped"

\* Every call ends, however long the statement runs.
CallEnds == <>(outcome # "none")
=============================================================================
