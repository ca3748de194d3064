------------------------------- MODULE MCServer -------------------------------
(***************************************************************************)
(* The server for TLC: a behaviour is one of tool calls, of the            *)
(* verification of hosted requests or of the trace, as `part` says, or     *)
(* takes one input of what is done to a statement before it is executed    *)
(* or to an answer before it is sent.                                      *)
(***************************************************************************)
EXTENDS ToolRequests, SqlStatements, ResponseBudget

CONSTANTS Callers, Keys, MaxAge, Skew, Top, Writers, Procs, MaxBytes, RowBytes, MaxCalls,
          Chars, MaxStatement, NodeKinds, MaxNodes, ItemSizes, MaxItems, Limits, Budgets, Cuts

VARIABLES part, mode, published, jwks, token, at, fetched, verdict, steady,
          file, nextIndex, home, seed, row, step, since,
          input   \* what was taken, as a set: nothing at first

ASSUME IdentityAssumption == MaxAge \in Nat /\ Skew \in Nat /\ Top \in Nat
ASSUME TraceAssumption == MaxBytes \in Nat /\ RowBytes \subseteq Nat /\ MaxCalls \in Nat

\* A page has at least one item, and each of the three cuts leaves some number.
ASSUME PagesAssumption ==
  /\ MaxStatement \in Nat /\ MaxItems \in Nat /\ MaxNodes \in Nat /\ NodeKinds \subseteq SetExprs
  /\ ItemSizes \subseteq Nat /\ Limits \subseteq Nat \ {0} /\ Budgets \subseteq Nat
  /\ Cuts \in [1 .. 3 -> [string : Nat, items : Nat]]

Identity == INSTANCE HostedIdentity
Trace == INSTANCE ToolTrace

identityVars == <<mode, published, jwks, token, at, fetched, verdict, steady>>
traceVars == <<file, nextIndex, home, seed, row, step, since>>
mcVars == <<part, input, allVars, identityVars, traceVars>>

MCChars == {"'", "dq", "-", "n", ":", "a", "$", "/", "*", "\\"}
MCCuts == <<[string |-> 3, items |-> 3], [string |-> 2, items |-> 2], [string |-> 1, items |-> 1]>>

Statements == UNION {[1 .. n -> Chars] : n \in 0 .. MaxStatement}

Queries == UNION {QueryTrees(NodeKinds, n) : n \in 1 .. MaxNodes}
StatementLists == UNION {[1 .. 1 -> [kind : {"query", "explain_query", "explain_other", "drop"}, query : Queries]],
                         UNION {[1 .. n -> [kind : {"query"}, query : QueryTrees(NodeKinds, 1)]] : n \in {0, 2}}}
Requested == [statements : StatementLists, provider : {"duckdb", "snowflake"}]

Probes ==
  [provider : {"databricks", "snowflake", "bigquery", "duckdb"}, configured : BOOLEAN, database : BOOLEAN,
   connection : {"present", "error", "empty"}, catalog : Targets, schema : Targets, relation : Targets]

\* A list and how it is asked for; `columns` are the places of get_undocumented's
\* list that are columns.
Lists == UNION {[1 .. n -> ItemSizes] : n \in 0 .. MaxItems}
Asked(kinds) == [kind : kinds, limit : Limits, budget : Budgets, includeMeta : BOOLEAN, cuts : {Cuts}]
Results ==
  UNION {[sizes : Lists, columns : {{}}, p : Asked({"array", "rows", "entities"})],
         [sizes : Lists, columns : SUBSET (1 .. MaxItems), p : Asked({"undocumented"})]}

Inputs(p) == CASE p = "placeholders" -> Statements [] p = "sql" -> Requested [] p = "preflight" -> Probes [] p = "pages" -> Results
Algorithms == {"placeholders", "sql", "preflight", "pages"}

Take == part \in Algorithms /\ input = {} /\ \E x \in Inputs(part) : input' = {x}

MCInit ==
  /\ part \in {"calls", "identity", "trace"} \cup Algorithms /\ input = {}
  /\ ToolsInit /\ Identity!Init /\ Trace!Init
  /\ IF part = "calls" THEN limited \/ kind = "sql" ELSE limited /\ kind = "sql" /\ ready
  /\ part # "identity" => mode = "jwt" /\ published = Keys
  /\ part # "trace" => home = [w \in Writers |-> CHOOSE p \in Procs : TRUE]

MCNext ==
  /\ UNCHANGED part
  /\ \/ part = "calls" /\ ToolsNext /\ UNCHANGED <<input, identityVars, traceVars>>
     \/ part = "identity" /\ Identity!Next /\ UNCHANGED <<input, allVars, traceVars>>
     \/ part = "trace" /\ Trace!Next /\ UNCHANGED <<input, allVars, identityVars>>
     \/ Take /\ UNCHANGED <<allVars, identityVars, traceVars>>
     \/ input # {} /\ UNCHANGED mcVars

CallsFairness ==
  \A r \in Requests :
    WF_mcVars(part = "calls" /\ Progress(r) /\ UNCHANGED <<part, input, identityVars, traceVars>>)

MCSpec == MCInit /\ [][MCNext]_mcVars /\ CallsFairness

\* ToolRequests!TimedWaitsEnd and EveryCallEnds, in the behaviours of tool calls.
CallsAnswered == part = "calls" => TimedWaitsEnd /\ EveryCallEnds

\* The properties of the verification and of the trace, by their names there.
KeySetUsable == Identity!KeySetUsable
GoodTokenAccepted == Identity!GoodTokenAccepted
AcceptedIsFresh == Identity!AcceptedIsFresh
FileBounded == Trace!FileBounded
ReadsWhatWasWritten == Trace!ReadsWhatWasWritten
IndexGrows == Trace!IndexGrows

\* SqlStatements!PlaceholdersAgree on every statement up to a length.
PlaceholdersAlike == part = "placeholders" => \A s \in input : PlaceholdersAgree(s)

\* SqlStatements!AllowedIsReadOnly on every query of a few expressions.
OnlyReads == part = "sql" => \A x \in input : AllowedIsReadOnly(x.statements, x.provider)

\* SqlStatements!ReadyIsUsable on every outcome of the probes.
ReadyMeansUsable == part = "preflight" => \A x \in input : ReadyIsUsable(x)

\* ResponseBudget!WithinBudget and PagingIsComplete, for every result up to a
\* length.
BudgetKept == part = "pages" => \A x \in input : WithinBudget(x.sizes, x.columns, x.p)
PagesComplete == part = "pages" => \A x \in input : PagingIsComplete(x.sizes, x.columns, x.p)

\* Statements before they are executed (tools/sql.rs, the scanners of the clients,
\* preflight.rs): both scanners see the same parameters, what is let through are
\* the queries that write nowhere outside of derived tables and subqueries, and a
\* report is ready for exactly the warehouses that can be used.
SqlSound == PlaceholdersAlike /\ OnlyReads /\ ReadyMeansUsable

\* Pages under a byte budget (response_budget.rs): no answer is larger than its
\* budget, and following next_offset shows every item once; where a page of
\* get_undocumented's two arrays is cut, that is not so.
AnswersFit == BudgetKept /\ PagesComplete

\* A tool call on all its ways out (handle_bounded_search_result, execute_sql): of
\* the calls that come once the searcher is there, a tool runs only on a slot of
\* its call, and each answer leaves the one record that tells of it.
CallsAccounted == ToolsTypeOK /\ RunsHoldSlots /\ RecordedAsAnswered

\* The verification of hosted requests while keys rotate and requests store key
\* sets over each other's: the set in the cache can verify, a token of a key that
\* is published throughout is accepted unless a set from before was in hand when
\* it came, and nothing stale is.
IdentitySound == KeySetUsable /\ GoodTokenAccepted /\ AcceptedIsFresh

\* The trace of several processes, any of which may die in the middle of a row:
\* the file keeps to its bound, what is read of it was written, and the numbers
\* of the calls grow.
TraceSound == []FileBounded /\ []ReadsWhatWasWritten /\ IndexGrows

\* Timed waits end, calls are answered if tools without a deadline end, and a search
\* with a deadline that comes late to its slot does not start its tool
\* (remaining_timeout, sql_queue_timeout).
CallsInTime == StartsInTime /\ CallsAnswered
===============================================================================
