---------------------------- MODULE SqlStatements ----------------------------
(***************************************************************************)
(* What is done to a statement before and around its execution: the        *)
(* read-only check of tools/sql.rs, the placeholder scanners of the        *)
(* Snowflake and DuckDB clients, and the preflight report of the four      *)
(* providers (warehouse/preflight.rs).                                     *)
(***************************************************************************)
EXTENDS Integers, Sequences, FiniteSets

-----------------------------------------------------------------------------
(* Placeholders. A statement is a sequence of characters; "a" stands for   *)
(* the characters of identifiers, "n" for the line end and "dq" for the    *)
(* double quote.                                                           *)

Char(s, i) == IF i \in DOMAIN s THEN s[i] ELSE "end"
ScanStates == {"code", "string", "dollar", "ident", "line", "block"}

\* Mutant: a line comment swallows the rest of the statement.
ScanToTheEnd(dollars, st, c, d) ==
  IF st = "line" THEN <<"line", 1>>
  ELSE IF st = "code" /\ c = "-" /\ d = "-" THEN <<"line", 2>>
  ELSE IF st = "code" /\ c = ":" /\ d = ":" THEN <<"code", 2>>
  ELSE <<st, 1>>

\* One step of a scanner in state st at character c with d behind it: the next
\* state and how many characters it consumes.
ScanStep(dollars, st, c, d) ==
  CASE st = "code" /\ c = "'" -> <<"string", 1>>
    [] st = "code" /\ c = "dq" -> <<"ident", 1>>
    [] st = "code" /\ dollars /\ c = "$" /\ d = "$" -> <<"dollar", 2>>
    [] st = "code" /\ c = "-" /\ d = "-" -> <<"line", 2>>
    [] st = "code" /\ c = "/" /\ d = "*" -> <<"block", 2>>
    [] st = "code" /\ c = ":" /\ d = ":" -> <<"code", 2>>
    [] st = "string" /\ dollars /\ c = "\\" -> <<"string", 2>>
    [] st = "string" /\ c = "'" -> IF d = "'" THEN <<"string", 2>> ELSE <<"code", 1>>
    [] st = "ident" /\ c = "dq" -> IF d = "dq" THEN <<"ident", 2>> ELSE <<"code", 1>>
    [] st = "dollar" /\ c = "$" /\ d = "$" -> <<"code", 2>>
    [] st = "line" /\ c = "n" -> <<"code", 1>>
    [] st = "block" /\ c = "*" /\ d = "/" -> <<"code", 2>>
    [] OTHER -> <<st, 1>>

\* Where a scanner is behind each character of a statement: its state, and
\* how many of the next characters it has consumed already.
Scan(dollars, s) ==
  LET behind[n \in 0 .. Len(s)] ==
        IF n = 0 THEN <<"code", 0>>
        ELSE LET before == behind[n - 1]
                 step == ScanStep(dollars, before[1], s[n], Char(s, n + 1))
             IN  IF before[2] = 1 THEN <<before[1], 0>> ELSE <<step[1], step[2] - 1>>
  IN  behind

\* rewrite_named_parameters of DuckDB: the positions of the colons that are
\* replaced by a question mark.
DuckDbPlaceholders(s) ==
  LET scan == Scan(FALSE, s)
  IN  {i \in 1 .. Len(s) : scan[i - 1] = <<"code", 0>> /\ s[i] = ":" /\ Char(s, i + 1) = "a"}

\* The same of Snowflake, with $$ strings and backslashes, and with a colon
\* behind an identifier or a bracket taken for a path into a value.
SnowflakePlaceholders(s) ==
  LET scan == Scan(TRUE, s)
  IN  {i \in 1 .. Len(s) : /\ scan[i - 1] = <<"code", 0>> /\ s[i] = ":" /\ Char(s, i + 1) = "a"
                          /\ Char(s, i - 1) \notin {"a", "dq", "$"}}

\* The code of a statement after the replacement, to be scanned again.
Replaced(s, places) ==
  [i \in DOMAIN s |-> IF i \in places THEN "?" ELSE s[i]]

\* One statement is understood alike by both clients as long as it uses
\* nothing of Snowflake's own syntax, and no placeholder is left behind or
\* made up by the replacement.
PlaceholdersAgree(s) ==
  LET plain == /\ \A i \in DOMAIN s : s[i] \notin {"$", "\\"}
               /\ \A i \in DOMAIN s : s[i] = ":" => Char(s, i - 1) \notin {"a", "dq"}
  IN  /\ plain => DuckDbPlaceholders(s) = SnowflakePlaceholders(s)
      /\ DuckDbPlaceholders(Replaced(s, DuckDbPlaceholders(s))) = {}
      /\ SnowflakePlaceholders(Replaced(s, SnowflakePlaceholders(s))) = {}
      /\ \A i \in DuckDbPlaceholders(s) :
           \* an even number of quotes before it, or a comment that hides one
           \/ Cardinality({j \in 1 .. i - 1 : s[j] = "'"}) % 2 = 0
           \/ \E j \in 1 .. i - 1 : s[j] \in {"dq", "-", "/"}

-----------------------------------------------------------------------------
(* The read-only check. A query is a tree of set expressions, numbered     *)
(* from the root on: each has a kind and, but for the root, the place where*)
(* it stands in the one above it: a common table expression of it ("cte"), *)
(* an operand of a set operation or the query in brackets ("operand"), or  *)
(* somewhere in its clauses, a derived table or a subquery ("derived").    *)
(* `external` has the expressions that call a function that reads files.   *)

SetExprs == {"select", "select_into", "values", "table", "setop", "query", "insert", "update", "delete", "merge"}
Writing == {"select_into", "insert", "update", "delete", "merge"}
Stands == {"cte", "operand", "derived"}
Brackets == {"setop", "query"}

QueryTrees(kinds, n) ==
  {q \in [size : {n}, kind : [1 .. n -> kinds], parent : [1 .. n -> 0 .. n - 1], place : [1 .. n -> Stands],
          external : SUBSET (1 .. n)] :
     /\ q.parent[1] = 0 /\ q.place[1] = "operand"
     /\ \A i \in 2 .. n :
          /\ q.parent[i] \in 1 .. i - 1
          /\ q.place[i] = "operand" => q.kind[q.parent[i]] \in Brackets
          /\ q.place[i] = "derived" => q.kind[q.parent[i]] \notin Brackets}

\* Mutant: the common table expressions are not looked at.
OperandsOnly(q, n) == {c \in 1 .. q.size : q.parent[c] = n /\ q.place[c] = "operand"}

\* Where the check goes on from an expression: not into the clauses of a SELECT.
LookedAt(q, n) == {c \in 1 .. q.size : q.parent[c] = n /\ q.place[c] \in {"cte", "operand"}}

\* validate_set_expr_is_read_only, but for the expressions it goes on to.
SetExprReadOnly(e) == e \in {"select", "values", "table", "setop", "query"}

\* validate_query_body_is_read_only of the root.
QueryReadOnly(q) ==
  LET readOnly[n \in 1 .. q.size] ==
        SetExprReadOnly(q.kind[n]) /\ \A c \in LookedAt(q, n) : readOnly[c]
  IN  readOnly[1]

\* validate_sql_statement_for_provider. A statement is [kind, query]. Only one
\* statement is accepted, a query or an EXPLAIN of one. The visitor that looks for
\* functions that read files comes to every expression.
StatementAllowed(statements, provider) ==
  /\ Len(statements) = 1
  /\ LET st == statements[1]
     IN  /\ st.kind \in {"query", "explain_query"}
         /\ QueryReadOnly(st.query)
         /\ provider \in {"duckdb", "generic"} => st.query.external = {}

\* What is not inside a derived table or a subquery: the smallest set with the
\* root and with whatever stands elsewhere in one of its expressions.
Exposed(q) ==
  {n \in 1 .. q.size :
     \A s \in SUBSET (1 .. q.size) :
       (1 \in s /\ \A c \in 1 .. q.size : q.parent[c] \in s /\ q.place[c] # "derived" => c \in s)
         => n \in s}

\* What is let through is exactly one query, or an EXPLAIN of one, in which nothing
\* writes outside of derived tables and subqueries, however deep in common table
\* expressions and operands it is, and which on DuckDB calls no function that
\* reads files, wherever. What stands in a derived table or a subquery is left to
\* the parser and to the warehouse.
AllowedIsReadOnly(statements, provider) ==
  StatementAllowed(statements, provider) <=>
    /\ DOMAIN statements = {1}
    /\ \A i \in DOMAIN statements :
         /\ statements[i].kind \in {"query", "explain_query"}
         /\ \A n \in Exposed(statements[i].query) : statements[i].query.kind[n] \notin Writing
         /\ provider \in {"duckdb", "generic"} =>
              \A n \in 1 .. statements[i].query.size : n \notin statements[i].query.external

-----------------------------------------------------------------------------
(* Preflight. A probe target is absent, invalid (its name does not         *)
(* normalize), present, empty or failing.                                  *)

Targets == {"absent", "invalid", "present", "empty", "error"}

\* run_optional_object_check: no check without a target; ok only if present.
ObjectCheck(name, target) ==
  IF target = "absent" THEN {} ELSE {[name |-> name, ok |-> target = "present"]}

\* run_connectivity_check.
ConnectivityCheck(ok) == {[name |-> "connectivity", ok |-> ok]}

\* build_configuration_failure_response.
ConfigurationFailure == {[name |-> "configuration", ok |-> FALSE]}

\* A schema is looked for in the catalog of the request or in a default one.
SchemaIn(p, default) ==
  IF p.schema = "absent" THEN "absent"
  ELSE IF p.catalog = "invalid" \/ (p.catalog = "absent" /\ ~default)
    THEN "invalid" ELSE p.schema

PreflightDatabricks(p) ==
  IF ~p.configured THEN ConfigurationFailure
  ELSE ConnectivityCheck(p.connection # "error")
       \cup ObjectCheck("catalog_access", p.catalog)
       \cup ObjectCheck("schema_access", p.schema)
       \cup ObjectCheck("relation_access", p.relation)

PreflightSnowflake(p) ==
  IF ~p.configured THEN ConfigurationFailure
  ELSE ConnectivityCheck(p.connection # "error")
       \cup ObjectCheck("catalog_access", p.catalog)
       \cup ObjectCheck("schema_access", SchemaIn(p, p.database))
       \cup ObjectCheck("relation_access", p.relation)

PreflightBigQuery(p) ==
  IF ~p.configured THEN ConfigurationFailure
  ELSE ConnectivityCheck(p.connection # "error")
       \cup ObjectCheck("catalog_access", p.catalog)
       \cup ObjectCheck("schema_access", SchemaIn(p, TRUE))
       \cup ObjectCheck("relation_access", p.relation)

\* Only DuckDB takes an empty answer of the connectivity probe for a failure.
PreflightDuckDb(p) ==
  IF ~p.configured THEN ConfigurationFailure
  ELSE {[name |-> "configuration", ok |-> TRUE]}
       \cup ConnectivityCheck(p.connection = "present")
       \cup ObjectCheck("catalog_access", p.catalog)
       \cup ObjectCheck("schema_access", SchemaIn(p, TRUE))
       \cup ObjectCheck("relation_access", p.relation)

Preflight(p) ==
  CASE p.provider = "databricks" -> PreflightDatabricks(p)
    [] p.provider = "snowflake" -> PreflightSnowflake(p)
    [] p.provider = "bigquery" -> PreflightBigQuery(p)
    [] p.provider = "duckdb" -> PreflightDuckDb(p)

\* Mutant: the last check decides.
ReadyByLast(checks) ==
  \E c \in checks : c.ok /\ c.name \in {"relation_access", "connectivity"}

\* push_failure clears `ready`, which nothing sets again.
Ready(checks) == \A c \in checks : c.ok

\* What a warehouse can be used for, whichever provider it is of: it is configured
\* and answers (DuckDB with a row), has every object that was asked for, and a
\* schema was asked for in a database, which Snowflake has no default for.
Usable(p) ==
  /\ p.configured
  /\ p.connection \in (IF p.provider = "duckdb" THEN {"present"} ELSE {"present", "empty"})
  /\ {p.catalog, p.schema, p.relation} \subseteq {"absent", "present"}
  /\ p.provider = "snowflake" /\ p.schema # "absent" => p.catalog = "present" \/ p.database

\* Each of the four providers is reported ready exactly when it is usable,
\* whichever of its checks come after a failed one.
ReadyIsUsable(p) == Ready(Preflight(p)) <=> Usable(p)
=============================================================================
