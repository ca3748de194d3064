----------------------------- MODULE EvalSuites -----------------------------
(***************************************************************************)
(* Eval suites: which are accepted (src/src/cli/eval_cmd/validation.rs),   *)
(* which of their cases a run takes and where it puts their artifacts, how *)
(* an agent case runs (eval_cmd.rs, provider.rs) and what the assertions   *)
(* on a tool's response see of it (assertions.rs).                         *)
(* An id is a sequence of characters, a date a number, a blank text None.  *)
(***************************************************************************)
EXTENDS Integers, Sequences, FiniteSets, SequencesExt, EvalScoring

Missing == "missing"   \* an Option that is None
Blank == "blank"       \* a text of white space

-----------------------------------------------------------------------------
(* Case ids and the files named for them.                                  *)

TrimmedOf(chars, s) ==
  LET keep == {i \in DOMAIN s : s[i] \notin chars}
  IN  IF keep = {} THEN <<>>
      ELSE SubSeq(s, CHOOSE i \in keep : \A j \in keep : i <= j, CHOOSE i \in keep : \A j \in keep : i >= j)

Lower(s) == [i \in DOMAIN s |-> IF s[i] = "A" THEN "a" ELSE s[i]]

\* safe_path_segment; cap is MAX_SAFE_PATH_SEGMENT_CHARS.
SafePathSegment(id, cap) ==
  LET sanitized == [i \in DOMAIN id |-> IF id[i] \in {"a", "A", "-", "."} THEN id[i] ELSE "-"]
      trimmed == TrimmedOf({"-", "."}, sanitized)
      capped == SubSeq(trimmed, 1, IF Len(trimmed) < cap THEN Len(trimmed) ELSE cap)
  IN  IF capped = <<>> THEN <<"eval">> ELSE capped

\* Mutant: only the ids themselves must differ.
DistinctIds(ids, cap) ==
  LET trimmed(i) == TrimmedOf({" "}, ids[i])
  IN  \A i, j \in DOMAIN ids : trimmed(i) # <<>> /\ (i # j => trimmed(i) # trimmed(j))

\* validate_case_ids.
ValidCaseIds(ids, cap) ==
  LET trimmed(i) == TrimmedOf({" "}, ids[i])
  IN  \A i, j \in DOMAIN ids :
        /\ trimmed(i) # <<>>
        /\ i # j => /\ trimmed(i) # trimmed(j)
                    /\ Lower(SafePathSegment(trimmed(i), cap)) # Lower(SafePathSegment(trimmed(j), cap))

\* normalized_case_filter, selected_bridge_cases, selected_agent_cases and
\* validate_selected_cases: the positions taken, or an error. The ids asked for
\* are trimmed, those of the suite are not.
SelectCases(ids, asked) ==
  LET wanted == {TrimmedOf({" "}, id) : id \in asked}
      taken == {i \in DOMAIN ids : ids[i] \in wanted}
  IN  CASE asked = {} -> [ok |-> TRUE, cases |-> DOMAIN ids]
        [] asked # {} /\ <<>> \notin wanted /\ wanted \subseteq {ids[i] : i \in taken} -> [ok |-> TRUE, cases |-> taken]
        [] OTHER -> [ok |-> FALSE, cases |-> {}]

\* Two cases of an accepted suite never write the same files, not even where
\* names differ only in case are one file: prepare_agent_case_paths names them
\* by the id as it is, validate_suite compared the trimmed ids. And a run that
\* is asked for cases runs each of them once, or none at all.
CasesApart(ids, asked, cap) ==
  ValidCaseIds(ids, cap) =>
    /\ \A i, j \in DOMAIN ids : i # j => Lower(SafePathSegment(ids[i], cap)) # Lower(SafePathSegment(ids[j], cap))
    /\ LET s == SelectCases(ids, asked)
       IN  s.ok /\ asked # {} => Cardinality(s.cases) = Cardinality({TrimmedOf({" "}, id) : id \in asked})

-----------------------------------------------------------------------------
(* Date anchors. A date is a number, Blank or Missing.                     *)

\* validate_date_anchor and validate_optional_date.
ValidAnchor(a) == \A f \in {"snapshot", "start", "end", "field"} : a[f] # Blank

\* effective_date_anchor, DateAnchor::normalized.
EffectiveAnchor(suite, case) ==
  [f \in {"snapshot", "start", "end", "field"} |->
     IF case[f] \in {Missing, Blank} THEN (IF suite[f] = Blank THEN Missing ELSE suite[f]) ELSE case[f]]

\* Mutant: the anchor of the case alone.
AnchorOfCase(suite, case) == case

\* Whether dates, ordered by `before`, make sense together:
\* validate_complete_date_anchor.
CompleteAnchor(a, before) ==
  /\ (a.start = Missing) = (a.end = Missing)
  /\ a.start # Missing /\ a.end # Missing => <<a.end, a.start>> \notin before
  /\ a.snapshot = Missing /\ a.start = Missing => a.field = Missing

\* The anchor by which validate_suite judges a case.
JudgedAnchor(suite, case) == EffectiveAnchor(suite, case)

\* validate_suite, for the anchors of a suite with cases.
ValidAnchors(suite, cases, before) ==
  /\ ValidAnchor(suite)
  /\ cases = {} => CompleteAnchor(EffectiveAnchor(suite, suite), before)
  /\ \A c \in cases : ValidAnchor(c) /\ CompleteAnchor(JudgedAnchor(suite, c), before)

\* What an agent is told of dates (agent_prompt) is the suite's anchor where the
\* case has none of its own, field by field; the mixture never has a range with
\* one end, or a range that ends before it starts.
AnchorsAgree(suite, cases, before) ==
  ValidAnchors(suite, cases, before) =>
    \A c \in cases :
      LET told == EffectiveAnchor(suite, c)
      IN  /\ (told.start = Missing) = (told.end = Missing)
          /\ <<told.end, told.start>> \notin before
          /\ told.field # Missing => told.snapshot # Missing \/ told.end # Missing

-----------------------------------------------------------------------------
(* What a suite may ask for.                                               *)

\* validate_assertion, validate_sql_structure_field: the texts an assertion must
\* have, at least one of `any`, and sizes above zero.
ValidAssertion(a) ==
  /\ a.any # {} => \E t \in a.any : t # Missing /\ t # Blank
  /\ \A t \in a.needed : t # Blank
  /\ \A t \in a.optional : t # Blank
  /\ \A n \in a.sizes : n > 0
  /\ a.sqlParses

\* Mutant: a call may be expected with nothing said of it.
ExpectedUnbound(e) ==
  /\ \A r \in e.ranks : r.id # Blank /\ r.tool # Blank /\ r.max # 0
  /\ \A c \in e.calledWith : c.tool # Blank /\ c.scalar
  /\ \A s \in e.structures : s.tool # Blank /\ s.parses
  /\ \A n \in e.budgets : n > 0

\* validate_agent_expected, is_safe_expected_param_value. The max of a rank is
\* -1 when there is none.
ValidExpected(e) ==
  /\ \A r \in e.ranks : r.id # Blank /\ r.tool # Blank /\ r.max # 0
  /\ \A c \in e.calledWith :
       c.tool # Blank /\ c.params \cup c.contains # {} /\ Blank \notin c.params \cup c.contains /\ c.scalar
  /\ \A s \in e.structures : s.tool # Blank /\ s.parses
  /\ \A n \in e.budgets : n > 0

\* validate_suite.
ValidSuite(s, cap) ==
  /\ s.version > 0
  /\ s.threshold = Missing \/ s.thresholdInRange
  /\ ValidCaseIds(s.ids, cap) /\ ValidCaseIds(s.agentIds, cap)
  /\ \A c \in s.cases : c # {} /\ \A a \in c : ValidAssertion(a)
  /\ \A c \in s.agentCases : c.task # Blank /\ ValidExpected(c.expected)

\* No expectation of an accepted agent case is met by merely calling the tools
\* it names, whatever they answer or are asked: each can tell a run from
\* another.
ExpectationsBite(suite, cap) ==
  ValidSuite(suite, cap) =>
    \A case \in suite.agentCases :
      LET e == case.expected
          idle(tool) == <<[tool |-> tool, params |-> {}, structure |-> Absent, top |-> <<>>]>>
      IN  /\ \A c \in e.calledWith : ~CalledWith(idle(c.tool), [tool |-> c.tool, params |-> c.params \cup c.contains])
          /\ \A r \in e.ranks : ~RankHolds(idle(r.tool), r)
          /\ \A s \in e.structures : ~StructureHolds(idle(s.tool), s)

-----------------------------------------------------------------------------
(* A run of one agent case.                                                *)

\* provider_invocation, default_provider_command, default_provider_args,
\* apply_provider_model_arg and substitute_provider_args: where the prompt
\* stands in the arguments, or Missing with an error.
ProviderInvocation(a) ==
  LET known == a.provider \in {"opencode", "codex", "claude", "goose"}
      ok == /\ a.command # Blank /\ (a.command = Missing => known)
            /\ a.args = Missing => known
            /\ a.model = Missing \/ (a.provider = "opencode" /\ a.args = Missing)
      base == CASE a.args # Missing -> a.args
                [] a.args = Missing /\ a.provider = "opencode" -> <<"run", "--format", "json", "prompt">>
                [] a.args = Missing /\ a.provider = "codex" -> <<"exec", "--json", "--cd", "workdir", "prompt">>
                [] a.args = Missing /\ a.provider = "claude" -> <<"-p", "--verbose", "--output-format", "stream-json", "prompt">>
                [] OTHER -> <<"run", "--text", "prompt", "--output-format", "stream-json", "--no-session">>
  IN  IF ~ok THEN Missing
      ELSE IF a.model = Missing THEN base
      ELSE SubSeq(base, 1, Len(base) - 1) \o <<"--model", a.model, Last(base)>>

\* run_provider_command and run_agent_provider: what is left of a run of the
\* provider. One that takes too long is killed and its output is lost, but the
\* rows its server already traced are in the trace file.
RunProvider(p) ==
  CASE p = "timeout" -> [stdout |-> FALSE, assertion |-> "error"]
    [] p = "missing" -> [stdout |-> FALSE, assertion |-> "error"]
    [] p = "exit0" -> [stdout |-> TRUE, assertion |-> "pass"]
    [] p = "exit1" -> [stdout |-> TRUE, assertion |-> "fail"]

\* Mutant: rows of the file and of the output are put together.
TraceFromBoth(x, output) ==
  LET fromOutput == IF output.stdout THEN x.stdoutRows ELSE <<>>
  IN  [rows |-> x.fileRows \o fromOutput, errors |-> x.fileErrors]

\* finish_agent_case_report: the provider's output is read when the file has
\* no rows.
TraceOf(x, output) ==
  LET fromOutput == IF output.stdout THEN x.stdoutRows ELSE <<>>
  IN  [rows |-> IF x.fileRows = <<>> THEN fromOutput ELSE x.fileRows, errors |-> x.fileErrors]

\* run_agent_case, prepare_agent_case_paths, agent_case_error_report and
\* finish_agent_case_report: the assertions on the run itself, then those on
\* the trace's length.
AgentCase(x) ==
  CASE ~x.dirs -> [rows |-> <<>>, assertions |-> <<"error">>]
    [] x.dirs /\ ProviderInvocation(x.args) = Missing -> [rows |-> <<>>, assertions |-> <<"error">>]
    [] OTHER ->
         LET output == RunProvider(x.provider)
             trace == TraceOf(x, output)
         IN  [rows |-> trace.rows,
              assertions |-> <<output.assertion>>
                \o (IF trace.rows = <<>> /\ x.requiresTrace THEN <<"error">> ELSE <<>>)
                \o [i \in 1 .. trace.errors |-> "error"]
                \o (IF x.maxCalls = 0 THEN <<>> ELSE <<IF Len(trace.rows) <= x.maxCalls THEN "pass" ELSE "fail">>)]

\* build_report: a report passes by its share of passed assertions; no
\* assertion at all is no pass, unless none is asked for.
ReportPasses(assertions, failUnder) ==
  LET pass == Len(SelectSeq(assertions, LAMBDA a : a = "pass"))
  IN  IF assertions = <<>> THEN failUnder <= 0 ELSE pass * 100 >= failUnder * Len(assertions)

\* A case passes in full only when the provider was started with the prompt and
\* ended by itself with success, and no call counts twice, however the trace
\* came in: by the file of the server it started, or by its own output.
AgentCaseSound(x) ==
  LET r == AgentCase(x)
  IN  /\ ReportPasses(r.assertions, 100) =>
           /\ x.dirs /\ x.provider = "exit0"
           /\ x.args.args = Missing => "prompt" \in ToSet(ProviderInvocation(x.args))
           /\ x.requiresTrace => r.rows # <<>>
      /\ x.fileRows = x.stdoutRows => Len(r.rows) <= Len(x.fileRows)

-----------------------------------------------------------------------------
(* Assertions on a response: a tree of two levels, a function of field     *)
(* names to leaves or to such functions. A leaf is [leaf |-> value].       *)

IsLeaf(v) == DOMAIN v = {"leaf"}
Null == "null"
NoValue == [leaf |-> Missing]

\* json_value_at_path.
ValueAt(response, path) ==
  LET step(v, key) == IF IsLeaf(v) \/ key \notin DOMAIN v THEN NoValue ELSE v[key]
  IN  FoldLeft(step, response, path)

\* json_has_field_path.
HasPath(response, path) ==
  LET v == ValueAt(response, path) IN v # NoValue /\ (IsLeaf(v) => v.leaf # Null)

\* The leaves of a response.
LeavesOf(v) ==
  LET under(w) == IF IsLeaf(w) THEN {w.leaf} ELSE {w[k].leaf : k \in {k \in DOMAIN w : IsLeaf(w[k])}}
  IN  IF IsLeaf(v) THEN {v.leaf} ELSE UNION {under(v[k]) : k \in DOMAIN v}

\* Mutant: a field that is not there is looked for anywhere.
ContainsAnywhere(response, path, expected) ==
  expected \in LeavesOf(IF path = <<>> \/ ValueAt(response, path) = NoValue THEN response ELSE ValueAt(response, path))

\* context_contains_assertion, contains_string_assertion and
\* json_contains_string_lower, with no field as the empty path.
ContextContains(response, path, expected) ==
  IF path = <<>> THEN expected \in LeavesOf(response)
  ELSE ValueAt(response, path) # NoValue /\ expected \in LeavesOf(ValueAt(response, path))

\* fields_assertion, context_field_equals_assertion.
FieldsThere(response, paths) == \A p \in paths : HasPath(response, p)
FieldEquals(response, path, expected) == ValueAt(response, path) = [leaf |-> expected]

\* tool_response_budget_assertion.
BudgetHolds(response, bytes, max, contain, omit) ==
  bytes <= max /\ FieldsThere(response, contain) /\ \A p \in omit : ~HasPath(response, p)

\* The assertions agree about a field: what a field equals it contains, and so
\* does the response; what it contains it has; and what is demanded is never
\* forbidden.
AssertionsAgree(response, path, expected) ==
  /\ expected # Null /\ FieldEquals(response, path, expected) => ContextContains(response, path, expected)
  /\ ContextContains(response, path, expected) => ContextContains(response, <<>>, expected)
  /\ expected # Null /\ ContextContains(response, path, expected) /\ path # <<>> => FieldsThere(response, {path})
  /\ ~BudgetHolds(response, 0, 1, {path}, {path}) \/ path = <<>>
=============================================================================
