---------------------------- MODULE EvalScoring ----------------------------
(***************************************************************************)
(* What an eval run makes of tool calls and answers: the tool trace read   *)
(* from a provider's output (src/src/cli/eval_cmd/provider.rs), the        *)
(* assertions on it and on responses (assertions.rs), the comparison of    *)
(* two runs (compare.rs) and the calendar of telemetry (telemetry.rs).     *)
(* Names, ids and texts are small values; lengths of texts are left out.   *)
(***************************************************************************)
EXTENDS Integers, Sequences, FiniteSets, SequencesExt

Absent == "absent"

-----------------------------------------------------------------------------
(* The trace of a provider's output.                                       *)

\* The ids of a response in order, each once, at most `max`:
\* push_provider_ordered_unique_id.
FirstIds(ids, max) ==
  LET push(out, id) == IF id = Absent \/ id \in ToSet(out) \/ Len(out) >= max THEN out ELSE Append(out, id)
  IN  FoldLeft(push, <<>>, ids)

\* provider_top_unique_ids: the first id of every row of `data`, or, when no
\* row has one, the ids anywhere in the response. collect_provider_unique_ids
\* and provider_response_telemetry.
ResponseRow(response, max) ==
  LET ofRows == FirstIds(response.data, max)
  IN  [top |-> IF ofRows # <<>> THEN ofRows ELSE FirstIds(response.nested, max),
       selected |-> (ToSet(response.data) \cup ToSet(response.nested)) \ {Absent},
       bytes |-> response.bytes]

\* provider_tool_row.
ToolRow(e, success, response, max) ==
  [tool |-> e.tool, params |-> e.params, structure |-> e.structure, success |-> success] @@ ResponseRow(response, max)

NoResponse == [data |-> <<>>, nested |-> <<>>, bytes |-> 0]

\* Mutant: a result belongs to the call before it.
IngestInOrder(st, e, max) ==
  CASE e.kind = "use" /\ e.nova ->
         [rows |-> Append(st.rows, ToolRow(e, TRUE, NoResponse, max)), byId |-> st.byId]
    [] e.kind = "result" /\ st.rows # <<>> ->
         [st EXCEPT !.rows[Len(st.rows)] = [success |-> ~e.error] @@ ResponseRow(e.response, max) @@ @]
    [] OTHER -> st

\* ProviderTraceState::ingest_event, for a completed call of Codex or OpenCode
\* and for the tool_use and tool_result parts of Claude's messages, which are
\* joined by their ids. Calls to other servers and tools are left out
\* (is_nova_mcp_server_alias, is_nova_tool_name).
IngestEvent(st, e, max) ==
  CASE e.kind \in {"codex", "opencode"} /\ e.nova ->
         [st EXCEPT !.rows = Append(@, ToolRow(e, ~e.error, e.response, max))]
    [] e.kind = "use" /\ e.nova ->
         [rows |-> Append(st.rows, ToolRow(e, TRUE, NoResponse, max)),
          byId |-> IF e.id = Absent THEN st.byId ELSE (e.id :> (Len(st.rows) + 1)) @@ st.byId]
    [] e.kind = "result" /\ e.id \in DOMAIN st.byId ->
         [st EXCEPT !.rows[st.byId[e.id]] = [success |-> ~e.error] @@ ResponseRow(e.response, max) @@ @]
    [] OTHER -> st

\* read_provider_tool_trace.
ProviderTrace(events, max) ==
  FoldLeft(LAMBDA st, e : IngestEvent(st, e, max), [rows |-> <<>>, byId |-> <<>>], events).rows

\* However results come in, in whatever order and with calls of other servers
\* in between, the trace has one row for each call of a tool of Nova, in the
\* order of the calls, and what a row says of the response is what that call
\* got: evals must not credit one call with the evidence of another.
TraceFollowsCalls(events, max) ==
  LET calls == SelectSeq(events, LAMBDA e : e.kind # "result" /\ e.nova)
      rows == ProviderTrace(events, max)
  IN  /\ Len(rows) = Len(calls)
      /\ \A i \in DOMAIN rows :
           LET own == IF calls[i].kind # "use" THEN {calls[i]}
                      ELSE {e \in ToSet(events) : e.kind = "result" /\ e.id = calls[i].id}
           IN  /\ rows[i].tool = calls[i].tool
               /\ own = {} => rows[i].selected = {}
               /\ own # {} => \E e \in own : rows[i].selected = (ToSet(e.response.data) \cup ToSet(e.response.nested)) \ {Absent}
               /\ ToSet(rows[i].top) \subseteq rows[i].selected

\* Mutant: the texts of tool calls and results are collected as well.
TextsAnywhere(node) ==
  LET own(n) == IF n.text = Absent THEN <<>> ELSE <<n.text>>
  IN  own(node) \o FlattenSeq([i \in DOMAIN node.children |-> own(node.children[i])])

\* collect_provider_text_content: the texts of a message, of nodes of up to two
\* levels, without those of tool calls and results.
TextsOf(node) ==
  LET own(n) == IF n.text = Absent \/ n.type = "tool" THEN <<>> ELSE <<n.text>>
  IN  IF node.type = "tool" THEN <<>>
      ELSE own(node) \o FlattenSeq([i \in DOMAIN node.children |-> own(node.children[i])])

\* read_provider_final_answer, collect_provider_final_answer_event,
\* join_provider_text_parts and the fallback of finish_agent_case_report to the
\* whole output.
FinalAnswer(events) ==
  LET texts(kinds) == FlattenSeq([i \in DOMAIN events |-> IF events[i].from \in kinds THEN TextsOf(events[i].node) ELSE <<>>])
  IN  CASE texts({"result"}) # <<>> -> texts({"result"})
        [] texts({"result"}) = <<>> /\ texts({"text", "assistant"}) # <<>> -> texts({"text", "assistant"})
        [] OTHER -> <<"whole output">>

\* What tools were asked or answered is not taken for the agent's answer once
\* the agent said anything, and a final result stands for all that was said
\* before it.
AnswerIsTheAgents(events) ==
  LET answer == FinalAnswer(events)
      said(kind) == UNION {{x.text : x \in {x \in {events[i].node} \cup ToSet(events[i].node.children) : x.type = "text"}} :
                              i \in {i \in DOMAIN events : events[i].from = kind /\ events[i].node.type = "text"}} \ {Absent}
  IN  /\ said("result") \cup said("assistant") # {} => "tool" \notin ToSet(answer) /\ answer # <<"whole output">>
      /\ said("result") # {} => ToSet(answer) \cap said("assistant") \subseteq said("result")

-----------------------------------------------------------------------------
(* The expectations of an agent case.                                      *)

\* first_tool_index, Len + 1 when the tool was not called.
FirstCall(trace, tool) ==
  LET at == {i \in DOMAIN trace : trace[i].tool = tool}
  IN  IF at = {} THEN Len(trace) + 1 ELSE CHOOSE i \in at : \A j \in at : i <= j

\* Mutant: the last call of the earlier tool decides.
OrderByLast(trace, o) ==
  LET last(tool) == LET at == {i \in DOMAIN trace : trace[i].tool = tool}
                    IN  IF at = {} THEN Len(trace) + 1 ELSE CHOOSE i \in at : \A j \in at : i >= j
  IN  last(o.before) <= Len(trace) /\ \A tool \in o.first : last(tool) < last(o.before)

\* order_assertion.
OrderHolds(trace, o) ==
  /\ FirstCall(trace, o.before) <= Len(trace)
  /\ \A tool \in o.first : FirstCall(trace, tool) < FirstCall(trace, o.before)

\* trace_entity_rank and selected_entity_rank_assertion.
RankHolds(trace, r) ==
  \E i \in DOMAIN trace :
    /\ r.tool \in {Absent, trace[i].tool}
    /\ \E k \in DOMAIN trace[i].top : trace[i].top[k] = r.id /\ (r.max = 0 \/ k <= r.max)

\* called_with_assertion, called_with_matches: the parameters are sets of what
\* they hold.
CalledWith(trace, c) ==
  \E i \in DOMAIN trace : trace[i].tool = c.tool /\ c.params \subseteq trace[i].params

\* agent_sql_structure_assertion: any statement of that structure.
StructureHolds(trace, s) ==
  \E i \in DOMAIN trace : trace[i].tool = s.tool /\ trace[i].structure = s.structure

\* max_total_response_bytes_assertion and max_response_bytes_by_tool_assertion;
\* a row without its bytes (-1) fails them.
BytesHold(trace, tool, max) ==
  LET rows == SelectSeq(trace, LAMBDA r : tool \in {Absent, r.tool})
  IN  /\ \A r \in ToSet(rows) : r.bytes >= 0
      /\ IF tool = Absent THEN FoldLeft(LAMBDA a, r : a + r.bytes, 0, rows) <= max
         ELSE \A r \in ToSet(rows) : r.bytes <= max

\* score_agent_expectations: the expectations that ask for something ...
AskedFor(e, trace) ==
  [must_call |-> \A tool \in e.mustCall : FirstCall(trace, tool) <= Len(trace),
   ordered |-> \A o \in e.ordered : OrderHolds(trace, o),
   selected |-> \A id \in e.selected : \E i \in DOMAIN trace : id \in trace[i].selected,
   ranks |-> \A r \in e.ranks : RankHolds(trace, r),
   called_with |-> \A c \in e.calledWith : CalledWith(trace, c),
   structures |-> \A s \in e.structures : StructureHolds(trace, s)]

\* ... and those that forbid or bound something (0: no bound).
Forbidden(e, trace) ==
  [must_not_call |-> \A tool \in e.mustNotCall : FirstCall(trace, tool) > Len(trace),
   calls |-> e.maxCalls = 0 \/ Len(trace) <= e.maxCalls,
   distinct |-> e.maxDistinct = 0 \/ Cardinality({trace[i].tool : i \in DOMAIN trace}) <= e.maxDistinct,
   bytes |-> e.maxBytes = 0 \/ BytesHold(trace, Absent, e.maxBytes),
   toolBytes |-> e.maxToolBytes = 0 \/ \A tool \in e.mustCall : BytesHold(trace, tool, e.maxToolBytes)]

\* A further call never takes back what the trace already showed, and never
\* mends what it already broke: what an agent does after it has met, or
\* missed, an expectation does not matter to it.
CallsAccumulate(e, trace, row) ==
  LET more == Append(trace, row)
  IN  /\ \A k \in DOMAIN AskedFor(e, trace) : AskedFor(e, trace)[k] => AskedFor(e, more)[k]
      /\ \A k \in DOMAIN Forbidden(e, trace) : Forbidden(e, more)[k] => Forbidden(e, trace)[k]

-----------------------------------------------------------------------------
(* The assertions on responses of tools.                                   *)

\* Mutant: as many results as the suite's default.
LimitByDefault(max, topK) == IF topK < 1 THEN 1 ELSE topK

\* effective_limit; max is 0 when the assertion has no max_rank.
EvalLimit(max, topK) ==
  LET asked == IF max > 0 THEN max ELSE topK IN IF asked < 1 THEN 1 ELSE asked

\* rank_assertion, contains_rank_assertion, recipe_rank_assertion and
\* search_columns_assertion: the first row that matches decides, under the
\* limit the search was called with.
RankAssertion(matches, max, topK) ==
  LET rows == SubSeq(matches, 1, IF EvalLimit(max, topK) < Len(matches) THEN EvalLimit(max, topK) ELSE Len(matches))
      hits == {i \in DOMAIN rows : rows[i]}
  IN  hits # {} /\ (max = 0 \/ \E i \in hits : i <= max)

\* An assertion on a rank holds exactly when the unlimited result has a match
\* within that rank: the limit the tool is called with never decides it.
RankSeesEnough(matches, max, topK) ==
  max > 0 => (RankAssertion(matches, max, topK) <=> \E i \in DOMAIN matches : i <= max /\ matches[i])

-----------------------------------------------------------------------------
(* The comparison of two runs.                                             *)

\* case_status.
CaseStatus(c) ==
  CASE c.errors > 0 -> "error" [] c.errors = 0 /\ c.fails > 0 -> "fail"
    [] c.errors = 0 /\ c.fails = 0 /\ c.passes > 0 -> "pass" [] OTHER -> "empty"

\* summarize_eval_results, for the statuses: a function of the case ids.
Statuses(run) == [id \in DOMAIN run |-> CaseStatus(run[id])]

\* Mutant: cases that are gone are forgotten.
CompareKept(before, after) ==
  LET b == Statuses(before) a == Statuses(after)
      both == DOMAIN b \cap DOMAIN a
  IN  [added |-> DOMAIN a \ DOMAIN b, removed |-> {},
       passing |-> {id \in DOMAIN a : a[id] = "pass" /\ (id \notin both \/ b[id] # "pass")},
       failing |-> {id \in DOMAIN a : a[id] # "pass" /\ (id \notin both \/ b[id] = "pass")},
       still |-> {id \in both : b[id] # "pass" /\ a[id] # "pass"},
       changed |-> {id \in DOMAIN b \cup DOMAIN a : id \notin both \/ a[id] # b[id]}]

\* compare_eval_summaries.
Compare(before, after) ==
  LET b == Statuses(before) a == Statuses(after)
      both == DOMAIN b \cap DOMAIN a
  IN  [added |-> DOMAIN a \ DOMAIN b, removed |-> DOMAIN b \ DOMAIN a,
       passing |-> {id \in DOMAIN a : a[id] = "pass" /\ (id \notin both \/ b[id] # "pass")},
       failing |-> {id \in DOMAIN a : a[id] # "pass" /\ (id \notin both \/ b[id] = "pass")},
       still |-> {id \in both : b[id] # "pass" /\ a[id] # "pass"},
       changed |-> {id \in DOMAIN b \cup DOMAIN a : id \notin both \/ a[id] # b[id]}]

\* The comparison is the same seen from either run: what is added one way is
\* removed the other way, what newly passes one way newly fails the other way,
\* and each case is accounted for exactly once.
CompareMirrored(before, after) ==
  LET there == Compare(before, after) back == Compare(after, before)
      both == DOMAIN before \cap DOMAIN after
  IN  /\ there.added = back.removed /\ there.changed = back.changed /\ there.still = back.still
      /\ there.passing \cap both = back.failing \cap both
      /\ there.passing \cap there.failing = {}
      /\ both \ (there.passing \cup there.failing \cup there.still) = {id \in both : CaseStatus(before[id]) = "pass" /\ CaseStatus(after[id]) = "pass"}

-----------------------------------------------------------------------------
(* Dates of telemetry rows and of --since.                                 *)

\* is_leap_year and days_in_month.
LeapYear(y) == (y % 4 = 0 /\ y % 100 # 0) \/ y % 400 = 0
DaysInMonth(y, m) ==
  CASE m \in {1, 3, 5, 7, 8, 10, 12} -> 31
    [] m \in {4, 6, 9, 11} -> 30
    [] m = 2 -> IF LeapYear(y) THEN 29 ELSE 28
    [] OTHER -> 0

\* Mutant: no correction for centuries.
JulianFromDays(days) ==
  LET doe == (days + 719468) % 146097
      era == (days + 719468) \div 146097
      yoe == (doe - doe \div 1460) \div 365
      doy == doe - (365 * yoe + yoe \div 4)
      mp == (5 * doy + 2) \div 153
      month == IF mp < 10 THEN mp + 3 ELSE mp - 9
  IN  <<yoe + era * 400 + (IF month <= 2 THEN 1 ELSE 0), month, doy - (153 * mp + 2) \div 5 + 1>>

\* civil_from_days, for days since 1970.
CivilFromDays(days) ==
  LET doe == (days + 719468) % 146097
      era == (days + 719468) \div 146097
      yoe == (doe - doe \div 1460 + doe \div 36524 - doe \div 146096) \div 365
      doy == doe - (365 * yoe + yoe \div 4 - yoe \div 100)
      mp == (5 * doy + 2) \div 153
      month == IF mp < 10 THEN mp + 3 ELSE mp - 9
  IN  <<yoe + era * 400 + (IF month <= 2 THEN 1 ELSE 0), month, doy - (153 * mp + 2) \div 5 + 1>>

\* parse_iso_date, validate_since_date: the dates that are accepted.
ValidDate(d) == d[2] \in 1 .. 12 /\ d[3] >= 1 /\ d[3] <= DaysInMonth(d[1], d[2])

\* Day by day, telemetry's dates are the dates --since accepts, one after the
\* other: as text they sort as the days do, so --since selects what it says.
CalendarSteps(days) ==
  LET d == CivilFromDays(days) n == CivilFromDays(days + 1)
  IN  /\ ValidDate(d)
      /\ n = CASE d[3] < DaysInMonth(d[1], d[2]) -> <<d[1], d[2], d[3] + 1>>
               [] d[3] = DaysInMonth(d[1], d[2]) /\ d[2] < 12 -> <<d[1], d[2] + 1, 1>>
               [] OTHER -> <<d[1] + 1, 1, 1>>
============================================================================
