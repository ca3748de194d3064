------------------------------ MODULE Recipes ------------------------------
(***************************************************************************)
(* Recipes (src/src/tools/recipes.rs): analyses of the manifest, grouped   *)
(* by their directory, whose SQL has placeholders __name__ that are filled *)
(* in (recipes/placeholder.rs) before it is executed, and which is refused *)
(* when it still has Jinja in it (recipes/jinja_scan.rs).                  *)
(* SQL is a sequence of characters for the two scanners, and the names of  *)
(* its placeholders elsewhere. Names are lower case throughout.            *)
(***************************************************************************)
EXTENDS Integers, Sequences, FiniteSets, SequencesExt

Unset == "unset"

-----------------------------------------------------------------------------
(* The scanner of placeholders.                                            *)

TokenChars == {"_", "a", "b"}

\* parse_placeholder_at: where the placeholder that starts at i ends, or 0. A
\* name may be empty.
PlaceholderEnd(sql, i) ==
  LET closes == {e \in (i + 2) .. (Len(sql) - 1) : sql[e] = "_" /\ sql[e + 1] = "_"}
      end == CHOOSE e \in closes : \A f \in closes : e <= f
  IN  IF /\ i + 1 <= Len(sql) /\ sql[i] = "_" /\ sql[i + 1] = "_"
         /\ closes # {}
         /\ \A k \in (i + 2) .. (end - 1) : sql[k] \in TokenChars
        THEN end + 1 ELSE 0

\* The loop of extract_query_placeholders, of contains_query_placeholders and
\* of apply_runtime_parameter_substitution: placeholders from left to right.
PlaceholdersIn(sql) ==
  LET step(acc, i) == IF i <= acc.upto THEN acc
                      ELSE LET end == PlaceholderEnd(sql, i)
                           IN  IF end = 0 THEN acc
                               ELSE [upto |-> end, found |-> Append(acc.found, <<i, end>>)]
  IN  FoldLeft(step, [upto |-> 0, found |-> <<>>], [i \in DOMAIN sql |-> i]).found

\* The text of a value, for three ways to give values: the placeholder itself,
\* nothing, or another placeholder.
ValueText(values, name) ==
  CASE values = "echo" -> <<"_", "_">> \o name \o <<"_", "_">>
    [] values = "none" -> <<>>
    [] values = "other" -> <<"_", "_", "b", "_", "_">>

\* Mutant: what was filled in is scanned again from its first character.
FillAgain(sql, values) ==
  LET value(name) == ValueText(values, name)
      at == PlaceholdersIn(sql)
  IN  IF at = <<>> THEN sql
      ELSE LET once == SubSeq(sql, 1, at[1][1] - 1) \o value(SubSeq(sql, at[1][1] + 2, at[1][2] - 2)) \o SubSeq(sql, at[1][2] + 1, Len(sql))
               next == PlaceholdersIn(SubSeq(once, at[1][1] + 1, Len(once)))
           IN  IF next = <<>> THEN once
               ELSE SubSeq(once, 1, at[1][1] + next[1][1] - 1) \o value(SubSeq(once, at[1][1] + next[1][1] + 2, at[1][1] + next[1][2] - 2))
                      \o SubSeq(once, at[1][1] + next[1][2] + 1, Len(once))

\* apply_runtime_parameter_substitution, with the text of each name's value.
FillIn(sql, values) ==
  LET value(name) == ValueText(values, name)
      at == PlaceholdersIn(sql)
      from(k) == IF k = 0 THEN 1 ELSE at[k][2] + 1
      upto(k) == IF k = Len(at) THEN Len(sql) ELSE at[k + 1][1] - 1
      piece(k) == SubSeq(sql, from(k), upto(k))
  IN  piece(0) \o FlattenSeq([k \in DOMAIN at |-> value(SubSeq(sql, at[k][1] + 2, at[k][2] - 2)) \o piece(k)])

\* Each placeholder is replaced once, as a whole and where it stands: filled in
\* with themselves they leave the statement as it was, filled in with nothing
\* they leave all the rest of it, and a value that looks like a placeholder is
\* not replaced.
FilledInPlace(sql) ==
  LET at == PlaceholdersIn(sql)
  IN  /\ FillIn(sql, "echo") = sql
      /\ Len(FillIn(sql, "none")) = Len(sql) - FoldLeft(LAMBDA n, p : n + p[2] - p[1] + 1, 0, at)
      /\ Len(FillIn(sql, "other")) = Len(FillIn(sql, "none")) + 5 * Len(at)

-----------------------------------------------------------------------------
(* The scanner of Jinja.                                                   *)

\* step_normal_state ... step_dollar_quote_state and detect_jinja_marker, for
\* one character: the state, and how many of the next characters are passed.
\* "E" is the E of a literal with backslash escapes, "$" a whole $tag$.
ScanJinja(sql) ==
  LET next(i) == IF i < Len(sql) THEN sql[i + 1] ELSE "end"
      normal(i) ==
        CASE sql[i] = "-" /\ next(i) = "-" -> [state |-> "line", skip |-> 1]
          [] sql[i] = "/" /\ next(i) = "*" -> [state |-> "block", skip |-> 1]
          [] sql[i] = "'" -> [state |-> IF i > 1 /\ sql[i - 1] = "E" /\ (i = 2 \/ sql[i - 2] \notin TokenChars \cup {"E"}) THEN "escaped" ELSE "single", skip |-> 0]
          [] sql[i] = "\"" -> [state |-> "double", skip |-> 0]
          [] sql[i] = "$" -> [state |-> "dollar", skip |-> 0]
          [] OTHER -> [state |-> "normal", skip |-> 0]
      quoted(i, state, quote) ==
        IF sql[i] = quote /\ next(i) = quote THEN [state |-> state, skip |-> 1]
        ELSE IF state = "escaped" /\ sql[i] = "\\" THEN [state |-> state, skip |-> 1]
        ELSE IF sql[i] = quote /\ next(i) # quote THEN [state |-> "normal", skip |-> 0]
        ELSE [state |-> state, skip |-> 0]
      step(acc, i) ==
        IF acc.skip > 0 THEN [acc EXCEPT !.skip = acc.skip - 1]
        ELSE LET s == CASE acc.state = "normal" -> normal(i)
                        [] acc.state \in {"single", "escaped"} -> quoted(i, acc.state, "'")
                        [] acc.state = "double" -> quoted(i, "double", "\"")
                        [] acc.state = "line" -> [state |-> IF sql[i] = "n" THEN "normal" ELSE "line", skip |-> 0]
                        [] acc.state = "block" -> IF sql[i] = "*" /\ next(i) = "/" THEN [state |-> "normal", skip |-> 1] ELSE [state |-> "block", skip |-> 0]
                        [] acc.state = "dollar" -> [state |-> IF sql[i] = "$" THEN "normal" ELSE "dollar", skip |-> 0]
             IN  [state |-> s.state, skip |-> s.skip,
                  markers |-> IF acc.state = "normal" /\ s.state = "normal" /\ sql[i] = "{" /\ next(i) \in {"{", "%", "#"}
                                THEN acc.markers \cup {next(i)} ELSE acc.markers]
  IN  FoldLeft(step, [state |-> "normal", skip |-> 0, markers |-> {}], [i \in DOMAIN sql |-> i])

\* Mutant: markers anywhere.
MarkersAnywhere(sql) == {sql[i + 1] : i \in {i \in 1 .. (Len(sql) - 1) : sql[i] = "{" /\ sql[i + 1] \in {"{", "%", "#"}}}

\* recipe_query_jinja_markers.
JinjaMarkers(sql) == ScanJinja(sql).markers

\* ensure_recipe_query_executable, for raw code.
RawExecutable(sql) == JinjaMarkers(sql) = {}

\* A statement put together of literals, comments and plain text, each closed,
\* is refused exactly for the Jinja of its plain text.
JinjaOutsideLiterals(chunks) ==
  RawExecutable(FlattenSeq([i \in DOMAIN chunks |-> chunks[i].text])) <=> \A i \in DOMAIN chunks : ~chunks[i].jinja

-----------------------------------------------------------------------------
(* Parameters: a specification is [required, type, default], by its key.   *)

\* RecipeParameterSpec::effective_required.
EffectiveRequired(spec) == spec.required /\ spec.default = Unset

\* metadata_parameter_specs, parse_metadata_parameter_object,
\* parse_metadata_parameter_list and build_query_parameter_specs: what the
\* metadata says, and a required parameter for each other placeholder.
QuerySpecs(query) ==
  LET names == {query.placeholders[i] : i \in DOMAIN query.placeholders} \ {""}
  IN  [k \in names \cup DOMAIN query.meta |->
         IF k \in DOMAIN query.meta THEN query.meta[k] ELSE [required |-> TRUE, type |-> Unset, default |-> Unset]]

\* merge_parameter_specs.
MergeSpecs(old, new) ==
  [required |-> old.required \/ new.required,
   type |-> IF old.type = Unset THEN new.type ELSE old.type,
   default |-> IF old.default = Unset THEN new.default ELSE old.default]

\* aggregate_parameter_specs.
AggregateSpecs(queries) ==
  LET add(acc, q) == LET specs == QuerySpecs(q)
                     IN  [k \in DOMAIN acc \cup DOMAIN specs |->
                            CASE k \in DOMAIN acc /\ k \in DOMAIN specs -> MergeSpecs(acc[k], specs[k])
                              [] k \in DOMAIN acc /\ k \notin DOMAIN specs -> acc[k]
                              [] OTHER -> specs[k]]
  IN  FoldLeft(add, [k \in {} |-> Unset], queries)

\* build_effective_parameter_map.
EffectiveParameters(provided, specs) ==
  [k \in DOMAIN provided \cup {k \in DOMAIN specs : specs[k].default # Unset} |->
     IF k \in DOMAIN provided THEN provided[k] ELSE specs[k].default]

\* merge_optional_type_maps: the hints of both maps, which must not conflict.
MergeTypes(primary, fallback) ==
  [ok |-> \A k \in DOMAIN primary \cap DOMAIN fallback : primary[k] = fallback[k],
   types |-> [k \in DOMAIN primary \cup DOMAIN fallback |-> IF k \in DOMAIN primary THEN primary[k] ELSE fallback[k]]]

\* coerce_placeholder_value: whether a value of a kind may stand for a type.
Coerces(value, type) ==
  CASE type = "identifier" -> value \in {"word", "number", "bool", "numeric text"}
    [] type = "number" -> value \in {"number", "bool", "numeric text"}
    [] type = "boolean" -> value \in {"number", "bool", "true text"}
    [] OTHER -> TRUE

\* resolve_placeholder_type_for_spec.
TypeFor(spec, k, types) == IF k \in DOMAIN types THEN types[k] ELSE spec.type

\* Mutant: a default of another query does not count.
SchemaByQuery(queries, provided, types) ==
  LET specs == AggregateSpecs(queries)
      effective == provided
  IN  [specs |-> specs, effective |-> EffectiveParameters(provided, specs),
       missing |-> {k \in DOMAIN specs : specs[k].required /\ k \notin DOMAIN effective},
       unused |-> DOMAIN provided \ DOMAIN specs, mismatches |-> {}]

\* recipe_parameter_schema, parameter_names_by_required_and_presence.
ParameterSchema(queries, provided, types) ==
  LET specs == AggregateSpecs(queries)
      effective == EffectiveParameters(provided, specs)
  IN  [specs |-> specs, effective |-> effective,
       missing |-> {k \in DOMAIN specs : EffectiveRequired(specs[k]) /\ k \notin DOMAIN effective},
       unused |-> DOMAIN provided \ DOMAIN specs,
       mismatches |-> {<<i, k>> \in (DOMAIN queries) \X DOMAIN effective :
                         /\ k \in DOMAIN QuerySpecs(queries[i])
                         /\ ~Coerces(effective[k], TypeFor(QuerySpecs(queries[i])[k], k, types))}]

\* query_validation_payload, build_recipe_query_payloads: what one query misses.
MissingOf(query, schema) ==
  {k \in DOMAIN QuerySpecs(query) : EffectiveRequired(QuerySpecs(query)[k]) /\ k \notin DOMAIN schema.effective}

\* The missing parameters of a recipe are those of its queries, no more and no
\* less, whichever of them has the default; nothing is both missing and unused;
\* and more parameters never make more of them missing.
MissingAlike(queries, provided, types) ==
  LET schema == ParameterSchema(queries, provided, types)
  IN  /\ schema.missing = UNION {MissingOf(queries[i], schema) : i \in DOMAIN queries}
      /\ schema.missing \cap schema.unused = {}
      /\ \A k \in DOMAIN provided :
           schema.missing \subseteq ParameterSchema(queries, [j \in DOMAIN provided \ {k} |-> provided[j]], types).missing

-----------------------------------------------------------------------------
(* Tools.                                                                  *)

\* list_manifest_recipes, manifest_recipe_prefix, query_file_name: the queries
\* of a recipe, by order and name; an analysis is [dir, name, order, sql, ...].
QueriesOf(analyses, id) ==
  SetToSortSeq({a \in analyses : a.dir = id /\ a.sql},
               LAMBDA a, b : a.order < b.order \/ (a.order = b.order /\ a.name < b.name))

\* Mutant: the last that matches.
FindLast(ids, asked) ==
  LET hits == {i \in DOMAIN ids : ids[i] = asked \/ (Len(ids[i]) > Len(asked) /\ IsSuffix(asked, ids[i]))}
  IN  IF hits = {} THEN 0 ELSE CHOOSE i \in hits : \A j \in hits : i >= j

\* discover_recipes and find_recipe: ids are sequences of parts, in the order
\* of their texts; the first that is the id asked for, or ends with it, is it.
FindRecipe(ids, asked) ==
  LET hits == {i \in DOMAIN ids : ids[i] = asked \/ (Len(ids[i]) > Len(asked) /\ IsSuffix(asked, ids[i]))}
  IN  IF hits = {} THEN 0 ELSE CHOOSE i \in hits : \A j \in hits : i <= j

\* The same id names the same recipe however many others there are after it:
\* another recipe takes a recipe's place only when its id comes before it.
FoundFirst(ids, asked) ==
  \A n \in DOMAIN ids :
    LET before == SubSeq(ids, 1, n)
    IN  FindRecipe(before, asked) # 0 => FindRecipe(ids, asked) = FindRecipe(before, asked)

\* select_recipe_queries: by index, by name, or all; each once, in their order.
SelectQueries(queries, indexes, names) ==
  LET byIndex == {queries[i] : i \in indexes \cap DOMAIN queries}
      byName == {queries[i] : i \in {i \in DOMAIN queries : queries[i].name \in names}}
      ok == indexes \subseteq DOMAIN queries /\ names \subseteq {queries[i].name : i \in DOMAIN queries}
  IN  IF ~ok THEN [ok |-> FALSE, queries |-> <<>>]
      ELSE [ok |-> TRUE, queries |-> IF indexes \cup names = {} THEN queries
                                     ELSE SelectSeq(queries, LAMBDA q : q \in byIndex \cup byName)]

\* load_query_base_sql_and_payload, ensure_recipe_query_executable and
\* render_recipe_query_sql. The types of the metadata do not come in.
Renders(query, effective, types) ==
  /\ query.code # "none"
  /\ query.code = "raw" => ~query.jinja
  /\ \A i \in DOMAIN query.placeholders :
       LET k == query.placeholders[i]
       IN  k \in DOMAIN effective /\ Coerces(effective[k], IF k \in DOMAIN types THEN types[k] ELSE Unset)

\* execute_recipe_statements, recipe_success_step, recipe_error_step: the
\* queries sent to the warehouse, and the steps reported.
ExecuteAll(queries, stop) ==
  LET fails == {i \in DOMAIN queries : queries[i].fails}
      first == IF fails = {} THEN Len(queries) ELSE CHOOSE i \in fails : \A j \in fails : i <= j
  IN  IF stop /\ fails # {} THEN [sent |-> SubSeq(queries, 1, first), ok |-> FALSE, failed |-> 1]
      ELSE [sent |-> queries, ok |-> TRUE, failed |-> Cardinality(fails)]

Refused == [sent |-> <<>>, ok |-> FALSE, failed |-> 0]

\* Mutant: each query is rendered when its turn comes.
RunOneByOne(queries, p) ==
  LET selected == SelectQueries(queries, p.indexes, p.names)
      types == MergeTypes(p.placeholderTypes, p.legacyTypes)
      schema == ParameterSchema(selected.queries, p.parameters, types.types)
      bad == {i \in DOMAIN selected.queries : ~Renders(selected.queries[i], schema.effective, types.types)}
      upto == IF bad = {} THEN Len(selected.queries) ELSE (CHOOSE i \in bad : \A j \in bad : i <= j) - 1
      done == ExecuteAll(SubSeq(selected.queries, 1, upto), p.stop)
  IN  IF ~types.ok \/ ~selected.ok \/ schema.missing # {} \/ schema.mismatches # {} THEN Refused
      ELSE [done EXCEPT !.ok = done.ok /\ bad = {}]

\* run_recipe, ensure_recipe_parameters_ready and render_recipe_statements:
\* all queries are rendered before the first is executed.
RunRecipe(queries, p) ==
  LET selected == SelectQueries(queries, p.indexes, p.names)
      types == MergeTypes(p.placeholderTypes, p.legacyTypes)
      sqlTypes == MergeTypes(p.sqlTypes, p.legacyTypes)
      schema == ParameterSchema(selected.queries, p.parameters, types.types)
  IN  IF \/ ~types.ok \/ ~sqlTypes.ok \/ ~selected.ok \/ selected.queries = <<>>
         \/ \E q \in ToSet(selected.queries) : q.code = "none"
         \/ schema.missing # {} \/ schema.mismatches # {}
         \/ \E q \in ToSet(selected.queries) : ~Renders(q, schema.effective, types.types)
        THEN Refused ELSE ExecuteAll(selected.queries, p.stop)

\* get_recipe, validate_recipe_renderable_for_get: with SQL, all queries must
\* render. p.includeSql is include_sql with include_queries: nothing is rendered
\* and nothing checked unless both are given.
GetRecipe(queries, p) ==
  LET types == MergeTypes(p.placeholderTypes, p.legacyTypes)
      schema == ParameterSchema(queries, p.parameters, types.types)
  IN  /\ types.ok /\ queries # <<>>
      /\ \A q \in ToSet(queries) : q.code # "none"
      /\ p.includeSql => /\ schema.missing = {} /\ schema.mismatches = {}
                         /\ \A q \in ToSet(queries) : Renders(q, schema.effective, types.types)

\* Nothing of a recipe is executed unless all of what was asked for can be:
\* the statements sent are the selected queries in their order, all of them
\* unless one failed and the caller asked to stop there, and a recipe that
\* get_recipe shows with its SQL is never refused in full.
RunIsWhole(queries, p) ==
  LET r == RunRecipe(queries, p)
      selected == SelectQueries(queries, p.indexes, p.names).queries
  IN  /\ r.ok => r.sent = selected /\ r.sent # <<>>
      /\ ~r.ok /\ r.sent # <<>> => p.stop /\ Last(r.sent).fails /\ IsPrefix(r.sent, selected)
      /\ \A i \in 1 .. (Len(r.sent) - 1) : r.sent[i].order <= r.sent[i + 1].order /\ r.sent[i] # r.sent[i + 1]
      /\ GetRecipe(queries, p) /\ p.includeSql /\ p.indexes \cup p.names = {} /\ MergeTypes(p.sqlTypes, p.legacyTypes).ok
           => r.sent # <<>>
=============================================================================
