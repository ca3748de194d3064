------------------------------ MODULE NovaMeta ------------------------------
(***************************************************************************)
(* The validation of `meta.nova` in the YAML of a project                  *)
(* (src/src/nova_meta, src/src/cli/nova_meta_cmd.rs). A finding is a       *)
(* severity and a code.                                                    *)
(***************************************************************************)
EXTENDS EntityMeta

Error(code) == {<<"error", code>>}
Warning(code) == {<<"warning", code>>}
When(condition, findings) == IF condition THEN findings ELSE {}
Errors(findings) == {f \in findings : f[1] = "error"}

\* string_array.
StringArray(texts) == SelectSeq([i \in DOMAIN texts |-> Trimmed(texts[i])], LAMBDA t : ~IsBlank(t))

\* validate_field_exists. The columns are {} when they are not looked at.
FieldExists(columns, field) ==
  UNION {IF IsBlank(f) THEN Error("blank_string") ELSE UNION {When(f \notin c, Error("missing_referenced_field")) : c \in columns} : f \in field}

\* validate_duplicate_array_entries.
DuplicateEntries(texts, code) ==
  When(\E i, j \in DOMAIN texts : i < j /\ ~IsBlank(texts[i]) /\ Normalized(texts[i]) = Normalized(texts[j]), Warning(code))

\* validate_required_non_blank_string and validate_optional_non_blank_string.
RequiredText(text) == When(text = {} \/ \E t \in text : IsBlank(t), Error("blank_string"))
OptionalText(text) == When(\E t \in text : IsBlank(t), Error("blank_string"))

\* Mutant: `between` takes one value.
BetweenOne(operator, count) ==
  CASE operator = "between" -> count \notin {1, 2}
    [] operator = "is_null" -> count # 0
    [] operator = "comparison" -> count # 1
    [] operator = "in" -> count = 0
    [] operator = "none" -> FALSE
    [] OTHER -> TRUE

\* validate_filter_operator; whether it is refused.
FilterRefused(operator, count) ==
  CASE operator = "between" -> count # 2
    [] operator = "is_null" -> count # 0
    [] operator = "comparison" -> count # 1
    [] operator = "in" -> count = 0
    [] operator = "none" -> FALSE
    [] OTHER -> TRUE

\* validate_grain.
ValidateGrain(grain, columns) ==
  LET keys == StringArray(grain.keys)
      dims == StringArray(grain.dims)
  IN  FieldExists(columns, grain.time)
      \cup UNION {FieldExists(columns, {f}) : f \in ToSet(keys) \cup ToSet(dims)}
      \cup DuplicateEntries(keys, "duplicate_primary_key") \cup DuplicateEntries(dims, "duplicate_dimension")
      \cup When(ToSet(keys) \cap ToSet(dims) # {} \/ grain.time \cap (ToSet(keys) \cup ToSet(dims)) # {}, Error("grain_field_overlap"))

\* validate_measures; expressions and descriptions only give warnings and are
\* left out.
ValidateMeasures(measures, columns) ==
  UNION {RequiredText(m.name) \cup OptionalText(m.field) \cup FieldExists(columns, m.field) : m \in ToSet(measures)}

\* validate_metric.
ValidateMetric(metric, columns) ==
  RequiredText(metric.name)
  \cup UNION {ValidateGrain(g, columns) : g \in metric.grain} \cup When(metric.grain = {}, Warning("metric_missing_grain"))
  \cup UNION {RequiredText(f.field) \cup FieldExists(columns, f.field)
              \cup When(FilterRefused(f.operator, f.count), Error("invalid_filter_values")) : f \in ToSet(metric.filters)}

\* validate_duplicate_names.
DuplicateNames(nova) ==
  LET names(s) == FlattenSeq([i \in DOMAIN s |-> [j \in 1 .. Cardinality(s[i].name) |-> Normalized(CHOOSE t \in s[i].name : TRUE)]])
      measures == names(nova.measures)
      metrics == names(SetToSeq(nova.metric) \o nova.metrics)
  IN  When(~IsInjective(measures), Error("duplicate_measure_name")) \cup When(~IsInjective(metrics), Error("duplicate_metric_name"))
      \cup When(ToSet(measures) \cap ToSet(metrics) # {}, Error("duplicate_semantic_name"))

\* validate_canonical_conflicts.
CanonicalConflicts(nova) ==
  UNION {When(nova.canonical /\ c["analyst"] = {FALSE}, Warning("canonical_analyst_deboost_conflict"))
         \cup When(\A p \in DOMAIN c : c[p] \subseteq {FALSE}, Warning("search_candidates_all_false")) : c \in nova.candidates}

\* validate_column_role_hints.
RoleHints(nova, roles) ==
  UNION {When(\E f \in g.time \cap DOMAIN roles : roles[f] # "time", Warning("time_field_role_mismatch"))
         \cup When(\E f \in ToSet(g.keys) \cap DOMAIN roles : roles[f] # "identifier", Warning("primary_key_role_mismatch")) : g \in nova.grain}

\* validate_blank_string_rules and validate_root_array_rules, for the synonyms.
RootArrays(nova) ==
  OptionalText(nova.role) \cup When(\E i \in DOMAIN nova.synonyms : IsBlank(nova.synonyms[i]), Error("blank_array_value"))
  \cup DuplicateEntries(nova.synonyms, "duplicate_array_value")

\* validate_governance_rules.
GovernanceRules(nova) ==
  UNION {When(g.pii /\ g.sensitivity \in {"none", "public"}, Warning("governance_pii_sensitivity_conflict")) : g \in nova.governance}

\* validate_column_scope_rules.
ColumnScope(nova) ==
  When(nova.metric # {} \/ nova.metrics # <<>> \/ nova.grain # {} \/ nova.measures # <<>> \/ nova.candidates # {} \/ nova.canonical,
       Error("column_entity_only_field"))

\* validate_entity_scope_rules.
EntityScope(target) ==
  LET nova == target.nova
      columns == IF target.kind = "metric" THEN {} ELSE {target.columns}
  IN  When(nova.metric # {} /\ nova.metrics # <<>>, Error("metric_and_metrics_conflict"))
      \cup UNION {ValidateGrain(g, columns) : g \in nova.grain} \cup ValidateMeasures(nova.measures, columns)
      \cup UNION {ValidateMetric(m, columns) : m \in nova.metric \cup ToSet(nova.metrics)}
      \cup DuplicateNames(nova) \cup CanonicalConflicts(nova) \cup RoleHints(nova, target.roles)

\* validate_target_schema: what schemas/nova/v0.json requires of the modelled
\* fields.
SchemaFindings(nova) ==
  LET metrics == nova.metric \cup ToSet(nova.metrics)
  IN  When(\/ \E m \in ToSet(nova.measures) \cup metrics : m.name = {}
           \/ \E m \in metrics : \E f \in ToSet(m.filters) : f.field = {} \/ f.operator \in {"none", "other"},
           Error("schema_violation"))

\* validate_target_schema and validate_target_semantics.
TargetFindings(target) ==
  SchemaFindings(target.nova) \cup (IF target.column = {} THEN EntityScope(target) ELSE ColumnScope(target.nova))
  \cup RootArrays(target.nova) \cup GovernanceRules(target.nova)

\* What passes validation is what the server loads: every measure, metric and
\* filter survives the parser, names tell them apart, what they refer to is a
\* column (but for white space around keys and dimensions, which the validator
\* alone removes), no filter has a number of values its operator cannot take,
\* and without a warning a canonical entity is one that analysts find.
ValidIsServed(target) ==
  Errors(TargetFindings(target)) = {} =>
    LET nova == ParseNova(target.nova)
        metrics == SetToSeq(nova.metric) \o nova.metrics
        named == [i \in DOMAIN nova.measures |-> nova.measures[i].name] \o [i \in DOMAIN metrics |-> metrics[i].name]
        grains == nova.grain \cup UNION {m.grain : m \in ToSet(metrics)}
    IN  /\ Len(nova.measures) = Len(target.nova.measures) /\ Len(metrics) = Cardinality(target.nova.metric) + Len(target.nova.metrics)
        /\ IsInjective(named) /\ \A i \in DOMAIN named : \A t \in named[i] : ~IsBlank(t)
        /\ target.kind # "metric" /\ target.column = {} =>
             /\ UNION {m.field : m \in ToSet(nova.measures)} \cup UNION {g.time : g \in grains} \subseteq target.columns
             /\ {Trimmed(f) : f \in {f \in UNION {ToSet(g.keys) \cup ToSet(g.dims) : g \in grains} : ~IsBlank(f)}} \subseteq target.columns
             /\ \A i \in DOMAIN metrics : \A f \in ToSet(metrics[i].filters) : f.field \subseteq target.columns
        /\ Warning("canonical_analyst_deboost_conflict") \cap TargetFindings(target) = {} /\ target.column = {} /\ nova.canonical =>
             \A c \in target.nova.candidates : \A personas \in ParseCandidates(c) : personas["analyst"]
        /\ \A g \in grains : ToSet(g.keys) \cap ToSet(g.dims) \subseteq {t \in ToSet(g.keys) : IsBlank(t)}
        /\ \A i \in DOMAIN metrics : \A f \in ToSet(metrics[i].filters) :
             f.count \in CASE f.operator = "between" -> {2} [] f.operator = "is_null" -> {0} [] f.operator = "comparison" -> {1} [] OTHER -> Nat \ {0}

-----------------------------------------------------------------------------
(* The resources of the YAML files, and the selection among them.          *)

\* collect_declared_columns and collect_column_roles.
DeclaredColumns(columns) == UNION {c.name : c \in ToSet(columns)}
ColumnRoles(columns) ==
  [f \in UNION {c.name : c \in {c \in ToSet(columns) : \E n \in c.nova : n.role # {}}} |->
     LET c == columns[SelectLastInSeq(columns, LAMBDA x : x.name = {f} /\ \E n \in x.nova : n.role # {})]
     IN  IF Plain(5) \in (CHOOSE n \in c.nova : TRUE).role THEN "time" ELSE "other"]

\* scan_columns.
ScanColumns(e, kind, parent) ==
  FlattenSeq([i \in DOMAIN e.columns |->
    IF e.columns[i].name = {} THEN <<>>
    ELSE <<[kind |-> kind, name |-> e.name, parent |-> parent, column |-> e.columns[i].name, nova |-> e.columns[i].nova,
            columns |-> DeclaredColumns(e.columns), roles |-> ColumnRoles(e.columns)]>>])

\* scan_entities: what has no name is passed over, its columns too.
ScanEntities(entities, kind, parent) ==
  FlattenSeq([i \in DOMAIN entities |->
    LET e == entities[i]
    IN  IF e.name = {} THEN <<>>
        ELSE <<[kind |-> kind, name |-> e.name, parent |-> parent, column |-> {}, nova |-> e.nova,
                columns |-> DeclaredColumns(e.columns), roles |-> ColumnRoles(e.columns)]>> \o ScanColumns(e, kind, parent)])

\* scan_sources.
ScanSources(sources) ==
  FlattenSeq([i \in DOMAIN sources |->
    LET s == sources[i]
    IN  IF s.name = {} THEN <<>>
        ELSE <<[kind |-> "source", name |-> s.name, parent |-> {}, column |-> {}, nova |-> s.nova, columns |-> {}, roles |-> <<>>]>>
             \o ScanEntities(s.tables, "table", s.name)])

\* scan_file, for one that can be read; nothing comes from one that cannot.
ScanFile(file) ==
  IF ~file.ok THEN <<>>
  ELSE ScanEntities(file.models, "model", {}) \o ScanSources(file.sources) \o ScanEntities(file.metrics, "metric", {})

\* NovaMetaTargetSelector: each part given must match.
Matches(d, selector) ==
  /\ selector.kind \subseteq {d.kind}
  /\ selector.name # {} => d.name = selector.name
  /\ selector.column # {} => d.column = selector.column

\* Mutant: a selection without metadata is a selection of nothing.
NothingIsFine(definitions, selector) ==
  LET matching == SelectSeq(definitions, LAMBDA d : Matches(d, selector))
  IN  [ok |-> matching # <<>>, targets |-> SelectSeq(matching, LAMBDA d : d.nova # {})]

\* select_targets.
SelectTargets(definitions, selector) ==
  LET matching == SelectSeq(definitions, LAMBDA d : Matches(d, selector))
      targets == SelectSeq(matching, LAMBDA d : d.nova # {})
  IN  [ok |-> (selector.kind = {} /\ selector.name = {} /\ selector.column = {}) \/ targets # <<>>, targets |-> targets]

Target(d) == [d EXCEPT !.nova = CHOOSE n \in d.nova : TRUE]

-----------------------------------------------------------------------------
(* Canonical indicators, across the project.                               *)

\* Mutant: keys and dimensions as they are listed.
SignatureAsListed(grain) == {<<g.time, StringArray(g.dims), StringArray(g.keys)>> : g \in grain}

\* grain_signature and sorted_string_array; {} is an unspecified grain.
GrainSignature(grain) ==
  {<<{Trimmed(t) : t \in {t \in g.time : ~IsBlank(t)}}, ToSet(StringArray(g.dims)), ToSet(StringArray(g.keys))>> : g \in grain}

\* canonical_indicators_for_target: a metric without a grain has the entity's.
CanonicalIndicators(target) ==
  LET nova == target.nova
      metrics == SetToSeq(nova.metric) \o nova.metrics
      indicator(x, grain) ==
        IF x.canonical /\ \E t \in x.name : ~IsBlank(t)
        THEN <<[name |-> Normalized(CHOOSE t \in x.name : TRUE), grain |-> GrainSignature(grain), scoped |-> x.scoped]>> ELSE <<>>
  IN  FlattenSeq([i \in DOMAIN nova.measures |-> indicator(nova.measures[i], nova.grain)])
      \o FlattenSeq([i \in DOMAIN metrics |-> indicator(metrics[i], IF metrics[i].grain = {} THEN nova.grain ELSE metrics[i].grain)])

\* duplicate_canonical_surface_findings.
DuplicateSurfaces(indicators) ==
  When(\E i, j \in DOMAIN indicators : i < j /\ indicators[i].grain = indicators[j].grain, Warning("duplicate_canonical_surface"))

\* canonical_indicator_conflict_finding.
CanonicalConflict(indicators) ==
  When(Cardinality({x.grain : x \in {x \in ToSet(indicators) : ~x.scoped}}) > 1, Warning("canonical_indicator_conflict"))

\* validate_project_canonical_indicators.
ProjectCanonical(targets) ==
  LET all == FlattenSeq([i \in DOMAIN targets |-> IF targets[i].column = {} THEN CanonicalIndicators(targets[i]) ELSE <<>>])
  IN  UNION {LET same == SelectSeq(all, LAMBDA x : x.name = n) IN DuplicateSurfaces(same) \cup CanonicalConflict(same) :
               n \in {x.name : x \in ToSet(all)}}

\* Without a warning, a name and a grain lead to one canonical definition, and
\* a name alone to one grain, however the keys of a grain are ordered.
CanonicalIsUnique(targets) ==
  LET all == FlattenSeq([i \in DOMAIN targets |-> IF targets[i].column = {} THEN CanonicalIndicators(targets[i]) ELSE <<>>])
      sameGrain(a, b) ==
        \/ a.nova.grain = {} /\ b.nova.grain = {}
        \/ \E g \in a.nova.grain, h \in b.nova.grain : g.time = h.time /\ ToSet(g.keys) = ToSet(h.keys) /\ ToSet(g.dims) = ToSet(h.dims)
      declares(t, n) == \E m \in ToSet(t.nova.measures) : m.canonical /\ \E x \in m.name : Normalized(x) = n
  IN  ProjectCanonical(targets) = {} =>
        /\ \A i, j \in DOMAIN targets : i # j /\ targets[i].column = {} /\ targets[j].column = {} =>
             \A n \in 1 .. 3 : ~(declares(targets[i], n) /\ declares(targets[j], n) /\ sameGrain(targets[i], targets[j]))
        /\ \A i, j \in DOMAIN all : all[i].name = all[j].name /\ ~all[i].scoped /\ ~all[j].scoped => all[i].grain = all[j].grain

\* validate_nova_meta and finalize_report: the findings on targets, and whether
\* the command fails.
Report(files, selector) ==
  LET definitions == FlattenSeq([i \in DOMAIN files |-> ScanFile(files[i])])
      selected == SelectTargets(definitions, selector)
      targets == [i \in DOMAIN selected.targets |-> Target(selected.targets[i])]
      onTargets == UNION {{<<f, t>> : f \in TargetFindings(t)} : t \in ToSet(targets)}
      unread == \E i \in DOMAIN files : ~files[i].ok
  IN  [selected |-> selected.ok, targets |-> ToSet(targets), onTargets |-> IF selected.ok THEN onTargets ELSE {},
       warnings |-> IF selected.ok THEN ProjectCanonical(targets) ELSE {},
       fails |-> unread \/ ~selected.ok \/ \E x \in onTargets : x[1][1] = "error"]

\* The report on a part of the project against the one on all of it.
AgreesWithin(selection, whole) ==
  /\ selection.selected => selection.onTargets = {x \in whole.onTargets : x[2] \in selection.targets}
  /\ ~whole.fails => ~selection.fails \/ ~selection.selected
  /\ selection.fails /\ selection.selected => whole.fails

\* A selection is judged as it is within the whole project: nothing else, and
\* nothing less; and a selection that names something is never passed because
\* there was nothing to look at.
SelectionAgrees(files, selector) ==
  LET everything == [kind |-> {}, name |-> {}, column |-> {}]
  IN  \A selection \in {Report(files, selector)} :
        /\ AgreesWithin(selection, Report(files, everything))
        /\ selector # everything /\ ~selection.fails => selection.targets # {}

-----------------------------------------------------------------------------
(* The files that are read. A path is the sequence of its names from the   *)
(* root; links lead from paths to directories.                             *)

\* canonicalize, external.
Canonical(fs, path) ==
  LET linked == {i \in 1 .. Len(path) : SubSeq(path, 1, i) \in DOMAIN fs.links}
  IN  IF linked = {} THEN path
      ELSE LET i == CHOOSE i \in linked : TRUE IN fs.links[SubSeq(path, 1, i)] \o SubSeq(path, i + 1, Len(path))
Exists(fs, path) == \E f \in fs.files : IsPrefix(Canonical(fs, path), f)

\* collect_yaml_files_from_path: links are not followed, and the directories
\* with well-known names below the first are passed over.
CollectFrom(fs, path) ==
  LET at == Canonical(fs, path)
  IN  {f \in fs.files : /\ IsPrefix(at, f) /\ \A i \in Len(at) + 1 .. Len(f) : f[i] \notin {"target", "dbt_packages"}}

\* collect_yaml_files and resolve_path.
CollectFiles(fs, dir, paths) ==
  LET wanted == IF paths = <<>> THEN {dir} ELSE {dir \o paths[i] : i \in DOMAIN paths}
      files == UNION {CollectFrom(fs, p) : p \in wanted}
  IN  [ok |-> (\A p \in wanted : Exists(fs, p)) /\ (paths = <<>> \/ files # {}), files |-> files]

\* resolve_safe_project_dir and ensure_under_root.
SafeDir(fs, root, dir) == Exists(fs, root \o dir) /\ IsPrefix(root, Canonical(fs, root \o dir))

\* Mutant: only the names in the path are looked at.
SafeByName(fs, dir, path) == \A i \in DOMAIN path : path[i] \notin {"..", "/"}

\* resolve_safe_project_path.
SafePath(fs, dir, path) ==
  /\ \A i \in DOMAIN path : path[i] \notin {"..", "/"}
  /\ Exists(fs, dir \o path) => IsPrefix(dir, Canonical(fs, dir \o path))

\* build_nova_meta_tool_response and build_nova_meta_tool_validation_options:
\* the files the tool reads.
ToolReads(fs, root, dir, paths, selector) ==
  IF ~SafeDir(fs, root, dir) \/ (\E i \in DOMAIN paths : ~SafePath(fs, Canonical(fs, root \o dir), paths[i]))
     \/ (selector.column # {} /\ selector.name = {})
  THEN [ok |-> FALSE, files |-> {}]
  ELSE CollectFiles(fs, Canonical(fs, root \o dir), paths)

\* run_nova_meta_command and build_nova_meta_validation_options: the command
\* goes where it is sent.
CommandReads(fs, dir, paths) == CollectFiles(fs, dir, paths)

\* The tool reads no file outside the working directory of the server, nor
\* outside the project it was asked about, whatever links there are; and within
\* it, it reads what the command reads.
ToolStaysInside(fs, root, dir, paths, selector) ==
  LET reads == ToolReads(fs, root, dir, paths, selector)
      project == Canonical(fs, root \o dir)
  IN  /\ reads.ok => \A f \in reads.files : IsPrefix(root, f) /\ IsPrefix(project, f)
      /\ reads.ok /\ paths # <<>> => reads.files # {}
      /\ reads.ok => reads = CommandReads(fs, project, paths)
=============================================================================
