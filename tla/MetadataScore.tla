--------------------------- MODULE MetadataScore ---------------------------
(***************************************************************************)
(* The metadata score of entities, columns and projects                    *)
(* (src/src/tools/metadata_score). A category is a sequence of parts, each *)
(* with its points, its maximum and whether a gap is recommended on. Texts *)
(* are those of EntityMeta, descriptions their trimmed length; points are  *)
(* computed in f32 by the code and exactly here, which differs by at most  *)
(* one, when a sum of weighted categories ends in one half.                *)
(***************************************************************************)
EXTENDS EntityMeta

\* clamp_to_u8 of num / den.
ClampToU8(num, den, max) == Min({max, (2 * num + den) \div (2 * den)})

\* description_tier_score and array_tier_score.
DescriptionTierScore(len, max) ==
  ClampToU8(max * (CASE len = 0 -> 0 [] len \in 1 .. 19 -> 20 [] len \in 20 .. 49 -> 50 [] len \in 50 .. 99 -> 80 [] OTHER -> 100), 100, max)
ArrayTierScore(count, max) ==
  ClampToU8(max * (CASE count = 0 -> 0 [] count = 1 -> 4 [] count = 2 -> 7 [] OTHER -> 10), 10, max)

\* percent_with_expectation of some columns, and percent_score.
PercentOf(some, total) == ClampToU8(100 * some, total, 100)
PercentScore(percent, max) == ClampToU8(percent * max, 100, max)

ExpectsColumns(type) == type \in {"model", "source", "seed", "snapshot"}

\* has_owner: one in meta, though blank, hides the other.
HasOwner(x) == IF x.metaOwner # "absent" THEN x.metaOwner = "given" ELSE x.owner = "given"

GradeFromScore(score) ==
  CASE score >= 90 -> "A" [] score \in 80 .. 89 -> "B" [] score \in 70 .. 79 -> "C" [] score \in 60 .. 69 -> "D" [] OTHER -> "F"

Part(field, score, max, said) == [field |-> field, score |-> score, max |-> max, said |-> said]
Present(field, present, max) == Part(field, IF present THEN max ELSE 0, max, TRUE)
Points(parts) == MapThenSumSet(LAMBDA i : parts[i].score, DOMAIN parts)

\* push_recommendation, for every gap there is.
Recommendations(category, parts) ==
  LET gaps == SelectSeq(parts, LAMBDA p : p.said /\ p.score < p.max)
  IN  [i \in DOMAIN gaps |-> [category |-> category, impact |-> gaps[i].max - gaps[i].score, field |-> gaps[i].field]]

-----------------------------------------------------------------------------
(* The tests of an entity: of each its name, the entity and the column it  *)
(* is attached to, the entities it depends on and the columns it combines. *)

\* build_path_and_test_indexes: tests_by_entity and tests_by_column.
TestsByEntity(tests, id) == {t \in tests : t.attached = {id} \/ id \in t.deps}
TestsByColumn(tests, id, column) == {t \in tests : t.attached = {id} /\ t.column = {column}}

\* column_role: a primary key is an identifier unless it has another role.
ColumnRole(c) == IF c.role = {} /\ c.key THEN {"identifier"} ELSE c.role

\* summarize_test_coverage: the points for critical columns, identifiers and
\* measures counting more than times, and for dimensions.
CoverageSummary(e, tests) ==
  LET with(roles) == {i \in DOMAIN e.columns : ColumnRole(e.columns[i]) \in {{r} : r \in roles}}
      tested == {i \in DOMAIN e.columns : TestsByColumn(tests, e.id, e.columns[i].name) # {}}
      weighed(S) == 3 * Cardinality(S \cap with({"identifier", "measure"})) + 2 * Cardinality(S \cap with({"time"}))
      percent(some, total) == IF total > 0 THEN PercentOf(some, total) ELSE IF ExpectsColumns(e.type) THEN 0 ELSE 100
      critical == with({"identifier", "measure", "time"})
      dimensions == with({"dimension"})
  IN  [critical |-> PercentScore(percent(weighed(critical \cap tested), weighed(critical)), 20),
       dimension |-> PercentScore(percent(Cardinality(dimensions \cap tested), Cardinality(dimensions)), 10),
       criticalColumns |-> Cardinality(critical), criticalTested |-> Cardinality(critical \cap tested),
       dimensionColumns |-> Cardinality(dimensions), dimensionTested |-> Cardinality(dimensions \cap tested)]

\* summarize_tests and classify_tests. The points of tests on the whole model
\* are shown and recommended on, but are no part of the score.
TestSummary(e, tests) ==
  LET of == TestsByEntity(tests, e.id)
      coverage == CoverageSummary(e, tests)
      baseline == IF of = {} THEN 0 ELSE 10
  IN  [score |-> Min({30, baseline + coverage.critical + coverage.dimension}), baseline |-> baseline, coverage |-> coverage,
       model |-> ArrayTierScore(Cardinality({t \in of : t.column = {}}), 10)]

\* recommend_test_coverage.
TestParts(summary) ==
  IF summary.score = 0 THEN <<Part("tests", 0, 30, TRUE)>>
  ELSE <<Part("tests", summary.coverage.critical, 20, TRUE),
         Part("tests", summary.coverage.dimension, 10, summary.coverage.dimensionColumns > 0),
         Part("tests", summary.model, 10, TRUE)>>

\* missing_primary_key_tests.
MissingKeyTests(e, tests, column) == {"unique", "not_null"} \ {t.name : t \in TestsByColumn(tests, e.id, column)}

\* Mutant: one column of a key that is tested is enough.
SomeKeyTested(e, tests, columns) == \E i \in DOMAIN columns : MissingKeyTests(e, tests, columns[i]) = {}

\* pk_integrity_ok.
PkIntegrityOk(e, tests, columns) == \A i \in DOMAIN columns : MissingKeyTests(e, tests, columns[i]) = {}

\* unique_test_columns and unique_test_covers_columns.
UniqueTestColumns(test) ==
  CASE test.name = "unique" -> test.column
    [] test.name = "unique_combination_of_columns" -> test.columns
    [] OTHER -> {}
UniqueTestCovers(e, tests, columns) ==
  \E t \in TestsByEntity(tests, e.id) :
    UniqueTestColumns(t) # {} /\ {Normalized(c) : c \in UniqueTestColumns(t)} = {Normalized(c) : c \in ToSet(columns)}

\* nova_grain_primary_keys and aggregate_grain_columns, without blanks.
NamedColumns(texts) == SelectSeq([i \in DOMAIN texts |-> Trimmed(texts[i])], LAMBDA t : ~IsBlank(t))
GrainPrimaryKeys(e) == UNION {IF NamedColumns(n.grain.keys) = <<>> THEN {} ELSE {NamedColumns(n.grain.keys)} : n \in e.nova}
AggregateGrain(e) ==
  UNION {IF NamedColumns(n.grain.dims) = <<>> THEN {}
         ELSE {<<Trimmed(t)>> \o NamedColumns(n.grain.dims) : t \in {t \in n.grain.time : ~IsBlank(t)}} : n \in e.nova}

\* summarize_primary_keys: the first evidence there is.
PrimaryKeySummary(e, tests) ==
  LET keys == SelectSeq([i \in DOMAIN e.columns |-> e.columns[i]], LAMBDA c : c.key)
      declared == IF keys # <<>> THEN {[i \in DOMAIN keys |-> keys[i].name]} ELSE GrainPrimaryKeys(e)
      aggregate == {g \in AggregateGrain(e) : UniqueTestCovers(e, tests, g)}
  IN  IF declared # {} THEN [present |-> TRUE, columns |-> CHOOSE k \in declared : TRUE, integrity |-> \A k \in declared : PkIntegrityOk(e, tests, k)]
      ELSE IF aggregate # {} THEN [present |-> TRUE, columns |-> CHOOSE g \in aggregate : TRUE, integrity |-> TRUE]
      ELSE [present |-> FALSE, columns |-> <<>>, integrity |-> FALSE]

\* constraint_count: constraints of the three known types.
ConstraintCount(columns) == MapThenSumSet(LAMBDA i : columns[i].constraints, DOMAIN columns)

\* score_quality, total_quality_score and apply_quality_recommendations.
ScoreQuality(e, tests) ==
  LET summary == TestSummary(e, tests)
      pk == PrimaryKeySummary(e, tests)
      parts == <<Part("columns.meta.primary_key", IF pk.present THEN 20 ELSE 0, 20, ExpectsColumns(e.type)),
                 Part("tests", IF pk.integrity THEN 10 ELSE 0, 10, pk.present),
                 Part("columns.constraints", ArrayTierScore(ConstraintCount(e.columns), 10), 10, ExpectsColumns(e.type))>>
  IN  [score |-> summary.score + Points(parts), parts |-> parts, summary |-> summary, key |-> pk,
       advice |-> Recommendations("quality", TestParts(summary) \o parts)]

-----------------------------------------------------------------------------
(* The other categories of an entity. meta.nova is a set of at most one.   *)

Nova(e) == IF e.nova = {} THEN [synonyms |-> 0, domains |-> 0, useCases |-> 0, grain |-> [shape |-> "absent", time |-> {}, keys |-> <<>>, dims |-> <<>>],
                                metric |-> {}, metrics |-> {}, measures |-> <<>>, sensitivity |-> FALSE, pii |-> FALSE, compliance |-> 0]
           ELSE CHOOSE n \in e.nova : TRUE

Category(name, parts) == [score |-> Points(parts), parts |-> parts, advice |-> Recommendations(name, parts)]

\* column_description_score: the mean of the tiers.
ColumnDescriptionPoints(columns, expected) ==
  IF columns = <<>> THEN IF expected THEN 0 ELSE 40
  ELSE ClampToU8(40 * MapThenSumSet(LAMBDA i : DescriptionTierScore(columns[i].description, 100), DOMAIN columns), 100 * Len(columns), 40)

\* score_documentation.
ScoreDocumentation(e) ==
  Category("documentation",
    <<Part("description", DescriptionTierScore(e.description, 30), 30, TRUE),
      Part("columns.description", ColumnDescriptionPoints(e.columns, ExpectsColumns(e.type)), 40, ExpectsColumns(e.type)),
      Present("owner", HasOwner(e), 15)>>)

\* column_semantic_coverage and score_column_semantics.
ColumnSemanticPoints(columns, expected) ==
  LET with == {i \in DOMAIN columns : columns[i].role # {} \/ columns[i].semanticType}
  IN  PercentScore(IF columns = <<>> THEN IF expected THEN 0 ELSE 100 ELSE PercentOf(Cardinality(with), Len(columns)), 30)

\* grain_present: any object that is not empty will do.
GrainPresent(nova) ==
  LET metrics == nova.metric \cup UNION {ToSet(s) : s \in nova.metrics}
  IN  nova.grain.shape \in {"known", "unknown"} \/ \E m \in metrics : m.grain \in {"known", "unknown"}

\* measures_quality_score and metrics_quality_score, with scale_score; without
\* an expression they start from other points.
IndicatorQuality(items, plain) ==
  LET expression == \E i \in DOMAIN items : items[i].expression
      synonyms == \E i \in DOMAIN items : items[i].synonyms > 0
  IN  ClampToU8(12 * (IF items = <<>> THEN 0 ELSE IF ~expression THEN plain ELSE IF ~synonyms THEN 10 ELSE 15), 15, 12)

\* `metrics`, though empty, hides `metric`.
MetricsOf(nova) == IF nova.metrics # {} THEN CHOOSE s \in nova.metrics : TRUE ELSE SetToSeq(nova.metric)

\* score_semantic, collect_semantic_scores and not_applicable_indicator_score.
ScoreSemantic(e) ==
  LET nova == Nova(e)
      array(field, count) == Part(field, ArrayTierScore(count, 12), 12, TRUE)
      indicator(field, score) == IF e.type = "source" THEN Part(field, 0, 0, FALSE) ELSE Part(field, score, 12, TRUE)
  IN  Category("semantic",
        <<array("meta.nova.synonyms", nova.synonyms), array("meta.nova.domains", nova.domains), array("meta.nova.use_cases", nova.useCases),
          Part("columns.meta.nova", ColumnSemanticPoints(e.columns, ExpectsColumns(e.type)), 30, ExpectsColumns(e.type)),
          Present("meta.nova.grain", GrainPresent(nova), 20),
          indicator("meta.nova.measures", IndicatorQuality(nova.measures, 6)), indicator("meta.nova.metrics", IndicatorQuality(MetricsOf(nova), 5))>>)

\* score_governance.
ScoreGovernance(e) ==
  LET nova == Nova(e)
  IN  Category("governance",
        <<Present("meta.nova.governance.sensitivity", nova.sensitivity, 20), Present("meta.nova.governance.pii", nova.pii, 30),
          Part("meta.nova.governance.compliance", ArrayTierScore(nova.compliance, 20), 20, TRUE), Present("owner", HasOwner(e), 30)>>)

\* MetadataScoreWeightProfiles, in percent, and resolve_metadata_weights.
Weights(persona) ==
  CASE persona = "analyst" -> [documentation |-> 20, semantic |-> 45, governance |-> 15, quality |-> 20]
    [] persona = "engineer" -> [documentation |-> 20, semantic |-> 15, governance |-> 15, quality |-> 50]
    [] persona = "governance" -> [documentation |-> 15, semantic |-> 15, governance |-> 55, quality |-> 15]
    [] OTHER -> [documentation |-> 30, semantic |-> 25, governance |-> 25, quality |-> 20]

\* CategoryScore::weighted, summed: documentation is out of 85 points and
\* semantics out of 98, of which there are 110.
Overall(documentation, semantic, governance, quality, maxDocumentation, maxSemantic, weights) ==
  ClampToU8(documentation * weights.documentation * maxSemantic * 100 + semantic * weights.semantic * maxDocumentation * 100
              + (governance * weights.governance + quality * weights.quality) * maxDocumentation * maxSemantic,
            maxDocumentation * maxSemantic * 100, 100)

\* score_entity.
ScoredMetadata(id, documentation, semantic, governance, quality, weights) ==
  LET overall == Overall(documentation.score, semantic.score, governance.score, quality.score, 85, 98, weights)
  IN  [id |-> id, overall |-> overall, grade |-> GradeFromScore(overall), documentation |-> documentation, semantic |-> semantic,
       governance |-> governance, quality |-> quality,
       advice |-> documentation.advice \o semantic.advice \o governance.advice \o quality.advice]
ScoreEntity(e, tests, weights) ==
  ScoredMetadata(e.id, ScoreDocumentation(e), ScoreSemantic(e), ScoreGovernance(e), ScoreQuality(e, tests), weights)

-----------------------------------------------------------------------------
(* One column (score_column).                                              *)

ScoreColumnDocumentation(c) ==
  Category("documentation", <<Part("columns.description", DescriptionTierScore(c.description, 50), 50, TRUE), Present("columns.owner", HasOwner(c), 50)>>)
ScoreColumnSemantic(c) ==
  Category("semantic", <<Present("columns.meta.nova.role", c.role # {}, 30), Present("columns.meta.nova.semantic_type", c.semanticType, 30),
                         Part("columns.meta.nova.synonyms", ArrayTierScore(c.synonyms, 40), 40, TRUE)>>)
ScoreColumnGovernance(c) ==
  Category("governance",
    <<Present("columns.meta.nova.governance.sensitivity", c.sensitivity, 40), Present("columns.meta.nova.governance.pii", c.pii, 40),
      Part("columns.meta.nova.governance.compliance", ArrayTierScore(c.compliance, 20), 20, TRUE)>>)

\* Mutant: tests are not asked for.
QualityByTypes(id, c, tests) ==
  LET parts == <<Present("columns.data_type", c.dataType, 40),
                 Part("columns", IF TestsByColumn(tests, id, c.name) = {} THEN 0 ELSE 40, 40, FALSE),
                 Part("columns", ArrayTierScore(c.constraints + c.otherConstraints, 20), 20, FALSE)>>
  IN  [score |-> Points(parts), parts |-> parts, advice |-> Recommendations("quality", parts)]

\* score_column_quality: what is missing is recommended on as a whole, the data
\* type once more by itself. Constraints of any type count here.
ScoreColumnQuality(id, c, tests) ==
  LET parts == <<Present("columns.data_type", c.dataType, 40),
                 Part("columns", IF TestsByColumn(tests, id, c.name) = {} THEN 0 ELSE 40, 40, FALSE),
                 Part("columns", ArrayTierScore(c.constraints + c.otherConstraints, 20), 20, FALSE)>>
  IN  [score |-> Points(parts), parts |-> parts,
       advice |-> Recommendations("quality", Append(parts, Part("columns", Points(parts), 100, TRUE)))]

ScoredColumn(documentation, semantic, governance, quality, weights) ==
  [overall |-> Overall(documentation.score, semantic.score, governance.score, quality.score, 100, 100, weights),
   advice |-> documentation.advice \o semantic.advice \o governance.advice \o quality.advice]
ScoreColumn(id, c, tests, weights) ==
  ScoredColumn(ScoreColumnDocumentation(c), ScoreColumnSemantic(c), ScoreColumnGovernance(c), ScoreColumnQuality(id, c, tests), weights)

\* average_score, and score_column_scope.
AverageScore(scores) == IF scores = <<>> THEN 0 ELSE ClampToU8(MapThenSumSet(LAMBDA i : scores[i], DOMAIN scores), Len(scores), 100)
ScoreColumnScope(e, tests, weights) == AverageScore([i \in DOMAIN e.columns |-> ScoreColumn(e.id, e.columns[i], tests, weights).overall])

-----------------------------------------------------------------------------
(* The diagnostics (build_entity_score_diagnostics and for a column).      *)

Diagnostic(code, field, column, score) == {[code |-> code, field |-> field, column |-> column, score |-> score]}

\* push_description_diagnostic and push_array_diagnostic.
DescriptionDiagnostic(field, column, len, max) ==
  IF DescriptionTierScore(len, max) >= max THEN {} ELSE Diagnostic("description_tier_progress", field, column, DescriptionTierScore(len, max))
ArrayDiagnostic(field, count, max) ==
  IF count >= 3 THEN {} ELSE Diagnostic("array_tier_progress", field, {}, ArrayTierScore(count, max))

\* push_grain_shape_diagnostics.
GrainShapeDiagnostics(nova) ==
  LET bad(field, shape) == IF shape \in {"absent", "known"} THEN {} ELSE Diagnostic("invalid_grain_shape", field, {}, 0)
  IN  bad("meta.nova.grain", nova.grain.shape) \cup UNION {bad("meta.nova.metric.grain", m.grain) : m \in nova.metric}
      \cup UNION {bad("meta.nova.metrics.grain", m.grain) : m \in UNION {ToSet(s) : s \in nova.metrics}}

\* entity_column: the exact name first.
EntityColumn(columns, name) ==
  LET exact == SelectSeq(columns, LAMBDA c : c.name = name)
      alike == SelectSeq(columns, LAMBDA c : Normalized(c.name) = Normalized(name))
  IN  IF exact # <<>> THEN {exact[1]} ELSE IF alike # <<>> THEN {alike[1]} ELSE {}

\* push_catalog_grain_time_field_diagnostics.
TimeFieldDiagnostics(e, nova) ==
  LET fields == {Trimmed(t) : t \in {t \in nova.grain.time : ~IsBlank(t)}}
  IN  IF \E c \in UNION {EntityColumn(e.columns, f) : f \in fields} : c.catalogType \notin {"", "temporal"}
      THEN Diagnostic("grain_time_field_not_temporal", "meta.nova.grain.time_field", {}, 0) ELSE {}

\* push_primary_key_integrity_diagnostics.
KeyDiagnostics(e, tests) ==
  UNION {Diagnostic("primary_key_integrity_missing_tests", "columns", {c.name}, 0) :
           c \in {c \in ToSet(e.columns) : c.key /\ MissingKeyTests(e, tests, c.name) # {}}}

\* build_entity_score_diagnostics; `shown` is MAX_COLUMN_DIAGNOSTICS.
EntityDiagnostics(e, nova, tests, shown) ==
  DescriptionDiagnostic("description", {}, e.description, 30)
  \cup UNION {DescriptionDiagnostic("columns.description", {e.columns[i].name}, e.columns[i].description, 100) : i \in 1 .. Min({shown, Len(e.columns)})}
  \cup ArrayDiagnostic("meta.nova.synonyms", nova.synonyms, 12) \cup ArrayDiagnostic("meta.nova.domains", nova.domains, 12)
  \cup ArrayDiagnostic("meta.nova.use_cases", nova.useCases, 12) \cup ArrayDiagnostic("meta.nova.governance.compliance", nova.compliance, 20)
  \cup GrainShapeDiagnostics(nova) \cup TimeFieldDiagnostics(e, nova) \cup KeyDiagnostics(e, tests)

\* build_column_score_diagnostics, but for constraints, of which it counts the
\* three known types alone.
ColumnDiagnostics(c) ==
  DescriptionDiagnostic("columns.description", {c.name}, c.description, 50) \cup ArrayDiagnostic("columns.meta.nova.synonyms", c.synonyms, 40)
  \cup ArrayDiagnostic("columns.meta.nova.governance.compliance", c.compliance, 20)

\* What is diagnosed is what was scored: each field with the points it got and
\* a gap that is recommended on; the tests a key lacks are named just when its
\* integrity gives no points; and a grain that is no object, or empty, gives
\* none. (One without a known field is diagnosed too, and does.)
DiagnosedAsScored(diagnostics, columnDiagnostics, e, nova, score, columnScore) ==
  LET agree(seen, parts, advice) ==
        \A p \in parts : p.field # "columns.description" /\ p.said =>
          \A d \in seen : d.field = p.field /\ d.code \in {"description_tier_progress", "array_tier_progress"} =>
            d.score = p.score /\ \E i \in DOMAIN advice : advice[i].field = p.field
      tiers == {d.field : d \in {d \in diagnostics : d.code = "array_tier_progress"}}
      badGrains == {d.field : d \in {d \in diagnostics : d.code = "invalid_grain_shape"}}
      keysMissing == \E d \in diagnostics : d.code = "primary_key_integrity_missing_tests"
  IN  /\ agree(diagnostics, ToSet(score.documentation.parts) \cup ToSet(score.semantic.parts) \cup ToSet(score.governance.parts), score.advice)
      /\ \A f \in {"meta.nova.synonyms", "meta.nova.domains", "meta.nova.use_cases", "meta.nova.governance.compliance"} :
           f \in tiers <=> \E i \in DOMAIN score.advice : score.advice[i].field = f
      /\ (\E c \in ToSet(e.columns) : c.key) => (keysMissing <=> score.quality.key.present /\ ~score.quality.key.integrity)
      /\ "meta.nova.grain" \in badGrains /\ nova.grain.shape # "unknown" /\ nova.metric = {} /\ nova.metrics = {} =>
           \E i \in DOMAIN score.advice : score.advice[i].field = "meta.nova.grain"
      /\ \A d \in columnDiagnostics : \E i \in DOMAIN columnScore.advice : columnScore.advice[i].field = d.field
DiagnosticsAgree(e, tests, weights, shown) ==
  DiagnosedAsScored(EntityDiagnostics(e, Nova(e), tests, shown), UNION {ColumnDiagnostics(c) : c \in {e.columns[i] : i \in {1} \cap DOMAIN e.columns}},
                    e, Nova(e), ScoreEntity(e, tests, weights),
                    IF e.columns = <<>> THEN [advice |-> <<>>] ELSE ScoreColumn(e.id, e.columns[1], tests, weights))

-----------------------------------------------------------------------------
(* What the score promises about one entity.                               *)

\* One more piece of metadata: a longer description, an owner, another entry, a
\* classification. A role is none: it adds a column that ought to be tested.
Improved(e) ==
  LET nova == Nova(e)
      columns(f) == {[e EXCEPT !.columns[i] = f[i]] : i \in DOMAIN e.columns}
  IN  {[e EXCEPT !.description = @ + 30], [e EXCEPT !.metaOwner = "given"]}
      \cup {[e EXCEPT !.nova = {n}] :
              n \in {[nova EXCEPT !.synonyms = @ + 1], [nova EXCEPT !.domains = @ + 1], [nova EXCEPT !.useCases = @ + 1], [nova EXCEPT !.pii = TRUE],
                     [nova EXCEPT !.sensitivity = TRUE], [nova EXCEPT !.compliance = @ + 1],
                     [nova EXCEPT !.measures = Append(@, [expression |-> TRUE, synonyms |-> 1, grain |-> "absent"])],
                     IF nova.grain.shape = "known" THEN nova
                     ELSE [nova EXCEPT !.grain = [shape |-> "known", time |-> {}, keys |-> <<Plain(1)>>, dims |-> <<>>]]}}
      \cup columns([i \in DOMAIN e.columns |-> [e.columns[i] EXCEPT !.description = @ + 40]])
      \cup columns([i \in DOMAIN e.columns |-> [e.columns[i] EXCEPT !.semanticType = TRUE]])
      \cup columns([i \in DOMAIN e.columns |-> [e.columns[i] EXCEPT !.constraints = @ + 1]])

\* More metadata or another test never lowers a score; and where columns are
\* expected, what would raise a category is never left without a recommendation
\* in that category.
AdvisedToRise(before, after, expects) ==
  /\ after.overall >= before.overall
  /\ expects => \A k \in {"documentation", "semantic", "governance", "quality"} : after[k].score > before[k].score => before[k].advice # <<>>
MoreIsBetter(e, tests, test, weights) ==
  \A before \in {ScoreEntity(e, tests, weights)} :
    /\ \A better \in Improved(e) : AdvisedToRise(before, ScoreEntity(better, tests, weights), ExpectsColumns(e.type))
    /\ AdvisedToRise(before, ScoreEntity(e, tests \cup {test}, weights), ExpectsColumns(e.type))

\* Integrity is credited only to a key that some test of the entity itself shows
\* to be unique; a key without credit is recommended on.
KeyIsTested(e, tests, quality) ==
  /\ quality.key.integrity =>
       \E t \in TestsByEntity(tests, e.id) :
         UniqueTestColumns(t) # {} /\ {Normalized(c) : c \in UniqueTestColumns(t)} \subseteq {Normalized(c) : c \in ToSet(quality.key.columns)}
  /\ quality.key.present /\ ~quality.key.integrity => \E i \in DOMAIN quality.advice : quality.advice[i] = [category |-> "quality", impact |-> 10, field |-> "tests"]

\* A column on which there is nothing to recommend has the full score, and one
\* below it is told of points that would make it up.
ColumnAdvised(column) ==
  /\ column.advice = <<>> => column.overall = 100
  /\ column.overall < 100 => MapThenSumSet(LAMBDA i : column.advice[i].impact, DOMAIN column.advice) >= 100 - column.overall

EntityWellScored(e, tests, test, weights) ==
  /\ MoreIsBetter(e, tests, test, weights)
  /\ KeyIsTested(e, tests, ScoreQuality(e, tests))
  /\ \A i \in DOMAIN e.columns : ColumnAdvised(ScoreColumn(e.id, e.columns[i], tests, weights))

-----------------------------------------------------------------------------
(* A project: the entities of the asked types, scored, in order.           *)

TypeOrder == <<"exposure", "model", "source">>

\* score_project_scope: types and ids sorted, a type asked twice once.
OrderedEntities(entities, types) ==
  LET asked == IF types = {} THEN {"model"} ELSE types
      rank(e) == SelectInSeq(TypeOrder, LAMBDA t : t = e.type)
  IN  SetToSortSeq({e \in entities : e.type \in asked}, LAMBDA a, b : rank(a) < rank(b) \/ (rank(a) = rank(b) /\ a.id < b.id))

ScoreBucket(score) ==
  CASE score >= 90 -> 90 [] score \in 80 .. 89 -> 80 [] score \in 70 .. 79 -> 70 [] score \in 60 .. 69 -> 60 [] OTHER -> 0

\* ProjectScoreSummaryBuilder: worst entities, in the order of score and id,
\* recommended fields by how often and how much, weak categories by their gap.
WorstEntities(scored, max) ==
  LET order == SortSeq([i \in DOMAIN scored |-> i], LAMBDA i, j : scored[i].overall < scored[j].overall
                                                                 \/ (scored[i].overall = scored[j].overall /\ scored[i].id < scored[j].id))
  IN  [n \in 1 .. Min({max, Len(scored)}) |-> scored[order[n]].id]
FieldNames ==
  <<"columns.constraints", "columns.description", "columns.meta.nova", "columns.meta.primary_key", "description", "meta.nova.domains",
    "meta.nova.governance.compliance", "meta.nova.governance.pii", "meta.nova.governance.sensitivity", "meta.nova.grain", "meta.nova.measures",
    "meta.nova.metrics", "meta.nova.synonyms", "meta.nova.use_cases", "owner", "tests">>
FieldsAdvised(all) ==
  LET fields == SelectSeq(FieldNames, LAMBDA f : \E i \in DOMAIN all : all[i].field = f)
  IN  [n \in DOMAIN fields |->
         [field |-> fields[n], count |-> Cardinality({i \in DOMAIN all : all[i].field = fields[n]}),
          impact |-> MapThenSumSet(LAMBDA i : IF all[i].field = fields[n] THEN all[i].impact ELSE 0, DOMAIN all)]]

\* Mutant: the fields with most points first.
FieldsByImpact(fields, max) == SubSeq(SortSeq(fields, LAMBDA a, b : a.impact > b.impact), 1, Min({max, Len(fields)}))

TopFields(fields, max) ==
  SubSeq(SortSeq(fields, LAMBDA a, b : a.count > b.count \/ (a.count = b.count /\ a.impact > b.impact)), 1, Min({max, Len(fields)}))
CategoryGap(scored, category, weights) ==
  MapThenSumSet(LAMBDA i : weights[category] * (100 - Min({100, scored[i][category].score})), DOMAIN scored)
WeakSpots(scored, weights) ==
  SortSeq(<<"documentation", "governance", "quality", "semantic">>, LAMBDA a, b : CategoryGap(scored, a, weights) > CategoryGap(scored, b, weights))

\* CoverageAggregate.
ProjectCoverage(scored) ==
  LET sum(part(_)) == MapThenSumSet(LAMBDA i : part(scored[i].quality.summary), DOMAIN scored)
      percent(some, total) == IF total = 0 THEN 0 ELSE PercentOf(some, total)
  IN  [tested |-> Cardinality({i \in DOMAIN scored : scored[i].quality.summary.baseline > 0}),
       critical |-> percent(sum(LAMBDA s : s.coverage.criticalTested), sum(LAMBDA s : s.coverage.criticalColumns)),
       dimension |-> percent(sum(LAMBDA s : s.coverage.dimensionTested), sum(LAMBDA s : s.coverage.dimensionColumns))]

\* Mutant: only what is on the page is averaged.
AverageOfPage(scored, page) == AverageScore([i \in DOMAIN page |-> page[i].overall])

ProjectOverall(scored, page) == AverageScore([i \in DOMAIN scored |-> scored[i].overall])

\* score_project_scope and ProjectScoreSummaryBuilder::build.
ProjectScope(scored, weights, limit, offset, max) ==
  LET page == SubSeq(scored, offset + 1, Min({Len(scored), offset + limit}))
      next == offset + Len(page)
  IN  [overall |-> ProjectOverall(scored, page), entities |-> [i \in DOMAIN page |-> page[i].id],
       buckets |-> [b \in {0, 60, 70, 80, 90} |-> Cardinality({i \in DOMAIN scored : ScoreBucket(scored[i].overall) = b})],
       worst |-> WorstEntities(scored, max), fields |-> TopFields(FieldsAdvised(FlattenSeq([i \in DOMAIN scored |-> scored[i].advice])), max), weak |-> WeakSpots(scored, weights),
       coverage |-> ProjectCoverage(scored), next |-> IF next < Len(scored) THEN {next} ELSE {}]

\* Whichever page is asked for, the same is said of the project; following the
\* pages lists every entity once, in order; entities and fields left out of the
\* summary are no worse and no more frequent than those in it.
PagesAgree(pages, scored, max) ==
  LET follow[o \in 0 .. Len(scored)] ==
        pages[o].entities \o (IF pages[o].next = {} THEN <<>>
                              ELSE LET n == CHOOSE n \in pages[o].next : TRUE IN IF n <= o THEN <<"again">> ELSE follow[n])
      about(p) == <<p.overall, p.buckets, p.worst, p.fields, p.weak, p.coverage>>
      listed == {i \in DOMAIN scored : scored[i].id \in ToSet(pages[0].worst)}
      count(f) == MapThenSumSet(LAMBDA i : Cardinality({j \in DOMAIN scored[i].advice : scored[i].advice[j].field = f}), DOMAIN scored)
  IN  /\ \A o \in DOMAIN pages : about(pages[o]) = about(pages[0])
      /\ follow[0] = [i \in DOMAIN scored |-> scored[i].id]
      /\ MapThenSumSet(LAMBDA b : pages[0].buckets[b], {0, 60, 70, 80, 90}) = Len(scored)
      /\ \A i \in listed, j \in DOMAIN scored \ listed : scored[i].overall <= scored[j].overall
      /\ Cardinality(listed) = Min({max, Len(scored)})
      /\ \A f \in ToSet(FieldNames) :
           count(f) > 0 /\ (\A i \in DOMAIN pages[0].fields : pages[0].fields[i].field # f) =>
             Len(pages[0].fields) = max /\ \A i \in DOMAIN pages[0].fields : pages[0].fields[i].count >= count(f)
      /\ scored # <<>> => /\ \E i \in DOMAIN scored : scored[i].overall <= pages[0].overall
                          /\ \E i \in DOMAIN scored : scored[i].overall >= pages[0].overall
ProjectIsWhole(scored, weights, limit, max) ==
  PagesAgree([o \in 0 .. Len(scored) |-> ProjectScope(scored, weights, limit, o, max)], scored, max)
ProjectWellScored(entities, types, tests, weights, limit, max) ==
  \A ordered \in {OrderedEntities(entities, types)} :
    \A scored \in {[i \in DOMAIN ordered |-> ScoreEntity(ordered[i], tests, weights)]} : ProjectIsWhole(scored, weights, limit, max)
=============================================================================
