-------------------------- MODULE ModellingFindings --------------------------
(***************************************************************************)
(* The findings of the modelling audit                                     *)
(* (src/src/tools/modeling/agent_findings.rs and agent_context.rs): what   *)
(* in a project would make an agent choose or compute a metric wrongly. A  *)
(* finding is its severity, its code, the entities it names and what of    *)
(* them it is about; a category follows from the code. An entity's id is   *)
(* its place among the entities. The lists of examples inside a finding    *)
(* and their bounds of 8 and 12 are left out.                              *)
(***************************************************************************)
EXTENDS EntityOverlap

Finding(severity, code, ids, about) == {[severity |-> severity, code |-> code, ids |-> ids, about |-> about]}
If(condition, findings) == IF condition THEN findings ELSE {}

\* execution_surface.
ExecutionSurface(entity) ==
  IF entity.type \in {"metric", "semantic_model"} THEN "semantic_layer"
  ELSE IF entity.relation THEN "relation"
  ELSE "metadata_only"

\* entity_exposes_indicator, and indicator_refs_for_entity in its order.
Exposes(nova) == nova.metric # {} \/ nova.metrics # <<>> \/ nova.measures # <<>>
IndicatorRefs(nova) ==
  [i \in DOMAIN nova.measures |-> <<"measure", nova.measures[i]>>]
  \o [i \in DOMAIN DeclaredMetrics(nova) |-> <<"metric", DeclaredMetrics(nova)[i]>>]

\* entity_is_analyst_facing.
AnalystFacing(entity) ==
  /\ entity.type \notin {"test", "macro"}
  /\ entity.nova = {} => entity.relation
  /\ \A n \in entity.nova : n.analyst # {FALSE} /\ (n.canonical \/ Exposes(n) \/ entity.relation)

\* normalized_entity_column_names and grain_field_names.
ColumnNames(entity) == Nonblank({c.name : c \in ToSet(entity.columns)})
GrainFields(grain) == grain.time \cup grain.keys \cup grain.dims

-----------------------------------------------------------------------------
(* Findings about several entities.                                        *)

\* collect_duplicate_indicator_findings.
DuplicateFindings(profiles) ==
  UNION {LET ids == {profiles[i].id : i \in r.parents}
         IN  If(r.canonical > 1, Finding(IF r.inconsistent THEN "blocker" ELSE "high", "duplicate_canonical_indicator", ids, r.name))
             \cup If(r.canonical = 0, Finding("medium", "duplicate_indicator_without_canonical_parent", ids, r.name))
         : r \in ToSet(DuplicateRows(profiles))}

\* Mutant: indicators are told apart by their normalised names.
NormalizedKeys(entity) ==
  UNION {LET refs == IndicatorRefs(n)
         IN  {[key |-> Normalized(refs[i][2].name), place |-> i, labels |-> Nonblank({refs[i][2].name} \cup refs[i][2].synonyms),
               canonical |-> n.canonical \/ refs[i][2].canonical, id |-> entity.id] : i \in DOMAIN refs}
         : n \in entity.nova}

\* index_entity_indicator_labels and index_metric_labels: the indicators of
\* an entity with the labels they are known by.
IndicatorLabels(entity) ==
  UNION {LET refs == IndicatorRefs(n)
         IN  {[key |-> <<entity.id, refs[i][1], refs[i][2].name>>, place |-> i, labels |-> Nonblank({refs[i][2].name} \cup refs[i][2].synonyms),
               canonical |-> n.canonical \/ refs[i][2].canonical, id |-> entity.id] : i \in DOMAIN refs}
         : n \in entity.nova}

\* collect_semantic_label_collision_findings and insert_semantic_label_ref:
\* of indicators with one key the first counts.
LabelFindings(entities, profiles) ==
  LET labelled == UNION {IndicatorLabels(entities[profiles[i].id]) : i \in DOMAIN profiles}
      under(label) == {x \in labelled : label \in x.labels /\ \A y \in labelled : y.key = x.key /\ label \in y.labels => x.place <= y.place}
      canonical(label) == Cardinality({x.key : x \in {x \in under(label) : x.canonical}})
  IN  UNION {If(Cardinality({x.key : x \in under(l)}) > 1,
                Finding(IF canonical(l) > 1 THEN "high" ELSE "medium", "semantic_label_collision", {x.id : x \in under(l)}, l))
             : l \in UNION {x.labels : x \in labelled}}

\* collect_column_semantic_ambiguity_findings: the columns with a semantic type.
ColumnRefs(entities, profiles) ==
  LET refsOf(e) ==
        UNION {{[id |-> e.id, name |-> Normalized(c.name), role |-> c.role \ {""}, type |-> t, facing |-> AnalystFacing(e)] : t \in Nonblank(c.type)}
               : c \in ToSet(e.columns)}
  IN  UNION {refsOf(entities[profiles[i].id]) : i \in DOMAIN profiles}

\* collect_column_role_conflict_findings and collect_column_name_drift_findings.
ColumnFindings(refs) ==
  LET typed(t) == {r \in refs : r.type = t}
      named(n) == {r \in refs : r.name = n}
  IN  UNION {If(Cardinality(UNION {r.role : r \in typed(t)}) > 1,
                Finding("medium", "column_semantic_role_conflict", {r.id : r \in typed(t)}, t)) : t \in {r.type : r \in refs}}
      \cup UNION {If(Cardinality({r.type : r \in named(n)}) > 1 /\ (\E r \in named(n) : r.facing),
                     Finding("medium", "column_name_semantic_drift", {r.id : r \in named(n)}, n)) : n \in {r.name : r \in refs}}

\* collect_multi_grain_entity_findings.
MultiGrainFindings(entities, profiles) ==
  UNION {LET id == profiles[i].id
         IN  Finding(IF AnalystFacing(entities[id]) THEN "high" ELSE "medium", "entity_multiple_grain_variants", {id}, 0)
         : i \in ToSet(MultiGrainRows(profiles))}

-----------------------------------------------------------------------------
(* Findings about one entity.                                              *)

\* collect_indicator_parent_not_queryable_findings.
QueryableFindings(entity, nova) ==
  {f \in UNION {Finding("blocker", "indicator_parent_not_queryable", {entity.id}, i) : i \in DOMAIN IndicatorRefs(nova)} :
     ExecutionSurface(entity) = "metadata_only"}

\* Mutant: only the grain of the metric itself is looked at.
OwnGrainFindings(entity, nova, metric) ==
  If(entity.type # "metric" /\ nova.grain = {} /\ \A g \in metric.grain : g.time = {},
     Finding("high", "metric_missing_time_field", {entity.id}, metric.name))
  \cup If(entity.relation /\ ~metric.template /\ Normalized(metric.name) \notin ColumnNames(entity),
          Finding("medium", "metric_output_column_missing", {entity.id}, metric.name))
  \cup If(entity.relation /\ \E g \in metric.grain : ~(Nonblank(GrainFields(g)) \subseteq ColumnNames(entity)),
          Finding("high", "metric_grain_field_not_in_output", {entity.id}, metric.name))

\* collect_single_metric_surface_findings; a blank grain field is in no output.
SurfaceFindings(entity, nova, metric) ==
  If(entity.type # "metric" /\ \A g \in MetricGrains(nova, metric) : g.time = {},
     Finding("high", "metric_missing_time_field", {entity.id}, metric.name))
  \cup If(entity.relation /\ ~metric.template /\ Normalized(metric.name) \notin ColumnNames(entity),
          Finding("medium", "metric_output_column_missing", {entity.id}, metric.name))
  \cup If(entity.relation /\ \E g \in MetricGrains(nova, metric) : ~({Normalized(f) : f \in GrainFields(g)} \subseteq ColumnNames(entity)),
          Finding("high", "metric_grain_field_not_in_output", {entity.id}, metric.name))

\* collect_semantic_model_grain_findings.
SemanticModelFindings(entity, nova) ==
  {f \in If(\A g \in nova.grain : g.keys = {}, Finding("medium", "semantic_model_missing_primary_entity", {entity.id}, 0))
         \cup If(\A g \in nova.grain : g.time = {}, Finding("high", "semantic_model_missing_time_dimension", {entity.id}, 0)) :
     entity.type = "semantic_model" /\ nova.measures # <<>>}

\* collect_canonical_primary_key_finding.
KeyFindings(entity, nova) ==
  If(nova.canonical /\ entity.type = "model" /\ (\A c \in ToSet(entity.columns) : ~c.key) /\ \A g \in nova.grain : g.keys = {},
     Finding("high", "canonical_entity_missing_primary_key", {entity.id}, 0))

\* direct_parent_ids; the parents that are in the store.
Parents(entities, entity) == {entities[i] : i \in entity.parents \cap DOMAIN entities}

\* is_fact_like_entity and entity_has_measure_role_columns.
FactLike(entity) ==
  \/ entity.factName \/ \E n \in entity.nova : Exposes(n)
  \/ \E c \in ToSet(entity.columns) : c.role \cap {"fact", "measure", "metric"} # {}

\* entity_grain_signatures and grain_variant_signature: an empty grain has none.
GrainSignatures(entity) == {g \in UNION {n.grain : n \in entity.nova} : GrainFields(g) # {}}

\* collect_cross_grain_and_multi_fact_findings, with
\* collect_single_metric_cross_grain_findings for a metric that looks like a
\* ratio.
CrossGrainFindings(entities, entity, nova, metricNames) ==
  LET facts == {p \in Parents(entities, entity) : FactLike(p)}
      ratios == {m \in ToSet(DeclaredMetrics(nova)) : m.ratio}
  IN  If(Exposes(nova) /\ Cardinality(facts) >= 2,
         Finding(IF Cardinality(UNION {GrainSignatures(p) : p \in facts}) > 1 THEN "high" ELSE "medium", "multi_fact_metric_model", {entity.id}, 0))
      \cup UNION {If(ExecutionSurface(entity) = "metadata_only",
                     Finding("blocker", "ratio_like_metric_without_deterministic_surface", {entity.id}, m.name))
                  \cup If(Cardinality(facts) >= 2 /\ Normalized(m.name) \notin metricNames,
                          Finding("high", "cross_grain_kpi_without_semantic_artifact", {entity.id}, m.name)) : m \in ratios}

\* collect_parent_lineage_findings.
LineageFindings(entities, entity, tooMany) ==
  {f \in If(\E p \in Parents(entities, entity) : p.type = "source", Finding("high", "analyst_facing_model_depends_on_source", {entity.id}, 0))
         \cup If(Cardinality(entity.parents) >= tooMany, Finding("medium", "agent_surface_too_many_parents", {entity.id}, 0)) :
     AnalystFacing(entity)}

\* collect_helper_layer_findings, with has_canonical_metric_or_measure; the
\* layer is the one entity_layer finds, {} for none.
LayerFindings(entity, nova) ==
  LET canonical == (nova.canonical /\ Exposes(nova)) \/ \E i \in DOMAIN IndicatorRefs(nova) : IndicatorRefs(nova)[i][2].canonical
  IN  {f \in If(canonical, Finding("medium", "non_mart_model_exposes_canonical_indicator", {entity.id}, 0))
             \cup If(nova.analyst # {FALSE}, Finding("low", "helper_ranked_as_analyst_candidate", {entity.id}, 0)) :
         entity.layer = {"helper"}}

\* collect_governance_findings.
GovernanceFindings(entity) ==
  LET governed == \E n \in entity.nova : n.governance
  IN  {f \in If(~governed, Finding("medium", "analyst_surface_missing_governance", {entity.id}, 0))
             \cup UNION {If(c.pii /\ ~governed /\ ~c.governed, Finding("medium", "pii_like_column_without_governance", {entity.id}, c.name))
                         : c \in ToSet(entity.columns)} :
         AnalystFacing(entity)}

\* collect_catalog_indicator_field_findings and
\* collect_catalog_only_candidate_measure_columns.
CatalogFindings(entity) ==
  LET column(text) == {c \in ToSet(entity.columns) : c.name = text}
      used == UNION {UNION {UNION {column(t) : t \in m.field} : m \in ToSet(n.measures)} : n \in entity.nova}
  IN  UNION {If("type" \in c.drift, Finding("medium", "catalog_type_drift_on_indicator_field", {entity.id}, c.name))
             \cup If("missing" \in c.drift, Finding("high", "catalog_missing_indicator_field", {entity.id}, c.name)) : c \in used}
      \cup UNION {If(AnalystFacing(entity) /\ "only" \in c.drift /\ c.numeric, Finding("low", "catalog_only_candidate_measure_column", {entity.id}, c.name))
                  : c \in ToSet(entity.columns)}

\* semantic_model_measure_names and semantic_metric_names, of all entities.
SemanticMeasureNames(entities) ==
  Nonblank(UNION {UNION {{m.name : m \in ToSet(n.measures)} : n \in e.nova} : e \in {e \in ToSet(entities) : e.type = "semantic_model"}})
SemanticMetricNames(entities) ==
  Nonblank(UNION {{e.name} \cup UNION {{m.name : m \in ToSet(DeclaredMetrics(n))} : n \in e.nova} : e \in {e \in ToSet(entities) : e.type = "metric"}})

\* collect_semantic_metric_reference_findings.
ReferenceFindings(entity, measureNames) ==
  If(entity.type = "metric" /\ ~(Nonblank(entity.refs) \subseteq measureNames),
     Finding("high", "semantic_metric_unresolved_measure_ref", {entity.id}, 0))

\* collect_entity_agent_modelling_findings.
EntityFindings(entities, entity, tooMany) ==
  UNION {QueryableFindings(entity, n) \cup UNION {SurfaceFindings(entity, n, m) : m \in ToSet(DeclaredMetrics(n))}
         \cup SemanticModelFindings(entity, n) \cup KeyFindings(entity, n)
         \cup CrossGrainFindings(entities, entity, n, SemanticMetricNames(entities)) \cup LayerFindings(entity, n) : n \in entity.nova}
  \cup LineageFindings(entities, entity, tooMany) \cup GovernanceFindings(entity) \cup CatalogFindings(entity)
  \cup ReferenceFindings(entity, SemanticMeasureNames(entities))

\* build_agent_modelling_findings, over the entities that are compared.
Findings(entities, filter, min, tooMany) ==
  LET profiles == CollectProfiles(entities, filter, min)
  IN  DuplicateFindings(profiles) \cup LabelFindings(entities, profiles) \cup ColumnFindings(ColumnRefs(entities, profiles))
      \cup MultiGrainFindings(entities, profiles)
      \cup UNION {EntityFindings(entities, entities[profiles[i].id], tooMany) : i \in DOMAIN profiles}

-----------------------------------------------------------------------------
(* What is shown of them.                                                  *)

Severities == <<"blocker", "high", "medium", "low">>
Severity(finding) == CHOOSE i \in DOMAIN Severities : Severities[i] = finding.severity
Severe(findings) == {f \in findings : f.severity \in {"blocker", "high"}}

\* sort_agent_modelling_findings and truncate_agent_modelling_findings; the
\* order within a severity is abstracted to any.
ShownFindings(findings, max) ==
  LET sorted == Sorted(findings, LAMBDA f, g : Severity(f) < Severity(g))
  IN  SubSeq(sorted, 1, Min({max, Len(sorted)}))

\* agent_modelling_summary: counted over all findings, shown or not.
FindingsSummary(findings, max) ==
  [counts |-> [i \in DOMAIN Severities |-> Cardinality({f \in findings : Severity(f) = i})], truncated |-> Cardinality(findings) > max]

\* The indicators of the profiles that are canonical by themselves or by
\* their entity: a pair of the entity's id and the name.
CanonicalNames(entities, profiles) ==
  UNION {UNION {{<<profiles[i].id, Normalized(IndicatorRefs(n)[k][2].name)>> :
                   k \in {k \in DOMAIN IndicatorRefs(n) : n.canonical \/ IndicatorRefs(n)[k][2].canonical}}
                : n \in entities[profiles[i].id].nova} : i \in DOMAIN profiles}

\* Whether no entity defines one indicator twice.
DefinedOnce(entities) ==
  \A e \in ToSet(entities) : \A n \in e.nova : \A i, j \in DOMAIN IndicatorRefs(n) :
    i # j => Normalized(IndicatorRefs(n)[i][2].name) # Normalized(IndicatorRefs(n)[j][2].name)

\* The findings shown say whether there are more, and name both entities of a
\* pair in a severe one.
ShownAmong(findings, shown, pairs) ==
  /\ \A summary \in {FindingsSummary(findings, Len(shown))} : summary.truncated <=> Len(shown) < FoldSeq(+, 0, summary.counts)
  /\ \A pair \in pairs : \E f \in ToSet(shown) : f \in Severe(findings) /\ pair \subseteq f.ids

\* Two entities that both claim to be the canonical place of an indicator, a
\* measure here and a metric there included, are shown to the reader as a
\* severe finding, however many findings of less weight there are. Entities
\* that define one metric twice are left out: of the two, the duplicates
\* take the last and the labels the first.
ConflictsShown(entities, filter, min, tooMany) ==
  \A findings \in {Findings(entities, filter, min, tooMany)}, names \in {CanonicalNames(entities, CollectProfiles(entities, filter, min))} :
    ShownAmong(findings, ShownFindings(findings, Cardinality(Severe(findings))),
               {{xy[1][1], xy[2][1]} : xy \in {xy \in names \X names : DefinedOnce(entities) /\ xy[1][2] = xy[2][2] /\ xy[1][2] # 0 /\ xy[1][1] # xy[2][1]}})

\* In a project without severe findings every metric can be asked for by
\* period: through the relation of its entity, which has the column the time
\* field names, or through the semantic layer, where each measure that a
\* metric is made of belongs to a semantic model with a time dimension.
CleanIsAnswerable(entities, min, tooMany) ==
  LET findings == Findings(entities, {}, min, tooMany)
      timed(e) == \E n \in e.nova : \E g \in n.grain : g.time # {}
      measured(r) == \E e \in ToSet(entities) : e.type = "semantic_model" /\ timed(e)
                       /\ \E n \in e.nova : \E m \in ToSet(n.measures) : Normalized(m.name) = Normalized(r)
      answerable(e, n, m) ==
        CASE e.type = "metric" -> \A r \in e.refs : IsBlank(r) \/ measured(r)
          [] e.type = "semantic_model" -> timed(e) \/ \E g \in m.grain : g.time # {}
          [] OTHER -> e.relation /\ \E g \in MetricGrains(n, m) : g.time # {} /\ {Normalized(t) : t \in g.time} \subseteq ColumnNames(e)
  IN  Severe(findings) = {} => \A e \in ToSet(entities) : \A n \in e.nova : \A m \in ToSet(DeclaredMetrics(n)) : IsBlank(m.name) \/ answerable(e, n, m)
==============================================================================
