----------------------------- MODULE EntityMeta -----------------------------
(***************************************************************************)
(* What the manifest says of an entity beyond its columns                  *)
(* (src/src/manifest/entity.rs): `meta.nova`, in its old and its new       *)
(* place, and what is derived from MetricFlow resources. An absent value   *)
(* is {}, a present one a singleton; a text is a pair of a number, 0 for a *)
(* blank one, and how it is written.                                       *)
(***************************************************************************)
EXTENDS Integers, Sequences, FiniteSets, SequencesExt

Plain(n) == <<n, "plain">>
IsBlank(text) == text[1] = 0

\* str::trim, and normalize_name, which also lower-cases.
Trimmed(text) == IF text[2] = "padded" THEN Plain(text[1]) ELSE text
Normalized(text) == text[1]

-----------------------------------------------------------------------------
(* JSON values: null, a scalar, or an object.                              *)

JNull == [t |-> "null"]
JNum(n) == [t |-> "num", n |-> n]
JObj(f) == [t |-> "obj", f |-> f]
IsNull(v) == v.t = "null"

\* merge_json_value.
RECURSIVE MergeJson(_, _)
MergeJson(target, overlay) ==
  CASE IsNull(overlay) -> target
    [] target.t = "obj" /\ overlay.t = "obj" ->
         JObj([k \in DOMAIN target.f \cup DOMAIN overlay.f |->
                 IF k \notin DOMAIN target.f THEN overlay.f[k]
                 ELSE IF k \notin DOMAIN overlay.f THEN target.f[k] ELSE MergeJson(target.f[k], overlay.f[k])])
    [] OTHER -> overlay

\* Mutant: the new place wins when the old one is there as well.
NewPlaceWins(legacy, config) == IF ~IsNull(config) THEN config ELSE legacy

\* merged_meta_value_json: the old place overlays the new one.
MergedMeta(legacy, config) ==
  CASE IsNull(legacy) -> config
    [] legacy.t = "obj" /\ config.t = "obj" -> MergeJson(config, legacy)
    [] OTHER -> legacy

\* value.get(key), null for what is not there or is no object.
Get(v, key) == IF v.t = "obj" /\ key \in DOMAIN v.f THEN v.f[key] ELSE JNull

\* entity_meta_field_json and column_meta_field_json: one field, not merged.
MetaField(meta, config, field) == IF IsNull(Get(meta, field)) THEN Get(config, field) ELSE Get(meta, field)

\* entity_nova_meta_json and column_nova_meta_json.
NovaJson(meta, config) == MergedMeta(Get(meta, "nova"), Get(config, "nova"))

\* normalized_entity_meta_json and normalized_column_meta_json.
NormalizedMeta(meta, config) == MergedMeta(meta, config)

\* The readers of `meta.nova` agree: what the server searches by (nova alone)
\* is what it shows and scores (the merged meta), and nothing that is set in
\* one place alone is lost, nor replaced by a null of the other.
MetaReadAlike(meta, config) ==
  /\ meta.t \in {"obj", "null"} => NovaJson(meta, config) = Get(NormalizedMeta(meta, config), "nova")
  /\ \A k \in {"nova", "own"} :
       /\ Get(NovaJson(meta, config), k).t # "obj" /\ ~IsNull(Get(Get(meta, "nova"), k)) =>
            Get(NovaJson(meta, config), k) = Get(Get(meta, "nova"), k)
       /\ Get(config, "nova").t = "obj" /\ Get(meta, "nova").t \in {"obj", "null"} =>
            (IsNull(Get(NovaJson(meta, config), k)) <=> IsNull(Get(Get(config, "nova"), k)) /\ IsNull(Get(Get(meta, "nova"), k)))

-----------------------------------------------------------------------------
(* The typed metadata of an entity.                                        *)

EmptyNova == [role |-> {}, synonyms |-> <<>>, canonical |-> FALSE, grain |-> {}, measures |-> <<>>, metric |-> {}, metrics |-> <<>>]

\* parse_nova_search_candidates: as soon as one persona is given, the others
\* are candidates.
ParseCandidates(candidates) ==
  IF \A p \in DOMAIN candidates : candidates[p] = {} THEN {}
  ELSE {[p \in DOMAIN candidates |-> IF candidates[p] = {} THEN TRUE ELSE CHOOSE b \in candidates[p] : TRUE]}

\* parse_metric: one without a name is not there, filters without a field are
\* left out.
ParseMetric(metric) ==
  {[name |-> metric.name, grain |-> metric.grain, canonical |-> metric.canonical,
    filters |-> FlattenSeq([i \in DOMAIN metric.filters |-> IF metric.filters[i].field = {} THEN <<>> ELSE <<metric.filters[i]>>])] :
     n \in metric.name}

\* parse_nova_meta_object.
ParseNova(nova) ==
  [role |-> nova.role, synonyms |-> nova.synonyms, canonical |-> nova.canonical, grain |-> nova.grain,
   measures |-> SelectSeq(nova.measures, LAMBDA m : m.name # {}),
   metric |-> UNION {ParseMetric(m) : m \in nova.metric},
   metrics |-> FlattenSeq([i \in DOMAIN nova.metrics |-> SetToSeq(ParseMetric(nova.metrics[i]))])]

\* Mutant: what is explicit is added.
AppendNamed(base, overlay) == base \o overlay

\* merge_measures and merge_metrics.
MergeNamed(base, overlay) ==
  FoldLeft(LAMBDA acc, x : IF \E i \in DOMAIN acc : acc[i].name = x.name
                           THEN [acc EXCEPT ![SelectInSeq(acc, LAMBDA y : y.name = x.name)] = x]
                           ELSE Append(acc, x),
           base, overlay)

\* merge_unique_strings.
MergeUnique(base, overlay) == FoldLeft(LAMBDA acc, x : IF x \in ToSet(acc) THEN acc ELSE Append(acc, x), base, overlay)

\* merge_nova_meta.
MergeNova(derived, explicit) ==
  IF derived = {} THEN explicit ELSE IF explicit = {} THEN derived
  ELSE {[role |-> IF e.role = {} THEN d.role ELSE e.role, synonyms |-> MergeUnique(d.synonyms, e.synonyms),
         canonical |-> d.canonical \/ e.canonical, grain |-> IF e.grain = {} THEN d.grain ELSE e.grain,
         measures |-> MergeNamed(d.measures, e.measures), metric |-> IF e.metric = {} THEN d.metric ELSE e.metric,
         metrics |-> MergeNamed(d.metrics, e.metrics)] : d \in derived, e \in explicit}

\* first_string_field: the first that is there counts, even a blank one.
FirstString(fields) ==
  LET present == SelectSeq(fields, LAMBDA f : f # {})
  IN  IF present = <<>> THEN {} ELSE {Trimmed(t) : t \in {t \in present[1] : ~IsBlank(t)}}

\* metricflow_synonyms.
MetricflowSynonyms(value) ==
  FoldSet(LAMBDA label, acc : IF {label} = value.name \/ label \in ToSet(acc) THEN acc ELSE Append(acc, label), value.synonyms, value.label)

\* metricflow_semantic_model_grain.
SemanticGrain(value) ==
  LET named(s) == FlattenSeq([i \in DOMAIN s |-> SetToSeq(FirstString(<<s[i].expr, s[i].name>>))])
      keys == named(SelectSeq(value.entities, LAMBDA e : e.type = "primary"))
      dims == named(value.dimensions)
      times == named(SelectSeq(value.dimensions, LAMBDA d : d.type = "time"))
  IN  IF keys = <<>> /\ dims = <<>> THEN {}
      ELSE {[keys |-> keys, dims |-> dims, time |-> IF times = <<>> THEN {} ELSE {times[1]}]}

\* derive_metricflow_metric_nova_meta.
DeriveMetric(value) ==
  {[EmptyNova EXCEPT !.role = {Plain(9)}, !.canonical = TRUE, !.synonyms = MetricflowSynonyms(value),
                     !.metric = {[name |-> {n}, grain |-> value.grain, canonical |-> TRUE, filters |-> <<>>]}] : n \in value.name}

\* derive_metricflow_semantic_model_nova_meta.
DeriveSemanticModel(value) ==
  LET measures == FlattenSeq([i \in DOMAIN value.measures |->
                    IF value.measures[i].name = {} THEN <<>>
                    ELSE <<[name |-> value.measures[i].name, field |-> FirstString(<<value.measures[i].expr, value.measures[i].name>>),
                            canonical |-> TRUE, scoped |-> FALSE]>>])
  IN  IF measures = <<>> /\ SemanticGrain(value) = {} THEN {}
      ELSE {[EmptyNova EXCEPT !.role = {Plain(8)}, !.canonical = TRUE, !.measures = measures, !.grain = SemanticGrain(value)]}

\* derive_metricflow_nova_meta and get_nova_meta.
LoadedNova(value) ==
  MergeNova(CASE value.type = "metric" -> DeriveMetric(value)
              [] value.type = "semantic_model" -> DeriveSemanticModel(value)
              [] OTHER -> {},
            {ParseNova(n) : n \in value.nova})

\* What is said explicitly of a MetricFlow resource wins by name over what is
\* derived from it, and leaves the rest of the derived metadata in its order.
ExplicitWins(value) ==
  LET derived == LoadedNova([value EXCEPT !.nova = {}])
      first(s, n) == LET found == SelectSeq(s, LAMBDA m : m.name = n) IN {found[i] : i \in DOMAIN found \cap {1}}
      last(s, n) == LET found == SelectSeq(s, LAMBDA m : m.name = n) IN {found[i] : i \in DOMAIN found \cap {Len(found)}}
  IN  \A loaded \in LoadedNova(value), nova \in value.nova :
        LET e == ParseNova(nova)
            d == IF derived = {} THEN EmptyNova ELSE CHOOSE x \in derived : TRUE
        IN  derived # {} =>
              /\ \A n \in {x.name : x \in ToSet(d.measures) \cup ToSet(e.measures)} :
                   first(loaded.measures, n) = IF last(e.measures, n) = {} THEN first(d.measures, n) ELSE last(e.measures, n)
              /\ [i \in DOMAIN d.measures |-> loaded.measures[i].name] = [i \in DOMAIN d.measures |-> d.measures[i].name]
              /\ loaded.metric = (IF e.metric = {} THEN d.metric ELSE e.metric) /\ loaded.canonical
              /\ loaded.grain = (IF e.grain = {} THEN d.grain ELSE e.grain) /\ ToSet(e.synonyms) \subseteq ToSet(loaded.synonyms)
=============================================================================
