---------------------------- MODULE EntityOverlap ----------------------------
(***************************************************************************)
(* How the modelling tools compare entities                                *)
(* (src/src/tools/modeling.rs, src/src/tools/modeling/report.rs): profiles *)
(* of entities, the grains two of them share, the pairs that overlap, the  *)
(* indicators that several define, and the pages of the report. A grain is *)
(* a time field (or none), a set of keys and a set of dimensions, as they  *)
(* are written; everything else of a profile is normalised.                *)
(***************************************************************************)
EXTENDS EntityMeta, FiniteSetsExt, TLC

\* The ranks of the parts of a bucket's key, in the order of their names.
BucketKinds == <<"columns", "dims", "domains", "names", "types", "synonyms", "times", "tokens">>

\* A set in some order, and in a given one.
Listed(set) == FoldSet(LAMBDA x, s : Append(s, x), <<>>, set)
Sorted(set, before(_, _)) == SortSeq(Listed(set), before)

Nonblank(texts) == {Normalized(t) : t \in texts} \ {0}

-----------------------------------------------------------------------------
(* Profiles.                                                               *)

\* is_distinctive_column_name: two words, or a long one.
Distinctive(words, min) ==
  LET tokens == SelectSeq(words, LAMBDA w : w >= min)
  IN  Len(tokens) >= 2 \/ (Len(tokens) = 1 /\ tokens[1] >= 3 * min)

\* build_grain_variants, build_entity_grain_variants and
\* metric_grain_variants: the same grain declared twice is one variant.
GrainVariants(nova) == nova.grain \cup UNION {m.grain : m \in nova.metric \cup ToSet(nova.metrics)}
MetricGrains(nova, metric) == IF metric.grain = {} THEN nova.grain ELSE metric.grain

\* The indicators of an entity in the order they are declared.
DeclaredMetrics(nova) == Listed(nova.metric) \o nova.metrics

\* build_indicator_profiles and insert_metric_indicator_profile: of metrics
\* with one name the last counts.
IndicatorProfiles(nova) ==
  LET metrics == DeclaredMetrics(nova)
      named(s, n) == {i \in DOMAIN s : Normalized(s[i].name) = n}
      last(s, n) == s[Max(named(s, n))]
      keys == {<<"measure", n>> : n \in Nonblank({nova.measures[i].name : i \in DOMAIN nova.measures})}
              \cup {<<"metric", n>> : n \in Nonblank({metrics[i].name : i \in DOMAIN metrics})}
  IN  [k \in keys |->
         IF k[1] = "measure" THEN [canonical |-> nova.canonical \/ last(nova.measures, k[2]).canonical, grains |-> nova.grain]
         ELSE [canonical |-> nova.canonical \/ last(metrics, k[2]).canonical, grains |-> MetricGrains(nova, last(metrics, k[2]))]]

\* build_entity_profile.
Profile(entity, min) ==
  LET nova == entity.nova
      indicators == IF nova = {} THEN <<>> ELSE IndicatorProfiles(CHOOSE n \in nova : TRUE)
  IN  [id |-> entity.id, type |-> entity.type,
       tokens |-> {w \in entity.words : w[2] >= min},
       columns |-> {Normalized(c.name) : c \in {c \in ToSet(entity.columns) : Distinctive(c.words, min)}},
       synonyms |-> UNION {Nonblank(n.synonyms) : n \in nova},
       domains |-> UNION {Nonblank(n.domains) : n \in nova},
       names |-> {k[2] : k \in DOMAIN indicators},
       types |-> Nonblank(UNION {c.type : c \in ToSet(entity.columns)}),
       grains |-> UNION {GrainVariants(n) : n \in nova},
       indicators |-> indicators]

\* EntityOverlapProfile::is_comparable.
IsComparable(p) == \E k \in {"synonyms", "domains", "names", "columns", "types", "grains", "tokens"} : p[k] # {}

\* resource_type_allowed and normalized_resource_type_filter; no filter is {}.
ComparableType(type, filter) == filter = {} \/ type \in UNION filter

\* collect_overlap_profiles, over the entities in the order of their ids.
CollectProfiles(entities, filter, min) ==
  SelectSeq([i \in DOMAIN entities |-> Profile(entities[i], min)], LAMBDA p : ComparableType(p.type, filter) /\ IsComparable(p))

-----------------------------------------------------------------------------
(* Grains.                                                                 *)

SameTime(g, h) == g.time # {} /\ g.time = h.time

\* The score of a pair of grains in best_grain_pair, the best one largest.
GrainScore(g, h) ==
  LET keys == Cardinality(g.keys \cap h.keys)
      dims == Cardinality(g.dims \cap h.dims)
      differing == Cardinality(SymDiff(g.keys, h.keys)) + Cardinality(SymDiff(g.dims, h.dims)) + (IF g.time = h.time THEN 0 ELSE 1)
  IN  <<IF g = h THEN 1 ELSE 0, IF SameTime(g, h) THEN 1 ELSE 0, keys + dims, keys, dims, -differing>>

Above(s, t) == \E i \in DOMAIN s : s[i] > t[i] /\ \A j \in 1 .. i - 1 : s[j] = t[j]

\* Mutant: any pair with the same time field will do.
TimePair(left, right) ==
  LET pairs == {p \in left \X right : SameTime(p[1], p[2])}
      all == IF pairs = {} THEN left \X right ELSE pairs
  IN  IF all = {} THEN {} ELSE {CHOOSE p \in all : TRUE}

\* best_grain_pair: {} or the best pair; the signatures only settle ties.
BestGrainPair(left, right) ==
  LET best == {p \in left \X right : \A q \in left \X right : ~Above(GrainScore(q[1], q[2]), GrainScore(p[1], p[2]))}
  IN  IF best = {} THEN {} ELSE {CHOOSE p \in best : TRUE}

\* compare_entity_grains.
CompareEntityGrains(left, right) ==
  LET best == BestGrainPair(left, right)
      part(operator(_, _)) == UNION {operator(p[1], p[2]) : p \in best}
  IN  [exact |-> \E p \in best : p[1] = p[2],
       sameTime |-> \E p \in best : SameTime(p[1], p[2]),
       keys |-> part(LAMBDA g, h : g.keys \cap h.keys), dims |-> part(LAMBDA g, h : g.dims \cap h.dims),
       onlyKeys |-> <<part(LAMBDA g, h : g.keys \ h.keys), part(LAMBDA g, h : h.keys \ g.keys)>>,
       onlyDims |-> <<part(LAMBDA g, h : g.dims \ h.dims), part(LAMBDA g, h : h.dims \ g.dims)>>]

\* What compare_grains says can be relied on whichever entity is named first:
\* two entities match exactly when they declare a grain alike, and then
\* nothing differs; a time field that some of their grains share is found,
\* and so is a key or a dimension.
GrainsAgree(left, right) ==
  LET c == CompareEntityGrains(left, right)
      d == CompareEntityGrains(right, left)
      pairs == left \X right
  IN  /\ c.exact <=> left \cap right # {}
      /\ c.exact => c.onlyKeys = <<{}, {}>> /\ c.onlyDims = <<{}, {}>>
      /\ ~c.exact => (c.sameTime <=> \E p \in pairs : SameTime(p[1], p[2]))
      /\ ~c.exact /\ ~c.sameTime => (c.keys \cup c.dims = {} <=> \A p \in pairs : p[1].keys \cap p[2].keys = {} /\ p[1].dims \cap p[2].dims = {})
      /\ c.exact = d.exact /\ c.sameTime = d.sameTime
      /\ Cardinality(c.keys) = Cardinality(d.keys) /\ Cardinality(c.dims) = Cardinality(d.dims)

-----------------------------------------------------------------------------
(* Overlap.                                                                *)

\* Mutant: the dimensions of a grain have no bucket.
WithoutDimensions(p) ==
  UNION {{<<k, v>> : v \in p[k]} : k \in {"tokens", "synonyms", "domains", "names", "columns", "types"}}
  \cup UNION {{<<"times", Normalized(t)>> : t \in g.time} : g \in p.grains}

\* overlap_bucket_keys.
BucketKeys(p) ==
  UNION {{<<k, v>> : v \in p[k]} : k \in {"tokens", "synonyms", "domains", "names", "columns", "types"}}
  \cup UNION {{<<"times", Normalized(t)>> : t \in g.time} \cup {<<"dims", Normalized(d)>> : d \in g.dims} : g \in p.grains}

Sharers(profiles, key) == {i \in DOMAIN profiles : key \in BucketKeys(profiles[i])}
Before(x, y) == x[1] < y[1] \/ (x[1] = y[1] /\ x[2] < y[2])
Firsts(set, n) == {i \in set : Cardinality({j \in set : j < i}) < n}

\* The pairs of a list until there are max of them.
PairsUpTo(all, max) ==
  LET seen(n) == ToSet(SubSeq(all, 1, n))
      enough == {n \in 0 .. Len(all) : Cardinality(seen(n)) >= max}
  IN  [pairs |-> IF enough = {} THEN ToSet(all) ELSE seen(Min(enough)), full |-> enough # {}]

\* overlap_candidate_pairs: the pairs of every bucket, in the order of the
\* buckets, until there are maxPairs. A bucket is cut to its first maxBucket
\* profiles. The order of buckets of one kind is abstracted to any.
CandidatePairs(profiles, focus, maxBucket, maxPairs) ==
  LET keys == {k \in UNION {BucketKeys(profiles[i]) : i \in DOMAIN profiles} : focus \subseteq Sharers(profiles, k)}
      inBucket(k) ==
        LET bucket == Sharers(profiles, k)
        IN  IF focus = {} THEN Firsts(bucket, maxBucket) ELSE focus \cup Firsts(bucket \ focus, maxBucket - 1)
      ofBucket(k) == {p \in inBucket(k) \X inBucket(k) : p[1] < p[2] /\ focus \subseteq {p[1], p[2]}}
      ofKind(kind) == Listed({k \in keys : k[1] = kind})
      pairsOf(s) == FlattenSeq([i \in DOMAIN s |-> Sorted(ofBucket(s[i]), Before)])
      taken == PairsUpTo(FlattenSeq([i \in DOMAIN BucketKinds |-> pairsOf(ofKind(BucketKinds[i]))]), maxPairs)
  IN  [pairs |-> taken.pairs,
       truncated |-> taken.full \/ \E k \in keys : Cardinality(Sharers(profiles, k)) > maxBucket]

\* overlap_evidence, as the values shared of every kind.
Evidence(left, right) ==
  LET best == BestGrainPair(left.grains, right.grains)
  IN  [k \in ToSet(BucketKinds) |->
         CASE k = "times" -> UNION {IF SameTime(p[1], p[2]) THEN p[1].time ELSE {} : p \in best}
           [] k = "dims" -> UNION {p[1].dims \cap p[2].dims : p \in best}
           [] OTHER -> left[k] \cap right[k]]

\* surface_overlap_count, shared_value_count and score_from_overlap.
Surfaces(evidence) == Cardinality({k \in DOMAIN evidence : evidence[k] # {}})
SharedValues(evidence) == FoldSet(LAMBDA k, n : n + Cardinality(evidence[k]), 0, DOMAIN evidence)
OverlapScore(evidence) == Min({10 * Surfaces(evidence) + SharedValues(evidence), 65535})

\* compare_overlap_rows.
OverlapBefore(r, s) ==
  \/ r.score > s.score
  \/ r.score = s.score /\ r.surfaces > s.surfaces
  \/ r.score = s.score /\ r.surfaces = s.surfaces /\ Before(r.pair, s.pair)

\* overlap_rows. A focus that is not among the profiles is no focus.
OverlapRows(profiles, focusId, maxBucket, maxPairs) ==
  LET candidates == CandidatePairs(profiles, {i \in DOMAIN profiles : profiles[i].id \in focusId}, maxBucket, maxPairs)
      row(p, evidence) == [pair |-> p, score |-> OverlapScore(evidence), surfaces |-> Surfaces(evidence)]
      rows == {row(p, Evidence(profiles[p[1]], profiles[p[2]])) : p \in candidates.pairs}
  IN  [rows |-> Sorted({r \in rows : r.surfaces > 0}, OverlapBefore), truncated |-> candidates.truncated]

\* The rows found of the profiles are those of all pairs that overlap, the best
\* one first, or some of them if truncated.
RowsComplete(profiles, found, focusId) ==
  LET comparable == {p \in (DOMAIN profiles) \X (DOMAIN profiles) :
                       p[1] < p[2] /\ Surfaces(Evidence(profiles[p[1]], profiles[p[2]])) > 0}
      focused == {p \in comparable : focusId \subseteq {profiles[p[1]].id, profiles[p[2]].id}}
      wanted == IF \E i \in DOMAIN profiles : profiles[i].id \in focusId THEN focused ELSE comparable
      pairs == {found.rows[i].pair : i \in DOMAIN found.rows}
  IN  /\ pairs \subseteq wanted
      /\ ~found.truncated => pairs = wanted
      /\ \A i, j \in DOMAIN found.rows : i < j => found.rows[i].score >= found.rows[j].score

\* The buckets only save work: unless an answer is marked as truncated, the
\* rows are exactly the pairs that a comparison of all profiles would find,
\* those of the focus where it is one of them, the best one first.
OverlapsComplete(entities, filter, min, focusId, maxBucket, maxPairs) ==
  \A profiles \in {CollectProfiles(entities, filter, min)} :
    RowsComplete(profiles, OverlapRows(profiles, focusId, maxBucket, maxPairs), focusId)

-----------------------------------------------------------------------------
(* The consistency report.                                                 *)

\* duplicate_indicator_rows and compare_duplicate_indicator_rows.
DuplicateRows(profiles) ==
  LET keys == UNION {DOMAIN profiles[i].indicators : i \in DOMAIN profiles}
      parents(k) == {i \in DOMAIN profiles : k \in DOMAIN profiles[i].indicators}
      grainsOf(k, i) == profiles[i].indicators[k].grains
      row(k) ==
        LET without == Cardinality({i \in parents(k) : grainsOf(k, i) = {}})
        IN  [type |-> k[1], name |-> k[2], parents |-> parents(k),
             canonical |-> Cardinality({i \in parents(k) : profiles[i].indicators[k].canonical}),
             inconsistent |-> Cardinality(UNION {grainsOf(k, i) : i \in parents(k)}) > 1
                              \/ (without > 0 /\ without < Cardinality(parents(k)))]
      rank(r) == <<Cardinality(r.parents), r.canonical, IF r.type = "measure" THEN 1 ELSE 0, -r.name>>
  IN  Sorted({row(k) : k \in {k \in keys : Cardinality(parents(k)) > 1}}, LAMBDA r, s : Above(rank(r), rank(s)))

\* multi_grain_entity_rows.
MultiGrainRows(profiles) ==
  Sorted({i \in DOMAIN profiles : Cardinality(profiles[i].grains) > 1},
               LAMBDA i, j : Above(<<Cardinality(profiles[i].grains), -i>>, <<Cardinality(profiles[j].grains), -j>>))

\* ManifestSearch::page_limit; absent is 0. modelling_section_limit asks for
\* 10 when nothing is asked for.
PageLimit(requested, search) ==
  LET limit == IF requested = 0 THEN Max({search.default, 1}) ELSE requested
  IN  IF search.max = 0 THEN limit ELSE Min({limit, search.max})
SectionLimit(requested, search) == PageLimit(IF requested = {} THEN 10 ELSE CHOOSE r \in requested : TRUE, search)

\* modelling_overlap_section: a threshold of 0 keeps everything.
OverlapSection(profiles, minScore, maxBucket, maxPairs) ==
  SelectSeq(OverlapRows(profiles, {}, maxBucket, maxPairs).rows, LAMBDA r : minScore <= 0 \/ r.score >= minScore)

\* The sections of modelling_consistency_report.
Sections(profiles, minScore, maxBucket, maxPairs) ==
  LET duplicates == DuplicateRows(profiles)
  IN  <<OverlapSection(profiles, minScore, maxBucket, maxPairs), duplicates,
        SelectSeq(duplicates, LAMBDA r : r.canonical > 1), MultiGrainRows(profiles)>>

\* paginate_section.
FindingsPage(rows, offset, limit) == SubSeq(rows, offset + 1, Min({offset + limit, Len(rows)}))

\* Mutant: only the pairs that overlap decide.
OverlapHasNext(sections, offset, limit) == offset + limit < Len(sections[1])

\* modelling_has_next_page.
HasNextPage(sections, offset, limit) == \E i \in DOMAIN sections : offset + limit < Len(sections[i])

\* modelling_consistency_report and its summary: the pages of the sections
\* and where the next ones start; {} for an offset that is refused.
ConsistencyReport(sections, params, search) ==
  LET limit == SectionLimit(params.limit, search)
  IN  IF params.offset > search.maxOffset THEN {}
      ELSE {[pages |-> [i \in DOMAIN sections |-> FindingsPage(sections[i], params.offset, limit)],
             counts |-> [i \in DOMAIN sections |-> Len(sections[i])],
             next |-> IF HasNextPage(sections, params.offset, limit) THEN {params.offset + limit} ELSE {}]}

\* The reports a client sees that follows next_offset from an offset on.
RECURSIVE Follow(_, _, _, _)
Follow(sections, params, search, offset) ==
  LET found == ConsistencyReport(sections, [params EXCEPT !.offset = offset], search)
  IN  FlattenSeq(SetToSeq({<<r>> \o FlattenSeq(SetToSeq({Follow(sections, params, search, n) : n \in r.next})) : r \in found}))

\* The rows of the sections on the pages of the reports: each once, in order,
\* and all unless the last report says there are more.
PagedWhole(sections, reports) ==
  LET seen(i) == FlattenSeq([k \in DOMAIN reports |-> reports[k].pages[i]])
  IN  \A i \in DOMAIN sections :
        /\ IsPrefix(seen(i), sections[i])
        /\ Last(reports).next = {} => seen(i) = sections[i]

\* A client that follows next_offset sees every row of every section once,
\* in order, up to the largest offset that is accepted.
FindingsPaged(entities, filter, min, params, search) ==
  \A sections \in {Sections(CollectProfiles(entities, filter, min), params.minScore, search.maxBucket, search.maxPairs)} :
    PagedWhole(sections, Follow(sections, params, search, 0))
==============================================================================
