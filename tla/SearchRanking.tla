---------------------------- MODULE SearchRanking ----------------------------
(***************************************************************************)
(* The ranking of the search tools: src/src/tools/search/full.rs,          *)
(* indicators.rs, columns.rs and src/src/manifest/search/semantic.rs.      *)
(*                                                                         *)
(* Entities are numbers, in the order of their unique ids.  A text is the  *)
(* set of its words.  Scores are fractions <<numerator, denominator>> where*)
(* factors meet, whole numbers elsewhere.                                  *)
(***************************************************************************)
EXTENDS Integers, Sequences, FiniteSets, FiniteSetsExt, SequencesExt, TLC

Least(a, b) == IF a < b THEN a ELSE b
FirstOf(seq, n) == SubSeq(seq, 1, Least(n, Len(seq)))

-----------------------------------------------------------------------------
(* Fusion of the retrievers.                                               *)

RrfUnit == 2520   \* a multiple of every k + rank that occurs

\* Mutant: ranks are not counted from the top.
RrfByLength(rankings, weights, k) ==
  LET ids == UNION {Range(rankings[n]) : n \in DOMAIN rankings}
      score(id) == MapThenSumSet(LAMBDA n : IF id \in Range(rankings[n])
                                              THEN (weights[n] * RrfUnit) \div (k + Len(rankings[n])) ELSE 0, DOMAIN rankings)
      s == [id \in ids |-> score(id)]
  IN  [order |-> SetToSortSeq(ids, LAMBDA a, b : s[a] > s[b] \/ (s[a] = s[b] /\ a < b)), score |-> s]

\* weighted_rrf_with_explain.
WeightedRrf(rankings, weights, k) ==
  LET ids == UNION {Range(rankings[n]) : n \in DOMAIN rankings}
      places == {<<n, i>> \in (DOMAIN rankings) \X (1 .. 9) : i <= Len(rankings[n])}
      s == [id \in ids |->
              MapThenSumSet(LAMBDA p : (weights[p[1]] * RrfUnit) \div (k + p[2]),
                            {p \in places : rankings[p[1]][p[2]] = id})]
  IN  [order |-> SetToSortSeq(ids, LAMBDA a, b : s[a] > s[b] \/ (s[a] = s[b] /\ a < b)), score |-> s]

\* fused_vector_ranking and fused_sparse_ranking: a retriever that is off, not
\* loaded, broken or out of time is left out.
SemanticRanking(r) ==
  IF r.enabled /\ r.loaded /\ r.allowed /\ r.outcome = "completed" THEN {r.ids} ELSE {}

\* fused_ngram_ranking and fused_fuzzy_ranking.
TextRankings(q) ==
  [ngram |-> IF q.ngramEnabled /\ ~q.syntax THEN {q.ngram} ELSE {}, fuzzy |-> IF q.fuzzy THEN {q.fuzzyIds} ELSE {}]

\* fused_indicator_ranking: the parents of the indicators that match, for analysts.
IndicatorRanking(q) ==
  IF q.persona # "analyst" \/ q.indicatorParents = <<>> THEN {} ELSE {FirstOf(q.indicatorParents, q.fetch)}

\* build_fused_hits: what each retriever gave, cut at the fetch limit.
BuildFusedHits(q) ==
  LET text == TextRankings(q)
      given == [bm25 |-> {q.primary}, ngram |-> text.ngram, fuzzy |-> text.fuzzy,
                vector |-> SemanticRanking(q.vector), sparse |-> SemanticRanking(q.sparse),
                indicator |-> IndicatorRanking(q)]
      used == IF q.rrf THEN {n \in DOMAIN given : given[n] # {}} ELSE {"bm25"}
      fused == WeightedRrf([n \in used |-> FirstOf(CHOOSE r \in given[n] : TRUE, q.fetch)],
                           q.weights, q.k)
  IN  IF q.rrf THEN [i \in DOMAIN fused.order |-> [id |-> fused.order[i], score |-> fused.score[fused.order[i]]]]
      ELSE [i \in DOMAIN q.primary |-> [id |-> q.primary[i], score |-> q.primaryScore[i]]]

-----------------------------------------------------------------------------
(* search: reranking, the cutoff and the page.                             *)

\* Mutant: the reranked hits are all that is left.
RerankOnly(hits, topN, scores, missing) ==
  LET docs == SelectSeq(FirstOf(hits, topN), LAMBDA h : h.id \notin missing)
  IN  [i \in 1 .. Len(scores) |-> [id |-> docs[scores[i][1]].id, score |-> scores[i][2]]]

\* The reranker's answer: scores of documents, then what was not sent to it.
\* An entity that is not in the store is not sent and falls out.
Rerank(hits, topN, scores, missing) ==
  LET docs == SelectSeq(FirstOf(hits, topN), LAMBDA h : h.id \notin missing)
      first == [i \in 1 .. Len(scores) |-> [id |-> docs[scores[i][1]].id, score |-> scores[i][2]]]
  IN  IF topN = 0 \/ docs = <<>> THEN hits ELSE first \o SubSeq(hits, Least(topN, Len(hits)) + 1, Len(hits))

\* Mutant: the cutoff comes at the first gap.
ConsiderToGap(s, h, base, allowed) ==
  LET cut == s.cut \/ (s.prev # 0 /\ h.score * 100 < s.prev)
  IN  IF h.id \notin allowed THEN [s EXCEPT !.cut = cut, !.prev = IF cut THEN @ ELSE h.score]
      ELSE [s EXCEPT !.cut = cut, !.prev = IF cut THEN @ ELSE h.score, !.total = @ + 1,
                     !.candidates = IF cut THEN @ ELSE Append(@, h)]

\* One fused hit: the cutoff, the filter by resource type, the count.  prev = 0
\* stands for no earlier score.
Consider(s, h, base, allowed) ==
  LET cut == s.cut \/ (s.prev # 0 /\ h.score * 100 < s.prev /\ Len(s.candidates) >= base)
      prev == IF cut THEN s.prev ELSE h.score
  IN  IF h.id \notin allowed THEN [s EXCEPT !.cut = cut, !.prev = prev]
      ELSE [s EXCEPT !.cut = cut, !.prev = prev, !.total = @ + 1,
                     !.candidates = IF cut THEN @ ELSE Append(@, h)]

\* compare_search_candidates.
CandidateBefore(a, b) == a.score > b.score \/ (a.score = b.score /\ a.id < b.id)

\* search: the page, the total and whether there is more.
SearchPage(hits, limit, offset, allowed) ==
  LET s == FoldLeft(LAMBDA t, h : Consider(t, h, limit + offset, allowed),
                    [candidates |-> <<>>, total |-> 0, prev |-> 0, cut |-> FALSE], hits)
      sorted == SortSeq(s.candidates, CandidateBefore)
      start == Least(offset, s.total)
      end == Least(start + limit, s.total)
  IN  [results |-> SubSeq(sorted, start + 1, Least(end, Len(sorted))), total |-> s.total, truncated |-> s.total > end]

\* Mutant: an alias is added without another look at the limit.
SuggestBoth(s, e, persona, limit) ==
  IF Len(s) >= limit \/ ~e.present \/ e.name \in Range(s) THEN s
  ELSE IF e.alias = "" THEN Append(s, e.name) ELSE s \o <<e.name, e.alias>>

\* build_suggestions: names and aliases of close entities, each once.
Suggest(s, e, persona, limit) ==
  LET allowed == ~(e.type \in CASE persona = "analyst" -> {"test", "macro"} [] persona = "governance" -> {"macro"} [] OTHER -> {})
      named == IF e.name \in Range(s) THEN s ELSE Append(s, e.name)
  IN  IF Len(s) >= limit \/ ~e.present \/ ~allowed THEN s
      ELSE IF Len(named) >= limit \/ e.alias = "" \/ e.alias \in Range(named) THEN named
      ELSE Append(named, e.alias)

BuildSuggestions(entities, persona, limit) == FoldLeft(LAMBDA s, e : Suggest(s, e, persona, limit), <<>>, entities)

-----------------------------------------------------------------------------
(* adjust_score_with_meta.                                                 *)

\* persona_resource_type_multiplier, in twentieths.
TypeMultiplier(persona, type) ==
  LET table ==
        CASE persona = "analyst" -> [model |-> 25, metric |-> 22, source |-> 21, test |-> 13, macro |-> 9, seed |-> 20]
          [] persona = "engineer" -> [model |-> 26, metric |-> 18, source |-> 24, test |-> 23, macro |-> 22, seed |-> 21]
          [] persona = "governance" -> [model |-> 24, metric |-> 21, source |-> 24, test |-> 27, macro |-> 11, seed |-> 20]
          [] OTHER -> [model |-> 20, metric |-> 20, source |-> 20, test |-> 20, macro |-> 20, seed |-> 20]
  IN  <<table[type], 20>>

\* analyst_query_coverage_multiplier, of matched out of asked words.
CoverageMultiplier(matched, asked) ==
  IF asked <= 1 \/ matched = 0 THEN <<1, 1>>
  ELSE IF matched = asked THEN <<27, 20>>
  ELSE IF 4 * matched >= 3 * asked THEN <<28, 25>>
  ELSE IF 2 * matched >= asked THEN <<23, 25>>
  ELSE <<17, 20>>

\* phrase_match_multiplier, of the best coverage of a single field.
PhraseMultiplier(f) ==
  IF f.asked <= 1 \/ ~f.phraseBoost THEN <<1, 1>>
  ELSE IF f.exactPhrase THEN <<3 * f.asked + f.field, f.asked>>
  ELSE IF 4 * f.field >= 3 * f.asked THEN <<2 * f.asked + 3 * f.field, 2 * f.asked>>
  ELSE IF 2 * f.field >= f.asked THEN <<2 * f.asked + f.field, 2 * f.asked>>
  ELSE <<1, 1>>

\* preferred_grain_for_scoring: the first grain that says something.
PreferredGrain(grains) ==
  LET said(g) == g.key \/ g.dimensions > 0 \/ g.time
      at == {i \in DOMAIN grains : said(grains[i])}
  IN  IF at = {} THEN [key |-> FALSE, dimensions |-> 0, time |-> FALSE] ELSE grains[Min(at)]

Product(factors) == FoldLeft(LAMBDA x, y : <<x[1] * y[1], x[2] * y[2]>>, <<1, 1>>, factors)

\* analyst_semantic_multiplier: which definitions an entity has; a holds the
\* factors of AnalystSemanticConfig.
AnalystSemantic(f, a) ==
  LET g == PreferredGrain(f.grains)
      hasGrain == g.key \/ g.dimensions > 0 \/ g.time
      m == Product(<<IF f.metricDefined THEN a.metric ELSE <<1, 1>>,
                     IF f.measureDefined THEN a.measure ELSE <<1, 1>>,
                     IF hasGrain THEN a.grain ELSE a.noGrain,
                     IF g.time THEN a.time ELSE <<1, 1>>,
                     IF g.dimensions = 0 THEN <<1, 1>> ELSE a.overlap[Least(g.dimensions, 3)],
                     IF f.metricDefined \/ f.measureDefined THEN <<1, 1>> ELSE a.noMetric>>)
  IN  IF m[1] * a.min[2] < a.min[1] * m[2] THEN a.min
      ELSE IF m[1] * a.max[2] > a.max[1] * m[2] THEN a.max ELSE m

\* candidate_false_multiplier, and the exact match that overrides it.
CandidateMultiplier(f) ==
  IF f.exact \/ f.candidate \/ f.persona = "default" THEN <<1, 1>> ELSE <<1, 2>>

\* Before the metadata: the layer, an exact match, the kind of entity.
EarlyFactors(f, c) ==
  <<[when |-> f.staging, times |-> <<1, 2>>, plus |-> 0],
    [when |-> f.persona = "engineer" /\ f.exact, times |-> <<c.exact, 1>>, plus |-> 0],
    [when |-> TRUE, times |-> TypeMultiplier(f.persona, f.type), plus |-> 0]>>

\* The nova metadata that matches the query, in the order of the code.  An
\* indicator is canonical when it or its entity is.
NovaFactors(f, c) ==
  LET indicator == f.measure \/ f.metric
      canonicalItem == indicator /\ (f.canonical \/ f.canonicalItem)
  IN  <<[when |-> TRUE, times |-> CandidateMultiplier(f), plus |-> 0],
        [when |-> f.measure, times |-> c.measure, plus |-> 0],
        [when |-> f.metric, times |-> c.metric, plus |-> 0],
        [when |-> indicator, times |-> c.matchType, plus |-> 0],
        [when |-> f.persona = "analyst", times |-> CoverageMultiplier(f.matched, f.asked), plus |-> 0],
        [when |-> f.synonym, times |-> c.synonym, plus |-> 0],
        [when |-> TRUE, times |-> PhraseMultiplier(f), plus |-> 0],
        [when |-> f.canonical, times |-> c.canonical, plus |-> 0],
        [when |-> canonicalItem, times |-> c.canonicalItem, plus |-> c.bonus],
        [when |-> f.canonical /\ (indicator \/ f.synonym), times |-> c.canonicalMatch, plus |-> c.bonus]>>

\* What only analysts see, and the weights of the persona for documentation,
\* tests, tags and path.
LateFactors(f, c) ==
  <<[when |-> f.persona = "analyst", times |-> AnalystSemantic(f, c.analyst), plus |-> 0],
    [when |-> f.persona = "analyst", times |-> f.precision, plus |-> 0],
    [when |-> f.persona = "analyst", times |-> f.support, plus |-> 0],
    [when |-> f.persona = "analyst" /\ f.indicatorScores, times |-> f.parentFactor, plus |-> 0],
    [when |-> f.documented, times |-> c.docs, plus |-> 0],
    [when |-> f.tested, times |-> c.tests, plus |-> 0],
    [when |-> f.tagged, times |-> c.tags, plus |-> 0],
    [when |-> f.pathMatches, times |-> c.path, plus |-> 0]>>

\* The early returns: no entity, no words in the query, no metadata.
Factors(f, c) ==
  CASE ~f.present -> <<>>
    [] f.present /\ f.asked = 0 -> EarlyFactors(f, c)
    [] f.present /\ f.asked > 0 /\ ~f.nova ->
         EarlyFactors(f, c) \o <<[when |-> f.persona = "analyst", times |-> <<93, 100>>, plus |-> 0]>>
    [] OTHER -> EarlyFactors(f, c) \o NovaFactors(f, c) \o LateFactors(f, c)

\* A fraction in smaller numbers.
Reduced(s) ==
  LET d == CHOOSE k \in 1 .. 100 : s[1] % k = 0 /\ s[2] % k = 0 /\ \A j \in (k + 1) .. 100 : s[1] % j # 0 \/ s[2] % j # 0
  IN  <<s[1] \div d, s[2] \div d>>

ApplyFactors(score, factors) ==
  FoldLeft(LAMBDA s, x : IF x.when THEN Reduced(<<(s[1] * x.times[1]) + (x.plus * s[2] * x.times[2]), s[2] * x.times[2]>>) ELSE s,
           <<score, 1>>, factors)

\* Mutant: a score below zero is multiplied too.
AdjustAny(score, f, c) == ApplyFactors(score, Factors(f, c))

\* adjust_score_with_meta.
AdjustScore(score, f, c) == IF score <= 0 THEN <<score, 1>> ELSE ApplyFactors(score, Factors(f, c))

\* The order of scores.
AtMost(a, b) == a[1] * b[2] <= b[1] * a[2]

-----------------------------------------------------------------------------
(* Matching of indicators: manifest/search/semantic.rs.                    *)

MatchRank == [name |-> 5, synonym |-> 4, field |-> 3, description |-> 2, expression |-> 1]

\* Mutant: the weakest place counts.
WeakestMatchInfo(d, tokens) ==
  LET count(words) == Cardinality(words \cap tokens)
      defined == {k \in {"name", "field", "description", "expression"} : count(d[k]) > 0}
      weakest == CHOOSE k \in defined : \A j \in defined : MatchRank[j] >= MatchRank[k]
  IN  IF defined = {} THEN {} ELSE {[type |-> weakest, count |-> count(d[weakest])]}

\* best_match_info: a name before a synonym before a definition; ties of the last
\* by the number of words.  An indicator d gives sets of words; a synonym is one
\* such set.
BestMatchInfo(d, tokens) ==
  LET count(words) == Cardinality(words \cap tokens)
      best == Max({0} \cup {count(w) : w \in d.synonyms})
      defined == {k \in {"field", "description", "expression"} : count(d[k]) > 0}
      strongest == CHOOSE k \in defined : \A j \in defined : MatchRank[j] <= MatchRank[k]
  IN  CASE count(d.name) > 0 -> {[type |-> "name", count |-> count(d.name)]}
        [] count(d.name) = 0 /\ best > 0 -> {[type |-> "synonym", count |-> best]}
        [] OTHER -> IF defined = {} THEN {} ELSE {[type |-> strongest, count |-> count(d[strongest])]}

\* compare_preview_items.
PreviewBefore(a, b) ==
  LET key(x) == <<MatchRank[x.type], x.count, IF x.canonical THEN 1 ELSE 0>>
      ka == key(a)
      kb == key(b)
  IN  \/ \E i \in 1 .. 3 : ka[i] > kb[i] /\ \A j \in 1 .. (i - 1) : ka[j] = kb[j]
      \/ ka = kb /\ a.id < b.id

\* match_nova_semantics for one kind of indicator.
MatchIndicators(defs, entityCanonical, tokens) ==
  LET items == {i \in DOMAIN defs : BestMatchInfo(defs[i], tokens) # {}}
      item(i) == LET m == CHOOSE x \in BestMatchInfo(defs[i], tokens) : TRUE
                 IN  [id |-> defs[i].id, type |-> m.type, count |-> m.count, canonical |-> entityCanonical \/ defs[i].canonical]
  IN  SetToSortSeq({item(i) : i \in items}, PreviewBefore)

-----------------------------------------------------------------------------
(* search_indicator: the rows of the entities, their scores, their groups. *)

\* generic_indicator_label_match_bonus and parent_synonym_match_bonus: a label
\* all of whose words were asked for, by how many they are.
LabelBonus(labels, tokens, bonus) ==
  LET full == {Cardinality(w) : w \in {l \in labels : l # {} /\ l \subseteq tokens}}
  IN  IF full = {} THEN 0 ELSE bonus[Least(Max(full), 3)]

\* metadata_support_bonus: capped.
SupportBonus(signals, weights, max) ==
  Least(max, MapThenSumSet(LAMBDA k : signals[k] * weights[k], DOMAIN signals))

\* phrase_match_bonus, in hundredths; coverage is matched words out of asked.
PhraseBonus(f) ==
  LET coverage == (100 * f.field) \div f.asked
  IN  CASE ~f.phraseBoost -> 0
        [] f.phraseBoost /\ f.exactPhrase -> 600 + 2 * coverage
        [] OTHER -> IF coverage >= 75 THEN 3 * coverage ELSE IF coverage >= 50 THEN coverage ELSE 0

\* indicator_match_explain_with_grain, in hundredths.
IndicatorScore(item, e, f, bonus) ==
  (100 * MatchRank[item.type]) + ((400 * item.count) \div f.asked)
    + (IF item.canonical THEN 150 ELSE 0) + (IF e.canonical THEN 75 ELSE 0)
    + LabelBonus({item.words}, f.tokens, bonus) + LabelBonus(e.synonyms, f.tokens, bonus)
    + SupportBonus(f.signals, f.signalWeights, f.supportMax) + PhraseBonus(f)
    + (IF item.time THEN 50 ELSE 0) + (IF item.dimensions THEN 25 ELSE 0) + (IF e.described THEN 10 ELSE 0)

\* compare_indicator_rows.
RowBefore(a, b) ==
  \/ a.score > b.score
  \/ a.score = b.score /\ (a.parent < b.parent \/ (a.parent = b.parent /\ a.id < b.id))

\* search_indicator_rows_from_store: a row for every indicator that matches.
IndicatorRows(entities, f, bonus, allowed) ==
  LET rows == UNION {{[parent |-> e.id, id |-> i.id, canonical |-> i.canonical, strong |-> i.type \in {"name", "synonym"},
                       time |-> e.time, dimensions |-> e.dimensions, score |-> IndicatorScore(i, e, f, bonus)] : i \in e.items} :
                     e \in {x \in entities : x.type \in allowed /\ x.nova}}
  IN  SetToSortSeq(rows, RowBefore)

\* apply_parent_coherence_bonus: several matches of one parent support each other.
CoherenceBonus(rows, parent, c) ==
  LET own == {r \in Range(rows) : r.parent = parent}
      some(P(_)) == Cardinality({r \in own : P(r)})
  IN  Least(c.max,
            c.diversity * Least(Cardinality({r.id : r \in own}) - 1, 3)
              + c.canonicalRow * Least(some(LAMBDA r : r.canonical), 2)
              + c.strong * Least(some(LAMBDA r : r.strong), 3)
              + (IF \E r \in own : r.time THEN c.timeRow ELSE 0) + (IF \E r \in own : r.dimensions THEN c.dimension ELSE 0))

ApplyCoherence(rows, c) ==
  SortSeq([i \in DOMAIN rows |-> [rows[i] EXCEPT !.score = @ + CoherenceBonus(rows, rows[i].parent, c)]], RowBefore)

\* fuse_indicator_rows and expand_indicator_parent_ranking: rows gain from the
\* rank of their parents.
FuseRows(rows, parentHits, k, weight) ==
  LET keys(p) == SelectSeq([i \in DOMAIN rows |-> i], LAMBDA i : rows[i].parent = p)
      parents == FlattenSeq([j \in DOMAIN parentHits |-> keys(parentHits[j])])
      fused == WeightedRrf([local |-> [i \in DOMAIN rows |-> i], parent |-> parents], [local |-> 1, parent |-> 1], k)
  IN  IF parents = <<>> THEN rows
      ELSE SortSeq([i \in DOMAIN rows |-> [rows[i] EXCEPT !.score = @ + (fused.score[i] * weight)]], RowBefore)

\* Mutant: the rows below rerank_top_n are forgotten.
RerankHead(rows, topN, rerank, weight) ==
  SortSeq([i \in 1 .. Least(topN, Len(rows)) |-> [rows[i] EXCEPT !.score = @ + (rerank[i] * weight)]], RowBefore)

\* reorder_indicator_rows_with_reranker: only the rows that were sent move.
RerankRows(rows, topN, rerank, weight) ==
  LET n == Least(topN, Len(rows))
      head == SortSeq([i \in 1 .. n |-> [at |-> i, rerank |-> rerank[i], row |-> [rows[i] EXCEPT !.score = @ + (rerank[i] * weight)]]],
                      LAMBDA a, b : \/ a.row.score > b.row.score
                                    \/ a.row.score = b.row.score /\ (a.rerank > b.rerank \/ (a.rerank = b.rerank /\ a.at < b.at)))
  IN  [i \in 1 .. n |-> head[i].row] \o SubSeq(rows, n + 1, Len(rows))

\* rank_indicator_rows; p.minScore is applied before the fusion.
RankRows(rows, p) ==
  LET coherent == IF p.coherence /\ Len(rows) > 1 THEN ApplyCoherence(rows, p.bonus) ELSE rows
      kept == SelectSeq(coherent, LAMBDA r : r.score >= p.minScore)
      fused == IF p.rrf /\ Len(kept) > 1 THEN FuseRows(kept, p.parentHits, p.k, p.rrfWeight) ELSE kept
  IN  IF p.reranks /\ fused # <<>> THEN RerankRows(fused, p.topN, p.rerank, p.rerankWeight) ELSE fused

\* Mutant: an indicator beyond the last group is put into it.
GroupLast(groups, r, c) ==
  LET at == {i \in DOMAIN groups : groups[i].parent = r.parent}
      i == IF at = {} THEN Len(groups) ELSE Min(at)
  IN  IF at = {} /\ Len(groups) < c.groups
        THEN Append(groups, [parent |-> r.parent, best |-> r.score, count |-> 1, items |-> <<r.id>>])
      ELSE [groups EXCEPT ![i].count = @ + 1]

\* build_indicator_parent_groups: one row; groups and their lists are capped, the
\* counts are not.
GroupRow(groups, r, c) ==
  LET at == {i \in DOMAIN groups : groups[i].parent = r.parent}
      i == Min(at)
  IN  IF at # {}
        THEN [groups EXCEPT ![i].count = @ + 1, ![i].best = IF r.score > @ THEN r.score ELSE @,
                            ![i].items = IF Len(@) < c.indicators THEN Append(@, r.id) ELSE @]
      ELSE IF Len(groups) >= c.groups THEN groups
      ELSE Append(groups, [parent |-> r.parent, best |-> r.score, count |-> 1,
                           items |-> IF c.indicators > 0 THEN <<r.id>> ELSE <<>>])

\* filter_indicator_parent_groups.
ParentGroups(rows, c, mode, max) ==
  LET groups == FoldLeft(LAMBDA g, r : GroupRow(g, r, c), <<>>, rows)
  IN  FirstOf(groups, CASE mode = "none" -> 0 [] mode = "top" -> Least(max, 1) [] OTHER -> max)

\* dedupe_indicator_parent_ids.
DedupeParents(rows) ==
  FoldLeft(LAMBDA s, r : IF r.parent \in Range(s) THEN s ELSE Append(s, r.parent), <<>>, rows)

\* normalized_indicator_parent_scores: the best top_k rows of each parent.
ParentScores(rows, topK) ==
  LET own(p) == SelectSeq(rows, LAMBDA r : r.parent = p)
      k == IF topK < 1 THEN 1 ELSE topK
  IN  [p \in {r.parent : r \in Range(rows)} |->
         FoldLeft(LAMBDA s, r : s + r.score, 0, FirstOf(own(p), k))]

\* build_indicator_search_response and indicator_inventory: a page of rows.
RowsPage(rows, limit, offset) ==
  LET start == Least(offset, Len(rows))
      end == Least(start + limit, Len(rows))
  IN  [results |-> SubSeq(rows, start + 1, end), total |-> Len(rows), truncated |-> Len(rows) > end]

-----------------------------------------------------------------------------
(* search_columns.                                                         *)

ColumnBase == [name |-> 600, synonym |-> 550, description |-> 250, role |-> 400, semanticType |-> 450, example |-> 425]

\* best_column_search_match: the best of the places a word occurs in, in hundredths.
BestColumnMatch(column, tokens) ==
  LET found == {<<k, w>> \in (DOMAIN ColumnBase) \X (UNION {column[k] : k \in DOMAIN ColumnBase}) :
                  w \in column[k] /\ w \cap tokens # {}}
      score(m) == ColumnBase[m[1]] + (100 * Cardinality(m[2] \cap tokens))
  IN  IF found = {} THEN 0 ELSE Max({score(m) : m \in found})

\* column_parent_context_bonus.
ColumnContext(e, tokens) ==
  LET hits(texts, each) == MapThenSumSet(LAMBDA w : each * Cardinality(w \cap tokens), texts)
  IN  Least(150, hits({e.name}, 20) + hits({e.relation}, 10) + hits(e.domains, 15) + hits(e.useCases, 10))

\* column_matches_filters; an empty filter is absent.
ColumnAllowed(column, roles, semanticTypes) ==
  /\ roles = {} \/ column.role \cap roles # {}
  /\ semanticTypes = {} \/ column.semanticType \cap semanticTypes # {}

\* search_column_rows_from_store.
ColumnRows(entities, tokens, roles, semanticTypes) ==
  LET rows == UNION {{[parent |-> e.id, id |-> c.id, score |-> BestColumnMatch(c, tokens) + ColumnContext(e, tokens)] :
                        c \in {x \in e.columns : BestColumnMatch(x, tokens) > 0 /\ ColumnAllowed(x, roles, semanticTypes)}} :
                     e \in entities}
  IN  SetToSortSeq(rows, RowBefore)

-----------------------------------------------------------------------------
(* Phrases: indicators.rs, over texts as sequences of characters.          *)

\* Mutant: the end of the phrase is not looked at.
PhraseBegins(text, phrase) ==
  LET at == {i \in 1 .. (Len(text) - Len(phrase) + 1) : SubSeq(text, i, i + Len(phrase) - 1) = phrase}
  IN  at # {} /\ (Min(at) = 1 \/ text[Min(at) - 1] = " ")

\* phrase_contains: the first place the phrase occurs at is the only one looked at.
PhraseContains(text, phrase) ==
  LET at == {i \in 1 .. (Len(text) - Len(phrase) + 1) : SubSeq(text, i, i + Len(phrase) - 1) = phrase}
      end == Min(at) + Len(phrase) - 1
  IN  at # {} /\ (Min(at) = 1 \/ text[Min(at) - 1] = " ") /\ (end = Len(text) \/ text[end + 1] = " ")

-----------------------------------------------------------------------------
(* Properties.                                                             *)

\* Fusion follows its retrievers: a hit that every retriever which has the other
\* puts above it, comes before it; every hit comes once (weighted_rrf_with_explain);
\* and a retriever that fails takes away only the hits nobody else has.
FusionFollows(q) ==
  LET hits == BuildFusedHits(q)
      lists == {FirstOf(q.primary, q.fetch)} \cup {FirstOf(r, q.fetch) : r \in SemanticRanking(q.vector) \cup SemanticRanking(q.sparse)}
      ids(h) == {h[i].id : i \in DOMAIN h}
      place(r, id) == CHOOSE i \in DOMAIN r : r[i] = id
      above(a, b) == \A r \in lists : b \in Range(r) => a \in Range(r) /\ place(r, a) < place(r, b)
  IN  /\ Len(hits) = Cardinality(ids(hits))
      /\ \A i, j \in DOMAIN hits : above(hits[i].id, hits[j].id) => i < j
      /\ ids(BuildFusedHits([q EXCEPT !.vector.outcome = "timed_out"]))
           = UNION ({Range(FirstOf(q.primary, q.fetch))} \cup {Range(FirstOf(r, q.fetch)) : r \in SemanticRanking(q.sparse)})

\* Suggestions are distinct and no more than suggestions_limit (build_suggestions
\* adds two per entity), and there are some when there is room and an entity.
SuggestionsFit(entities, persona, limit) ==
  LET s == BuildSuggestions(entities, persona, limit)
  IN  /\ Len(s) = Cardinality(Range(s))
      /\ Len(s) <= limit
      /\ limit > 0 /\ (\E e \in Range(entities) : e.present /\ e.type = "model") => s # <<>>

\* Reranking loses only entities that are not in the store, repeats none, and
\* changes nothing below rerank_top_n.
RerankKeeps(hits, topN, scores, missing) ==
  LET after == Rerank(hits, topN, scores, missing)
      ids(s) == {s[i].id : i \in DOMAIN s}
  IN  /\ ids(after) \cup missing = ids(hits) \cup missing
      /\ Len(after) = Cardinality(ids(after))
      /\ \A i, j \in DOMAIN hits : topN < i /\ i < j =>
           \E a, b \in DOMAIN after : a < b /\ after[a] = hits[i] /\ after[b] = hits[j]

\* A page holds what its total promises, in spite of the cutoff by score, and
\* says that there is more exactly when there is.
PageHoldsTotal(hits, limit, offset, allowed) ==
  LET page == SearchPage(hits, limit, offset, allowed)
      all == {h \in Range(hits) : h.id \in allowed}
  IN  /\ page.total = Cardinality(all)
      /\ Len(page.results) = Least(limit, page.total - Least(offset, page.total))
      /\ page.truncated <=> offset + limit < page.total

\* Metadata does not turn the order round: of two hits with the same facts the one
\* with the higher score stays first, and an entity that is canonical is never below
\* its twin that is not, also when a reranker's score is below zero.
AdjustKeepsOrder(score, higher, f, c) ==
  /\ score <= higher => AtMost(AdjustScore(score, f, c), AdjustScore(higher, f, c))
  /\ AtMost(AdjustScore(score, [f EXCEPT !.canonical = FALSE], c), AdjustScore(score, [f EXCEPT !.canonical = TRUE], c))

\* Groups account for rows: within the cap on groups, every row of a grouped parent
\* is counted, the parents are those of the first rows, and the best score is right.
GroupsCountRows(rows, c) ==
  LET groups == ParentGroups(rows, c, "all", 99)
      own(p) == {i \in DOMAIN rows : rows[i].parent = p}
  IN  /\ Len(groups) = Least(c.groups, Cardinality({r.parent : r \in Range(rows)}))
      /\ \A g \in Range(groups) :
           /\ g.count = Cardinality(own(g.parent))
           /\ g.best = Max({rows[i].score : i \in own(g.parent)})
           /\ Len(g.items) = Least(c.indicators, g.count)

\* Ranking of indicators only reorders: coherence, fusion and reranking keep every
\* indicator of the entities that the minimum score keeps, each once; and the parents
\* fused_indicator_ranking passes on come in the order of their best indicators.
RankingKeepsRows(entities, f, bonus, p) ==
  LET key(r) == <<r.parent, r.id>>
      rows == IndicatorRows(entities, f, bonus, {"model"})
      coherent == IF p.coherence /\ Len(rows) > 1 THEN ApplyCoherence(rows, p.bonus) ELSE rows
      kept == {key(r) : r \in {x \in Range(coherent) : x.score >= p.minScore}}
      ranked == RankRows(rows, p)
  IN  /\ {key(r) : r \in Range(ranked)} = kept
      /\ Len(ranked) = Cardinality(kept)
      /\ p.minScore = 0 => kept = UNION {{<<e.id, i.id>> : i \in e.items} : e \in entities}
      /\ LET parents == DedupeParents(coherent)
             scores == ParentScores(coherent, 1)
         IN  \A i, j \in DOMAIN parents : i < j => scores[parents[i]] >= scores[parents[j]]
      /\ RowsPage(ranked, 2, 0).truncated => RowsPage(ranked, 2, 2).results # <<>>

\* Asking for more words never makes a match weaker: an indicator keeps at least the
\* kind of match it had, and a column its rows and its score.
MoreWordsMatchMore(d, entities, tokens, more) ==
  /\ \A m \in BestMatchInfo(d, tokens) : \E n \in BestMatchInfo(d, tokens \cup more) :
       MatchRank[n.type] > MatchRank[m.type] \/ (n.type = m.type /\ n.count >= m.count)
  /\ \A m \in BestMatchInfo(d, tokens) :
       MatchIndicators(<<[d EXCEPT !.id = 1], [d EXCEPT !.id = 2, !.name = {}]>>, FALSE, tokens)[1].type = m.type
  /\ \A r \in Range(ColumnRows(entities, tokens, {}, {})) :
       \E s \in Range(ColumnRows(entities, tokens \cup more, {}, {})) :
         s.parent = r.parent /\ s.id = r.id /\ s.score >= r.score

\* A phrase that is found is made of whole words.
PhraseIsWords(text, phrase) ==
  PhraseContains(text, phrase) =>
    \E i \in DOMAIN text :
      /\ SubSeq(text, i, i + Len(phrase) - 1) = phrase
      /\ i = 1 \/ text[i - 1] = " "
      /\ i + Len(phrase) > Len(text) \/ text[i + Len(phrase)] = " "
=============================================================================
