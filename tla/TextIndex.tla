------------------------------ MODULE TextIndex ------------------------------
(***************************************************************************)
(* The full-text index: src/src/manifest/tantivy_search.rs.  A document is *)
(* a function from fields to words; the words of a text stand for what the *)
(* tokenizers make of it.  Three lists of fields are kept by hand and have *)
(* to agree: the ones documents fill, the ones the query parser looks in,  *)
(* and the ones a fuzzy query is built over.                               *)
(***************************************************************************)
EXTENDS Integers, Sequences, FiniteSets, SequencesExt, TLC

CodeFields == {"alias", "name", "columns", "tags"}
NovaFields ==
  {"nova_synonyms", "nova_domains", "nova_use_cases", "nova_sensitivity", "nova_pii", "nova_compliance",
   "nova_measures", "nova_metric"}

\* build_schema: the text fields, with their _code and _ngram variants, and the
\* extended metadata of the configuration.
Schema(extended) ==
  {<<f, v>> : f \in CodeFields, v \in {"text", "code", "ngram"}}
    \cup {<<"file_path", "text">>, <<"file_path", "code">>, <<"description", "text">>, <<"raw_code", "text">>}
    \cup {<<f, "text">> : f \in NovaFields \cup extended}

\* add_capped_text: the first max_bytes of a text, here of its words.
CappedText(words, max) == SubSeq(words, 1, IF max < Len(words) THEN max ELSE Len(words))

\* The words the names, columns, tags, path and code of an entity put into its document.
ContentWords(e, field, cfg) ==
  CASE field \in {"alias", "name", "description", "file_path", "tags"} -> e[field]
    [] field = "columns" ->
         UNION {{c.name} \cup c.semanticType \cup c.synonyms \cup c.examples : c \in e.columns}
    [] field = "raw_code" ->
         UNION {Range(CappedText(t, cfg.maxSql)) : t \in {e.rawCode, e.macroSql, e.blockContents}}
    [] OTHER -> {}

\* The words of the nova metadata of an entity.
NovaWords(nova, field) ==
  LET words(defs) ==
        UNION {{d.name} \cup d.synonyms \cup d.description \cup d.expression \cup d.field : d \in defs}
  IN  CASE field = "nova_measures" -> words(nova.measures)
        [] field = "nova_metric" -> words(nova.metric \cup nova.metrics)
        [] field = "nova_pii" ->
             IF nova.pii.kind \in {"true", "text", "list"} THEN {"pii"} \cup nova.pii.words ELSE {}
        [] OTHER -> nova[field]

\* build: the document of one entity.
Document(e, cfg) ==
  [f \in Schema(cfg.extended) |->
     IF f[2] = "ngram" /\ ~cfg.ngram THEN {}
     ELSE IF f[1] \in NovaFields THEN IF e.hasNova THEN NovaWords(e.nova, f[1]) ELSE {}
     ELSE IF f[1] \in cfg.extended THEN e.extended
     ELSE ContentWords(e, f[1], cfg)]

\* Mutant: a field that was added to the documents is forgotten here.
QueryFieldsWithoutMetric(scope, includeNgram, cfg) ==
  {<<f, v>> \in Schema(cfg.extended) : v # "ngram" /\ f # "nova_metric"}

\* build_query_parser: where a query without a field looks.
QueryFields(scope, includeNgram, cfg) ==
  IF scope = "suggestion" THEN {<<f, v>> : f \in {"alias", "name"}, v \in {"text", "code"}}
  ELSE {f \in Schema(cfg.extended) : f[2] # "ngram" \/ includeNgram}

\* search: the fields a fuzzy query is built over.
FuzzyFields(cfg) ==
  {<<f, v>> : f \in CodeFields \cup {"file_path"}, v \in {"text", "code"}}
    \cup {<<"description", "text">>, <<"raw_code", "text">>}
    \cup {<<f, "text">> : f \in NovaFields \cup cfg.extended}

\* fuzzy_distance_loose and fuzzy_distance_strict: 0 stands for an exact term.
FuzzyDistance(length, strict, cfg) ==
  IF length < cfg.minLength THEN 0
  ELSE IF strict \/ length <= cfg.midLength THEN 1
  ELSE IF cfg.maxDistance < 1 THEN 1 ELSE IF cfg.maxDistance > 255 THEN 255 ELSE cfg.maxDistance

\* Whether a request meets a document: its word in one of the fields, and one of
\* the wanted resource types, compared as they were given.
Meets(doc, type, word, req, cfg) ==
  LET ngram == cfg.ngram /\ (CASE req.ngram = "on" -> TRUE
                               [] req.ngram = "off" -> FALSE
                               [] OTHER -> ~req.syntax /\ req.scope = "full")
      fields == IF req.fuzzy /\ ~req.syntax /\ req.scope = "full" THEN FuzzyFields(cfg)
                ELSE QueryFields(req.scope, ngram, cfg)
  IN  /\ \E f \in fields \cap DOMAIN doc : word \in doc[f]
      /\ req.types = {} \/ type \in req.types

\* Mutant: the gap is looked at before the limit is.
CollectToGap(s, hit, req) ==
  IF s.done \/ (s.prev > 0 /\ hit.score * 100 < s.prev) THEN [s EXCEPT !.done = TRUE]
  ELSE IF hit.score < req.minScore THEN [s EXCEPT !.prev = hit.score]
  ELSE [s EXCEPT !.prev = hit.score, !.seen = (hit.id :> hit.score) @@ @]

\* The loop over top_docs, which come by falling score; scores are whole numbers.
CollectHit(s, hit, req) ==
  IF s.done \/ (Cardinality(DOMAIN s.seen) >= req.limit /\ s.prev > 0 /\ hit.score * 100 < s.prev)
    THEN [s EXCEPT !.done = TRUE]
  ELSE IF hit.score < req.minScore THEN [s EXCEPT !.prev = hit.score]
  ELSE [s EXCEPT !.prev = hit.score,
                 !.seen = IF hit.id \in DOMAIN @ /\ @[hit.id] >= hit.score THEN @ ELSE (hit.id :> hit.score) @@ @]

\* search: one hit per entity, its best, by score and then by id, cut at the limit.
TopHits(docs, req) ==
  LET fetched == SubSeq(docs, 1, IF req.limit * req.multiplier < Len(docs) THEN req.limit * req.multiplier ELSE Len(docs))
      seen == FoldLeft(LAMBDA s, h : CollectHit(s, h, req), [seen |-> <<>>, prev |-> 0, done |-> FALSE], fetched).seen
      order == SetToSortSeq(DOMAIN seen, LAMBDA a, b : seen[a] > seen[b] \/ (seen[a] = seen[b] /\ a < b))
  IN  [i \in 1 .. (IF req.limit < Len(order) THEN req.limit ELSE Len(order)) |-> [id |-> order[i], score |-> seen[order[i]]]]

-----------------------------------------------------------------------------
(* Properties.                                                             *)

\* What is indexed is found: a search for any word of a document finds it, with
\* and without fuzzy matching, with and without n-grams (Full scope): the three
\* lists of fields agree whatever the configuration adds to them.
IndexedIsFound(e, cfg) ==
  LET doc == Document(e, cfg)
  IN  \A f \in DOMAIN doc : \A w \in doc[f] : \A fuzzy \in BOOLEAN, ngram \in {"on", "off", "default"} :
        Meets(doc, "model", w, [fuzzy |-> fuzzy, ngram |-> ngram, syntax |-> FALSE, scope |-> "full",
                                types |-> {"model"}], cfg)

\* TopHits gives as many hits as there are, up to the limit: the cut at a gap in the
\* scores never leaves out what the caller asked for; and each id once, its best
\* score first, in an order that does not depend on the order of equal scores.
HitsFillLimit(docs, req) ==
  LET fetched == SubSeq(docs, 1, IF req.limit * req.multiplier < Len(docs) THEN req.limit * req.multiplier ELSE Len(docs))
      good == {h \in Range(fetched) : h.score >= req.minScore}
      hits == TopHits(docs, req)
      ids == {h.id : h \in good}
  IN  /\ Len(hits) = IF req.limit < Cardinality(ids) THEN req.limit ELSE Cardinality(ids)
      /\ \A i, j \in DOMAIN hits : i < j => hits[i].score > hits[j].score \/ (hits[i].score = hits[j].score /\ hits[i].id < hits[j].id)
      /\ \A h \in good : \A i \in DOMAIN hits : h.id = hits[i].id => h.score <= hits[i].score
=============================================================================
