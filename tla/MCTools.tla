------------------------------- MODULE MCTools -------------------------------
(***************************************************************************)
(* The tools for TLC: a behaviour picks one algorithm and one input, on    *)
(* which the invariants compare the algorithm with what it is meant to do. *)
(***************************************************************************)
EXTENDS Lineage, TextIndex, SearchRanking, SemanticIndex,
        EvalSuites, Recipes, MCReports

Parts ==
  {"lineage", "column", "match", "projection", "diff",
   "paths", "document", "hits", "fusion", "suggestions", "search", "rerank", "adjust", "indicators",
   "groups", "words", "phrase", "vectors", "events", "answer", "score", "evalrank", "runs",
   "day", "ids", "anchors", "suite", "agentcase", "response", "filling", "jinja", "parameters",
   "recipeids", "recipe", "reload", "archive", "models", "command", "warm", "setting", "exposure",
   "fingerprints", "metajson", "metricflow", "target", "canonical", "project", "metapaths", "grains", "overlap",
   "report", "conflict", "clean", "scored", "scoredproject"}
Init == part = "none" /\ input \in Parts

\* Every graph of four entities whose edges go from lower to higher numbers, and
\* one back to the first.
Graphs4 ==
  {[next |-> [n \in 1 .. 4 |-> {x \in (n + 1) .. 4 : <<n, x>> \in edges} \cup (IF n = 3 /\ back THEN {1} ELSE {})],
    type |-> type] :
     edges \in SUBSET {<<a, b>> \in (1 .. 4) \X (1 .. 4) : a < b}, back \in BOOLEAN,
     type \in {t \in [1 .. 4 -> {"model", "test"}] : t[1] = "model"}}
TakeLineage ==
  For("lineage") /\ \E g \in Graphs4, depth \in 1 .. 3, results \in {1, 2, 9}, types \in {{}, {"model"}} :
    Take("lineage", [g |-> g, p |-> [depth |-> depth, results |-> results, types |-> types]])

Items == {[expr |-> "x", alias |-> "c", name |-> ""], [expr |-> "c", alias |-> "", name |-> "c"],
          [expr |-> "y", alias |-> "d", name |-> ""]}
TakeColumn ==
  For("column") /\ \E g \in {g \in Graphs4 : Range(g.type) = {"model"}}, ranks \in [2 .. 4 -> {<<>>, <<2, 1>>}] :
    \E depth \in {1, 3}, results \in {2, 9}, rank \in 1 .. 2, candidates \in {1, 9}, item \in Items :
      Take("column", [g |-> g, m |-> [a \in 1 .. 4 |-> [b \in 1 .. 4 |-> IF b = 1 THEN <<0>> ELSE ranks[b]]],
                      p |-> [depth |-> depth, results |-> results, rank |-> rank, candidates |-> candidates,
                             upstream |-> depth = 1, items |-> <<item>>, parses |-> rank = 1]])

TakeMatch ==
  For("match") /\ \E f \in [exact : BOOLEAN, affix : BOOLEAN, normalized : BOOLEAN, alias : BOOLEAN, near : BOOLEAN,
            nested : BOOLEAN, similarity : {0, 750, 900, 950}, from : {"unknown", "number"},
            to : {"number", "string"}] :
    Take("match", f)

Chunks == {<<"a">>, <<"(", ",", ")">>, <<"'", ",", "'">>, <<"'", "(", "'">>, <<"\"", "'", "\"", "a">>,
           <<"(", "'", ")", "'", ")">>, <<"(", "F", ")">>}
TakeProjection == For("projection") /\ \E items \in BoundedSeq(Chunks, 3) : items # <<>> /\ Take("projection", items)

Indicators3 == BoundedSeq([key : {"m", "n"}, expr : {"absent", "x", "y"}, canonical : {TRUE}], 2)
TakeDiff ==
  For("diff") /\ \E a, b \in Indicators3, pii \in BOOLEAN, key \in {{}, {"k"}} :
    LET entity(i, k, f) ==
          [indicators |-> i, columns |-> {"c"} \cup k, tests |-> [x \in {"c"} \cup k |-> f],
           dimensions |-> k, key |-> k, time |-> f, sensitivity |-> f, pii |-> f, owner |-> TRUE,
           compliance |-> k]
    IN  Take("diff", <<entity(a, {}, TRUE), entity(b, key, pii)>>)

TakePaths ==
  For("paths") /\ \E ids \in SUBSET (1 .. 4), path \in [1 .. 4 -> 1 .. 2], limit \in 1 .. 3, types \in {{}, {"model"}} :
    Take("paths", [entities |-> {[id |-> i, path |-> path[i], matches |-> i # 3,
                                  type |-> IF i = 2 THEN "test" ELSE "model"] : i \in ids}, limit |-> limit, types |-> types])

Words == {"w", "x", "y"}
Texts == SUBSET {"w", "x"}
TakeDocument ==
  For("document") /\ \E place \in {"alias", "name", "description", "file_path", "tags", "columns", "rawCode", "macroSql", "blockContents",
                "extended", "nova_measures", "nova_metric", "nova_metrics", "nova_pii"} \cup NovaFields,
     ngram \in BOOLEAN, extended \in {{}, {"owner"}}, maxSql \in 0 .. 2 :
    LET on(p) == IF place = p THEN {"w"} ELSE {}
        def(p) == IF place = p THEN {[name |-> "w", synonyms |-> {"x"}, description |-> {"y"}, expression |-> {}, field |-> {}]}
                  ELSE {}
    IN  Take("document",
             [e |-> [alias |-> on("alias"), name |-> on("name"), description |-> on("description"),
                     file_path |-> on("file_path"), tags |-> on("tags"),
                     columns |-> IF place = "columns" THEN {[name |-> "w", semanticType |-> {}, synonyms |-> {"x"}, examples |-> {"y"}]} ELSE {},
                     rawCode |-> IF place = "rawCode" THEN <<"w", "x", "y">> ELSE <<>>,
                     macroSql |-> IF place = "macroSql" THEN <<"w", "x", "y">> ELSE <<>>,
                     blockContents |-> IF place = "blockContents" THEN <<"w", "x">> ELSE <<>>,
                     extended |-> on("extended"), hasNova |-> TRUE,
                     nova |-> [measures |-> def("nova_measures"), metric |-> def("nova_metric"), metrics |-> def("nova_metrics"),
                               nova_synonyms |-> on("nova_synonyms"), nova_domains |-> on("nova_domains"),
                               nova_use_cases |-> on("nova_use_cases"), nova_sensitivity |-> on("nova_sensitivity"),
                               nova_compliance |-> on("nova_compliance"),
                               pii |-> [kind |-> IF place = "nova_pii" THEN "list" ELSE "absent", words |-> on("nova_pii")]]],
              cfg |-> [ngram |-> ngram, extended |-> extended, maxSql |-> maxSql]])

Falling == {s \in BoundedSeq([id : 1 .. 3, score : {0, 1, 3, 300}], 4) :
              \A i \in DOMAIN s : i > 1 => s[i].score <= s[i - 1].score}
TakeHits ==
  For("hits") /\ \E docs \in Falling, limit \in 1 .. 2, multiplier \in 1 .. 2, min \in 0 .. 1 :
    Take("hits", [docs |-> docs, req |-> [limit |-> limit, multiplier |-> multiplier, minScore |-> min]])

Orders3 == {s \in BoundedSeq(1 .. 3, 3) : IsInjective(s)}
TakeFusion ==
  For("fusion") /\ \E a, b, c \in Orders3, wa \in 1 .. 2, fetch \in {2, 9}, outcome \in {"completed", "failed"} :
    LET semantic(ids, o) == [enabled |-> TRUE, loaded |-> TRUE, allowed |-> TRUE, outcome |-> o, ids |-> ids]
    IN  Take("fusion", [primary |-> a, vector |-> semantic(b, "completed"), sparse |-> semantic(c, outcome), rrf |-> TRUE, fetch |-> fetch,
                        ngramEnabled |-> FALSE, syntax |-> FALSE, fuzzy |-> FALSE, persona |-> "default", k |-> 1,
                        weights |-> [bm25 |-> wa, vector |-> 1, sparse |-> 1]])

Suggested == [present : BOOLEAN, type : {"model", "test"}, name : {"m", "n"}, alias : {"", "n", "o"}]
TakeSuggestions ==
  For("suggestions") /\ \E entities \in BoundedSeq(Suggested, 2), persona \in {"analyst", "default"}, limit \in 0 .. 3 :
    Take("suggestions", [entities |-> entities, persona |-> persona, limit |-> limit])

FusedHits == {s \in BoundedSeq([id : 1 .. 4, score : {1, 2, 300}], 4) :
                \A i \in DOMAIN s : s[i].id \in 1 .. 4 /\ \A j \in 1 .. (i - 1) : s[j].id # s[i].id /\ s[j].score >= s[i].score}
TakeSearch ==
  For("search") /\ \E hits \in FusedHits, limit \in 1 .. 2, offset \in 0 .. 2, allowed \in {1 .. 4, {1, 3}} :
    Take("search", [hits |-> hits, limit |-> limit, offset |-> offset, allowed |-> allowed])

TakeRerank ==
  For("rerank") /\ \E n \in 0 .. 4, topN \in 0 .. 3, missing \in SUBSET (1 .. 2) :
    LET hits == [i \in 1 .. n |-> [id |-> i, score |-> 9 - i]]
        sent == Cardinality({i \in 1 .. Least(topN, n) : i \notin missing})
    IN  \E order \in {s \in [1 .. sent -> 1 .. sent] : IsInjective(s)} :
          Take("rerank", [hits |-> hits, topN |-> topN, missing |-> missing,
                          scores |-> [i \in 1 .. sent |-> <<order[i], 5 - i>>]])

MultiplierConfig ==
  [exact |-> 3, measure |-> <<3, 2>>, metric |-> <<2, 1>>, matchType |-> <<2, 1>>, synonym |-> <<1, 2>>, canonical |-> <<3, 2>>,
   canonicalItem |-> <<2, 1>>, canonicalMatch |-> <<2, 1>>, bonus |-> 1, docs |-> <<2, 1>>, tests |-> <<1, 1>>,
   tags |-> <<1, 1>>, path |-> <<1, 2>>,
   analyst |-> [metric |-> <<2, 1>>, measure |-> <<1, 1>>, grain |-> <<3, 2>>, noGrain |-> <<1, 2>>, time |-> <<1, 1>>,
                overlap |-> <<<<1, 1>>, <<2, 1>>, <<3, 1>>>>, noMetric |-> <<1, 2>>, min |-> <<1, 2>>, max |-> <<3, 1>>]]
TakeAdjust ==
  For("adjust") /\ \E scores \in {<<-2, -1>>, <<-1, 1>>, <<1, 2>>}, persona \in {"analyst", "engineer", "default"}, type \in {"model", "macro"} :
   \E measure, synonym, item, exact, nova, present \in BOOLEAN, asked \in {0, 2}, field \in {0, 2}, dimensions \in {0, 2} :
    Take("adjust", [score |-> scores[1], higher |-> scores[2],
      f |-> [persona |-> persona, type |-> type, measure |-> measure, metric |-> FALSE, synonym |-> synonym,
             canonical |-> FALSE, canonicalItem |-> item, exact |-> exact, nova |-> nova, present |-> present, candidate |-> synonym,
             asked |-> asked, matched |-> IF measure THEN 1 ELSE 0, field |-> field, staging |-> exact, phraseBoost |-> TRUE,
             exactPhrase |-> item, grains |-> <<[key |-> FALSE, dimensions |-> 0, time |-> FALSE],
                                               [key |-> FALSE, dimensions |-> dimensions, time |-> synonym]>>,
             metricDefined |-> measure, measureDefined |-> FALSE, precision |-> <<2, 1>>, support |-> <<1, 1>>,
             indicatorScores |-> item, parentFactor |-> <<1, 2>>, documented |-> synonym, tested |-> TRUE,
             tagged |-> FALSE, pathMatches |-> exact]])

Items3(n) == {[id |-> i, type |-> IF i = 1 THEN "name" ELSE "field", count |-> i, canonical |-> i = 2, words |-> {"w"},
               time |-> i = 1, dimensions |-> FALSE] : i \in 1 .. n}
TakeIndicators ==
  For("indicators") /\ \E n \in [1 .. 3 -> 0 .. 2], coherence, rrf, reranks \in BOOLEAN, topN \in 1 .. 3, min \in {0, 420, 600} :
    \E parents \in {<<>>, <<3>>, <<2, 1>>}, rerank \in {<<0, 0, 0, 0, 0, 0>>, <<0, 9, -9, 0, 0, 0>>} :
      Take("indicators",
        [entities |-> {[id |-> i, items |-> Items3(n[i]), canonical |-> i = 1, synonyms |-> {{"w"}}, described |-> i = 2,
                        type |-> "model", nova |-> TRUE, time |-> i = 3, dimensions |-> i = 1] : i \in 1 .. 3},
         f |-> [asked |-> 2, tokens |-> {"w", "x"}, signals |-> [domains |-> 2], signalWeights |-> [domains |-> 5], supportMax |-> 7,
                field |-> 1, phraseBoost |-> TRUE, exactPhrase |-> FALSE],
         p |-> [coherence |-> coherence, rrf |-> rrf, reranks |-> reranks, topN |-> topN, minScore |-> min, parentHits |-> parents,
                k |-> 1, rrfWeight |-> 1, rerank |-> rerank, rerankWeight |-> 10,
                bonus |-> [max |-> 60, diversity |-> 10, canonicalRow |-> 20, strong |-> 30, timeRow |-> 5, dimension |-> 5]]])

TakeGroups ==
  For("groups") /\ \E rows \in BoundedSeq([parent : 1 .. 3, id : {1}, score : 1 .. 2], 4), groups \in 1 .. 3, indicators \in 0 .. 2 :
    Take("groups", [rows |-> rows, c |-> [groups |-> groups, indicators |-> indicators]])

TakeWords ==
  For("words") /\ \E name, field, expression, syn \in Texts, tokens \in SUBSET Words, more \in {{"w"}, {"x"}, {"y"}} :
    Take("words", [d |-> [id |-> 0, canonical |-> FALSE, name |-> name, field |-> field, description |-> syn \cup {"y"}, expression |-> expression, synonyms |-> {syn}],
                   entities |-> {[id |-> 1, name |-> syn, relation |-> {"w"}, domains |-> {{"x"}}, useCases |-> {},
                                  columns |-> {[id |-> 1, name |-> {name}, synonym |-> {syn}, description |-> {field, {"y"}},
                                                role |-> {expression}, semanticType |-> {}, example |-> {{"w", "y"}}]}]},
                   tokens |-> tokens, more |-> more])

TakePhrase ==
  For("phrase") /\ \E text \in BoundedSeq({"a", "b", " "}, 5), phrase \in {<<"a">>, <<"a", "b">>, <<"a", " ", "b">>} : Take("phrase", <<text, phrase>>)

TakeVectors ==
  For("vectors") /\ \E n \in 0 .. 4, max \in {1, 2, 6}, min \in {0, 2}, k \in 0 .. 2, hamming \in 0 .. 2, on \in BOOLEAN :
    \E sigs \in [1 .. n -> {{}, {1}, {1, 2}}], scores \in {[i \in 1 .. n |-> i], [i \in 1 .. n |-> IF i = 2 THEN NaN ELSE (i * 3) % 4]} :
      Take("vectors", [sigs |-> sigs, scores |-> scores, k |-> k,
                       ann |-> [on |-> on, bits |-> 2, hamming |-> hamming, max |-> max, min |-> min]])

\* The events of a provider: calls with an id of their own, and their results later.
EventOf(k, nova, i, ids) ==
  [kind |-> k, nova |-> nova, tool |-> IF i = 1 THEN "search" ELSE "get_context", params |-> {}, structure |-> Absent, id |-> <<"i", "j", Absent>>[i],
   error |-> FALSE, response |-> [data |-> ids, nested |-> <<"n">>, bytes |-> 1]]
ProviderEvents ==
  {EventOf("use", nova, i, <<>>) : nova \in BOOLEAN, i \in 1 .. 2}
    \cup {EventOf("result", TRUE, i, ids) : i \in 1 .. 2, ids \in {<<>>, <<"a", Absent, "a", "b">>}}
    \cup {EventOf(k, nova, 3, <<"c", "d">>) : k \in {"codex", "opencode"}, nova \in BOOLEAN}
Causal(events) ==
  \A i \in DOMAIN events :
    /\ events[i].kind = "use" => \A j \in DOMAIN events \ {i} : events[j].kind = "use" => events[j].id # events[i].id
    /\ events[i].kind = "result" => \E j \in 1 .. (i - 1) : events[j].kind = "use" /\ events[j].id = events[i].id
TakeEvents == For("events") /\ \E events \in BoundedSeq(ProviderEvents, 4), max \in {1, 3} : Causal(events) /\ Take("events", <<events, max>>)

Texted(ts) == {[type |-> ty, text |-> t, children |-> c] : ty \in {"text", "tool"}, t \in ts, c \in {<<>>}}
Messages == {m \in {[n EXCEPT !.children = IF t = Absent THEN <<>> ELSE <<[type |-> ty, text |-> t, children |-> <<>>]>>] :
                       n \in Texted({Absent, "one", "two", "tool"}), ty \in {"text", "tool"}, t \in {Absent, "one", "tool"}} :
               \A x \in {m} \cup ToSet(m.children) : x.text = "tool" <=> x.type = "tool"}
TakeAnswer ==
  For("answer") /\ \E events \in BoundedSeq([from : {"text", "assistant", "result", "user"}, node : Messages], 2) : Take("answer", events)

TraceRows == {[tool |-> t, params |-> p, structure |-> "s", selected |-> ToSet(top), top |-> top, bytes |-> b] :
                t \in {"search", "execute_sql"}, p \in {{}, {"q"}}, top \in {<<>>, <<"x", "y">>}, b \in {-1, 2}}
TakeScore ==
  For("score") /\ \E trace \in BoundedSeq(TraceRows, 2), row \in TraceRows, n \in 0 .. 2 :
    Take("score", [trace |-> trace, row |-> row,
      e |-> [mustCall |-> {"search"}, mustNotCall |-> {"execute_sql"}, ordered |-> {[before |-> "execute_sql", first |-> {"search"}]},
             selected |-> {"y"}, ranks |-> {[id |-> "y", tool |-> "search", max |-> n]}, calledWith |-> {[tool |-> "search", params |-> {"q"}]},
             structures |-> {[tool |-> "execute_sql", structure |-> "s"]}, maxCalls |-> n, maxDistinct |-> n, maxBytes |-> n + 1,
             maxToolBytes |-> n]])

TakeEvalRank ==
  For("evalrank") /\ \E matches \in BoundedSeq(BOOLEAN, 4), max \in 0 .. 4, topK \in 0 .. 3 :
    Take("evalrank", [matches |-> matches, max |-> max, topK |-> topK])

Counts == [passes : 0 .. 1, fails : 0 .. 1, errors : 0 .. 1]
TakeRuns ==
  For("runs") /\ \E a, b \in SUBSET {1, 2} : \E before \in [a -> Counts], after \in [b -> Counts] :
    Take("runs", <<before, after>>)

\* From 1970 on, about the end of 1999 and of February 2000, and about February 2100.
TakeDay == For("day") /\ \E d \in (0 .. 1500) \cup (10950 .. 11020) \cup (47170 .. 47560) : Take("day", d)

IdsOf3 == BoundedSeq({"a", "A", "-", " "}, 3)
TakeIds == For("ids") /\ \E a, b \in IdsOf3, asked \in SUBSET {<<"a">>, <<"a", " ">>, <<" ">>} :
             Take("ids", [ids |-> <<a, b>>, asked |-> asked])

Anchors == [snapshot : {Missing, "d1"}, start : {Missing, Blank, "d1", "d2"}, end : {Missing, "d1", "d2"}, field : {Missing, "f"}]
TakeAnchors == For("anchors") /\ \E suite, case \in Anchors : Take("anchors", <<suite, case>>)

TakeSuite ==
  For("suite") /\ \E version \in 0 .. 1, range \in BOOLEAN, ids \in {<<<<"a">>>>, <<<<"a">>, <<"A">>>>}, needed \in {"t", Blank}, size \in 0 .. 1 :
    \E ranks \in SUBSET [id : {"y"}, tool : {"search", Blank}, max : {0, 1}],
       calls \in SUBSET [tool : {"search"}, params : {{}, {"q"}}, contains : {{}, {Blank}, {"r"}}, scalar : {TRUE}],
       structures \in SUBSET [tool : {"execute_sql"}, structure : {"s"}, parses : BOOLEAN] :
      Cardinality(calls) <= 1 /\
      Take("suite", [version |-> version, threshold |-> "given", thresholdInRange |-> range, ids |-> <<>>, agentIds |-> ids,
        cases |-> {{[any |-> {Missing, needed}, needed |-> {needed}, optional |-> {Missing}, sizes |-> {size}, sqlParses |-> TRUE]}},
        agentCases |-> {[task |-> needed,
          expected |-> [ranks |-> ranks, calledWith |-> calls, structures |-> structures, budgets |-> {size}]]}])

TakeAgentCase ==
  For("agentcase") /\ \E x \in [dirs : BOOLEAN, provider : {"timeout", "missing", "exit0", "exit1"}, fileRows : BoundedSeq({1}, 2), stdoutRows : BoundedSeq({1}, 2),
            fileErrors : 0 .. 1, requiresTrace : BOOLEAN, maxCalls : 0 .. 1,
            args : [provider : {"opencode", "codex", "claude", "goose", "other"}, command : {Missing, Blank, "c"},
                    args : {Missing}, model : {Missing, "m"}]
                   \cup [provider : {"other"}, command : {"c"}, args : {<<"x">>}, model : {Missing}]] :
    Take("agentcase", x)

Leaves == [leaf : {"x", "y", Null}]
TakeResponse ==
  For("response") /\ \E response \in UNION {[s -> Leaves \cup [{"p"} -> Leaves]] : s \in SUBSET {"p", "q"} \ {{}}},
     path \in {<<>>, <<"p">>, <<"q">>, <<"p", "p">>, <<"q", "p">>}, expected \in {"x", "y"} :
    Take("response", <<response, path, expected>>)

Pieces == {<<"_">>, <<"_", "_">>, <<"a">>, <<" ">>}
TakeFilling == For("filling") /\ \E pieces \in BoundedSeq(Pieces, 6) : Take("filling", FlattenSeq(pieces))

JinjaChunks ==
  {[text |-> t, jinja |-> FALSE] :
     t \in {<<"a">>, <<"E", "'", "\\", "'", "{", "{", "'">>, <<"'", "\\", "'">>, <<"'", "'", "'", "{", "%", "'">>, <<"\"", "'", "{", "{", "\"">>,
             <<"-", "-", "'", "{", "{", "n">>, <<"/", "*", "{", "#", "*", "/">>, <<"$", "'", "{", "{", "$">>}}
    \cup {[text |-> t, jinja |-> TRUE] : t \in {<<"{", "{", " ">>, <<"{", "%">>}}
TakeJinja == For("jinja") /\ \E chunks \in BoundedSeq(JinjaChunks, 4) :
               (\A i \in 1 .. (Len(chunks) - 1) : <<Last(chunks[i].text), chunks[i + 1].text[1]>> \notin {<<"'", "'">>, <<"a", "E">>, <<"\"", "\"">>})
               /\ Take("jinja", chunks)

SpecsOf == {[k \in {} |-> Unset]} \cup {[k \in {"x"} |-> s] : s \in [required : BOOLEAN, type : {Unset, "number"}, default : {Unset, "number"}]}
RecipeQueries == [name : {1}, order : {1}, placeholders : {<<>>, <<"x">>, <<"x", "y">>, <<"">>}, meta : SpecsOf, code : {"compiled"}, jinja : {FALSE}, fails : {FALSE}]
TakeParameters ==
  For("parameters") /\ \E a, b \in RecipeQueries, keys \in SUBSET {"x", "z"}, v \in {"word", "number"} :
    Take("parameters", [queries |-> <<a, b>>, provided |-> [k \in keys |-> v], types |-> [k \in {} |-> Unset]])

TakeRecipeIds ==
  For("recipeids") /\ \E ids \in BoundedSeq({<<1>>, <<1, 1>>, <<2, 1>>, <<1, 2>>}, 3), asked \in {<<1>>, <<2>>, <<2, 1>>} : Take("recipeids", <<ids, asked>>)

TakeRecipe ==
  For("recipe") /\ \E codes, fails \in [1 .. 2 -> {1, 2, 3}], keys \in SUBSET {"x"}, legacy, hint \in {{}, {"x"}}, stop, sql \in BOOLEAN,
     indexes \in {{}, {2}, {3}}, names \in {{}, {1}} :
    Take("recipe",
      [queries |-> QueriesOf({[dir |-> 1, sql |-> TRUE, name |-> i, order |-> IF names = {} THEN 2 - i ELSE 1, placeholders |-> IF fails[i] = 3 THEN <<"x">> ELSE <<>>,
                                       meta |-> [k \in {"x"} |-> [required |-> FALSE, type |-> Unset, default |-> Unset]],
                                       code |-> <<"compiled", "raw", "none">>[codes[i]], jinja |-> codes[i] = 2 /\ i = 2, fails |-> fails[i] = 2] : i \in 1 .. 2}, 1),
       p |-> [indexes |-> indexes, names |-> names, parameters |-> [k \in keys |-> "word"], stop |-> stop, includeSql |-> sql,
              placeholderTypes |-> [k \in hint |-> "number"], legacyTypes |-> [k \in legacy |-> "identifier"], sqlTypes |-> [k \in {} |-> Unset]]])

Stop == part # "none" /\ UNCHANGED <<part, input>>

Next ==
  \/ TakeLineage \/ TakeColumn \/ TakeMatch \/ TakeProjection \/ TakeDiff \/ TakePaths
  \/ TakeDocument \/ TakeHits \/ TakeFusion \/ TakeSuggestions \/ TakeSearch \/ TakeRerank \/ TakeAdjust
  \/ TakeIndicators \/ TakeGroups \/ TakeWords \/ TakePhrase
  \/ TakeVectors
  \/ TakeEvents \/ TakeAnswer \/ TakeScore \/ TakeEvalRank \/ TakeRuns \/ TakeDay
  \/ TakeIds \/ TakeAnchors \/ TakeSuite \/ TakeAgentCase \/ TakeResponse
  \/ TakeFilling \/ TakeJinja \/ TakeParameters \/ TakeRecipeIds \/ TakeRecipe
  \/ TakeReports
  \/ Stop

Spec == Init /\ [][Next]_<<part, input>>

\* Lineage!LineageExact, on every graph of four entities.
LineageIsExact == part = "lineage" => LineageExact(input.g, 1, input.p)

\* Lineage!ColumnLineageExact, on graphs of four entities.
ColumnLineageIsExact == part = "column" => ColumnLineageExact(input.g, input.m, 1, input.p)

\* Lineage!BestTier, on every combination of facts about two columns.
BestMatchRecorded == part = "match" => BestTier(input)

\* Lineage!SplitInvertsJoin, on projections of up to three items.
ProjectionSplit == part = "projection" => SplitInvertsJoin(input)

\* Lineage!DiffMirrored, on entities with up to two indicators.
DiffIsMirrored == part = "diff" => DiffMirrored(input[1], input[2])

\* Lineage!PathsPaged, on every set of matching entities.
PathsAllPaged == part = "paths" => PathsPaged(input.entities, input.types, input.limit)

\* TextIndex!IndexedIsFound, for a word in every place of an entity.
EveryWordIsFound == part = "document" => IndexedIsFound(input.e, input.cfg)

\* TextIndex!HitsFillLimit, on every short list of hits.
HitsAreFilled == part = "hits" => HitsFillLimit(input.docs, input.req)

\* SearchRanking!FusionFollows, on three retrievers of up to three hits.
FusionIsFair == part = "fusion" => FusionFollows(input)

\* SearchRanking!SuggestionsFit, on up to two entities.
SuggestionsAreFit == part = "suggestions" => SuggestionsFit(input.entities, input.persona, input.limit)

\* SearchRanking!PageHoldsTotal, on up to four hits.
PagesHoldTotal == part = "search" => PageHoldsTotal(input.hits, input.limit, input.offset, input.allowed)

\* SearchRanking!RerankKeeps, on up to four hits.
RerankKeepsHits == part = "rerank" => RerankKeeps(input.hits, input.topN, input.scores, input.missing)

\* SearchRanking!AdjustKeepsOrder, on combinations of what the metadata says.
AdjustedInOrder == part = "adjust" => AdjustKeepsOrder(input.score, input.higher, input.f, MultiplierConfig)

\* SearchRanking!RankingKeepsRows, on up to six indicators of three entities.
IndicatorsKept == part = "indicators" => RankingKeepsRows(input.entities, input.f, <<10, 20, 30>>, input.p)

\* SearchRanking!GroupsCountRows, on up to four rows.
GroupsAreRight == part = "groups" => GroupsCountRows(input.rows, input.c)

\* SearchRanking!MoreWordsMatchMore, on small texts.
MoreWordsMore == part = "words" => MoreWordsMatchMore(input.d, input.entities, input.tokens, input.more)

\* SearchRanking!PhraseIsWords, on short texts.
PhrasesAreWords == part = "phrase" => PhraseIsWords(input[1], input[2])

\* SemanticIndex!SearchIsFull, on up to four vectors and two hyperplanes.
VectorSearchIsFull == part = "vectors" => SearchIsFull(input.sigs, input.scores, {1}, input.ann, input.k)

\* EvalScoring!TraceFollowsCalls, on up to four events.
TraceIsOfCalls == part = "events" => TraceFollowsCalls(input[1], input[2])

\* EvalScoring!AnswerIsTheAgents, on up to two messages.
AnswersAreAgents == part = "answer" => AnswerIsTheAgents(input)

\* EvalScoring!CallsAccumulate, on up to three calls.
ScoresAccumulate == part = "score" => CallsAccumulate(input.e, input.trace, input.row)

\* EvalScoring!RankSeesEnough, on up to four rows.
RanksSeeEnough == part = "evalrank" => RankSeesEnough(input.matches, input.max, input.topK)

\* EvalScoring!CompareMirrored, on runs of up to two cases.
ComparedAlike == part = "runs" => CompareMirrored(input[1], input[2])

\* EvalScoring!CalendarSteps, day by day.
CalendarRuns == part = "day" => CalendarSteps(input)

\* EvalSuites!CasesApart, on two ids of up to three characters, cut to two.
CasesAreApart == part = "ids" => CasesApart(input.ids, input.asked, 2)

\* EvalSuites!AnchorsAgree, on a suite with one case.
AnchorsMakeSense == part = "anchors" => AnchorsAgree(input[1], {input[2]}, {<<"d1", "d2">>})

\* EvalSuites!ExpectationsBite, on suites with one agent case.
ExpectationsAllBite == part = "suite" => ExpectationsBite(input, 2)

\* EvalSuites!AgentCaseSound, on every way a provider's run may end.
AgentCasesSound == part = "agentcase" => AgentCaseSound(input)

\* EvalSuites!AssertionsAgree, on small responses.
ResponsesAgree == part = "response" => AssertionsAgree(input[1], input[2], input[3])

\* Recipes!FilledInPlace, on short statements of underscores and names.
PlaceholdersFilled == part = "filling" => FilledInPlace(input)

\* Recipes!JinjaOutsideLiterals, on statements of up to four pieces.
JinjaIsSeen == part = "jinja" => JinjaOutsideLiterals(input)

\* Recipes!MissingAlike, on two queries.
MissingIsMissing == part = "parameters" => MissingAlike(input.queries, input.provided, input.types)

\* Recipes!FoundFirst, on up to three recipes.
RecipesFoundFirst == part = "recipeids" => FoundFirst(input[1], input[2])

\* Recipes!RunIsWhole, on two queries.
RecipesRunWhole == part = "recipe" => RunIsWhole(input.queries, input.p)

-----------------------------------------------------------------------------
(* What a run checks: the invariants above and those of MCReports, by      *)
(* component.                                                              *)

\* The graph tools (lineage.rs, column_lineage.rs, lineage_sql.rs, diff.rs,
\* path.rs) against their reference definitions: bounded traversals find exactly
\* the entities within reach, columns are matched at their best tier, projections
\* are split where they were joined, a diff read backwards is its mirror image.
GraphToolsExact ==
  LineageIsExact /\ ColumnLineageIsExact /\ BestMatchRecorded /\ ProjectionSplit /\ DiffIsMirrored /\ PathsAllPaged

\* Search (tantivy_search.rs, tools/search, embeddings): what is indexed is found,
\* a retriever that fails does not silence the others, a hit is neither lost nor
\* doubled nor overtaken by a worse one on its way through fusion, reranking,
\* adjustment, grouping and paging, and pages hold what their total promises.
SearchSound ==
  /\ EveryWordIsFound /\ HitsAreFilled /\ FusionIsFair /\ SuggestionsAreFit /\ PagesHoldTotal /\ RerankKeepsHits
  /\ AdjustedInOrder /\ IndicatorsKept /\ GroupsAreRight /\ MoreWordsMore /\ PhrasesAreWords /\ VectorSearchIsFull

\* Evals (cli/eval_cmd): the trace and the answer that are judged are the agent's,
\* whatever order its events come in; verdicts do not turn with calls that add
\* nothing to them; comparing two runs either way tells the same; and a suite that
\* is accepted has cases that can be told apart, selected and failed.
EvalsSound ==
  /\ TraceIsOfCalls /\ AnswersAreAgents /\ ScoresAccumulate /\ RanksSeeEnough /\ ComparedAlike /\ CalendarRuns
  /\ CasesAreApart /\ AnchorsMakeSense /\ ExpectationsAllBite /\ AgentCasesSound /\ ResponsesAgree

\* Recipes (tools/recipes.rs): placeholders are filled where they are, Jinja that
\* would reach the warehouse is seen, what is missing is reported alike by query
\* and by recipe, and a recipe that runs, runs whole.
RecipesSound == PlaceholdersFilled /\ JinjaIsSeen /\ MissingIsMissing /\ RecipesFoundFirst /\ RecipesRunWhole

\* What a server starts with (bootstrap.rs, prebuilt_assets*.rs, cli/manifest.rs,
\* config): a reload forgets what the last contract filled in, archives stay in
\* their directory and bounds, models that pass validation can be loaded, the
\* command line goes over the rest, a warm that succeeds is one a server can use,
\* accepted settings are usable, only what the operator means is exposed, and an
\* index is used again exactly for the selection it was built for.
StartsAsMeant ==
  /\ ReloadsAfresh /\ ArchivesStayInside /\ ModelsServe /\ CommandLineWins /\ WarmsAreKept
  /\ SettingsUsable /\ ExposureIsMeant /\ FingerprintsFollow

\* Metadata (entity.rs, nova_meta) and the modelling tools on it (tools/modeling):
\* all readers see the same metadata, what the validator accepts is served whole,
\* two canonical definitions never pass unnoticed, comparisons miss no overlap and
\* page completely, and a project without findings can be answered from.
MetadataSound ==
  /\ MetaIsReadAlike /\ ExplicitMetaWins /\ ValidMetaServed /\ CanonicalsUnique /\ SelectionsAgree /\ MetaToolStaysInside
  /\ GrainsComparedAlike /\ OverlapComplete /\ ReportPagesComplete /\ ConflictsAreShown /\ CleanProjectsAnswerable
  /\ EntitiesWellScored /\ ProjectsWellScored
==============================================================================
