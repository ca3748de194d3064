------------------------------ MODULE MCReports ------------------------------
(***************************************************************************)
(* Inputs and invariants for TLC of the algorithms on assets, settings,    *)
(* metadata and reports. MCTools has the specification they are part of.   *)
(***************************************************************************)
EXTENDS ManifestCommands, Settings, NovaMeta, ModellingFindings, MetadataScore

VARIABLES part, input

\* A behaviour starts with the name of the algorithm to run, and takes an input.
For(p) == part = "none" /\ input = p
Take(p, i) == part' = p /\ input' = i

-----------------------------------------------------------------------------
Contracts ==
  {[configured |-> TRUE, version |-> v, format |-> f, instance |-> i, manifest |-> "m1", storage |-> "s1", metadata |-> "d1",
    models |-> m, timestamp |-> TRUE] : v \in {"v1", "v2"}, f \in {"", "2"}, i \in {"i1", "i2"}, m \in {"", "o1"}}
  \cup {[configured |-> FALSE, version |-> "", format |-> "", instance |-> "", manifest |-> "", storage |-> "", metadata |-> "",
         models |-> "", timestamp |-> FALSE]}
TakeReload ==
  For("reload") /\ \E manifest \in {"", "m0"}, instance \in {"", "i0"}, models \in {"", "o0"}, p1, p2 \in
     {[manifest |-> "", path |-> "", instance |-> ""], [manifest |-> "m9", path |-> "", instance |-> ""],
      [manifest |-> "", path |-> "p9", instance |-> ""], [manifest |-> "", path |-> "", instance |-> "i9"],
      [manifest |-> "m9", path |-> "", instance |-> BlankId]},
     named \in BOOLEAN, b1, b2 \in Contracts :
    /\ b1.configured = b2.configured /\ (b1.configured => b1.format = "2" /\ b1.version = "v2")
    /\ Take("reload",
            [c |-> [manifest |-> manifest, path |-> "manifest.json", pathExplicit |-> FALSE, instance |-> instance, storage |-> "",
                    metadata |-> "", models |-> models, applied |-> {}],
             ps |-> <<p1, p2>>, bs |-> <<b1, b2, b1>>,
             published |-> [d \in {"d1"} |-> [version |-> "v2", format |-> "2", hash |-> "h", instance |-> "i", timestamp |-> TRUE,
                                              models |-> IF named THEN "x" ELSE ""]]])

ArchiveEntries == [path : {<<"d">>, <<"d", "f">>, <<"e", "f">>, <<"d", "..">>, <<"/", "f">>}, type : {"file", "dir", "link"}, size : {2}]
TakeArchive ==
  For("archive") /\ \E entries \in BoundedSeq(ArchiveEntries, 2), last \in ArchiveEntries, bytes \in {0, 3}, count \in {0, 2} :
    Take("archive", [entries |-> Append(entries, last), limits |-> [bytes |-> bytes, entries |-> count]])

Repos ==
  {[refs |-> [r \in {"main", "other"} \ {x \in {"main", "other"} : refs[x] = "none"} |-> refs[r]],
    snapshots |-> [s \in {s \in {"s1", "s2", "main"} : files[s] # {"none"}} |-> files[s]]] :
     refs \in [{"main", "other"} -> {"none", "", "s1", "s2"}],
     files \in [{"s1", "s2", "main"} -> {{"none"}, {}, {"model.onnx", "tokenizer"}, {"model.onnx", "model.onnx_data", "tokenizer"}}]}
TakeModels ==
  For("models") /\ \E repo \in Repos, embedding \in {"minilm", "e5-large"}, enabled \in {{"vector"}, {"vector", "sparse", "reranker"}, {"reranker"}} :
    Take("models", [search |-> [embedding |-> embedding, enabled |-> enabled],
                    cache |-> [repo |-> repo, legacy |-> FALSE,
                               scoped |-> [h \in {"h"} |-> IF embedding = "minilm" THEN {"vector", "sparse"} ELSE {"vector"}]]])

\* AssetContracts!ConfiguredAfresh, for two reloads.
ReloadsAfresh == part = "reload" => ConfiguredAfresh(input.c, input.ps, input.bs, input.published)

\* AssetContracts!UnpacksInside, on archives of up to three entries.
ArchivesStayInside == part = "archive" => UnpacksInside(input.entries, input.limits)

\* AssetContracts!AcceptedModelsServe, on every small repository.
ModelsServe == part = "models" => AcceptedModelsServe(input.search, input.cache, "h")

-----------------------------------------------------------------------------
TakeCommand ==
  For("command") /\ \E manifest \in {"", "m0"}, instance \in {"", "i0"}, b \in Contracts, named \in BOOLEAN :
    \E args \in [path : {"", "p9"}, manifest : {"", " ", "m9"}, instance : {"", "i9", ".."}, cleanup : {FALSE}, readOnly : {FALSE}] :
      Take("command",
           [c |-> [manifest |-> manifest, path |-> "manifest.json", pathExplicit |-> FALSE, instance |-> instance, storage |-> "",
                   metadata |-> "", models |-> "", applied |-> {}, cleanup |-> TRUE, readOnly |-> FALSE],
            args |-> args, b |-> b,
            published |-> [d \in {"d1"} |-> [version |-> "v2", format |-> "2", hash |-> "h", instance |-> "i", timestamp |-> TRUE,
                                             models |-> IF named THEN "x" ELSE ""]]])

DiskCaches == {NoCache} \cup [count : {1, 2}, age : {1, 9}]
TakeWarm ==
  For("warm") /\ \E flags \in SUBSET WarmComponents, enabled \in {{"vector"}, WarmComponents}, policy \in {"degrade", "build"}, readOnly \in BOOLEAN,
     force \in BOOLEAN, tool \in BOOLEAN, v, s \in DiskCaches :
    \E world \in [texts : {2}, batchFails : BOOLEAN, model : BOOLEAN, saves : BOOLEAN] :
      Take("warm", [c |-> [enabled |-> enabled, policy |-> policy, readOnly |-> readOnly, force |-> FALSE, cleanup |-> TRUE],
                    p |-> [flags |-> flags, force |-> force, tool |-> tool, toolEnabled |-> TRUE],
                    disk |-> [k \in WarmComponents |-> CASE k = "vector" -> v [] k = "sparse" -> s [] OTHER -> NoCache],
                    world |-> world])

\* ManifestCommands!OverridesWin, on every small command line.
CommandLineWins == part = "command" => OverridesWin(input.c, input.args, input.b, input.published)

\* ManifestCommands!WarmIsKept, on every cache there may be.
WarmsAreKept == part = "warm" => WarmIsKept(input.c, input.p, input.disk, input.world)

-----------------------------------------------------------------------------
TakeSetting == For("setting") /\ \E name \in DOMAIN AllEnv, v \in EnvValues : Take("setting", <<name, v>>)

TakeExposure ==
  For("exposure") /\ \E preset \in {"local-dev", "ci-audit", "hosted-discovery", "hosted-sql-trusted"} :
    \/ \E env \in [transport : {"unset", "stdio", "http"}, host : {"unset", "loopback", "all"}, port : BOOLEAN, proxy : BOOLEAN,
                   profile : {"unset"}, allow : {{}}, deny : {"unset"}, denied : {{}},
                   mode : {"off", "jwt"}, required : {"unset", "yes", "no", "bad"}] :
         Take("exposure", <<preset, env>>)
    \/ \E env \in [transport : {"unset"}, host : {"loopback"}, port : {FALSE}, proxy : {FALSE},
                   profile : {"unset", "all", "engineer", "ops"}, allow : {{}, {"sql", "admin"}, {"read"}}, deny : {"unset", "set"},
                   denied : {{}, {"sql"}, {"recipe", "admin"}}, mode : {"off"}, required : {"unset"}] :
         Take("exposure", <<preset, env>>)

TakeFingerprints ==
  For("fingerprints") /\ \E a, b, c, d \in BoundedSeq(0 .. 1, 2) :
    \/ Take("fingerprints", <<[allow |-> a, deny |-> b], [allow |-> c, deny |-> d]>>)
    \/ Take("fingerprints", <<[allow |-> a, deny |-> b], [allow |-> [i \in DOMAIN c |-> 2 * c[i]], deny |-> d]>>)
    \/ Take("fingerprints", <<[allow |-> <<2>> \o a, deny |-> b], [allow |-> c \o <<2>>, deny |-> d]>>)

\* Settings!SettingUsable, for every setting and value.
SettingsUsable == part = "setting" => SettingUsable(input[1], input[2])

\* Settings!ExposedKnowingly, for every preset and environment.
ExposureIsMeant == part = "exposure" => ExposedKnowingly(input[1], input[2])

\* Settings!FingerprintFollows, on short lists of patterns.
FingerprintsFollow == part = "fingerprints" => FingerprintFollows(input[1], input[2])

-----------------------------------------------------------------------------
JLeaves == {JNull, JNum(1), JNum(2)}
JInner == JLeaves \cup {JObj(f) : f \in UNION {[S -> JLeaves] : S \in SUBSET {"nova", "own"}}}
JMetas == {JNull, JNum(1), JObj(<<>>)} \cup {JObj([k \in {"nova"} |-> v]) : v \in JInner}
TakeMetaJson == For("metajson") /\ \E meta, config \in JMetas : Take("metajson", <<meta, config>>)

Option(S) == {{}} \cup {{x} : x \in S}
NoNova == [role |-> {}, synonyms |-> <<>>, canonical |-> FALSE, grain |-> {}, measures |-> <<>>, metric |-> {}, metrics |-> <<>>,
           candidates |-> {}, governance |-> {}]
MetaTexts == {Plain(0), Plain(1), Plain(2), <<1, "padded">>, <<1, "upper">>}
Grains == [time : Option({Plain(0), Plain(1)}), keys : BoundedSeq({Plain(1), <<2, "padded">>}, 2), dims : {<<>>, <<Plain(2)>>, <<Plain(3)>>}]
Measures == [name : Option(MetaTexts), field : Option({Plain(1), Plain(3)}), canonical : BOOLEAN, scoped : {FALSE}]
MetricFilters == [field : Option({Plain(1), Plain(3)}), operator : {"between", "is_null", "comparison", "in", "none", "other"}, count : 0 .. 3]
Metrics(filters) ==
  {[name |-> n, grain |-> g, canonical |-> FALSE, scoped |-> FALSE, filters |-> f] : n \in Option({Plain(1), Plain(2)}), g \in {{}}, f \in filters}

FlowItems == [type : {"primary", "time"}, name : Option({Plain(1), Plain(2)}), expr : Option({Plain(0), Plain(3)})]
TakeMetricflow ==
  For("metricflow") /\ \E type \in {"metric", "semantic_model"}, name \in Option({Plain(1)}), label \in Option({Plain(1), Plain(2)}) :
    \/ \E m1, m2, e1, e2 \in {<<>>} \cup {<<m>> : m \in {m \in Measures : m.field = {} /\ ~m.canonical}} :
         Take("metricflow",
              [type |-> type, name |-> name, label |-> label, synonyms |-> <<Plain(2)>>, grain |-> {}, entities |-> <<>>, dimensions |-> <<>>,
               measures |-> LET ms == m1 \o m2 IN [i \in DOMAIN ms |-> [name |-> ms[i].name, expr |-> {}]],
               nova |-> {[NoNova EXCEPT !.measures = e1 \o e2, !.synonyms = <<Plain(2), Plain(3)>>]}])
    \/ \E a, b \in FlowItems, g \in Option({[time |-> {}, keys |-> <<Plain(3)>>, dims |-> <<>>]}), m \in BOOLEAN :
         Take("metricflow",
              [type |-> type, name |-> name, label |-> label, synonyms |-> <<>>, grain |-> g, entities |-> <<a>>, dimensions |-> <<b, a>>,
               measures |-> <<>>,
               nova |-> {[NoNova EXCEPT !.grain = g, !.metric = IF m THEN Metrics({<<>>}) \cap {[name |-> {Plain(1)}, grain |-> {},
                                        canonical |-> FALSE, scoped |-> FALSE, filters |-> <<>>]} ELSE {}]}])

MetaTargets(novas) ==
  {[kind |-> k, name |-> {Plain(1)}, parent |-> {}, column |-> c, nova |-> n, columns |-> {Plain(1), Plain(2)}, roles |-> <<>>] :
     k \in {"model", "metric"}, c \in {{}, {Plain(1)}}, n \in novas}
TakeTarget ==
  For("target") /\
  (\/ \E a, b \in {m \in Measures : ~m.canonical}, metric \in Option(Metrics({<<>>})), n \in 0 .. 2 :
        \E target \in MetaTargets({[NoNova EXCEPT !.measures = SubSeq(<<a, b>>, 1, n), !.metric = metric]}) : Take("target", target)
   \/ \E grain \in Grains, inMetric \in BOOLEAN, candidates \in Option([{"analyst", "engineer"} -> Option(BOOLEAN)]), canonical \in BOOLEAN :
        \E target \in MetaTargets({[NoNova EXCEPT !.grain = IF inMetric THEN {} ELSE {grain}, !.candidates = candidates, !.canonical = canonical,
                                !.metric = IF inMetric THEN {[name |-> {Plain(1)}, grain |-> {grain}, canonical |-> FALSE, scoped |-> FALSE,
                                                              filters |-> <<>>]} ELSE {}]}) : Take("target", target)
   \/ \E f \in MetricFilters, m \in Option(Metrics({<<>>})), role \in Option({Plain(0), Plain(5)}) :
       \E ms \in {<<x>> : x \in Metrics({<<f>>})} : \E target \in MetaTargets({[NoNova EXCEPT !.metric = m, !.metrics = ms, !.role = role]}) :
          Take("target", target))

CanonicalNovas ==
  {[NoNova EXCEPT !.measures = <<[name |-> {n}, field |-> {}, canonical |-> TRUE, scoped |-> s]>>, !.grain = g] :
     n \in {Plain(1), <<1, "upper">>, Plain(2)}, s \in BOOLEAN,
     g \in Option([time : Option({Plain(1)}), dims : {<<>>}, keys : {<<Plain(1), Plain(2)>>, <<Plain(2), Plain(1)>>, <<Plain(3)>>}])}
TakeCanonical ==
  For("canonical") /\ \E a, b \in CanonicalNovas :
    Take("canonical", [i \in 1 .. 2 |-> [kind |-> "model", name |-> {Plain(i)}, parent |-> {}, column |-> {}, nova |-> <<a, b>>[i],
                                         columns |-> {}, roles |-> <<>>]])

YamlNovas == {NoNova, [NoNova EXCEPT !.role = {Plain(0)}], [NoNova EXCEPT !.grain = {[time |-> {Plain(1)}, keys |-> <<>>, dims |-> <<>>]}]}
YamlColumns == {<<>>} \cup {<<[name |-> n, nova |-> v]>> : n \in Option({Plain(1)}), v \in Option({NoNova, [NoNova EXCEPT !.role = {Plain(0)}]})}
YamlEntities == [name : Option({Plain(1), Plain(2)}), nova : Option(YamlNovas), columns : YamlColumns]
TakeProject ==
  For("project") /\ \E m \in YamlEntities, t \in {e \in YamlEntities : e.name = {Plain(1)} /\ e.nova \in {{}, {NoNova}}}, source \in Option({Plain(1)}), ok \in BOOLEAN :
    \E selector \in [kind : Option({"model", "table"}), name : Option({Plain(1)}), column : Option({Plain(1)})] :
      Take("project",
           [files |-> <<[ok |-> TRUE, models |-> <<m>>, metrics |-> <<>>,
                         sources |-> <<[name |-> source, nova |-> {}, tables |-> <<t>>]>>],
                        [ok |-> ok, models |-> <<>>, metrics |-> <<>>, sources |-> <<>>]>>,
            selector |-> selector])

FileTree == [files |-> {<<"r", "p", "m", "y">>, <<"r", "p", "target", "y">>, <<"r", "q", "y">>, <<"o", "y">>},
             links |-> [l \in {<<"r", "p", "out">>, <<"r", "p", "next">>, <<"r", "p", "in">>, <<"r", "away">>} |->
                          IF l[Len(l)] \in {"out", "away"} THEN <<"o">> ELSE IF l[3] = "next" THEN <<"r", "q">> ELSE <<"r", "p", "m">>]]
TakeMetaPaths ==
  For("metapaths") /\ \E dir \in {<<>>, <<"p">>, <<"away">>, <<"q">>, <<"none">>}, paths \in BoundedSeq(BoundedSeq({"m", "out", "next", "in", "..", "/", "target"}, 2), 1),
     more \in {<<>>, <<<<"m">>>>, <<<<"target">>>>}, column \in Option({Plain(1)}) :
    Take("metapaths", [dir |-> dir, paths |-> paths \o more, selector |-> [kind |-> {}, name |-> {}, column |-> column]])

\* EntityMeta!MetaReadAlike, on every pair of small values.
MetaIsReadAlike == part = "metajson" => MetaReadAlike(input[1], input[2])

\* EntityMeta!ExplicitWins, on small MetricFlow resources.
ExplicitMetaWins == part = "metricflow" => ExplicitWins(input)

\* NovaMeta!ValidIsServed, on small entities and columns.
ValidMetaServed == part = "target" => ValidIsServed(input)

\* NovaMeta!CanonicalIsUnique, on two entities.
CanonicalsUnique == part = "canonical" => CanonicalIsUnique(input)

\* NovaMeta!SelectionAgrees, on small projects.
SelectionsAgree == part = "project" => SelectionAgrees(input.files, input.selector)

\* NovaMeta!ToolStaysInside, with links to everywhere.
MetaToolStaysInside == part = "metapaths" => ToolStaysInside(FileTree, <<"r">>, input.dir, input.paths, input.selector)

-----------------------------------------------------------------------------
BareNova == [canonical |-> FALSE, grain |-> {}, measures |-> <<>>, metric |-> {}, metrics |-> <<>>, synonyms |-> {}, domains |-> {},
             analyst |-> {}, governance |-> FALSE]
BareColumn == [name |-> Plain(1), words |-> <<3>>, type |-> {}, role |-> {}, key |-> FALSE, pii |-> FALSE, governed |-> FALSE,
               drift |-> {}, numeric |-> FALSE]
BareMetric == [name |-> Plain(1), synonyms |-> {}, grain |-> {}, canonical |-> FALSE, template |-> FALSE, ratio |-> FALSE]
BareMeasure == [name |-> Plain(1), synonyms |-> {}, field |-> {}, canonical |-> FALSE]
BareEntity == [id |-> 1, name |-> Plain(9), type |-> "model", relation |-> TRUE, words |-> {<<9, 4>>}, factName |-> FALSE, layer |-> {},
               columns |-> <<>>, nova |-> {}, refs |-> {}, parents |-> {}]
InStore(entities) == [i \in DOMAIN entities |-> [entities[i] EXCEPT !.id = i]]

Grain(time, keys, dims) == [time |-> time, keys |-> keys, dims |-> dims]
TheGrains == {Grain(t, k, d) : t \in Option({Plain(1)}), k \in SUBSET {Plain(3)}, d \in SUBSET {Plain(4), <<4, "upper">>}}
TakeGrains == For("grains") /\ \E left, right \in {s \in SUBSET TheGrains : Cardinality(s) = 2} : left # right /\ (\A g \in left : g.dims # {}) /\ Take("grains", <<left, right>>)

OverlapEntities ==
  {[BareEntity EXCEPT !.words = w, !.columns = c, !.nova = n] :
     w \in {{<<1, 4>>}}, c \in {<<>>, <<[BareColumn EXCEPT !.words = <<3, 3>>, !.type = {Plain(2)}]>>},
     n \in {{}, {[BareNova EXCEPT !.synonyms = {Plain(0), <<5, "upper">>}]},
            {[BareNova EXCEPT !.grain = {Grain({}, {Plain(3)}, {Plain(4)})}, !.domains = {Plain(0)}]},
            {[BareNova EXCEPT !.grain = {Grain({Plain(1)}, {Plain(3)}, {})}, !.metric = {[BareMetric EXCEPT !.grain = {Grain({}, {}, {Plain(4)})}]}]}}}
TakeOverlap ==
  For("overlap") /\ \E a, b, c \in OverlapEntities, focus \in {{}, {2}, {9}}, limits \in {<<9, 9>>, <<2, 9>>, <<9, 2>>} :
    /\ focus = {9} => limits = <<9, 9>>
    /\ Take("overlap", [entities |-> InStore(<<[a EXCEPT !.words = {}], b, [c EXCEPT !.words = IF c.columns = <<>> THEN {} ELSE @]>>), focus |-> focus, limits |-> limits])

ReportNovas ==
  {[BareNova EXCEPT !.measures = m, !.metric = k, !.grain = g] :
     m \in {<<>>, <<[BareMeasure EXCEPT !.canonical = TRUE], [BareMeasure EXCEPT !.name = <<2, "upper">>]>>},
     k \in {{}, {[BareMetric EXCEPT !.grain = {Grain({}, {}, {Plain(4)})}]}}, g \in {{Grain({Plain(1)}, {}, {})}}}
TakeReport ==
  For("report") /\ \E a, b, c \in Option(ReportNovas), score \in {0, 12}, limit \in {{}, {0}, {2}} :
    Take("report", [entities |-> InStore(<<[BareEntity EXCEPT !.nova = a], [BareEntity EXCEPT !.nova = b], [BareEntity EXCEPT !.nova = c]>>),
                    params |-> [minScore |-> score, limit |-> limit, offset |-> 0],
                    search |-> [default |-> 0, max |-> IF limit = {} THEN 1 ELSE 0, maxBucket |-> 9, maxPairs |-> 9, maxOffset |-> 2]])

TakeConflict ==
  For("conflict") /\ \E c1, c2, own \in BOOLEAN, n1, n2 \in {Plain(0), Plain(1), <<1, "upper">>, Plain(2)}, s1 \in {{}, {Plain(1)}}, g1, g2 \in Option({Grain({Plain(3)}, {}, {})}),
     second \in {"measure", "metric", "metrics"} :
    LET metric == [BareMetric EXCEPT !.name = n2, !.canonical = own, !.grain = g2]
    IN  Take("conflict",
             InStore(<<[BareEntity EXCEPT !.nova = {[BareNova EXCEPT !.canonical = c1, !.grain = g1,
                                                     !.measures = <<[BareMeasure EXCEPT !.name = n1, !.synonyms = s1, !.canonical = ~c1]>>,
                                                     !.metrics = <<[BareMetric EXCEPT !.name = Plain(3)]>>]}],
                       [BareEntity EXCEPT !.relation = FALSE,
                                          !.nova = {[BareNova EXCEPT !.canonical = c2, !.analyst = {FALSE},
                                                     !.measures = IF second = "measure" THEN <<[BareMeasure EXCEPT !.name = n2, !.canonical = own]>> ELSE <<>>,
                                                     !.metric = IF second = "metric" THEN {metric} ELSE {},
                                                     !.metrics = IF second = "metrics" THEN <<metric>> ELSE <<>>]}]>>))

TakeClean ==
  For("clean") /\ \E relation \in BOOLEAN, type \in {"model", "metric", "semantic_model"}, g \in Option({Grain({Plain(3)}, {}, {}), Grain({}, {Plain(3)}, {Plain(0)})}),
     m \in Option({Grain({}, {}, {Plain(2)}), Grain({Plain(2)}, {}, {})}), names \in {{1}, {1, 2}, {2, 3}}, refs \in SUBSET {Plain(0), Plain(5), <<6, "upper">>},
     measure \in {Plain(5), Plain(6)}, time \in BOOLEAN, source, keyed, drift, ratio \in BOOLEAN :
    /\ refs # {} => type = "metric"
    /\ source \/ drift => type = "model" /\ names = {2, 3} /\ relation
    /\ Take("clean",
            InStore(<<[BareEntity EXCEPT !.relation = relation, !.type = type, !.refs = refs,
                                         !.columns = SetToSeq({[BareColumn EXCEPT !.name = Plain(n), !.key = keyed /\ n = 2, !.pii = n = 3, !.type = {Plain(n)},
                                                                !.drift = IF drift THEN {"missing", "type", "only"} ELSE {}, !.role = {"measure"}]
                                                                : n \in names}),
                                         !.parents = IF source THEN {3, 9} ELSE {2},
                                         !.nova = {[BareNova EXCEPT !.canonical = keyed, !.grain = g, !.metric = {[BareMetric EXCEPT !.grain = m, !.ratio = ratio]},
                                                    !.measures = <<[BareMeasure EXCEPT !.name = Plain(8), !.field = {Plain(2)}]>>]}],
                      [BareEntity EXCEPT !.type = "semantic_model", !.relation = FALSE, !.layer = {"helper"},
                                         !.nova = {[BareNova EXCEPT !.measures = <<[BareMeasure EXCEPT !.name = measure]>>, !.governance = TRUE,
                                                    !.grain = IF time THEN {Grain({Plain(3)}, {Plain(4)}, {})} ELSE {}]}],
                      [BareEntity EXCEPT !.type = "source"]>>))

\* EntityOverlap!GrainsAgree, on every two pairs of small grains.
GrainsComparedAlike == part = "grains" => GrainsAgree(input[1], input[2])

\* EntityOverlap!OverlapsComplete, on three entities.
OverlapComplete ==
  part = "overlap" => OverlapsComplete(input.entities, {}, 1, input.focus, input.limits[1], input.limits[2])

\* EntityOverlap!FindingsPaged, on three entities.
ReportPagesComplete == part = "report" => FindingsPaged(input.entities, {}, 1, input.params, input.search)

\* ModellingFindings!ConflictsShown, on two entities.
ConflictsAreShown == part = "conflict" => ConflictsShown(input, {}, 1, 2)

\* ModellingFindings!CleanIsAnswerable, on an entity, a semantic model and a
\* source.
CleanProjectsAnswerable == part = "clean" => CleanIsAnswerable(input, 1, 2)

-----------------------------------------------------------------------------
NoShape == [shape |-> "absent", time |-> {}, keys |-> <<>>, dims |-> <<>>]
ScoredColumns == [name : {Plain(1), <<1, "upper">>}, description : {0, 60}, role : {{}, {"dimension"}}, key : BOOLEAN]
ColumnOf(c, f) == [name |-> c.name, description |-> c.description, metaOwner |-> IF f THEN "absent" ELSE "given", owner |-> "given", role |-> c.role,
                   key |-> c.key, semanticType |-> f, synonyms |-> IF f THEN 3 ELSE 0, sensitivity |-> f, pii |-> TRUE, compliance |-> IF f THEN 3 ELSE 1,
                   dataType |-> f, constraints |-> 1, otherConstraints |-> IF f THEN 2 ELSE 0, catalogType |-> IF f THEN "temporal" ELSE "other"]
ScoredTests == [name : {"unique", "not_null"}, attached : {{1}, {2}}, deps : {{}}, column : {{Plain(1)}, {Plain(2)}}, columns : {{}}]
               \cup [name : {"unique_combination_of_columns"}, attached : {{}}, deps : {{1}}, column : {{}}, columns : {{<<1, "upper">>, Plain(2)}}]
ScoredNovas ==
  {{}} \cup {{[synonyms |-> n, domains |-> 3, useCases |-> 2, grain |-> g, metric |-> {}, measures |-> <<>>, sensitivity |-> TRUE,
              metrics |-> IF n = 2 THEN {} ELSE {<<[expression |-> TRUE, synonyms |-> 1, grain |-> "empty"]>>},
              pii |-> n = 2, compliance |-> n]} :
               n \in {0, 2},
               g \in {NoShape, [NoShape EXCEPT !.shape = "text"], [NoShape EXCEPT !.shape = "unknown"],
                      [NoShape EXCEPT !.shape = "known", !.time = {<<1, "padded">>}, !.dims = <<Plain(2), Plain(0)>>],
                      [NoShape EXCEPT !.shape = "known", !.keys = <<<<2, "padded">>, Plain(1)>>]}}
TakeScored ==
  For("scored") /\ \E type \in {"model", "source", "exposure"}, columns \in {<<>>} \cup {<<c>> : c \in ScoredColumns} \cup
                        {<<c, [c EXCEPT !.name = Plain(2), !.role = {"time"}]>> : c \in ScoredColumns},
     nova \in ScoredNovas, tests \in {{}, {t \in ScoredTests : t.name # "unique"}, {t \in ScoredTests : t.column = {Plain(1)}}}, test \in {t \in ScoredTests : t.name # "not_null" /\ t.column # {Plain(2)}},
     persona \in {"engineer", "default"}, full \in BOOLEAN :
    /\ columns = <<>> => tests = {} /\ type # "source"
    /\ persona = "engineer" <=> full
    /\ \A i \in DOMAIN columns : columns[i].description = 60 <=> type = "model"
    /\ Take("scored", [e |-> [id |-> 1, type |-> type, description |-> IF full THEN 75 ELSE 0, metaOwner |-> IF full THEN "blank" ELSE "absent",
                              owner |-> "given", columns |-> [i \in DOMAIN columns |-> ColumnOf(columns[i], full)], nova |-> nova],
                       tests |-> tests, test |-> test, persona |-> persona])

ProjectEntities ==
  {[id |-> 0, type |-> t, description |-> d, metaOwner |-> "absent", owner |-> "given", columns |-> <<>>, nova |-> n] :
     t \in {"model", "source"}, d \in {0, 120},
     n \in {{}, {[synonyms |-> 3, domains |-> 3, useCases |-> 3, grain |-> NoShape, metric |-> {}, metrics |-> {}, measures |-> <<>>,
                  sensitivity |-> TRUE, pii |-> TRUE, compliance |-> 3]}}}
TakeScoredProject ==
  For("scoredproject") /\ \E a, b, c \in ProjectEntities, types \in {{}, {"model", "source"}}, limit \in {1, 2}, max \in {2, 6} :
    /\ a.type = "model"
    /\ Take("scoredproject", [entities |-> {[a EXCEPT !.id = 1], [b EXCEPT !.id = 2], [c EXCEPT !.id = 3]}, types |-> types, limit |-> limit, max |-> max])

\* MetadataScore!EntityWellScored and DiagnosticsAgree, on entities of up to two
\* columns and four tests.
EntitiesWellScored ==
  part = "scored" => /\ EntityWellScored(input.e, input.tests, input.test, Weights(input.persona))
                     /\ DiagnosticsAgree(input.e, input.tests, Weights(input.persona), 1)

\* MetadataScore!ProjectWellScored, on three entities.
ProjectsWellScored ==
  part = "scoredproject" => ProjectWellScored(input.entities, input.types, {}, Weights("analyst"), input.limit, input.max)

TakeReports ==
  \/ TakeScored \/ TakeScoredProject
  \/ TakeGrains \/ TakeOverlap \/ TakeReport \/ TakeConflict \/ TakeClean
  \/ TakeMetaJson \/ TakeMetricflow \/ TakeTarget \/ TakeCanonical \/ TakeProject \/ TakeMetaPaths
  \/ TakeSetting \/ TakeExposure \/ TakeFingerprints
  \/ TakeReload \/ TakeArchive \/ TakeModels \/ TakeCommand \/ TakeWarm
==============================================================================
