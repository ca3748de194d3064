------------------------------- MODULE Lineage -------------------------------
(***************************************************************************)
(* The graph tools: src/src/tools/lineage.rs, column_lineage.rs,           *)
(* column_references.rs, path.rs, diff.rs and the projections that         *)
(* src/src/manifest/lineage_sql.rs reads out of SQL.                       *)
(*                                                                         *)
(* A graph g has g.next (parent_map or child_map, by direction) and g.type.*)
(* Entities are numbers, so that their order is that of unique ids.        *)
(***************************************************************************)
EXTENDS Integers, Sequences, FiniteSets, SequencesExt, TLC

Ascending(S) == SetToSortSeq(S, <)
Upto(seq, n) == SubSeq(seq, 1, IF n < Len(seq) THEN n ELSE Len(seq))

-----------------------------------------------------------------------------
(* get_lineage.                                                            *)

\* lineage_type_allowed.
TypeAllowed(type, allowed) == allowed = {} \/ type \in allowed

\* Mutant: the first visit of an entity is the last.
VisitOnce(s, rel, id, depth, g, p) ==
  IF s.truncated \/ rel \in DOMAIN s.visited \/ depth >= p.depth THEN s
  ELSE [s EXCEPT !.visited = (rel :> depth + 1) @@ @, !.queue = Append(@, <<rel, depth + 1>>),
                 !.result = IF TypeAllowed(g.type[rel], p.types) THEN Append(@, rel) ELSE @]

\* One related entity: only entities of an allowed type count for the depth,
\* and one that is met again on a shorter way is visited again.
VisitRelated(s, rel, id, depth, g, p) ==
  LET include == TypeAllowed(g.type[rel], p.types)
      d == depth + (IF include THEN 1 ELSE 0)
      new == include /\ rel \notin Range(s.result)
  IN  IF s.truncated \/ d > p.depth \/ (rel \in DOMAIN s.visited /\ s.visited[rel] <= d) THEN s
      ELSE [s EXCEPT !.visited = (rel :> d) @@ @,
                     !.queue = Append(@, <<rel, d>>),
                     !.result = IF new THEN Append(@, rel) ELSE @,
                     !.edges = IF new THEN @ \cup {<<id, rel>>} ELSE @,
                     !.truncated = new /\ Len(s.result) + 1 >= p.results]

\* The traversal, first in first out.
RECURSIVE Traverse(_, _, _)
Traverse(s, g, p) ==
  IF s.queue = <<>> \/ s.truncated THEN s
  ELSE LET id == Head(s.queue)[1]
           depth == Head(s.queue)[2]
           popped == [s EXCEPT !.queue = Tail(@)]
       IN  Traverse(FoldLeft(LAMBDA t, rel : VisitRelated(t, rel, id, depth, g, p),
                             popped, Ascending(g.next[id])), g, p)

GetLineage(g, root, p) ==
  Traverse([visited |-> (root :> 0), queue |-> <<<<root, 0>>>>, result |-> <<>>, edges |-> {},
            truncated |-> FALSE], g, p)

\* get_impact: the entities downstream, counted by type.
GetImpact(g, root, p) ==
  LET found == Range(GetLineage(g, root, [p EXCEPT !.types = {}]).result)
  IN  [count |-> Cardinality(found),
       byType |-> [t \in Range(g.type) |-> Cardinality({n \in found : g.type[n] = t})]]

-----------------------------------------------------------------------------
(* The outer projection of a SELECT, as characters.                        *)

ScanAt(c, s) ==
  IF s.quote # "" THEN [s EXCEPT !.quote = IF c = s.quote THEN "" ELSE @]
  ELSE IF c \in {"'", "\""} THEN [s EXCEPT !.quote = c]
  ELSE IF c = "(" THEN [s EXCEPT !.depth = @ + 1]
  ELSE IF c = ")" THEN [s EXCEPT !.depth = IF @ = 0 THEN 0 ELSE @ - 1]
  ELSE s

\* Mutant: quotes are not looked at.
SplitAnywhere(text) ==
  FoldLeft(LAMBDA s, c : IF c = "," THEN [s EXCEPT !.parts = Append(@, <<>>)]
                         ELSE [s EXCEPT !.parts[Len(s.parts)] = Append(@, c)],
           [parts |-> <<<<>>>>, quote |-> "", depth |-> 0], text).parts

\* split_top_level_commas.
SplitTopLevelCommas(text) ==
  FoldLeft(LAMBDA s, c : IF c = "," /\ s.quote = "" /\ s.depth = 0
                           THEN [s EXCEPT !.parts = Append(@, <<>>)]
                           ELSE [ScanAt(c, s) EXCEPT !.parts[Len(s.parts)] = Append(@, c)],
           [parts |-> <<<<>>>>, quote |-> "", depth |-> 0], text).parts

\* outer_projection_text: up to the first FROM ("F") outside quotes and brackets.
OuterProjection(text) ==
  LET before(i) == FoldLeft(LAMBDA s, c : ScanAt(c, s), [quote |-> "", depth |-> 0], SubSeq(text, 1, i - 1))
      ends == {i \in DOMAIN text : text[i] = "F" /\ before(i) = [quote |-> "", depth |-> 0]}
  IN  IF ends = {} THEN <<>> ELSE SubSeq(text, 1, (CHOOSE i \in ends : \A j \in ends : i <= j) - 1)

\* definition_from_select_item: an item is [expr, alias, name]; the first
\* whose alias or, without one, whose own name is the column.
ParsedDefinition(items, col) ==
  LET hits == {i \in DOMAIN items : col = IF items[i].alias # "" THEN items[i].alias ELSE items[i].name}
  IN  IF hits = {} THEN "absent" ELSE items[CHOOSE i \in hits : \A j \in hits : i <= j].expr

\* find_select_column_definition_best_effort: the first whose text ends in the
\* column with something before it.
TextDefinition(items, col) ==
  LET hits == {i \in DOMAIN items : items[i].alias = col}
  IN  IF hits = {} THEN "absent" ELSE items[CHOOSE i \in hits : \A j \in hits : i <= j].expr

\* find_select_column_definition: a statement that parses is searched item by
\* item, and its text when that finds nothing.
ColumnDefinition(items, parses, col) ==
  IF parses /\ ParsedDefinition(items, col) # "absent" THEN ParsedDefinition(items, col)
  ELSE TextDefinition(items, col)

-----------------------------------------------------------------------------
(* collect_column_references. An entity has the places that name a column. *)

\* The references of the Nova metadata of one entity: grain, measures, metrics.
NovaReferences(e, col) ==
  {<<"nova_grain_dimension", i>> : i \in {i \in DOMAIN e.grain : e.grain[i] = col}}
    \cup {<<"nova_measure_expression", i>> : i \in {i \in DOMAIN e.measures : col \in e.measures[i]}}
    \cup {<<"nova_metric_expression", i>> : i \in {i \in DOMAIN e.metrics : col \in e.metrics[i]}}

\* A test counts once, whatever the number of its arguments that match.
TestReferences(e, col) == {<<"test", i>> : i \in {i \in DOMAIN e.tests : col \in e.tests[i]}}

\* A recipe counts once, with its occurrences.
RecipeReferences(e, col) == {<<"recipe_sql", i>> : i \in {i \in DOMAIN e.recipes : col \in e.recipes[i]}}

ColumnReferences(e, col) == NovaReferences(e, col) \cup TestReferences(e, col) \cup RecipeReferences(e, col)

\* reference_counts_by_kind.
CountsByKind(refs) ==
  [k \in {r[1] : r \in refs} |-> Cardinality({r \in refs : r[1] = k})]

-----------------------------------------------------------------------------
(* get_column_lineage. m[a][b] are the ranks (0 high, 2 low) of the matches *)
(* of the column between a and b.                                          *)

Row(m, cur, rel, depth, k) ==
  [id |-> rel, depth |-> depth + 1, rank |-> m[cur][rel][k], source |-> cur, path |-> <<cur>>]

\* Mutant: a related entity is queued at the depth of the one it comes from.
MatchShallow(s, rel, cur, depth, m, p) ==
  IF s.truncated \/ rel \in s.visited THEN s
  ELSE [s EXCEPT !.rows = @ \o [k \in DOMAIN m[cur][rel] |-> Row(m, cur, rel, depth, k)],
                 !.queue = Append(@, <<rel, depth>>), !.visited = @ \cup {rel}]

\* The matches with one related entity. The queue keeps the column and the
\* path it had, so that a path is never longer than one entity.
MatchRelated(s, rel, cur, depth, m, p) ==
  LET rows == SelectSeq([k \in DOMAIN m[cur][rel] |-> Row(m, cur, rel, depth, k)],
                        LAMBDA r : r.rank <= p.rank)
      all == s.rows \o rows
      full == rows # <<>> /\ Len(all) >= p.results
      crowded == Len(s.queue) >= p.candidates
  IN  IF s.truncated \/ rel \in s.visited THEN s
      ELSE [s EXCEPT !.rows = Upto(all, IF full THEN p.results ELSE Len(all)),
                     !.truncated = full \/ crowded,
                     !.queue = IF crowded THEN @ ELSE Append(@, <<rel, depth + 1>>),
                     !.visited = IF crowded THEN @ ELSE @ \cup {rel}]

\* The traversal, one entity of the queue at a time.
RECURSIVE TraverseColumn(_, _, _, _)
TraverseColumn(s, g, m, p) ==
  IF s.queue = <<>> \/ s.truncated THEN s
  ELSE LET cur == Head(s.queue)[1]
           depth == Head(s.queue)[2]
           popped == [s EXCEPT !.queue = Tail(@)]
       IN  TraverseColumn(
             IF depth >= p.depth THEN popped
             ELSE FoldLeft(LAMBDA t, rel : MatchRelated(t, rel, cur, depth, m, p),
                           popped, Ascending(g.next[cur])), g, m, p)

\* The rows in order, with what explains an empty answer: its status and, going
\* upstream, the definition of the column.
GetColumnLineage(g, m, root, p) ==
  LET s == TraverseColumn([rows |-> <<>>, queue |-> <<<<root, 0>>>>, visited |-> {root},
                           truncated |-> FALSE], g, m, p)
  IN  [rows |-> SortSeq(s.rows, LAMBDA a, b : a.depth < b.depth \/ (a.depth = b.depth /\ a.id < b.id)),
       truncated |-> s.truncated,
       status |-> IF s.rows # <<>> THEN "ok" ELSE IF g.next[root] = {} THEN "none" ELSE "unresolved",
       definition |-> IF p.upstream /\ s.rows = <<>> /\ g.next[root] # {}
                        THEN ColumnDefinition(p.items, p.parses, "c") ELSE "absent"]

\* get_column_impact: an entity counts once however many of its columns match.
GetColumnImpact(g, m, root, e, p) ==
  [count |-> Cardinality({r.id : r \in Range(GetColumnLineage(g, m, root, p).rows)}),
   references |-> CountsByKind(ColumnReferences(e, "c"))]

-----------------------------------------------------------------------------
(* match_column, for one column of the related entity. f has the facts     *)
(* about the two names, their types and the SQL; scores are in thousandths. *)

\* columns_compatible: types of one family, or a type that is not known.
Compatible(f) == "unknown" \in {f.from, f.to} \/ f.from = f.to

Strategy(name, tier, score, applies) ==
  [name |-> name, tier |-> tier, score |-> score, applies |-> applies]

\* is_name_similar.
NameSimilar(f) == f.exact \/ f.affix \/ f.normalized \/ f.similarity >= 750

\* The strategies that read SQL: alias, proximity, field of a struct.
SqlStrategies(f) ==
  <<Strategy("sql_alias", 1, 810, f.alias /\ Compatible(f)),
    Strategy("sql_proximity", 1, 560, NameSimilar(f) /\ f.near /\ Compatible(f)),
    Strategy("sql_nested_field", 1, 585, f.nested)>>

\* The strategies that compare names.
NameStrategies(f) ==
  <<Strategy("suffix_match", 2, 240, f.affix /\ Compatible(f)),
    Strategy("prefix_match", 2, 240, f.affix /\ Compatible(f)),
    Strategy("normalized_match", 2, 275, f.normalized /\ Compatible(f)),
    Strategy("levenshtein_match", 2, (f.similarity * 6) \div 10, f.similarity >= 750 /\ Compatible(f))>>

NoMatch == Strategy("none", 3, 0, TRUE)

\* Mutant: the last strategy that applies is recorded.
RecordLast(best, s) == IF s.applies THEN s ELSE best

\* record_match: the highest score, the first of equal ones.
RecordMatch(best, s) == IF s.applies /\ s.score > best.score THEN s ELSE best

MatchColumn(f) ==
  FoldLeft(RecordMatch, NoMatch,
           <<Strategy("exact_match", 0, 1000, f.exact /\ Compatible(f))>>
             \o SqlStrategies(f) \o NameStrategies(f))

\* The matches with an entity; one without columns matches only as a source
\* whose name is in the SQL.
MatchEntity(columns, isSource, inSql) ==
  IF columns # {} THEN {MatchColumn(f) : f \in columns} \ {NoMatch}
  ELSE IF isSource /\ inSql THEN {Strategy("direct_select", 0, 850, TRUE)} ELSE {}

-----------------------------------------------------------------------------
(* find_by_path. An entity is [id, path, type, matches].                   *)

\* Mutant: types are looked at after the page is cut.
FilterPage(entities, p) ==
  LET found == SetToSortSeq({e \in entities : e.matches}, LAMBDA a, b : a.id < b.id)
      rows == SubSeq(found, p.offset + 1, IF p.offset + p.limit < Len(found) THEN p.offset + p.limit ELSE Len(found))
  IN  [rows |-> SelectSeq(rows, LAMBDA e : p.types = {} \/ e.type \in p.types), total |-> Len(found),
       truncated |-> Len(found) > Len(rows) + p.offset]

FindByPath(entities, p) ==
  LET found == SetToSortSeq({e \in entities : e.matches /\ (p.types = {} \/ e.type \in p.types)},
                            LAMBDA a, b : a.path < b.path \/ (a.path = b.path /\ a.id < b.id))
      rows == SubSeq(found, p.offset + 1, IF p.offset + p.limit < Len(found) THEN p.offset + p.limit ELSE Len(found))
  IN  [rows |-> rows, total |-> Len(found), truncated |-> Len(found) > Len(rows) + p.offset]

-----------------------------------------------------------------------------
(* diff_entities. An entity has columns and their tests,                    *)
(* indicators a sequence of [key, expr, canonical], and fields of its own.  *)

\* set_diff_json.
SetDiff(a, b) == [first |-> a \ b, second |-> b \ a, both |-> a \cap b]

\* collect_indicators: the last one of a name.
Indicators(e) ==
  [k \in {i.key : i \in Range(e.indicators)} |->
     LET last == CHOOSE j \in DOMAIN e.indicators :
                   /\ e.indicators[j].key = k
                   /\ \A i \in DOMAIN e.indicators : e.indicators[i].key = k => i <= j
     IN  e.indicators[last]]

\* identical_expression_near_duplicates.
NearDuplicates(a, b) ==
  {k \in (DOMAIN a) \X (DOMAIN b) : k[1] # k[2] /\ a[k[1]].expr = b[k[2]].expr /\ a[k[1]].expr # "absent"}

\* diff_grain: dimensions and key as sets, the time field as it is.
DiffGrain(x, y) ==
  [dimensions |-> SetDiff(x.dimensions, y.dimensions), key |-> SetDiff(x.key, y.key),
   sameTime |-> x.time = y.time]

\* diff_governance: the number of fields that differ.
DiffGovernance(x, y) ==
  Cardinality({f \in {"sensitivity", "pii", "owner", "compliance"} : x[f] # y[f]})

\* Mutant: an indicator without an expression conflicts with one that has it.
DiffAbsentIndicators(x, y) ==
  LET a == Indicators(x)
      b == Indicators(y)
  IN  [names |-> SetDiff(DOMAIN a, DOMAIN b), canonical |-> {},
       conflicts |-> {k \in DOMAIN a \cap DOMAIN b : a[k].expr # b[k].expr /\ a[k].expr # "absent"},
       near |-> NearDuplicates(a, b)]

DiffIndicators(x, y) ==
  LET a == Indicators(x)
      b == Indicators(y)
      both == DOMAIN a \cap DOMAIN b
  IN  [names |-> SetDiff(DOMAIN a, DOMAIN b),
       canonical |-> {k \in both : a[k].canonical /\ b[k].canonical},
       conflicts |-> {k \in both : a[k].expr # b[k].expr /\ "absent" \notin {a[k].expr, b[k].expr}},
       near |-> NearDuplicates(a, b)]

\* diff_tests: the columns both have whose tests differ.
DiffTests(x, y) == {c \in x.columns \cap y.columns : x.tests[c] # y.tests[c]}

DiffEntities(x, y) ==
  [columns |-> SetDiff(x.columns, y.columns), grain |-> DiffGrain(x, y), tests |-> DiffTests(x, y),
   governance |-> DiffGovernance(x, y), indicators |-> DiffIndicators(x, y)]

-----------------------------------------------------------------------------
(* What is expected of them.                                               *)

\* Entities within k allowed entities of root.
Within(g, root, types, k) ==
  LET Close[i \in 0 .. Cardinality(DOMAIN g.next), S \in SUBSET DOMAIN g.next] ==
        IF i = 0 THEN S
        ELSE Close[i - 1, S \cup {n \in UNION {g.next[x] : x \in S} : ~TypeAllowed(g.type[n], types)}]
      Reach[i \in 0 .. k] ==
        IF i = 0 THEN Close[Cardinality(DOMAIN g.next), {root}]
        ELSE Close[Cardinality(DOMAIN g.next), Reach[i - 1] \cup UNION {g.next[x] : x \in Reach[i - 1]}]
  IN  Reach[k]

\* A lineage that is not truncated has exactly the entities of an allowed type
\* within the depth, however they are connected; a truncated one has the number
\* asked for; and each is reached by one edge.
LineageExact(g, root, p) ==
  LET s == GetLineage(g, root, p)
      all == {n \in Within(g, root, p.types, p.depth) \ {root} : TypeAllowed(g.type[n], p.types)}
  IN  /\ IF s.truncated THEN Len(s.result) = p.results /\ Range(s.result) \subseteq all
                        ELSE Range(s.result) = all
      /\ Cardinality(s.edges) = Len(s.result) /\ {e[2] : e \in s.edges} = Range(s.result)
      /\ LET i == GetImpact(g, root, p) IN i.count = MapThenSumSet(LAMBDA t : i.byType[t], DOMAIN i.byType)

\* A column lineage that is not truncated names every entity within the depth
\* that has a match of the confidence asked for, at its distance, next to an
\* entity that is one step nearer.
ColumnLineageExact(g, m, root, p) ==
  LET s == GetColumnLineage(g, m, root, p)
      At(d) == Within(g, root, {}, d) \ (IF d = 0 THEN {} ELSE Within(g, root, {}, d - 1))
  IN  /\ \A r \in Range(s.rows) :
           /\ r.rank <= p.rank /\ r.depth <= p.depth
           /\ r.id \in At(r.depth) /\ r.source \in At(r.depth - 1) /\ r.id \in g.next[r.source]
      /\ Len(s.rows) <= p.results
      /\ ~s.truncated /\ p.rank = 2 =>
           \A d \in 1 .. p.depth : \A n \in At(d) :
             (\A x \in At(d - 1) : n \in g.next[x] => m[x][n] # <<>>) => \E r \in Range(s.rows) : r.id = n

\* Of the strategies that apply, one of the best tier is recorded. Only a name
\* that is nearly the same displaces, as levenshtein_match, what was found in
\* the SQL around it.
BestTier(f) ==
  LET best == MatchColumn(f)
  IN  \A s \in Range(<<Strategy("exact_match", 0, 1000, f.exact /\ Compatible(f))>>
                       \o SqlStrategies(f) \o NameStrategies(f)) :
        s.applies => best.tier <= s.tier \/ (best.name = "levenshtein_match" /\ s.name \in {"sql_proximity", "sql_nested_field"})

\* A projection that is put together from items is taken apart into them.
SplitInvertsJoin(items) ==
  LET text == FoldLeft(LAMBDA acc, i : IF acc = <<>> THEN i ELSE acc \o <<",">> \o i, <<>>, items)
  IN  /\ SplitTopLevelCommas(text) = items
      /\ OuterProjection(text \o <<"F">> \o text) = text

\* The comparison of two entities does not depend on their order.
DiffMirrored(x, y) ==
  LET d == DiffEntities(x, y).indicators
      e == DiffEntities(y, x).indicators
  IN  /\ d.conflicts = e.conflicts /\ d.canonical = e.canonical
      /\ d.names.first = e.names.second /\ d.names.both = e.names.both
      /\ d.near = {<<k[2], k[1]>> : k \in e.near}
      /\ DiffTests(x, y) = DiffTests(y, x) /\ DiffGovernance(x, y) = DiffGovernance(y, x)
      /\ d.near \cap {<<k, k>> : k \in d.conflicts} = {}

\* Pages that are read one after the other have every match once.
PathsPaged(entities, types, limit) ==
  LET Matches == {e \in entities : e.matches /\ (types = {} \/ e.type \in types)}
      page(i) == FindByPath(entities, [types |-> types, offset |-> i * limit, limit |-> limit])
      pages == 0 .. Cardinality(Matches) \div limit
      all == FoldLeft(LAMBDA acc, i : acc \o page(i).rows, <<>>, [k \in 1 .. Cardinality(pages) |-> k - 1])
  IN  /\ Len(all) = Cardinality(Matches) /\ Range(all) = Matches
      /\ \A i \in pages : page(i).truncated <=> Len(page(i).rows) + i * limit < Cardinality(Matches)
=============================================================================
