---------------------------- MODULE ResponseBudget ----------------------------
(***************************************************************************)
(* The byte budget of MCP responses and the paging of results,             *)
(* src/src/server/mcp/response_budget.rs.                                  *)
(*                                                                         *)
(* A response has items of given sizes and, for the report on undocumented *)
(* entities, columns beside them. Sizes are counted in units: one for the  *)
(* envelope, one for _nova_result_meta, one more for its next_offset.      *)
(***************************************************************************)
EXTENDS Integers, Sequences, SequencesExt

CollectionKinds == {"array", "rows", "entities", "undocumented"}

Total(sizes) == FoldLeft(LAMBDA acc, x : acc + x, 0, sizes)

\* serialized_len.
SerializedLen(v) ==
  1 + Total(v.items) + Total(v.columns)
    + (IF v.meta THEN 1 ELSE 0) + (IF v.next # 0 THEN 1 ELSE 0)

\* truncate_json_for_budget on one field: a cut string gets a marker behind it,
\* so that one that was just too long does not shrink.
CutString(size, max) == IF size > max THEN max + 1 ELSE size

CutArray(sizes, maxString, maxItems) ==
  LET kept == SubSeq(sizes, 1, IF Len(sizes) > maxItems THEN maxItems ELSE Len(sizes))
  IN  [i \in DOMAIN kept |-> CutString(kept[i], maxString)]

\* prune_object_entries: the entries of an object are cut like an array, the
\* important ones first.
CutForBudget(v, maxString, maxItems) ==
  [v EXCEPT !.items = CutArray(@, maxString, maxItems),
            !.columns = CutArray(@, maxString, maxItems),
            !.omitted = @ \/ CutArray(v.items, maxString, maxItems) # v.items
                          \/ CutArray(v.columns, maxString, maxItems) # v.columns]

\* normalize_budgeted_count.
NormalizeCount(v, returned, hint) ==
  [v EXCEPT !.count = returned, !.truncated = @ \/ hint > returned \/ v.count # returned]

\* normalize_undocumented_summary: items_returned.
ItemsReturned(v) == Len(v.items) + Len(v.columns)

\* Mutant: the count the tool gave is kept.
KeepCount(v, original) == [v EXCEPT !.truncated = @ \/ v.omitted]

\* normalize_budgeted_response_shape: the count follows the items that are
\* left where it counted them before; `original` is the ResponseShapeSnapshot.
NormalizeShape(v, original) ==
  LET marked == [v EXCEPT !.truncated = @ \/ v.omitted]
  IN  CASE v.kind \in {"array", "rows"} -> NormalizeCount(marked, Len(v.items), original.total)
        [] v.kind = "entities" /\ original.count = Len(original.items) ->
             NormalizeCount(marked, Len(v.items), original.total)
        [] v.kind = "undocumented" -> NormalizeCount(marked, ItemsReturned(v), original.total)
        [] OTHER -> marked

\* compact_truncated_response, compact_collection_payload.
Compact(v) ==
  [v EXCEPT !.items = <<>>, !.columns = <<>>, !.truncated = TRUE,
            !.count = IF v.kind \in CollectionKinds THEN 0 ELSE @]

\* Mutant: the metadata is attached without looking at the budget again.
FinalizeUnchecked(v, budget, includeMeta) ==
  IF SerializedLen(v) <= budget THEN [v EXCEPT !.meta = includeMeta] ELSE Compact(v)

\* finalize_mcp_budgeted_response: the metadata is left out rather than the
\* budget broken, except that of the compact response, which keeps nothing but
\* its metadata if that is too large.
Finalize(v, budget, includeMeta) ==
  LET withMeta == [v EXCEPT !.meta = TRUE]
      compact == [Compact(v) EXCEPT !.meta = includeMeta]
  IN  IF SerializedLen(v) <= budget
        THEN IF includeMeta /\ SerializedLen(withMeta) <= budget THEN withMeta ELSE v
        ELSE compact

\* apply_mcp_response_budget: up to three cuts, each harder. `cuts` are the
\* strings and items each leaves.
ApplyBudget(v, budget, includeMeta, cuts) ==
  LET Again(w, i) ==
        IF i = 1 \/ SerializedLen(w) > budget THEN CutForBudget(w, cuts[i].string, cuts[i].items) ELSE w
      cut == Again(Again(Again(v, 1), 2), 3)
  IN  IF budget = 0 \/ SerializedLen(v) <= budget THEN v
      ELSE Finalize(NormalizeShape(cut, v), budget, includeMeta)

\* apply_mcp_next_offset_meta: no offset behind the last item, and none that
\* does not fit in.
NextOffset(v, budget, offset) ==
  LET next == offset + v.count
      with == [v EXCEPT !.next = next, !.meta = TRUE]
  IN  IF v.count > 0 /\ next < v.total /\ (budget = 0 \/ SerializedLen(with) <= budget)
        THEN with ELSE v

\* get_undocumented: the entities and the columns without a description are one
\* list, paged by one offset, and the page is handed out as two arrays. `columns`
\* says which places of the list are columns.
Undocumented(n, columns, offset, limit) ==
  LET looked[i \in 0 .. n] ==
        IF i = 0 THEN [items |-> <<>>, columns |-> <<>>]
        ELSE LET so == looked[i - 1]
             IN  IF i <= offset \/ ItemsReturned(so) >= limit THEN so
                 ELSE IF i \in columns THEN [so EXCEPT !.columns = Append(@, i)]
                 ELSE [so EXCEPT !.items = Append(@, i)]
  IN  looked[n]

\* The places of the list that a tool puts on the page at an offset.
Found(n, columns, offset, p) ==
  LET end == IF offset + p.limit < n THEN offset + p.limit ELSE n
  IN  IF p.kind = "undocumented" THEN Undocumented(n, columns, offset, p.limit)
      ELSE [items |-> [i \in 1 .. (end - offset) |-> offset + i], columns |-> <<>>]

\* A page of a tool's results, as the client gets it.
Page(sizes, columns, offset, p) ==
  LET found == Found(Len(sizes), columns, offset, p)
      v == [kind |-> p.kind,
            items |-> [i \in 1 .. Len(found.items) |-> sizes[found.items[i]]],
            columns |-> [i \in 1 .. Len(found.columns) |-> sizes[found.columns[i]]],
            count |-> ItemsReturned(found), total |-> Len(sizes),
            truncated |-> p.kind = "undocumented" /\ offset + ItemsReturned(found) < Len(sizes),
            omitted |-> FALSE, meta |-> FALSE, next |-> 0]
  IN  NextOffset(ApplyBudget(v, p.budget, p.includeMeta, p.cuts), p.budget, offset)

\* The places a page shows: the budget leaves the front of each array.
Shown(found, v) == SubSeq(found.items, 1, Len(v.items)) \o SubSeq(found.columns, 1, Len(v.columns))

-----------------------------------------------------------------------------
(* What is expected of it.                                                 *)

\* A response is within the budget, or has nothing left to cut.
WithinBudget(sizes, columns, p) ==
  \A offset \in 0 .. Len(sizes) :
    LET v == Page(sizes, columns, offset, p)
    IN  p.budget > 0 => SerializedLen(v) <= p.budget \/ (ItemsReturned(v) = 0 /\ v.truncated)

\* What a client that follows next_offset has got with n pages: the offset of
\* the next one, the places it has seen, whether every page came whole, and
\* whether that was all.
Followed(sizes, columns, p) ==
  LET with[n \in 0 .. Len(sizes) + 1] ==
        IF n = 0 THEN [at |-> 0, seen |-> <<>>, whole |-> TRUE, done |-> FALSE]
        ELSE LET client == with[n - 1]
                 found == Found(Len(sizes), columns, client.at, p)
                 v == Page(sizes, columns, client.at, p)
             IN  IF client.done THEN client
                 ELSE [at |-> IF v.next = 0 THEN client.at ELSE v.next,
                       seen |-> client.seen \o Shown(found, v),
                       whole |-> client.whole /\ ItemsReturned(v) = ItemsReturned(found),
                       done |-> v.next = 0]
  IN  with[Len(sizes) + 1]

\* A client that follows next_offset sees every item exactly once and in order
\* until it gets a response without one, which it does before long and, where
\* there is no budget, not before it has them all; and a response that leaves
\* out items of its page says that it is truncated. Of the two arrays of
\* get_undocumented the first is said only while the budget cuts no page: it cuts
\* each of them, next_offset counts what is left of both, and the next page
\* repeats items of the one and skips items of the other.
PagingIsComplete(sizes, columns, p) ==
  /\ LET client == Followed(sizes, columns, p)
     IN  /\ client.done
         /\ p.kind # "undocumented" => \A i \in DOMAIN client.seen : client.seen[i] = i
         /\ client.whole => ToSet(client.seen) = 1 .. Len(client.seen)
         /\ p.budget = 0 => client.whole /\ Len(client.seen) = Len(sizes)
  /\ \A offset \in 0 .. Len(sizes) :
       LET v == Page(sizes, columns, offset, p)
       IN  ItemsReturned(v) < p.limit /\ offset + ItemsReturned(v) < Len(sizes) => v.truncated
=============================================================================
