---------------------------- MODULE SemanticIndex ----------------------------
(***************************************************************************)
(* Looking up vectors: the LSH index of src/src/manifest/embeddings/ann.rs, *)
(* the ranking of math.rs and the searches of mod.rs. A vector is the set  *)
(* of hyperplanes it lies above (its signature) and its score for the      *)
(* query; a score that is not finite is NaN.                               *)
(***************************************************************************)
EXTENDS Integers, Sequences, FiniteSets, SequencesExt

NaN == -999

\* score_desc_cmp: by score, and in the order of the entries.
ScoredBefore(a, b) == a.score > b.score \/ (a.score = b.score /\ a.idx < b.idx)

\* top_k_scored: the k best of the scored entries, the best first.
TopKScored(scored, k) ==
  LET sorted == SortSeq(scored, ScoredBefore)
  IN  IF k = 0 THEN <<>> ELSE SubSeq(sorted, 1, IF k < Len(sorted) THEN k ELSE Len(sorted))

\* The entries of a bucket, in their order; buckets are signatures.
Bucket(sigs, sig) == SelectSeq([i \in DOMAIN sigs |-> i], LAMBDA i : sigs[i] = sig)

Flip(sig, bits) == (sig \ bits) \cup (bits \ sig)

\* candidates_for_signature, its probes: the bucket of the query, then those
\* that differ in one bit, then in two, each in the order of the bits.
Probes(sig, bits, hamming) ==
  LET pairs == SetToSortSeq({p \in (1 .. bits) \X (1 .. bits) : p[1] < p[2]},
                            LAMBDA p, q : p[1] < q[1] \/ (p[1] = q[1] /\ p[2] < q[2]))
  IN  <<sig>> \o (IF hamming >= 1 THEN [i \in 1 .. bits |-> Flip(sig, {i})] ELSE <<>>)
              \o (IF hamming >= 2 THEN [i \in DOMAIN pairs |-> Flip(sig, {pairs[i][1], pairs[i][2]})] ELSE <<>>)

\* Mutant: what the probes find is taken for enough.
CandidatesFound(sigs, sig, ann, k) ==
  LET found == FlattenSeq([i \in DOMAIN Probes(sig, ann.bits, ann.hamming) |->
                             Bucket(sigs, Probes(sig, ann.bits, ann.hamming)[i])])
  IN  SubSeq(found, 1, IF ann.max < Len(found) THEN ann.max ELSE Len(found))

\* candidates_for_signature: as many as max_candidates, in the order they are
\* found; <<>> stands for None, when they are too few for k results.
Candidates(sigs, sig, ann, k) ==
  LET probes == Probes(sig, ann.bits, ann.hamming)
      found == FlattenSeq([i \in DOMAIN probes |-> Bucket(sigs, probes[i])])
      needed == IF ann.min > 4 * k THEN ann.min ELSE 4 * k
  IN  IF Len(found) >= ann.max THEN SubSeq(found, 1, ann.max)
      ELSE IF Len(found) < needed THEN <<>>
      ELSE found

\* VectorSearcher::search with the index, and without it where the index has
\* too little; SparseSearcher::search and a searcher without index scan all.
VectorSearch(sigs, scores, sig, ann, k) ==
  LET candidates == IF ann.on THEN Candidates(sigs, sig, ann, k) ELSE <<>>
      scan == IF candidates = <<>> THEN [i \in DOMAIN sigs |-> i] ELSE candidates
  IN  TopKScored([i \in DOMAIN scan |-> [idx |-> scan[i], score |-> scores[scan[i]]]], k)

\* A search with an index has as many results as one without, if the index may
\* look at that many; they are the best of some entries, each once, and where
\* the index gave up they are the best of all.
SearchIsFull(sigs, scores, sig, ann, k) ==
  \A found \in {VectorSearch(sigs, scores, sig, ann, k)}, all \in {VectorSearch(sigs, scores, sig, [ann EXCEPT !.on = FALSE], k)} :
    /\ ann.max >= k => Len(found) = Len(all)
    /\ \A i \in DOMAIN found : \A j \in 1 .. (i - 1) :
         found[j].idx # found[i].idx /\ found[j].score >= found[i].score
    /\ \A i \in DOMAIN found : found[i].score <= all[i].score
=============================================================================
