---------------------------- MODULE EmbeddingCache ----------------------------
(***************************************************************************)
(* The manifest-scoped caches of embeddings and the searchers built from   *)
(* them: VectorSearcher::build and SparseSearcher::build of                *)
(* src/src/manifest/embeddings/mod.rs over rkyv_embeddings.rs,             *)
(* rkyv_sparse_embeddings.rs, rkyv_cache.rs and semantic_cache.rs.         *)
(*                                                                         *)
(* Builders (starts, reloads and `manifest warm` commands of any release)  *)
(* share a cache directory without a lock. A file is named after the       *)
(* manifest's hash and the slug of the model's name; its content says for  *)
(* which schema, model and manifest it is. Once built, searches of a       *)
(* builder's process load the query model when the first one needs it.     *)
(***************************************************************************)
EXTENDS Integers, FiniteSets

CONSTANTS
  Builders,    \* builds, each with a process of its own
  Searches,    \* searches in the process of a builder
  Manifests,   \* manifest -> set of entities that have a text
  Models,      \* names of embedding models
  Configs,     \* settings builds are started with: schema of the release, model,
               \*   manifest, cold start policy, forced rebuild, quantization
  Slug(_),     \* model_slug
  OldFiles,    \* contents a raw file may have at first
  BatchSize,
  MaxFaults    \* bound on failing batches, saves and initializations, and crashes

VARIABLES
  compressed,  \* <<manifest, slug>> -> content of the .rkyv.zst file, or None
  raw,         \* the same for the .rkyv file
  orphans,     \* temporary files nobody will rename
  build,       \* builder -> its state
  query,       \* <<builder, search>> -> step of the search
  modelLock,   \* builder -> search that holds DeferredInit's lock, or None
  inits,       \* builder -> completed initializations of the query model
  faults2

cacheVars == <<compressed, raw, orphans, build, query, modelLock, inits, faults2>>

None == [kind |-> "none"]
Slots == (DOMAIN Manifests) \X {Slug(m) : m \in Models}
Content(schema, model, hash, ids, quantized) ==
  [kind |-> "cache", schema |-> schema, model |-> model, hash |-> hash, ids |-> ids, quantized |-> quantized]

Idle == [pc |-> "idle", schema |-> 2, model |-> CHOOSE m \in Models : TRUE, manifest |-> CHOOSE h \in DOMAIN Manifests : TRUE,
         policy |-> "degrade", quantize |-> FALSE, left |-> {}, ids |-> {}, held |-> None]

\* A raw file may be there from an earlier release.
CacheInit ==
  /\ compressed = [s \in Slots |-> None] /\ orphans = 0
  /\ raw \in {[s \in Slots |-> IF s[1] = c.hash /\ s[2] = Slug(c.model) THEN c ELSE None] : c \in OldFiles}
  /\ build = [b \in Builders |-> Idle]
  /\ query = [q \in Builders \X Searches |-> "idle"]
  /\ modelLock = [b \in Builders |-> None] /\ inits = [b \in Builders |-> 0]
  /\ faults2 = 0

-----------------------------------------------------------------------------
CanFail == faults2 < MaxFaults
Fault == CanFail /\ faults2' = faults2 + 1
At(b) == <<build[b].manifest, Slug(build[b].model)>>
Now(b, s) == build' = [build EXCEPT ![b] = s]
Step(b, pc) == Now(b, [build[b] EXCEPT !.pc = pc])
files == <<compressed, raw, orphans>>
queries == <<query, modelLock, inits>>

\* build, up to the caches: the switch is on, paths and expected_entries are known.
Start(b) ==
  /\ build[b].pc = "idle" /\ UNCHANGED <<files, queries, faults2>>
  /\ \E c \in Configs :
       Now(b, [pc |-> IF c.force THEN "init" ELSE "load", schema |-> c.schema, model |-> c.model, manifest |-> c.manifest,
               policy |-> c.policy, quantize |-> c.quantize, left |-> Manifests[c.manifest], ids |-> {}, held |-> None])

\* Mutant: the count of the entries is not compared.
ValidUncounted(b, c) ==
  c.kind = "cache" /\ c.schema = build[b].schema /\ c.model = build[b].model /\ c.hash = build[b].manifest

\* validate_cache; entries are counted, not compared.
Valid(b, c) ==
  /\ c.kind = "cache" /\ c.schema = build[b].schema /\ c.model = build[b].model /\ c.hash = build[b].manifest
  /\ Cardinality(c.ids) = Cardinality(Manifests[build[b].manifest])

\* A hit: what was read is served, and the query model waits for a search.
Hit(b, c) == Now(b, [build[b] EXCEPT !.pc = "ready", !.ids = c.ids, !.held = c])

\* A miss: a start that may not build does without the component.
Missed(b) == IF build[b].policy = "degrade" THEN "disabled" ELSE "init"

\* load_embeddings, load_sparse_embeddings: the compressed file first.
LoadCompressed(b) ==
  LET c == compressed[At(b)]
  IN  /\ build[b].pc = "load" /\ UNCHANGED <<files, queries, faults2>>
      /\ IF Valid(b, c) THEN Hit(b, c) ELSE Step(b, "load_raw")

LoadRaw(b) ==
  LET c == raw[At(b)]
  IN  /\ build[b].pc = "load_raw" /\ UNCHANGED <<files, queries, faults2>>
      /\ IF Valid(b, c) THEN Hit(b, c) ELSE Step(b, Missed(b))

\* The model is initialized for the batches, or the component does without.
InitModel(b) ==
  /\ build[b].pc = "init" /\ UNCHANGED files
  /\ \/ /\ Step(b, "batch") /\ inits' = [inits EXCEPT ![b] = @ + 1] /\ UNCHANGED <<query, modelLock, faults2>>
     \/ Fault /\ Step(b, "disabled") /\ UNCHANGED queries

\* flush_batch: the texts that are left, at most BatchSize of them. A batch
\* that fails or returns too few vectors is left out.
Batch(b) ==
  \E batch \in SUBSET build[b].left :
    /\ build[b].pc = "batch" /\ batch # {} /\ UNCHANGED <<files, queries>>
    /\ \/ Cardinality(batch) = BatchSize
       \/ batch = build[b].left /\ Cardinality(batch) < BatchSize
    /\ \/ /\ Now(b, [build[b] EXCEPT !.left = @ \ batch, !.ids = @ \cup batch]) /\ UNCHANGED faults2
       \/ Now(b, [build[b] EXCEPT !.left = @ \ batch]) /\ Fault

\* Mutant: what was produced is enough.
EnoughProduced(b) == "save"

\* refuse_incomplete_cache_build: disabled, or the whole load fails.
Produced(b) ==
  IF build[b].ids = Manifests[build[b].manifest] THEN "save"
  ELSE IF build[b].policy = "degrade" THEN "disabled" ELSE "failed"

BatchesEnd(b) ==
  /\ build[b].pc = "batch" /\ build[b].left = {} /\ Step(b, Produced(b))
  /\ UNCHANGED <<files, queries, faults2>>

Made(b) == Content(build[b].schema, build[b].model, build[b].manifest, build[b].ids, build[b].quantize)

\* Mutant: the file is written where it belongs.
WriteInPlace(b) ==
  /\ build[b].pc = "save" /\ UNCHANGED <<raw, orphans, queries, faults2>>
  /\ compressed' = [compressed EXCEPT ![At(b)] = [Made(b) EXCEPT !.ids = {}]]
  /\ Now(b, [build[b] EXCEPT !.pc = "rename", !.held = Made(b)])

\* write_bytes_atomic: a temporary file with a name of its own is written ...
WriteTmp(b) ==
  /\ build[b].pc = "save" /\ UNCHANGED <<compressed, raw, queries>>
  /\ \/ Now(b, [build[b] EXCEPT !.pc = "rename", !.held = Made(b)]) /\ UNCHANGED <<orphans, faults2>>
     \/ Fault /\ orphans' = orphans + 1 /\ Now(b, [build[b] EXCEPT !.pc = "ready", !.held = Made(b)])

\* ... and renamed. A save that fails is only a warning.
Rename(b) ==
  /\ build[b].pc = "rename" /\ UNCHANGED <<raw, queries>> /\ Step(b, "ready")
  /\ \/ compressed' = [compressed EXCEPT ![At(b)] = build[b].held] /\ UNCHANGED <<orphans, faults2>>
     \/ Fault /\ orphans' = orphans + 1 /\ UNCHANGED compressed

\* The process ends, or a reload builds anew.
End(b) ==
  /\ build[b].pc \in {"ready", "disabled", "failed"} /\ \A s \in Searches : query[<<b, s>>] = "idle"
  /\ Now(b, Idle) /\ inits' = [inits EXCEPT ![b] = 0] /\ UNCHANGED <<files, query, modelLock, faults2>>

\* The process of b dies; a temporary file it has written stays.
CrashBuild(b) ==
  /\ build[b].pc \notin {"idle"} /\ Fault /\ Now(b, Idle)
  /\ orphans' = IF build[b].pc = "rename" THEN orphans + 1 ELSE orphans
  /\ query' = [q \in DOMAIN query |-> IF q[1] = b THEN "idle" ELSE query[q]]
  /\ modelLock' = [modelLock EXCEPT ![b] = None] /\ inits' = [inits EXCEPT ![b] = 0]
  /\ UNCHANGED <<compressed, raw>>

-----------------------------------------------------------------------------
(* Searches in the process of b: DeferredInit::get_or_try_init.            *)

To(q, step) == query' = [query EXCEPT ![q] = step]

\* A search that finds the model loaded goes on at once.
Ask(b, s) ==
  /\ build[b].pc = "ready" /\ query[<<b, s>>] = "idle" /\ inits[b] = 0 /\ To(<<b, s>>, "lock")
  /\ UNCHANGED <<files, build, modelLock, inits, faults2>>

LockModel(b, s) ==
  /\ query[<<b, s>>] = "lock" /\ modelLock[b] = None /\ To(<<b, s>>, "locked")
  /\ modelLock' = [modelLock EXCEPT ![b] = [kind |-> "held", by |-> s]]
  /\ UNCHANGED <<files, build, inits, faults2>>

\* Mutant: who gets the lock initializes.
LoadAnyway(b, s) ==
  /\ query[<<b, s>>] = "locked" /\ To(<<b, s>>, "loading")
  /\ UNCHANGED <<files, build, modelLock, inits, faults2>>

\* With the lock: another search may have been faster.
CheckModel(b, s) ==
  /\ query[<<b, s>>] = "locked" /\ UNCHANGED <<files, build, inits, faults2>>
  /\ \/ inits[b] > 0 /\ To(<<b, s>>, "idle") /\ modelLock' = [modelLock EXCEPT ![b] = None]
     \/ inits[b] = 0 /\ To(<<b, s>>, "loading") /\ UNCHANGED modelLock

\* The model is loaded; a panic is caught, and the guard is dropped whatever
\* happens.
LoadModel(b, s) ==
  /\ query[<<b, s>>] = "loading" /\ To(<<b, s>>, "idle") /\ modelLock' = [modelLock EXCEPT ![b] = None]
  /\ UNCHANGED <<files, build>>
  /\ \/ inits' = [inits EXCEPT ![b] = @ + 1] /\ UNCHANGED faults2
     \/ Fault /\ UNCHANGED inits

BuildStep(b) ==
  \/ LoadCompressed(b) \/ LoadRaw(b) \/ InitModel(b) \/ Batch(b) \/ BatchesEnd(b) \/ WriteTmp(b) \/ Rename(b)
SearchStep(b, s) == LockModel(b, s) \/ CheckModel(b, s) \/ LoadModel(b, s)

CacheNext ==
  \E b \in Builders :
    \/ Start(b) \/ BuildStep(b) \/ End(b) \/ CrashBuild(b)
    \/ \E s \in Searches : Ask(b, s) \/ SearchStep(b, s)

-----------------------------------------------------------------------------
\* A searcher that is ready has a vector of its own model for every entity of
\* its manifest that has a text, wherever they came from: a cache of another
\* model, manifest or schema, one of an interrupted build, or one with entries
\* missing, is never served.
ReadyIsComplete ==
  \A b \in Builders :
    build[b].pc = "ready" =>
      /\ build[b].ids = Manifests[build[b].manifest]
      /\ build[b].held.model = build[b].model /\ build[b].held.hash = build[b].manifest

\* A compressed cache is whole from the moment it is there, whoever else
\* builds and whoever crashes: a later start that may not build can rely on it.
CachesWhole ==
  \A slot \in Slots :
    compressed[slot] # None =>
      /\ compressed[slot].hash = slot[1] /\ Slug(compressed[slot].model) = slot[2]
      /\ compressed[slot].ids = Manifests[slot[1]]

\* The query model of a process is loaded once, however many searches ask for
\* it at the same time.
LoadedOnce == \A b \in Builders : inits[b] <= 1

\* A quantized cache is served with the values it was built with. (It is not:
\* its values are quantized a second time when they are loaded.)
ServedAsBuilt ==
  [][\A b \in Builders : build[b].pc \in {"load", "load_raw"} /\ build'[b].pc = "ready" => ~build'[b].held.quantized]_cacheVars
=============================================================================
