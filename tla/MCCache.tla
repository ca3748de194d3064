-------------------------------- MODULE MCCache --------------------------------
(***************************************************************************)
(* The caches for TLC: a behaviour is one of the cache of a manifest or of *)
(* the caches of embeddings, as `part` says.                               *)
(***************************************************************************)
EXTENDS ManifestCache

CONSTANTS Builders, Searches, Manifests, Models, Configs, Slug(_), OldFiles, BatchSize, MaxFaults

VARIABLES part, compressed, raw, orphans, build, query, modelLock, inits, faults2

MCManifests == [h \in {"h1", "h2"} |-> IF h = "h1" THEN {1, 2, 3} ELSE {3}]
\* "a/b" and "a--b" share a slug.
MCSlug(m) == "a--b"

MCConfigs ==
  {[schema |-> 2, model |-> "a/b", manifest |-> "h1", policy |-> "degrade", force |-> FALSE, quantize |-> FALSE],
   [schema |-> 2, model |-> "a/b", manifest |-> "h1", policy |-> "rebuild", force |-> FALSE, quantize |-> TRUE],
   [schema |-> 2, model |-> "a--b", manifest |-> "h1", policy |-> "degrade", force |-> TRUE, quantize |-> FALSE],
   [schema |-> 1, model |-> "a/b", manifest |-> "h1", policy |-> "rebuild", force |-> FALSE, quantize |-> FALSE],
   [schema |-> 2, model |-> "a/b", manifest |-> "h2", policy |-> "rebuild", force |-> FALSE, quantize |-> FALSE]}

\* No raw file, one of another model or with an entity missing, and a good one.
MCOldFiles ==
  {[kind |-> "cache", schema |-> 2, model |-> m, hash |-> "h1", ids |-> ids, quantized |-> FALSE] :
     m \in Models, ids \in {{1, 2}, {1, 2, 3}}}
  \cup {[kind |-> "cache", schema |-> 1, model |-> "a/b", hash |-> "h3", ids |-> {}, quantized |-> FALSE]}

\* There are a model and a manifest to embed, builds are of these, and a file an
\* earlier release left for a manifest has vectors of its entities only.
ASSUME EmbeddingAssumption ==
  /\ Models # {} /\ DOMAIN Manifests # {}
  /\ \A h \in DOMAIN Manifests : IsFiniteSet(Manifests[h])
  /\ Configs \subseteq [schema : Nat, model : Models, manifest : DOMAIN Manifests, policy : {"degrade", "rebuild"},
                         force : BOOLEAN, quantize : BOOLEAN]
  /\ \A c \in OldFiles : c.kind = "cache" /\ (c.hash \in DOMAIN Manifests => c.ids \subseteq Manifests[c.hash])

Embeddings == INSTANCE EmbeddingCache

embeddingVars == <<compressed, raw, orphans, build, query, modelLock, inits, faults2>>
mcVars == <<part, vars, embeddingVars>>

MCInit ==
  /\ part \in {"manifests", "embeddings"}
  /\ Init /\ Embeddings!CacheInit
  /\ part = "manifests" => \A s \in DOMAIN raw : raw[s].kind = "none"
  /\ part = "embeddings" => kind = "http" /\ polls /\ active = Resolvers

MCNext ==
  /\ UNCHANGED part
  /\ \/ part = "manifests" /\ Next /\ UNCHANGED embeddingVars
     \/ part = "embeddings" /\ Embeddings!CacheNext /\ UNCHANGED vars

Manifest(A) == part = "manifests" /\ A /\ UNCHANGED <<part, embeddingVars>>
MCFairness ==
  /\ \A p \in Resolvers : WF_mcVars(Manifest(p \in active /\ Step(p))) /\ WF_mcVars(Manifest(p \in active /\ ReadCacheMeta(p)))
  /\ WF_mcVars(Manifest(GrowOld))

MCSpec == MCInit /\ [][MCNext]_mcVars /\ MCFairness

\* ManifestCache!LoneResolverConverges, in the behaviours of a manifest.
ResolverConverges == part = "manifests" => LoneResolverConverges

\* The properties of the caches of embeddings, by their names there.
ReadyIsComplete == Embeddings!ReadyIsComplete
CachesWhole == Embeddings!CachesWhole
LoadedOnce == Embeddings!LoadedOnce

\* The caches of embeddings that builders share without a lock: a searcher that
\* is ready has a vector for every entity of its manifest, no cache that passes
\* for a complete one is incomplete or of another model, and the searches that
\* find the query model missing load it once. The entry of a manifest beside them
\* keeps its types.
CachesSound == TypeOK /\ ReadyIsComplete /\ CachesWhole /\ LoadedOnce
===============================================================================
