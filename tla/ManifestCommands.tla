-------------------------- MODULE ManifestCommands --------------------------
(***************************************************************************)
(* dbt-nova manifest load, reload and warm, and the warm_manifest tool     *)
(* (src/src/cli/manifest.rs): how settings of the command line go over     *)
(* those of the environment and the bootstrap contract, and what a warm    *)
(* that succeeds promises to the servers started after it. Components are  *)
(* "vector", "sparse" and "reranker"; the first two have a cache on disk.  *)
(***************************************************************************)
EXTENDS AssetContracts

NoCache == [count |-> 0, age |-> 0]   \* no cache file

WarmComponents == {"vector", "sparse", "reranker"}
Cached == {"vector", "sparse"}

\* is_safe_storage_instance_id.
SafeInstance(id) == id \notin {NoText, ".", ".."}

\* apply_manifest_common_overrides. An option that is given but blank is " ".
Overridden(c, args) ==
  LET path == IF args.path = NoText THEN c ELSE [c EXCEPT !.path = args.path, !.pathExplicit = TRUE, !.manifest = NoText]
      uri == IF args.manifest = NoText THEN path ELSE [path EXCEPT !.manifest = args.manifest]
      id == IF args.instance = NoText THEN uri ELSE [uri EXCEPT !.instance = args.instance]
  IN  [ok |-> " " \notin {args.path, args.manifest, args.instance} /\ (args.instance # NoText => SafeInstance(args.instance)),
       config |-> [id EXCEPT !.cleanup = c.cleanup \/ args.cleanup, !.readOnly = c.readOnly \/ args.readOnly]]

\* Mutant: the contract goes first.
ContractFirst(c, args, b, published) ==
  LET new == ApplyBootstrap(c, b, published)
  IN  IF new.ok THEN [ok |-> TRUE, config |-> [new.config EXCEPT !.instance = IF @ = NoText THEN args.instance ELSE @]]
      ELSE [ok |-> FALSE, config |-> c]

\* build_manifest_load_config, build_manifest_reload_config and
\* finalize_manifest_config: the overrides, then the bootstrap contract.
LoadConfig(c, args, b, published) ==
  LET over == Overridden(c, args)
      new == ApplyBootstrap(over.config, b, published)
  IN  IF over.ok /\ new.ok /\ SafeInstance(new.config.instance) THEN new ELSE [ok |-> FALSE, config |-> c]

\* requested_warm_components_from_flags.
RequestedWarm(flags, enabled) == IF flags = {} THEN enabled ELSE flags

\* apply_manifest_warm_settings.
WarmSettings(c, requested, force) ==
  [c EXCEPT !.cleanup = FALSE, !.enabled = requested, !.policy = "build", !.force = force]

-----------------------------------------------------------------------------
(* Loading. A cache on disk is [count, age], its entries and the seconds   *)
(* since it was written; a build makes as many entries as there are texts, *)
(* or fewer when a batch fails.                                            *)

\* VectorSearcher::build, SparseSearcher::build and Reranker::build, as far as
\* a warm tells them apart: the component, and the cache afterwards.
BuildComponent(k, c, disk, world) ==
  LET hit == ~c.force /\ disk[k] # NoCache /\ disk[k].count = world.texts
      produced == IF world.batchFails THEN world.texts - 1 ELSE world.texts
  IN  CASE k \notin c.enabled -> [state |-> "absent", cache |-> disk[k]]
        [] k \in c.enabled /\ (k = "reranker" \/ hit) -> [state |-> "lazy", cache |-> disk[k]]
        [] k \in c.enabled \ {"reranker"} /\ ~hit /\ c.policy = "degrade" /\ ~c.force -> [state |-> "absent", cache |-> disk[k]]
        [] k \in c.enabled \ {"reranker"} /\ ~hit /\ (c.policy # "degrade" \/ c.force) ->
             CASE ~world.model -> [state |-> "absent", cache |-> disk[k]]
               [] world.model /\ produced # world.texts -> [state |-> IF c.policy = "degrade" THEN "absent" ELSE "failed", cache |-> disk[k]]
               [] OTHER -> [state |-> "warm", cache |-> IF world.saves THEN [count |-> produced, age |-> 0] ELSE disk[k]]

\* execute_manifest_load: all components, or an error.
LoadAll(c, disk, world) ==
  LET built == [k \in WarmComponents |-> BuildComponent(k, c, disk, world)]
  IN  [ok |-> \A k \in WarmComponents : built[k].state # "failed", built |-> built,
       disk |-> [k \in WarmComponents |-> built[k].cache]]

\* warm_requested_query_models: the model of each is loaded, which also
\* downloads its files.
ModelsWarmed(requested, built, world) ==
  \A k \in requested : built[k].state # "absent" /\ (built[k].state = "warm" \/ world.model)

\* cache_path_is_fresh_enough.
FreshEnough(cache) == cache.age <= 2

\* Mutant: an old cache is as good.
AnyCacheVerified(requested, force, disk) == \A k \in requested \cap Cached : disk[k] # NoCache

\* verify_requested_warm_caches: a cache that can be read, and with force one
\* that is new. The number of its entries is not looked at.
WarmVerified(requested, force, disk) ==
  \A k \in requested \cap Cached : disk[k] # NoCache /\ (force => FreshEnough(disk[k]))

\* run_warm_command and build_manifest_warm_tool_response. The tool needs its
\* environment variable.
Warm(c, p, disk, world) ==
  LET requested == RequestedWarm(p.flags, c.enabled)
      load == LoadAll(WarmSettings(c, requested, p.force), disk, world)
  IN  IF c.readOnly \/ (p.tool /\ ~p.toolEnabled) THEN [ok |-> FALSE, disk |-> disk, requested |-> requested]
      ELSE [ok |-> load.ok /\ ModelsWarmed(requested, load.built, world) /\ WarmVerified(requested, p.force, load.disk),
            disk |-> load.disk, requested |-> requested]

\* A server that starts after a warm that succeeded has all the components that
\* were asked for, even one that never builds a cache itself, provided the warm
\* could write; a forced warm leaves no cache older than itself and the two
\* seconds it allows; and a warm that is refused, or fails, harms no cache.
WarmIsKept(c, p, disk, world) ==
  LET w == Warm(c, p, disk, world)
      later == LoadAll([c EXCEPT !.enabled = w.requested, !.policy = "degrade", !.force = FALSE], w.disk, world)
  IN  /\ w.ok /\ world.saves => \A k \in w.requested : later.built[k].state # "absent"
      /\ w.ok /\ p.force => \A k \in w.requested \cap Cached : FreshEnough(w.disk[k])
      /\ \A k \in Cached : disk[k] # NoCache => w.disk[k] # NoCache /\ (w.disk[k] = disk[k] \/ w.disk[k].count = world.texts)
      /\ c.readOnly => w.disk = disk

\* What the command line names wins over the environment and over the contract,
\* and a configuration is accepted only with an instance that is one directory:
\* running again with what was resolved changes nothing.
OverridesWin(c, args, b, published) ==
  LET r == LoadConfig(c, args, b, published)
      again == LoadConfig([r.config EXCEPT !.applied = {}],
                          [args EXCEPT !.path = NoText, !.manifest = NoText, !.instance = NoText], b, published)
  IN  r.ok => /\ args.instance # NoText => r.config.instance = args.instance
              /\ args.manifest # NoText => r.config.manifest = args.manifest
              /\ args.path # NoText /\ args.manifest = NoText => r.config.manifest = NoText /\ r.config.path = args.path
              /\ again.ok /\ \A f \in {"manifest", "path", "instance", "storage", "metadata"} : again.config[f] = r.config[f]
=============================================================================
