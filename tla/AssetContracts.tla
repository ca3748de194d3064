--------------------------- MODULE AssetContracts ---------------------------
(***************************************************************************)
(* What a published asset has to look like: the contracts                  *)
(* (src/src/manifest/prebuilt_assets.rs), the archives and the layout of   *)
(* the models in them (prebuilt_assets_resolver.rs), and how a contract    *)
(* fills in the configuration at a start and again at every reload         *)
(* (bootstrap.rs, search/core.rs). PrebuiltAssets has the protocol of      *)
(* fetching and swapping them.                                             *)
(***************************************************************************)
EXTENDS Integers, Sequences, FiniteSets, SequencesExt

NoText == ""

-----------------------------------------------------------------------------
(* Contracts. The format is "1" for storage of the legacy kind, "2" now.   *)

\* validate_contract_and_storage_format.
FormatAgrees(contract) ==
  CASE contract.version = "v1" -> contract.format \in {NoText, "1"}
    [] contract.version = "v2" -> contract.format = "2"
    [] OTHER -> FALSE

\* PrebuiltAssetsMetadata::validate.
MetadataValid(m) ==
  /\ FormatAgrees(m)
  /\ m.hash # NoText /\ m.instance # NoText /\ m.timestamp

\* PrebuiltAssetsBootstrap::validate. Only the URI of the models may be empty.
BootstrapValid(b) ==
  /\ FormatAgrees(b)
  /\ b.instance # NoText /\ b.manifest # NoText /\ b.storage # NoText /\ b.metadata # NoText
  /\ b.timestamp

-----------------------------------------------------------------------------
(* The configuration. Fields may be set by whoever starts the server; the  *)
(* bootstrap contract fills in the ones that are empty.                    *)

\* auto_instance_id: an identifier derived from the source.
AutoId(c) == "auto " \o (IF c.manifest = NoText THEN c.path ELSE c.manifest)

\* should_apply_manifest_uri.
WantsManifest(c) == c.manifest = NoText /\ ~c.pathExplicit /\ c.path = "manifest.json"

\* validate_models_metadata_contract. published says which metadata names a
\* models archive.
ModelsNamed(c, b, published) ==
  \/ b.models = NoText \/ c.models # NoText
  \/ LET uri == IF c.metadata = NoText THEN b.metadata ELSE c.metadata
     IN  uri \in DOMAIN published /\ MetadataValid(published[uri]) /\ published[uri].models # NoText

\* apply_bootstrap_defaults and ensure_storage_instance_id. NoContract stands
\* for a configuration without a bootstrap URI.
ApplyBootstrap(c, b, published) ==
  LET fill(field, value) == IF c[field] = NoText THEN value ELSE c[field]
      empty == {f \in {"instance", "storage", "metadata", "models"} : c[f] = NoText}
      applied == (IF WantsManifest(c) THEN {"manifest"} ELSE {}) \cup (IF b.models = NoText THEN empty \ {"models"} ELSE empty)
  IN  CASE ~b.configured ->
             [ok |-> TRUE, config |-> [c EXCEPT !.instance = fill("instance", AutoId(c)), !.applied = {}]]
        [] b.configured /\ (~BootstrapValid(b) \/ ~ModelsNamed(c, b, published)) -> [ok |-> FALSE, config |-> c]
        [] OTHER ->
             [ok |-> TRUE,
              config |-> [c EXCEPT !.manifest = IF WantsManifest(c) THEN b.manifest ELSE c.manifest,
                                   !.instance = fill("instance", b.instance), !.storage = fill("storage", b.storage),
                                   !.metadata = fill("metadata", b.metadata), !.models = fill("models", b.models),
                                   !.applied = applied]]

\* What the parameters of a reload set: a URI, or a path (which takes the URI
\* away), and an instance, unless it is blank.
BlankId == " "
SourceGiven(p) == p.manifest # NoText \/ p.path # NoText
InstanceGiven(p) == p.instance \notin {NoText, BlankId}
WithParams(c, p) ==
  LET uri == IF p.manifest = NoText THEN c ELSE [c EXCEPT !.manifest = p.manifest]
      path == IF p.path = NoText THEN uri ELSE [uri EXCEPT !.path = p.path, !.pathExplicit = TRUE, !.manifest = NoText]
  IN  IF InstanceGiven(p) THEN [path EXCEPT !.instance = p.instance] ELSE path

\* Mutant: the models of the last contract stay.
ForgetAllButModels(next, applied, sourceGiven, instanceGiven) ==
  [next EXCEPT !.manifest = IF "manifest" \in applied /\ ~sourceGiven THEN NoText ELSE next.manifest,
               !.instance = IF "instance" \in applied /\ ~instanceGiven THEN NoText ELSE next.instance,
               !.storage = IF "storage" \in applied THEN NoText ELSE next.storage,
               !.metadata = IF "metadata" \in applied THEN NoText ELSE next.metadata]

\* reset_bootstrap_applied_fields_for_reload.
ForgetApplied(next, applied, sourceGiven, instanceGiven) ==
  [next EXCEPT !.manifest = IF "manifest" \in applied /\ ~sourceGiven THEN NoText ELSE next.manifest,
               !.instance = IF "instance" \in applied /\ ~instanceGiven THEN NoText ELSE next.instance,
               !.storage = IF "storage" \in applied THEN NoText ELSE next.storage,
               !.metadata = IF "metadata" \in applied THEN NoText ELSE next.metadata,
               !.models = IF "models" \in applied THEN NoText ELSE next.models]

\* reload, prepare_runtime_config_for_reload: the configuration of the next
\* build; a contract that is refused leaves the one there is. An instance derived
\* from the old source is forgotten with it, but not when the parameter is blank.
ReloadConfig(c, p, b, published) ==
  LET given == WithParams(c, p)
      derived == p.instance = NoText /\ SourceGiven(p) /\ c.instance = AutoId(c)
      next == ForgetApplied(IF derived THEN [given EXCEPT !.instance = NoText] ELSE given, c.applied,
                            SourceGiven(p), InstanceGiven(p))
      new == ApplyBootstrap(next, b, published)
  IN  IF new.ok THEN new.config ELSE c

\* After any two reloads the server is configured as one started now, with the
\* settings it was started with and the parameters of the reloads, from the
\* contract now published: nothing of an earlier contract is left, and nothing
\* that was asked for is lost. Not so where a reload names another source and a
\* blank instance, and the instance was derived from the old source: it stays.
ConfiguredAfresh(c, ps, bs, published) ==
  LET start == ApplyBootstrap(c, bs[1], published)
      once == ReloadConfig(start.config, ps[1], bs[2], published)
      twice == ReloadConfig(once, ps[2], bs[3], published)
      asked == WithParams(WithParams(c, ps[1]), ps[2])
      afresh == ApplyBootstrap(asked, bs[3], published)
      accepted(n) == ~bs[n].configured \/ (BootstrapValid(bs[n]) /\ \A x \in {c, WithParams(c, ps[1]), asked} : ModelsNamed(x, bs[n], published))
      blank(n) == ps[n].instance = BlankId /\ SourceGiven(ps[n]) /\ ~bs[n].configured
  IN  (\A n \in 1 .. 3 : accepted(n)) /\ ~blank(1) /\ ~blank(2) => twice = afresh.config

-----------------------------------------------------------------------------
(* Archives: entries [path, type, size] in their order, a path being a     *)
(* sequence of components.                                                 *)

\* validate_archive_entry_path.
PathSafe(path) == path # <<>> /\ path[1] # "/" /\ \A i \in DOMAIN path : path[i] # ".."

\* Mutant: the size is checked once the entry has been written.
UnpackFirst(entries, limits) ==
  LET step(acc, e) ==
        LET bytes == acc.bytes + (IF e.type = "file" THEN e.size ELSE 0)
        IN  IF ~acc.ok \/ ~PathSafe(e.path) \/ e.type \notin {"file", "dir"}
                  \/ (limits.entries > 0 /\ acc.count + 1 > limits.entries)
              THEN [acc EXCEPT !.ok = FALSE]
              ELSE [ok |-> limits.bytes = 0 \/ bytes <= limits.bytes, count |-> acc.count + 1, bytes |-> bytes, written |-> Append(acc.written, e)]
  IN  FoldLeft(step, [ok |-> TRUE, count |-> 0, bytes |-> 0, written |-> <<>>], entries)

\* extract_tar_gz: what has been written when it ends, and whether it went well.
ExtractTarGz(entries, limits) ==
  LET step(acc, e) ==
        LET bytes == acc.bytes + (IF e.type = "file" THEN e.size ELSE 0)
        IN  IF \/ ~acc.ok \/ ~PathSafe(e.path) \/ e.type \notin {"file", "dir"}
               \/ (limits.entries > 0 /\ acc.count + 1 > limits.entries)
               \/ (limits.bytes > 0 /\ bytes > limits.bytes)
              THEN [acc EXCEPT !.ok = FALSE]
              ELSE [ok |-> TRUE, count |-> acc.count + 1, bytes |-> bytes, written |-> Append(acc.written, e)]
  IN  FoldLeft(step, [ok |-> TRUE, count |-> 0, bytes |-> 0, written |-> <<>>], entries)

\* single_directory_child: the directory to move in, or nothing.
SingleDirectory(written) ==
  LET tops == {e.path[1] : e \in ToSet(written)}
  IN  IF Cardinality(tops) = 1 /\ \A e \in ToSet(written) : Len(e.path) > 1 \/ e.type = "dir" THEN tops ELSE {}

\* Unpacking stays in the staging directory and within the limits even when it
\* is refused half way, and what is moved in is one directory with all of the
\* files of the archive.
UnpacksInside(entries, limits) ==
  LET r == ExtractTarGz(entries, limits)
      bytes == FoldLeft(LAMBDA n, e : n + (IF e.type = "file" THEN e.size ELSE 0), 0, r.written)
  IN  /\ IsPrefix(r.written, entries) /\ \A e \in ToSet(r.written) : PathSafe(e.path)
      /\ limits.bytes > 0 => bytes <= limits.bytes
      /\ limits.entries > 0 => Len(r.written) <= limits.entries
      /\ r.ok /\ SingleDirectory(r.written) # {}
           => r.written = entries /\ Cardinality({e.path[1] : e \in ToSet(entries)}) = 1

-----------------------------------------------------------------------------
(* The models: repositories as the model hub's client lays them out, with  *)
(* refs to snapshots of files, and the semantic caches of manifests.       *)

\* required_model_layouts and the components they are for.
RequiredModels(search) ==
  {k \in {<<"vector", search.embedding>>, <<"sparse", "splade">>, <<"reranker", "jina">>} : k[1] \in search.enabled}

\* required_model_files; a large model has its weights in a second file.
RequiredFiles(model) == {"model.onnx", "tokenizer"} \cup (IF model = "e5-large" THEN {"model.onnx_data"} ELSE {})

\* resolve_snapshot_dir, and snapshot_dir_from_repo_dir of the runtime: the
\* snapshot a repository stands for, or nothing.
ResolveSnapshot(repo) ==
  LET present == DOMAIN repo.snapshots
  IN  CASE "main" \in DOMAIN repo.refs /\ repo.refs["main"] \in present -> {repo.refs["main"]}
        [] ~("main" \in DOMAIN repo.refs /\ repo.refs["main"] \in present) /\ "main" \in present -> {"main"}
        [] OTHER -> IF Cardinality(present) = 1 THEN present ELSE {}

\* validate_model_repo_layout.
RepoLayoutValid(repo) ==
  /\ DOMAIN repo.refs # {}
  /\ \A r \in DOMAIN repo.refs : repo.refs[r] \in DOMAIN repo.snapshots /\ repo.snapshots[repo.refs[r]] # {}

\* validate_required_model_repo_layout.
RequiredRepoValid(repo, model) ==
  /\ RepoLayoutValid(repo) /\ ResolveSnapshot(repo) # {}
  /\ \A s \in ResolveSnapshot(repo) : RequiredFiles(model) \subseteq repo.snapshots[s]

\* Mutant: any snapshot with the files will do.
AnySnapshotValid(search, cache, hash) ==
  /\ ~cache.legacy
  /\ \A k \in RequiredModels(search) : \E s \in DOMAIN cache.repo.snapshots : RequiredFiles(k[2]) \subseteq cache.repo.snapshots[s]
  /\ \A c \in search.enabled \cap {"vector", "sparse"} : hash \in DOMAIN cache.scoped /\ c \in cache.scoped[hash]

\* validate_models_cache_layout, reject_legacy_semantic_cache_files,
\* validate_manifest_scoped_semantic_caches and ensure_semantic_cache_file.
CacheLayoutValid(search, cache, hash) ==
  /\ ~cache.legacy
  /\ \A k \in RequiredModels(search) : RequiredRepoValid(cache.repo, k[2])
  /\ \A c \in search.enabled \cap {"vector", "sparse"} : hash \in DOMAIN cache.scoped /\ c \in cache.scoped[hash]

\* validate_local_model_files: what the runtime asks of a repository.
LocalFilesPresent(repo, model) ==
  ResolveSnapshot(repo) # {} /\ \A s \in ResolveSnapshot(repo) : RequiredFiles(model) \subseteq repo.snapshots[s]

\* Models that are accepted serve: every component that is enabled finds the
\* files of its model in the snapshot it will take, and its semantic cache under
\* the hash of the manifest; without that component they are accepted too.
AcceptedModelsServe(search, cache, hash) ==
  CacheLayoutValid(search, cache, hash) =>
    /\ \A k \in RequiredModels(search) : LocalFilesPresent(cache.repo, k[2])
    /\ \A k \in RequiredModels(search) : \A s \in DOMAIN cache.repo.snapshots : s \in {cache.repo.refs[r] : r \in DOMAIN cache.repo.refs} => cache.repo.snapshots[s] # {}
    /\ \A c \in search.enabled : CacheLayoutValid([search EXCEPT !.enabled = @ \ {c}], cache, hash)
=============================================================================
