--------------------------- MODULE VersionedStorage ---------------------------
(***************************************************************************)
(* The versioned index storage of one dbt-nova instance: loads             *)
(* (`ManifestSearch::new`, src/src/manifest/loader.rs) running in several  *)
(* processes or threads share one instance directory on disk:              *)
(*                                                                         *)
(*   <instance>/manifest.current.json        the published version         *)
(*   <instance>/.build.lock                  exclusive lock of builders    *)
(*   <instance>/versions/<id>/entities.*     the entity store              *)
(*   <instance>/versions/<id>/<index_dir>/   the Tantivy index             *)
(*   <instance>/versions/<id>/manifest.signature.json                      *)
(*   <instance>/versions/<id>/indexes.rkyv   the derived indexes           *)
(*   <instance>/versions/<id>/.in_use.lock   shared lock of live searches  *)
(*                                                                         *)
(* A version id is a prefix of the hash of the manifest the version was    *)
(* built for, so versions are indexed by manifest here; a signature file   *)
(* found in a version directory is always the one of that manifest.        *)
(* A loader is one call of `ManifestSearch::new` and the life of the       *)
(* search it returns; a server that refreshes is two loaders.              *)
(***************************************************************************)
EXTENDS Naturals, FiniteSets, TLC

CONSTANTS
  Loaders,     \* concurrent loads of this instance
  Manifests,   \* contents the manifest source may have, hence version ids
  None,        \* absent: a missing file, an unset pointer, a free lock
  Empty,       \* a Tantivy index that was created and never committed
  ReadOnly,    \* the loaders configured with storage_read_only
  MaxKeep,     \* storage_max_instances, 0 for no limit on the versions kept
  MinKeep,     \* storage_min_versions
  ByteCap,     \* whether the versions may exceed storage_max_bytes
  StableSource \* whether the source keeps still while a load reads it

ASSUME ConstantAssumption ==
  /\ IsFiniteSet(Manifests)
  /\ None \notin Manifests /\ None \notin Loaders
  /\ Empty \notin Manifests /\ Empty # None
  /\ ReadOnly \subseteq Loaders
  /\ MaxKeep \in Nat /\ MinKeep \in Nat
  /\ ByteCap \in BOOLEAN /\ StableSource \in BOOLEAN

VARIABLES
  source,      \* content the manifest source has now
  current,     \* manifest.current.json
  lock,        \* holder of .build.lock
  \* The version directories.
  present,     \* whether the directory exists
  store,       \* content of the entity store, None if it does not open
  tantivy,     \* content of the Tantivy index, None if it does not open
  sig,         \* whether the signature file exists
  idx,         \* content of indexes.rkyv
  \* The locals of each loader.
  pc,          \* the step of `new` it has reached
  sel,         \* version selected (StorageVersionSelection)
  cur,         \* the pointer as load_reusable_artifacts read it
  opened,      \* content of the entity store it has open
  searcher,    \* content of the Tantivy index it has open
  derived,     \* content its in-memory indexes were derived from
  needsBuild,
  idxReused,   \* indexes_reused
  victims,     \* directories prune_dirs has still to remove
  inUse,       \* directory on which it holds the in-use lock
  pruned       \* history: the versions that pruning has ever removed

disk == <<present, store, tantivy, sig, idx>>
artifacts == <<opened, searcher, derived, needsBuild, idxReused>>
locals == <<pc, sel, cur, artifacts, victims, inUse>>
vars == <<source, current, lock, disk, locals, pruned>>

PC == {"idle", "failed", "select", "trylock", "busy", "waiting", "reuse", "scan",
       "prune", "mkdir", "inuse", "parse", "store", "tantivy", "index", "sig",
       "current", "save", "serving"}

\* Where a load has hashed the manifest and may still have to read it.
Reading == {"select", "trylock", "busy", "waiting", "reuse", "scan", "prune",
            "mkdir", "inuse", "parse"}

\* Where a load holds its in-use lock and may still write.
Writing == {"parse", "store", "tantivy", "index", "sig", "current", "save"}

MaybeManifest == Manifests \cup {None}

\* Every variable has its type, and a load on its way has selected a version.
TypeOK ==
  /\ source \in Manifests
  /\ current \in MaybeManifest
  /\ lock \in Loaders \cup {None}
  /\ present \in [Manifests -> BOOLEAN]
  /\ store \in [Manifests -> MaybeManifest]
  /\ tantivy \in [Manifests -> MaybeManifest \cup {Empty}]
  /\ sig \in [Manifests -> BOOLEAN]
  /\ idx \in [Manifests -> MaybeManifest]
  /\ pc \in [Loaders -> PC]
  /\ sel \in [Loaders -> MaybeManifest]
  /\ cur \in [Loaders -> MaybeManifest]
  /\ opened \in [Loaders -> MaybeManifest]
  /\ searcher \in [Loaders -> MaybeManifest \cup {Empty}]
  /\ derived \in [Loaders -> MaybeManifest]
  /\ needsBuild \in [Loaders -> BOOLEAN]
  /\ idxReused \in [Loaders -> BOOLEAN]
  /\ victims \in [Loaders -> SUBSET Manifests]
  /\ inUse \in [Loaders -> MaybeManifest]
  /\ pruned \subseteq Manifests
  /\ \A p \in Loaders : pc[p] \notin {"idle", "failed"} => sel[p] \in Manifests

Init ==
  /\ source \in Manifests
  /\ current = None
  /\ lock = None
  /\ present = [v \in Manifests |-> FALSE]
  /\ store = [v \in Manifests |-> None]
  /\ tantivy = [v \in Manifests |-> None]
  /\ sig = [v \in Manifests |-> FALSE]
  /\ idx = [v \in Manifests |-> None]
  /\ pc = [p \in Loaders |-> "idle"]
  /\ sel = [p \in Loaders |-> None]
  /\ cur = [p \in Loaders |-> None]
  /\ opened = [p \in Loaders |-> None]
  /\ searcher = [p \in Loaders |-> None]
  /\ derived = [p \in Loaders |-> None]
  /\ needsBuild = [p \in Loaders |-> FALSE]
  /\ idxReused = [p \in Loaders |-> FALSE]
  /\ victims = [p \in Loaders |-> {}]
  /\ inUse = [p \in Loaders |-> None]
  /\ pruned = {}

-----------------------------------------------------------------------------
(* Helpers.                                                                *)

At(p, step) == pc[p] = step

Goto(p, step) == pc' = [pc EXCEPT ![p] = step]

\* build_lock.take(), and the drop of the file at the end of a load.
ReleaseBuildLock(p) == lock' = IF lock = p THEN None ELSE lock

\* The end of a load or of its search: every local is dropped, the build lock
\* and the in-use locks with it.
Leave(p, step) ==
  /\ ReleaseBuildLock(p)
  /\ Goto(p, step)
  /\ sel' = [sel EXCEPT ![p] = None]
  /\ cur' = [cur EXCEPT ![p] = None]
  /\ opened' = [opened EXCEPT ![p] = None]
  /\ searcher' = [searcher EXCEPT ![p] = None]
  /\ derived' = [derived EXCEPT ![p] = None]
  /\ needsBuild' = [needsBuild EXCEPT ![p] = FALSE]
  /\ idxReused' = [idxReused EXCEPT ![p] = FALSE]
  /\ victims' = [victims EXCEPT ![p] = {}]
  /\ inUse' = [inUse EXCEPT ![p] = None]

\* What a lockless reader asks of a version directory: a signature, a store
\* whose checksums match, a Tantivy index that opens (an uncommitted one
\* does) and derived indexes.
HasLocklessReadArtifacts(v) ==
  sig[v] /\ store[v] # None /\ tantivy[v] # None /\ idx[v] # None

\* A directory that some live search or running load holds in use.
DirInUse(v) == \E q \in Loaders : inUse[q] = v

\* Mutant: the minimum is off by one.
RemovalCountsBelowFloor(n) ==
  LET keep  == IF MaxKeep = 0 THEN n ELSE MaxKeep
      floor == IF MinKeep < keep THEN MinKeep ELSE keep
      least == IF n > keep THEN n - keep ELSE 0
      most  == IF ByteCap /\ n >= floor THEN n - floor + 1 ELSE least
  IN  least .. (IF most > n THEN n ELSE most)

\* How many of n candidates prune_dirs removes: down to the limit on their
\* number, and as long as they are too large down to the minimum.
RemovalCounts(n) ==
  LET keep  == IF MaxKeep = 0 THEN n ELSE MaxKeep
      floor == IF MinKeep < keep THEN MinKeep ELSE keep
      least == IF n > keep THEN n - keep ELSE 0
      most  == IF ByteCap /\ n > floor THEN n - floor ELSE least
  IN  least .. most

-----------------------------------------------------------------------------
(* The actions of a load, in the order of `ManifestSearch::new`.           *)

\* The producer replaces the manifest file (or the remote object).
ChangeManifest ==
  /\ StableSource => \A p \in Loaders : pc[p] \notin Reading
  /\ \E m \in Manifests \ {source} : source' = m
  /\ UNCHANGED <<current, lock, disk, locals, pruned>>

\* resolve_manifest_sources and prepare_storage up to the version id: the
\* manifest is hashed, and the hash names the version to load.
PrepareStorage(p) ==
  /\ pc[p] \in {"idle", "failed"}
  /\ Goto(p, "select")
  /\ sel' = [sel EXCEPT ![p] = source]
  /\ UNCHANGED <<source, pruned, current, lock, disk, cur, artifacts, victims, inUse>>

\* Mutant: the published version is taken whatever manifest it is of.
FindAnyPublishedVersion(p) ==
  /\ At(p, "select")
  /\ IF current # None /\ HasLocklessReadArtifacts(current)
       THEN Goto(p, "reuse") /\ sel' = [sel EXCEPT ![p] = current]
       ELSE Goto(p, "trylock") /\ UNCHANGED sel
  /\ UNCHANGED <<source, pruned, current, lock, disk, cur, artifacts, victims, inUse>>

\* find_lockless_storage_version: the published version when it is of this
\* manifest, or the version named by the hash: the same directory.
FindLocklessStorageVersion(p) ==
  /\ At(p, "select")
  /\ Goto(p, IF HasLocklessReadArtifacts(sel[p]) THEN "reuse" ELSE "trylock")
  /\ UNCHANGED <<source, pruned, current, lock, disk, sel, cur, artifacts, victims, inUse>>

\* Mutant: a busy lock is ignored.
TryAcquireBuildLockIgnoringBusy(p) ==
  /\ At(p, "trylock")
  /\ lock' = IF lock = None THEN p ELSE lock
  /\ Goto(p, "reuse")
  /\ UNCHANGED <<source, pruned, current, disk, sel, cur, artifacts, victims, inUse>>

TryAcquireBuildLock(p) ==
  /\ At(p, "trylock")
  /\ lock' = IF lock = None THEN p ELSE lock
  /\ Goto(p, IF lock = None THEN "reuse" ELSE "busy")
  /\ UNCHANGED <<source, pruned, current, disk, sel, cur, artifacts, victims, inUse>>

\* Mutant: a missing pointer is not told apart from a complete version.
ServeCurrentUnchecked(p) ==
  /\ At(p, "busy")
  /\ IF current = None \/ HasLocklessReadArtifacts(current)
       THEN Goto(p, "reuse") /\ sel' = [sel EXCEPT ![p] = current]
       ELSE Goto(p, "waiting") /\ UNCHANGED sel
  /\ UNCHANGED <<source, pruned, current, lock, disk, cur, artifacts, victims, inUse>>

\* serve_current_or_wait_for_build_lock: another load is building, so the
\* published version is served if it is complete, whatever its manifest.
ServeCurrentOrWait(p) ==
  /\ At(p, "busy")
  /\ IF current # None /\ HasLocklessReadArtifacts(current)
       THEN Goto(p, "reuse") /\ sel' = [sel EXCEPT ![p] = current]
       ELSE Goto(p, "waiting") /\ UNCHANGED sel
  /\ UNCHANGED <<source, pruned, current, lock, disk, cur, artifacts, victims, inUse>>

\* acquire_build_lock polls the lock ...
AcquireBuildLock(p) ==
  /\ At(p, "waiting")
  /\ lock = None
  /\ lock' = p
  /\ Goto(p, "reuse")
  /\ UNCHANGED <<source, pruned, current, disk, sel, cur, artifacts, victims, inUse>>

\* ... and gives up after storage_build_lock_wait_secs.
BuildLockTimeout(p) ==
  /\ At(p, "waiting")
  /\ lock # None
  /\ Leave(p, "failed")
  /\ UNCHANGED <<source, pruned, current, disk>>

\* open_reusable_artifacts on version v: what opens is kept open.
OpenReusableArtifacts(p, v) ==
  LET st == IF sig[v] THEN store[v] ELSE None
      ta == IF sig[v] THEN tantivy[v] ELSE None
  IN  /\ opened' = [opened EXCEPT ![p] = st]
      /\ searcher' = [searcher EXCEPT ![p] = ta]
      /\ needsBuild' = [needsBuild EXCEPT ![p] = (st = None \/ ta = None)]

\* Mutant: the published version is opened without comparing signatures.
LoadPublishedArtifacts(p) ==
  /\ At(p, "reuse")
  /\ cur' = [cur EXCEPT ![p] = current]
  /\ OpenReusableArtifacts(p, IF current = None THEN sel[p] ELSE current)
  /\ Goto(p, IF lock = p THEN "scan" ELSE "mkdir")
  /\ UNCHANGED <<source, pruned, current, lock, disk, sel, derived, idxReused, victims, inUse>>

\* Mutant: every load prunes, also without the build lock.
LoadReusableArtifactsAndPrune(p) ==
  /\ At(p, "reuse")
  /\ cur' = [cur EXCEPT ![p] = current]
  /\ OpenReusableArtifacts(p, sel[p])
  /\ Goto(p, "scan")
  /\ UNCHANGED <<source, pruned, current, lock, disk, sel, derived, idxReused, victims, inUse>>

\* load_reusable_artifacts: the pointer and the signature are read again.
\* Only a load that holds the lock goes on to prune.
LoadReusableArtifacts(p) ==
  /\ At(p, "reuse")
  /\ cur' = [cur EXCEPT ![p] = current]
  /\ OpenReusableArtifacts(p, sel[p])
  /\ Goto(p, IF lock = p THEN "scan" ELSE "mkdir")
  /\ UNCHANGED <<source, pruned, current, lock, disk, sel, derived, idxReused, victims, inUse>>

\* prune_storage_versions: prune_dirs scans the version directories, leaving
\* out the published one and the target, and those in use. Which of the
\* candidates go depends on their age and size.
PruneScan(p) ==
  /\ At(p, "scan")
  /\ LET cands == {v \in Manifests : present[v] /\ v \notin {cur[p], sel[p]} /\ ~DirInUse(v)}
     IN  \E vs \in SUBSET cands :
           /\ Cardinality(vs) \in RemovalCounts(Cardinality(cands))
           /\ victims' = [victims EXCEPT ![p] = vs]
           /\ Goto(p, IF vs = {} THEN "mkdir" ELSE "prune")
  /\ UNCHANGED <<source, pruned, current, lock, disk, sel, cur, artifacts, inUse>>

\* prune_dirs then removes them one by one, without a second look. An in-use
\* lock taken since then is on a file that no longer has a name.
PruneRemove(p) ==
  /\ At(p, "prune")
  /\ \E v \in victims[p] :
       /\ present' = [present EXCEPT ![v] = FALSE]
       /\ store' = [store EXCEPT ![v] = None]
       /\ tantivy' = [tantivy EXCEPT ![v] = None]
       /\ sig' = [sig EXCEPT ![v] = FALSE]
       /\ idx' = [idx EXCEPT ![v] = None]
       /\ inUse' = [q \in Loaders |-> IF inUse[q] = v THEN None ELSE inUse[q]]
       /\ victims' = [victims EXCEPT ![p] = @ \ {v}]
       /\ pruned' = pruned \cup {v}
       /\ Goto(p, IF victims[p] = {v} THEN "mkdir" ELSE "prune")
  /\ UNCHANGED <<source, current, lock, sel, cur, artifacts>>

\* `new` creates the version directory if it is not there ...
CreateStorageDir(p) ==
  /\ At(p, "mkdir")
  /\ present' = [present EXCEPT ![sel[p]] = TRUE]
  /\ Goto(p, "inuse")
  /\ UNCHANGED <<source, pruned, current, lock, store, tantivy, sig, idx, sel, cur, artifacts,
                 victims, inUse>>

\* ... and locks it (acquire_in_use_locks). ensure_build_reuse_state: a
\* read-only load that would have to build gives up.
AcquireInUseLocks(p) ==
  /\ At(p, "inuse")
  /\ present[sel[p]]
  /\ \/ /\ p \in ReadOnly /\ needsBuild[p]
        /\ Leave(p, "failed")
     \/ /\ ~(p \in ReadOnly /\ needsBuild[p])
        /\ inUse' = [inUse EXCEPT ![p] = sel[p]]
        /\ Goto(p, "parse")
        /\ UNCHANGED <<lock, sel, cur, artifacts, victims>>
  /\ UNCHANGED <<source, pruned, current, disk>>

\* prepare_manifest_data when the store is reused: with indexes.rkyv readable
\* the manifest is not parsed, otherwise it is read again, as it is now.
ReuseStore(p) ==
  /\ At(p, "parse") /\ opened[p] # None
  /\ LET cached == idx[sel[p]] IN
       /\ idxReused' = [idxReused EXCEPT ![p] = cached # None]
       /\ derived' = [derived EXCEPT ![p] = IF cached # None THEN cached ELSE source]
  /\ Goto(p, "tantivy")
  /\ UNCHANGED <<source, pruned, current, lock, disk, sel, cur, opened, searcher, needsBuild,
                 victims, inUse>>

\* prepare_manifest_data when it is not: the builder creates its directory if
\* it is gone, the manifest is parsed, and the first rename of
\* EntityStoreBuilder::finish makes an older store unreadable.
ParseManifest(p) ==
  /\ At(p, "parse") /\ opened[p] = None
  /\ derived' = [derived EXCEPT ![p] = source]
  /\ present' = [present EXCEPT ![sel[p]] = TRUE]
  /\ store' = [store EXCEPT ![sel[p]] = None]
  /\ Goto(p, "store")
  /\ UNCHANGED <<source, pruned, current, lock, tantivy, sig, idx, sel, cur, opened, searcher,
                 needsBuild, idxReused, victims, inUse>>

\* Mutant: the signature is written with the store, before the search index.
FinishStoreAndSign(p) ==
  /\ At(p, "store")
  /\ present[sel[p]]
  /\ store' = [store EXCEPT ![sel[p]] = derived[p]]
  /\ sig' = [sig EXCEPT ![sel[p]] = TRUE]
  /\ opened' = [opened EXCEPT ![p] = derived[p]]
  /\ Goto(p, "tantivy")
  /\ UNCHANGED <<source, pruned, current, lock, present, tantivy, idx, sel, cur, searcher,
                 derived, needsBuild, idxReused, victims, inUse>>

\* The rest of EntityStoreBuilder::finish: index and checksums are renamed in
\* place and the store is opened.
FinishStore(p) ==
  /\ At(p, "store")
  /\ present[sel[p]]
  /\ store' = [store EXCEPT ![sel[p]] = derived[p]]
  /\ opened' = [opened EXCEPT ![p] = derived[p]]
  /\ Goto(p, "tantivy")
  /\ UNCHANGED <<source, pruned, current, lock, present, tantivy, sig, idx, sel, cur, searcher,
                 derived, needsBuild, idxReused, victims, inUse>>

\* The Tantivy index opened earlier is kept ...
ReuseTantivy(p) ==
  /\ At(p, "tantivy") /\ searcher[p] # None
  /\ Goto(p, "sig")
  /\ UNCHANGED <<source, pruned, current, lock, disk, sel, cur, artifacts, victims, inUse>>

\* ... or TantivySearcher::build replaces the directory by an empty index ...
CreateTantivy(p) ==
  /\ At(p, "tantivy") /\ searcher[p] = None
  /\ present' = [present EXCEPT ![sel[p]] = TRUE]
  /\ tantivy' = [tantivy EXCEPT ![sel[p]] = Empty]
  /\ Goto(p, "index")
  /\ UNCHANGED <<source, pruned, current, lock, store, sig, idx, sel, cur, artifacts, victims, inUse>>

\* Mutant: the pointer is moved before the signature is written.
CommitTantivyAndPublish(p) ==
  /\ At(p, "index")
  /\ store[sel[p]] # None /\ tantivy[sel[p]] # None
  /\ tantivy' = [tantivy EXCEPT ![sel[p]] = store[sel[p]]]
  /\ searcher' = [searcher EXCEPT ![p] = store[sel[p]]]
  /\ current' = sel[p]
  /\ Goto(p, "sig")
  /\ UNCHANGED <<source, pruned, lock, present, store, sig, idx, sel, cur, opened,
                 derived, needsBuild, idxReused, victims, inUse>>

\* ... and commits the documents of the store it finds in the directory.
CommitTantivy(p) ==
  /\ At(p, "index")
  /\ store[sel[p]] # None /\ tantivy[sel[p]] # None
  /\ tantivy' = [tantivy EXCEPT ![sel[p]] = store[sel[p]]]
  /\ searcher' = [searcher EXCEPT ![p] = store[sel[p]]]
  /\ Goto(p, "sig")
  /\ UNCHANGED <<source, pruned, current, lock, present, store, sig, idx, sel, cur, opened,
                 derived, needsBuild, idxReused, victims, inUse>>

\* persist_storage_outputs, first the signature of a version just built ...
WriteManifestSignature(p) ==
  /\ At(p, "sig")
  /\ IF needsBuild[p]
       THEN present[sel[p]] /\ sig' = [sig EXCEPT ![sel[p]] = TRUE]
       ELSE UNCHANGED sig
  /\ Goto(p, "current")
  /\ UNCHANGED <<source, pruned, current, lock, present, store, tantivy, idx, sel, cur,
                 artifacts, victims, inUse>>

\* A file (the in-use lock, or one of a build) cannot be written or read back:
\* the directory was removed, or another build took its artifacts away.
BuildFails(p) ==
  /\ \/ pc[p] \in {"inuse", "store"} /\ ~present[sel[p]]
     \/ At(p, "index") /\ (store[sel[p]] = None \/ tantivy[sel[p]] = None)
     \/ At(p, "sig") /\ needsBuild[p] /\ ~present[sel[p]]
  /\ Leave(p, "failed")
  /\ UNCHANGED <<source, pruned, current, disk>>

\* ... then the pointer, also moved by a load that holds the lock and found
\* the version it wants built but not published ...
WriteCurrentVersion(p) ==
  /\ At(p, "current")
  /\ LET update == lock = p /\ p \notin ReadOnly /\ cur[p] # sel[p]
     IN  current' = IF needsBuild[p] \/ update THEN sel[p] ELSE current
  /\ Goto(p, "save")
  /\ UNCHANGED <<source, pruned, lock, disk, sel, cur, artifacts, victims, inUse>>

\* ... then indexes.rkyv (a failure is only logged), and the lock is dropped.
SaveIndexes(p) ==
  /\ At(p, "save")
  /\ \/ /\ ~idxReused[p] /\ p \notin ReadOnly /\ present[sel[p]]
        /\ idx' = [idx EXCEPT ![sel[p]] = derived[p]]
     \/ UNCHANGED idx
  /\ ReleaseBuildLock(p)
  /\ Goto(p, "serving")
  /\ cur' = [cur EXCEPT ![p] = None]
  /\ needsBuild' = [needsBuild EXCEPT ![p] = FALSE]
  /\ idxReused' = [idxReused EXCEPT ![p] = FALSE]
  /\ UNCHANGED <<source, pruned, current, present, store, tantivy, sig, sel, opened, searcher,
                 derived, victims, inUse>>

\* A step of the load returns an error (the parser, the vector, sparse and
\* reranker models, the file system), or its process dies.
Abort(p) ==
  /\ pc[p] \notin {"idle", "failed", "serving"}
  /\ Leave(p, "idle")
  /\ UNCHANGED <<source, pruned, current, disk>>

\* The search is replaced by a newer one, or its process ends.
DropSearch(p) ==
  /\ At(p, "serving")
  /\ Leave(p, "idle")
  /\ UNCHANGED <<source, pruned, current, disk>>

LoadStep(p) ==
  \/ FindLocklessStorageVersion(p)
  \/ TryAcquireBuildLock(p)
  \/ ServeCurrentOrWait(p)
  \/ AcquireBuildLock(p)
  \/ BuildLockTimeout(p)
  \/ LoadReusableArtifacts(p)
  \/ PruneScan(p)
  \/ PruneRemove(p)
  \/ CreateStorageDir(p)
  \/ AcquireInUseLocks(p)
  \/ ReuseStore(p)
  \/ ParseManifest(p)
  \/ FinishStore(p)
  \/ ReuseTantivy(p)
  \/ CreateTantivy(p)
  \/ CommitTantivy(p)
  \/ WriteManifestSignature(p)
  \/ BuildFails(p)
  \/ WriteCurrentVersion(p)
  \/ SaveIndexes(p)

Next ==
  \/ ChangeManifest
  \/ \E p \in Loaders : PrepareStorage(p) \/ LoadStep(p) \/ Abort(p) \/ DropSearch(p)

Spec == Init /\ [][Next]_vars

\* The refresh loop replaces a search whose version is not the source's.
RefreshSearch(p) == DropSearch(p) /\ sel[p] # source

\* Loads run on their own threads, the lock is polled every 250 ms, a failed
\* load is retried and a stale search refreshed at the next tick of the loop.
Fairness == \A p \in Loaders : /\ WF_vars(LoadStep(p))
                               /\ SF_vars(AcquireBuildLock(p))
                               /\ WF_vars(PrepareStorage(p))
                               /\ WF_vars(RefreshSearch(p))

FairSpec == Spec /\ Fairness

-----------------------------------------------------------------------------
(* Properties.                                                             *)

\* A load that will write the store, the index or the signature.
Building(p) ==
  needsBuild[p] /\ pc[p] \in Writing

\* Whoever writes a version directory holds the build lock: "only one process
\* builds indexes" (docs/development/architecture.md:277). A load that was
\* told it could read without the lock never ends up building, except a version
\* that pruning once removed: that the code does not prevent.
BuilderHoldsLock == \A p \in Loaders : Building(p) /\ sel[p] \notin pruned => lock = p

\* A signature certifies a version: it is written last, so whatever crash,
\* error or interleaving, a directory that has one has a store whose checksums
\* match and a committed Tantivy index, not one still being filled.
SignatureCertifies ==
  \A v \in Manifests : sig[v] => store[v] # None /\ tantivy[v] \in Manifests

\* The pointer is moved after the version it names is complete, and that
\* version stays: manifest.current.json never names a version without
\* signature.
PublishedIsSigned == current # None => sig[current]

\* "versions/ contains immutable, content-addressed index builds"
\* (docs/operations/ops.md:197): the entities, the search index and the
\* derived indexes of a live search all come from the manifest whose hash
\* names its version.
ContentAddressed ==
  \A p \in Loaders : At(p, "serving") =>
    /\ opened[p] = sel[p]
    /\ searcher[p] = sel[p]
    /\ derived[p] = sel[p]

\* The directory a lock holder builds in is not pruned under it, and its
\* in-use lock is on that directory: pruning is done under the build lock.
LockHolderKeepsItsDir ==
  \A p \in Loaders :
    lock = p /\ pc[p] \in Writing
      => inUse[p] = sel[p] /\ present[sel[p]]

Present == {v \in Manifests : present[v]}

\* "It always keeps at least DBT_NOVA_STORAGE_MIN_VERSIONS versions per
\* instance" (docs/operations/ops.md:208), as the code limits it: no removal
\* leaves fewer directories than the smaller of both limits.
PruneKeepsFloor ==
  [][\A p \in Loaders : PruneRemove(p) =>
       \/ Cardinality(Present') >= MinKeep
       \/ MaxKeep # 0 /\ Cardinality(Present') >= MaxKeep]_vars

\* ".in_use.lock protects active versions from pruning"
\* (docs/operations/ops.md:200): a load or search that holds the in-use lock of
\* its version keeps it until it ends.
InUseProtected ==
  [][\A p \in Loaders : inUse[p] # None /\ pc'[p] \notin {"idle", "failed"}
       => inUse'[p] = inUse[p]]_vars

Disturbance ==
  \/ ChangeManifest
  \/ \E p \in Loaders : \/ Abort(p)
                        \/ BuildLockTimeout(p)
                        \/ DropSearch(p) /\ sel[p] = source

\* Once the source keeps still, nothing crashes and builds end before others
\* stop waiting for the lock, every server ends up serving the source's
\* manifest, whatever half-built versions, stale pointers and fallbacks to an
\* older version came before.
ServedConverges ==
  <>[][~Disturbance]_vars =>
    <>[](\A p \in Loaders : At(p, "serving") /\ sel[p] = source)

-----------------------------------------------------------------------------
\* For TLC: the manifests are interchangeable; used where only safety is checked.
Symmetry == Permutations(Manifests)
=============================================================================
