---------------------------- MODULE PrebuiltAssets ----------------------------
(***************************************************************************)
(* Prebuilt storage and models: src/src/manifest/prebuilt_assets_resolver.rs, *)
(* as called by prepare_storage (src/src/manifest/loader.rs) and, for the  *)
(* bootstrap contract, by apply_bootstrap_defaults and by reloads.         *)
(*                                                                         *)
(* A producer publishes generations 1, 2, ...: a manifest and a bootstrap  *)
(* contract under a stable URI, and metadata, a storage archive and a      *)
(* models archive under URIs of the generation. Processes share a storage  *)
(* root and a models directory. The build lock and the artifact cache are  *)
(* inside the storage root and go where it goes.                           *)
(***************************************************************************)
EXTENDS Integers, FiniteSets

CONSTANTS
  Procs,         \* processes that share the storage root
  Generations,   \* published generations are 1 .. Generations
  FetchPolicy,   \* DBT_NOVA_ARTIFACT_FETCH_POLICY of the first runs
  Faults         \* bound on crashes, failing renames and outages together

ASSUME PrebuiltAssumption ==
  /\ Procs # {} /\ IsFiniteSet(Procs) /\ Generations \in Nat \ {0} /\ Faults \in Nat
  /\ FetchPolicy \in {"if_missing", "always"}

Gens == 1 .. Generations

VARIABLES
  published,   \* latest generation behind the stable URIs
  up,          \* the artifact store answers
  bad,         \* archives that do not pass validation
  root,        \* the storage root: [id, versions, boot, files]; id 0 for none
  models,      \* generation the models directory is valid for, 0 for none
  left,        \* what is in backups that no load will touch again
  cut,         \* history: places whose swap was cut short between its renames
  proc,        \* process -> its state
  faults

vars == <<published, up, bad, root, models, left, cut, proc, faults>>

Steps == {"idle", "bootstrap", "fetch_bootstrap", "lock", "wait", "metadata", "storage",
          "storage_out", "storage_in", "models", "models_out", "models_in", "load", "building"}

\* No directory; `boot` and `files` are what the artifact cache in it holds.
NoRoot == [id |-> 0, versions |-> {}, boot |-> 0, files |-> {}]

Init ==
  /\ published = 1 /\ up = TRUE /\ faults = 0
  /\ bad \in SUBSET ({"storage", "models"} \X (Gens \ {Generations}))
  /\ root = NoRoot /\ models = 0 /\ left = [versions |-> {}, models |-> {}] /\ cut = {}
  /\ proc = [p \in Procs |->
               [pc |-> "idle", policy |-> FetchPolicy, running |-> FALSE, gen |-> 0, manifest |-> 0,
                lock |-> 0, oldRoot |-> NoRoot, oldModels |-> 0, serves |-> 0]]

-----------------------------------------------------------------------------
(* The producer and the store.                                             *)

Publish ==
  /\ published < Generations /\ published' = published + 1
  /\ UNCHANGED <<up, bad, root, models, left, cut, proc, faults>>

Outage ==
  /\ up /\ faults < Faults /\ faults' = faults + 1 /\ up' = FALSE
  /\ UNCHANGED <<published, bad, root, models, left, cut, proc>>

Recover == ~up /\ up' = TRUE /\ UNCHANGED <<published, bad, root, models, left, cut, proc, faults>>

-----------------------------------------------------------------------------
(* One load of process p. A failing step ends it; p serves what it did.    *)

Set(p, s) == proc' = [proc EXCEPT ![p] = s]
Goto(p, step) == Set(p, [proc[p] EXCEPT !.pc = step])
Over(p) == [proc[p] EXCEPT !.pc = "idle", !.lock = 0, !.gen = 0, !.manifest = 0]
Fail(p) == Set(p, Over(p))
world == <<published, up, bad, left, cut, faults>>

\* An identity no directory has that someone still knows.
FreshId ==
  CHOOSE i \in 1 .. 2 * Cardinality(Procs) + 2 :
    i \notin {root.id} \cup UNION {{proc[q].lock, proc[q].oldRoot.id} : q \in Procs}

\* create_dir_all on the root or on a directory in it.
Made == IF root.id = 0 THEN [NoRoot EXCEPT !.id = FreshId] ELSE root

\* A start, or reload_manifest without arguments.
Begin(p) == proc[p].pc = "idle" /\ Goto(p, "bootstrap") /\ UNCHANGED <<world, root, models>>

\* Mutant: a reload looks the bootstrap contract up as a start does.
ReloadAsStart(p) == proc[p].policy

\* bootstrap_reload_fetch_policy: a server that runs fetches it anew.
BootstrapPolicy(p) == IF proc[p].running THEN "always" ELSE proc[p].policy

\* apply_bootstrap_defaults with the contract of generation g.
Bootstrapped(p, g) == Set(p, [proc[p] EXCEPT !.pc = "lock", !.gen = g, !.running = TRUE])

\* maybe_reuse_cached_artifact: "always" removes the copy before it fetches.
ResolveBootstrap(p) ==
  LET policy == BootstrapPolicy(p)
  IN  /\ proc[p].pc = "bootstrap" /\ UNCHANGED <<world, models>>
      /\ \/ policy # "always" /\ root.boot # 0 /\ Bootstrapped(p, root.boot) /\ UNCHANGED root
         \/ policy = "never" /\ root.boot = 0 /\ Fail(p) /\ UNCHANGED root
         \/ policy = "always" /\ root' = [Made EXCEPT !.boot = 0] /\ Goto(p, "fetch_bootstrap")
         \/ policy = "if_missing" /\ root.boot = 0 /\ root' = Made /\ Goto(p, "fetch_bootstrap")

\* fetch_remote_artifact for the contract.
FetchBootstrap(p) ==
  /\ proc[p].pc = "fetch_bootstrap" /\ UNCHANGED <<world, models>>
  /\ IF up THEN root' = [Made EXCEPT !.boot = published] /\ Bootstrapped(p, published)
           ELSE Fail(p) /\ UNCHANGED root

Holds(q, id) == proc[q].lock = id /\ proc[q].pc # "wait"

\* prepare_storage and select_storage_version_or_lock: the manifest, which may
\* have been replaced since the contract was fetched, is resolved and hashed
\* (ManifestCache has the details), the directories are made, and a version that
\* is there is served without the lock and without a look at the artifacts. The
\* lock file is the one in the root as it is now.
TakeLock(p) ==
  /\ proc[p].pc = "lock" /\ UNCHANGED <<world, models>>
  /\ \/ ~up /\ Fail(p) /\ UNCHANGED root
     \/ /\ root' = Made
        /\ IF published \in root.versions \/ proc[p].policy = "never"
             THEN Set(p, [proc[p] EXCEPT !.pc = "load", !.manifest = published])
             ELSE Set(p, [proc[p] EXCEPT !.lock = Made.id, !.manifest = published,
                            !.pc = IF \E q \in Procs \ {p} : Holds(q, Made.id) THEN "wait" ELSE "metadata"])

\* acquire_build_lock: p polls the file it opened, which may have been moved
\* aside with its directory in the meantime.
GetLock(p) ==
  /\ proc[p].pc = "wait" /\ ~ \E q \in Procs \ {p} : Holds(q, proc[p].lock)
  /\ Goto(p, "metadata") /\ UNCHANGED <<world, root, models>>

LockTimesOut(p) == proc[p].pc = "wait" /\ Fail(p) /\ UNCHANGED <<world, root, models>>

\* resolve_artifact_uri_to_local for a file of the generation: the root with
\* its cache afterwards, and whether there is a copy.
Resolved(p, file) ==
  LET f == <<file, proc[p].gen>>
      before == IF proc[p].policy = "always" THEN Made.files \ {f} ELSE Made.files
      ok == f \in before \/ up
  IN  [ok |-> ok, root |-> [Made EXCEPT !.files = IF ok THEN before \cup {f} ELSE before]]

\* validate_metadata_against_runtime: the hash of the manifest p loads.
MetadataMatches(p) == proc[p].gen = proc[p].manifest

\* materialize_file_artifacts_with_legacy_hash, up to the archives.
CheckMetadata(p) ==
  LET r == Resolved(p, "metadata")
  IN  /\ proc[p].pc = "metadata" /\ root' = r.root /\ UNCHANGED <<world, models>>
      /\ IF r.ok /\ MetadataMatches(p) THEN Goto(p, "storage") ELSE Fail(p)

\* should_materialize, should_materialize_models.
ShouldFetch(p, present) == proc[p].policy = "always" \/ ~present

\* storage_instance_present: any version, of whatever manifest, counts.
StoragePresent(p) == root.versions # {}

\* inspect_models_cache_presence.
ModelsPresent(p) == models = proc[p].manifest

\* Mutant: an archive is moved in as it comes.
AnyArchive(p, file) == TRUE

\* extract_archive_atomically_with_validation, up to the swap.
ArchiveValid(p, file) == <<file, proc[p].gen>> \notin bad

\* materialize_storage_artifact and materialize_models_artifact: the archive is
\* extracted into a stage directory beside the target.
Stage(p, file, present, out, after) ==
  LET r == Resolved(p, file)
  IN  /\ UNCHANGED <<world, models>>
      /\ IF ~ShouldFetch(p, present) THEN Goto(p, after) /\ UNCHANGED root
         ELSE /\ root' = r.root
              /\ IF r.ok /\ ArchiveValid(p, file) THEN Goto(p, out) ELSE Fail(p)

StageStorage(p) ==
  proc[p].pc = "storage" /\ Stage(p, "storage", StoragePresent(p), "storage_out", "models")

StageModels(p) ==
  proc[p].pc = "models" /\ Stage(p, "models", ModelsPresent(p), "models_out", "load")

\* Mutant: the old directory is removed, not moved aside.
MoveAwayForGood(p) ==
  /\ UNCHANGED world
  /\ \/ proc[p].pc = "storage_out" /\ root' = NoRoot /\ UNCHANGED models /\ Goto(p, "storage_in")
     \/ proc[p].pc = "models_out" /\ models' = 0 /\ UNCHANGED root /\ Goto(p, "models_in")

\* swap_directory_atomically, first rename: what is there becomes a backup.
MoveAside(p) ==
  /\ UNCHANGED world
  /\ \/ /\ proc[p].pc = "storage_out" /\ root' = NoRoot /\ UNCHANGED models
        /\ Set(p, [proc[p] EXCEPT !.pc = "storage_in", !.oldRoot = root])
     \/ /\ proc[p].pc = "models_out" /\ models' = 0 /\ UNCHANGED root
        /\ Set(p, [proc[p] EXCEPT !.pc = "models_in", !.oldModels = models])

\* Second rename, and the removal of the backup.
MoveIn(p) ==
  /\ UNCHANGED world
  /\ \/ /\ proc[p].pc = "storage_in" /\ root.id = 0 /\ UNCHANGED models
        /\ root' = [NoRoot EXCEPT !.id = FreshId, !.versions = {proc[p].gen}]
        /\ Set(p, [proc[p] EXCEPT !.pc = "models", !.oldRoot = NoRoot])
     \/ /\ proc[p].pc = "models_in" /\ models = 0 /\ models' = proc[p].gen /\ UNCHANGED root
        /\ Set(p, [proc[p] EXCEPT !.pc = "load", !.oldModels = 0])

\* A load that ends in a swap; its backup is no longer in its hands.
Dropped(p) == [Over(p) EXCEPT !.oldRoot = NoRoot, !.oldModels = 0]

\* The backups of p stay on disk, under a name nothing in the code looks for.
LeftBy(p) ==
  [versions |-> left.versions \cup proc[p].oldRoot.versions,
   models |-> left.models \cup ({proc[p].oldModels} \ {0})]

\* The place p has emptied and not filled again.
Emptied(p) ==
  {place \in {"storage", "models"} :
     \/ place = "storage" /\ proc[p].pc = "storage_in" /\ proc[p].oldRoot.id # 0
     \/ place = "models" /\ proc[p].pc = "models_in" /\ proc[p].oldModels # 0}

\* The place p is to move into has been filled by another process.
Taken(p) == IF proc[p].pc = "storage_in" THEN root.id # 0 ELSE models # 0

\* Mutant: the load ends without putting the backup back.
NoRollBack(p) ==
  /\ proc[p].pc \in {"storage_in", "models_in"} /\ Set(p, Dropped(p)) /\ left' = LeftBy(p)
  /\ Taken(p) \/ faults < Faults
  /\ faults' = IF Taken(p) THEN faults ELSE faults + 1
  /\ UNCHANGED <<published, up, bad, root, models, cut>>

\* The second rename fails: another process has made the directory again, or
\* the file system refuses. The backup is moved back where that is possible:
\* not onto the other directory, and not if the file system refuses again.
MoveInFails(p) ==
  /\ proc[p].pc \in {"storage_in", "models_in"} /\ Set(p, Dropped(p))
  /\ UNCHANGED <<published, up, bad>>
  /\ \/ /\ Taken(p) /\ left' = LeftBy(p) /\ UNCHANGED <<root, models, cut, faults>>
     \/ /\ ~Taken(p) /\ faults < Faults /\ faults' = faults + 1 /\ UNCHANGED <<left, cut>>
        /\ root' = IF proc[p].pc = "storage_in" THEN proc[p].oldRoot ELSE root
        /\ models' = IF proc[p].pc = "models_in" THEN proc[p].oldModels ELSE models
     \/ /\ ~Taken(p) /\ faults < Faults /\ faults' = faults + 1
        /\ left' = LeftBy(p) /\ cut' = cut \cup Emptied(p) /\ UNCHANGED <<root, models>>

\* The rest of load_manifest (VersionedStorage): the version is opened, or
\* built and then opened; a configuration that only reads never builds.
Open(p) ==
  /\ proc[p].pc = "load" /\ UNCHANGED <<world, root, models>>
  /\ IF proc[p].manifest \in root.versions THEN
            Set(p, [Over(p) EXCEPT !.serves = proc[p].manifest])
     ELSE IF proc[p].policy = "never" THEN Fail(p)
     ELSE Goto(p, "building")

\* The version is built and published.
Build(p) ==
  /\ proc[p].pc = "building" /\ UNCHANGED <<world, models>>
  /\ root' = [Made EXCEPT !.versions = @ \cup {proc[p].manifest}]
  /\ Set(p, [Over(p) EXCEPT !.serves = proc[p].manifest])

\* The process dies: its locks are gone, its backups stay where they are.
Crash(p) ==
  /\ proc[p].pc # "idle" /\ faults < Faults /\ faults' = faults + 1
  /\ Set(p, [Dropped(p) EXCEPT !.serves = 0, !.running = FALSE])
  /\ left' = LeftBy(p) /\ cut' = cut \cup Emptied(p) /\ UNCHANGED <<published, up, bad, root, models>>

\* The operator restarts a process that has served with the storage read-only
\* and the fetch policy "never".
GoOffline(p) ==
  /\ proc[p].pc = "idle" /\ proc[p].serves # 0 /\ proc[p].policy # "never"
  /\ Set(p, [proc[p] EXCEPT !.policy = "never", !.serves = 0, !.running = FALSE])
  /\ UNCHANGED <<world, root, models>>

Work(p) ==
  \/ ResolveBootstrap(p) \/ FetchBootstrap(p) \/ TakeLock(p) \/ GetLock(p) \/ CheckMetadata(p)
  \/ StageStorage(p) \/ StageModels(p) \/ MoveAside(p) \/ MoveIn(p) \/ MoveInFails(p)
  \/ Open(p) \/ Build(p)

Next ==
  \/ Publish \/ Outage \/ Recover
  \/ \E p \in Procs : Begin(p) \/ Work(p) \/ LockTimesOut(p) \/ Crash(p) \/ GoOffline(p)

\* A load that has begun goes on, and the store comes back.
Spec == Init /\ [][Next]_vars /\ WF_vars(Recover) /\ \A p \in Procs : WF_vars(Work(p))

-----------------------------------------------------------------------------
ProcStates ==
  [pc : Steps, policy : {"if_missing", "always", "never"}, running : BOOLEAN,
   gen : 0 .. Generations, manifest : 0 .. Generations, lock : Nat,
   oldRoot : [id : Nat, versions : SUBSET Gens, boot : 0 .. Generations,
              files : SUBSET ({"metadata", "storage", "models"} \X Gens)],
   oldModels : 0 .. Generations, serves : 0 .. Generations]

TypeOK ==
  /\ published \in Gens /\ up \in BOOLEAN /\ bad \subseteq {"storage", "models"} \X Gens
  /\ root.id \in Nat /\ root.versions \subseteq Gens /\ root.boot \in 0 .. Generations
  /\ root.files \subseteq {"metadata", "storage", "models"} \X Gens
  /\ models \in 0 .. Generations
  /\ left \in [versions : SUBSET Gens, models : SUBSET Gens] /\ cut \subseteq {"storage", "models"}
  /\ \A p \in Procs : proc[p] \in ProcStates /\ faults \in 0 .. Faults

\* What is on disk of the storage versions and of the models: in its place, in
\* the backup of a swap under way, or in one that was left behind.
VersionsOnDisk == root.versions \cup left.versions \cup UNION {proc[p].oldRoot.versions : p \in Procs}
ModelsOnDisk == ({models} \cup left.models \cup {proc[p].oldModels : p \in Procs}) \ {0}

\* A directory that is replaced is there, in its place or as a backup, until the
\* one that replaces it is in its place: no failure and no crash on the way
\* takes it from the disk.
NothingLost ==
  [][/\ \A v \in VersionsOnDisk \ VersionsOnDisk' : root.id = 0 /\ root'.versions # {}
     /\ \A m \in ModelsOnDisk \ ModelsOnDisk' : models = 0 /\ models' # 0]_vars

\* A backup is put back when its swap fails: a place is empty while what was in
\* it lies in a backup only as long as a load is between its two renames, or
\* after a process died there or the file system refused to put it back too.
\* Those two the code does not recover from (the next load fetches or builds
\* anew, and the backup is never looked at).
PutBack ==
  /\ root.id = 0 /\ left.versions # {} => "storage" \in cut \cup UNION {Emptied(p) : p \in Procs}
  /\ models = 0 /\ left.models # {} => "models" \in cut \cup UNION {Emptied(p) : p \in Procs}

\* What is moved into place has been validated, and for the manifest that the
\* load is about: a version that is there in a new directory came in a valid
\* archive, or back with a backup, or was built on the spot.
OnlyValidArchives ==
  [][/\ models' \notin {0, models} => <<"models", models'>> \notin bad
     /\ root'.id # root.id => \A v \in root'.versions :
          \/ <<"storage", v>> \notin bad
          \/ \E p \in Procs : v \in proc[p].oldRoot.versions
          \/ \E p \in Procs : proc[p].pc = "building" /\ proc'[p].serves = v]_vars

\* Replacing a directory by two renames (swap_directory_atomically), with a crash
\* or a failure between them: nothing is lost, what fails is put back, and
\* nothing unchecked comes in.
SwapsAreSafe == [](TypeOK /\ PutBack) /\ NothingLost /\ OnlyValidArchives

\* A server whose reload_manifest is called again and again while the others
\* load nothing adopts the last generation, whatever it finds in the caches,
\* unless it was taken offline.
AdoptsLatest ==
  \A p \in Procs :
    /\ <>[](/\ published = Generations /\ proc[p].policy # "never"
            /\ \A q \in Procs \ {p} : proc[q].pc = "idle")
    /\ []<>(proc[p].pc = "bootstrap")
    => <>[](proc[p].serves = Generations)

\* docs/operations/prebuilt-assets.md: a strict read-only start works once the
\* artifacts exist locally from a previous writable run.
OfflineReuse ==
  [][\A p \in Procs :
       /\ proc[p].policy = "never" /\ proc[p].pc # "idle" /\ proc'[p].pc = "idle"
       /\ published = 1 /\ faults = 0 /\ bad = {}
       => proc'[p].serves # 0]_vars
=============================================================================
