----------------------- MODULE VersionedStorageProofs -----------------------
(***************************************************************************)
(* Theorems about VersionedStorage for every number of loaders, every set  *)
(* of manifests and, where they do not say otherwise, every retention      *)
(* limit.                                                                  *)
(***************************************************************************)
EXTENDS VersionedStorage, FiniteSetTheorems, TLAPS

-----------------------------------------------------------------------------
(* Types.                                                                  *)

\* The first state, an empty instance directory, is of the types.
LEMMA TypeInit == Init => TypeOK
BY DEF Init, TypeOK, PC, MaybeManifest

\* Every step keeps the types, whatever the action and its error paths.
LEMMA TypeStep == TypeOK /\ [Next]_vars => TypeOK'
<1> SUFFICES ASSUME TypeOK, [Next]_vars PROVE TypeOK'
  OBVIOUS
<1> USE ConstantAssumption DEF TypeOK, PC, MaybeManifest, At, Goto,
        disk, artifacts, locals
<1>1. CASE ChangeManifest
  BY <1>1 DEF ChangeManifest
<1>2. ASSUME NEW p \in Loaders, PrepareStorage(p) PROVE TypeOK'
  BY <1>2 DEF PrepareStorage
<1>3. ASSUME NEW p \in Loaders, FindLocklessStorageVersion(p) PROVE TypeOK'
  BY <1>3 DEF FindLocklessStorageVersion
<1>4. ASSUME NEW p \in Loaders, TryAcquireBuildLock(p) PROVE TypeOK'
  BY <1>4 DEF TryAcquireBuildLock
<1>5. ASSUME NEW p \in Loaders, ServeCurrentOrWait(p) PROVE TypeOK'
  BY <1>5 DEF ServeCurrentOrWait
<1>6. ASSUME NEW p \in Loaders, AcquireBuildLock(p) PROVE TypeOK'
  BY <1>6 DEF AcquireBuildLock
<1>7. ASSUME NEW p \in Loaders, NEW step \in PC, Leave(p, step),
             step \in {"idle", "failed"}, present' \in [Manifests -> BOOLEAN],
             UNCHANGED <<source, pruned, current, store, tantivy, sig, idx>>
      PROVE TypeOK'
  BY <1>7 DEF Leave, ReleaseBuildLock
<1>8. ASSUME NEW p \in Loaders, LoadReusableArtifacts(p) PROVE TypeOK'
  BY <1>8 DEF LoadReusableArtifacts, OpenReusableArtifacts
<1>9. ASSUME NEW p \in Loaders, PruneScan(p) PROVE TypeOK'
  BY <1>9 DEF PruneScan
<1>10. ASSUME NEW p \in Loaders, PruneRemove(p) PROVE TypeOK'
  BY <1>10 DEF PruneRemove
<1>11a. ASSUME NEW p \in Loaders, CreateStorageDir(p) PROVE TypeOK'
  BY <1>11a DEF CreateStorageDir
<1>11. ASSUME NEW p \in Loaders, AcquireInUseLocks(p) PROVE TypeOK'
  <2>1. CASE p \in ReadOnly /\ needsBuild[p]
    BY <1>7, <1>11, <2>1 DEF AcquireInUseLocks
  <2>2. CASE ~(p \in ReadOnly /\ needsBuild[p])
    BY <1>11, <2>2 DEF AcquireInUseLocks
  <2> QED
    BY <2>1, <2>2
<1>12. ASSUME NEW p \in Loaders, ReuseStore(p) PROVE TypeOK'
  BY <1>12 DEF ReuseStore
<1>13. ASSUME NEW p \in Loaders, ParseManifest(p) PROVE TypeOK'
  BY <1>13 DEF ParseManifest
<1>14. ASSUME NEW p \in Loaders, FinishStore(p) PROVE TypeOK'
  BY <1>14 DEF FinishStore
<1>15. ASSUME NEW p \in Loaders, ReuseTantivy(p) \/ CreateTantivy(p) PROVE TypeOK'
  <2>1. CASE ReuseTantivy(p)
    BY <2>1 DEF ReuseTantivy
  <2>2. CASE CreateTantivy(p)
    BY <2>2 DEF CreateTantivy
  <2> QED
    BY <1>15, <2>1, <2>2
<1>16. ASSUME NEW p \in Loaders, CommitTantivy(p) PROVE TypeOK'
  BY <1>16 DEF CommitTantivy
<1>17. ASSUME NEW p \in Loaders, WriteManifestSignature(p) PROVE TypeOK'
  <2>1. sig' \in [Manifests -> BOOLEAN] /\ pc' \in [Loaders -> PC]
    BY <1>17 DEF WriteManifestSignature
  <2> QED
    BY <1>17, <2>1 DEF WriteManifestSignature
<1>18. ASSUME NEW p \in Loaders, WriteCurrentVersion(p) PROVE TypeOK'
  BY <1>18 DEF WriteCurrentVersion
<1>19. ASSUME NEW p \in Loaders, SaveIndexes(p) PROVE TypeOK'
  BY <1>19 DEF SaveIndexes, ReleaseBuildLock
<1>20. ASSUME NEW p \in Loaders,
              BuildLockTimeout(p) \/ BuildFails(p) \/ Abort(p) \/ DropSearch(p)
       PROVE TypeOK'
  BY <1>7, <1>20 DEF BuildLockTimeout, BuildFails, Abort, DropSearch
<1>21. CASE UNCHANGED vars
  BY <1>21 DEF vars
<1> QED
  BY <1>1, <1>2, <1>3, <1>4, <1>5, <1>6, <1>8, <1>9, <1>10, <1>11, <1>11a, <1>12, <1>13,
     <1>14, <1>15, <1>16, <1>17, <1>18, <1>19, <1>20, <1>21 DEF Next, LoadStep

\* Type correctness of the storage model.
THEOREM TypeCorrect == Spec => []TypeOK
BY TypeInit, TypeStep, PTL DEF Spec

-----------------------------------------------------------------------------
(* The directory of a lock holder.                                         *)

\* Only the holder of the build lock prunes, and what it holds is in place.
PruneInv ==
  /\ \A p \in Loaders : pc[p] \in {"scan", "prune"} => lock = p
  /\ LockHolderKeepsItsDir

\* Only the lock holder comes to prune, and it prunes neither its own directory
\* nor one it found in use.
LEMMA PruneStep == TypeOK /\ PruneInv /\ [Next]_vars => PruneInv'
<1> SUFFICES ASSUME TypeOK, PruneInv, [Next]_vars PROVE PruneInv'
  OBVIOUS
<1> USE ConstantAssumption DEF TypeOK, PruneInv, LockHolderKeepsItsDir, Writing,
        MaybeManifest, At, Goto, disk, artifacts, locals
<1>1. CASE ChangeManifest
  BY <1>1 DEF ChangeManifest
<1>2. ASSUME NEW p \in Loaders, PrepareStorage(p) PROVE PruneInv'
  BY <1>2 DEF PrepareStorage
<1>3. ASSUME NEW p \in Loaders,
             FindLocklessStorageVersion(p) \/ TryAcquireBuildLock(p)
               \/ ServeCurrentOrWait(p) \/ AcquireBuildLock(p)
      PROVE PruneInv'
  BY <1>3 DEF FindLocklessStorageVersion, TryAcquireBuildLock, ServeCurrentOrWait,
              AcquireBuildLock
<1>4. ASSUME NEW p \in Loaders, NEW step \in {"idle", "failed"}, Leave(p, step),
             UNCHANGED <<source, current, store, tantivy, sig, idx>>,
             \A v \in Manifests : present[v] => present'[v]
      PROVE PruneInv'
  BY <1>4 DEF Leave, ReleaseBuildLock
<1>5. ASSUME NEW p \in Loaders, LoadReusableArtifacts(p) PROVE PruneInv'
  BY <1>5 DEF LoadReusableArtifacts
<1>6. ASSUME NEW p \in Loaders, PruneScan(p) PROVE PruneInv'
  BY <1>6 DEF PruneScan
<1>7. ASSUME NEW p \in Loaders, PruneRemove(p) PROVE PruneInv'
  BY <1>7 DEF PruneRemove
<1>8a. ASSUME NEW p \in Loaders, CreateStorageDir(p) PROVE PruneInv'
  BY <1>8a DEF CreateStorageDir
<1>8. ASSUME NEW p \in Loaders, AcquireInUseLocks(p) PROVE PruneInv'
  <2>1. \A v \in Manifests : present[v] => present'[v]
    BY <1>8 DEF AcquireInUseLocks
  <2>2. CASE p \in ReadOnly /\ needsBuild[p]
    BY <1>4, <1>8, <2>1, <2>2 DEF AcquireInUseLocks
  <2>3. CASE ~(p \in ReadOnly /\ needsBuild[p])
    BY <1>8, <2>3 DEF AcquireInUseLocks
  <2> QED
    BY <2>2, <2>3
<1>9. ASSUME NEW p \in Loaders, ReuseStore(p) \/ ParseManifest(p) \/ FinishStore(p)
      PROVE PruneInv'
  BY <1>9 DEF ReuseStore, ParseManifest, FinishStore
<1>10. ASSUME NEW p \in Loaders, ReuseTantivy(p) \/ CreateTantivy(p) \/ CommitTantivy(p)
       PROVE PruneInv'
  BY <1>10 DEF ReuseTantivy, CreateTantivy, CommitTantivy
<1>11. ASSUME NEW p \in Loaders,
              WriteManifestSignature(p) \/ WriteCurrentVersion(p) \/ SaveIndexes(p)
       PROVE PruneInv'
  BY <1>11 DEF WriteManifestSignature, WriteCurrentVersion, SaveIndexes, ReleaseBuildLock
<1>12. ASSUME NEW p \in Loaders,
              BuildLockTimeout(p) \/ BuildFails(p) \/ Abort(p) \/ DropSearch(p)
       PROVE PruneInv'
  BY <1>4, <1>12 DEF BuildLockTimeout, BuildFails, Abort, DropSearch
<1>13. CASE UNCHANGED vars
  BY <1>13 DEF vars
<1> QED
  BY <1>1, <1>2, <1>3, <1>5, <1>6, <1>7, <1>8, <1>8a, <1>9, <1>10, <1>11, <1>12, <1>13
  DEF Next, LoadStep

\* Whatever the retention limits, the version directory a lock holder builds
\* in stays in place, with its in-use lock, until the load ends: no other load
\* can be pruning, because prune_storage_versions runs under the build lock.
THEOREM LockHolderSafe == Spec => []LockHolderKeepsItsDir
<1>1. Init => PruneInv
  BY ConstantAssumption DEF Init, PruneInv, LockHolderKeepsItsDir, Writing
<1>2. PruneInv => LockHolderKeepsItsDir
  BY DEF PruneInv
<1> QED
  BY <1>1, <1>2, TypeCorrect, PruneStep, PTL DEF Spec

-----------------------------------------------------------------------------
(* How far pruning goes.                                                    *)

\* Enough versions to keep: the smaller of both limits.
Enough(n) == n >= MinKeep \/ (MaxKeep # 0 /\ n >= MaxKeep)

Kept(p) == Present \ victims[p]

\* While a load removes what it selected, what it did not select is enough.
FloorInv == \A p \in Loaders : pc[p] = "prune" => Enough(Cardinality(Kept(p)))

\* More directories are also enough.
LEMMA EnoughGrows ==
  ASSUME NEW S, NEW T, S \subseteq T, IsFiniteSet(T), Enough(Cardinality(S))
  PROVE  Enough(Cardinality(T))
<1>1. IsFiniteSet(S) /\ Cardinality(S) <= Cardinality(T)
  BY FS_Subset
<1>2. Cardinality(S) \in Nat /\ Cardinality(T) \in Nat
  BY <1>1, FS_CardinalityType
<1> QED
  BY <1>1, <1>2, ConstantAssumption DEF Enough

\* The scan selects no more than the limits allow, whatever else is excluded.
LEMMA ScanLeavesEnough ==
  ASSUME TypeOK, NEW p \in Loaders, PruneScan(p), pc'[p] = "prune"
  PROVE  Enough(Cardinality(Kept(p)'))
<1> DEFINE cands == {v \in Manifests : present[v] /\ v \notin {cur[p], sel[p]} /\ ~DirInUse(v)}
<1>1. PICK vs \in SUBSET cands :
        /\ Cardinality(vs) \in RemovalCounts(Cardinality(cands))
        /\ victims' = [victims EXCEPT ![p] = vs]
        /\ Goto(p, IF vs = {} THEN "mkdir" ELSE "prune")
  BY DEF PruneScan
<1>2. IsFiniteSet(cands) /\ IsFiniteSet(vs) /\ IsFiniteSet(cands \ vs) /\ IsFiniteSet(Present)
  BY <1>1, ConstantAssumption, FS_Subset DEF Present
<1>3. Kept(p)' = Present \ vs /\ vs # {}
  BY <1>1 DEF Kept, Present, PruneScan, TypeOK, Goto, disk
<1>4. cands \ vs \subseteq Present \ vs /\ IsFiniteSet(Present \ vs)
  BY <1>2, FS_Subset DEF Present
<1>5. cands \cap vs = vs
  BY <1>1
<1> HIDE DEF cands
<1>6. Cardinality(cands \ vs) = Cardinality(cands) - Cardinality(vs)
  BY <1>2, <1>5, FS_Difference
<1>7. Cardinality(cands) \in Nat /\ Cardinality(vs) \in Nat /\ Cardinality(vs) # 0
  BY <1>2, <1>3, FS_CardinalityType, FS_EmptySet
<1>8. Enough(Cardinality(cands \ vs))
  <2> DEFINE n == Cardinality(cands)
             m == Cardinality(vs)
  <2>1. m \in RemovalCounts(n) /\ n \in Nat /\ m \in Nat /\ m # 0 /\ Cardinality(cands \ vs) = n - m
    BY <1>1, <1>6, <1>7
  <2> HIDE DEF n, m
  <2>2. Enough(n - m)
    BY <2>1, ConstantAssumption DEF RemovalCounts, Enough
  <2> QED
    BY <2>1, <2>2
<1> QED
  BY <1>3, <1>4, <1>8, EnoughGrows

\* Only the lock holder prunes, so meanwhile directories only come.
LEMMA FloorStep == TypeOK /\ PruneInv /\ FloorInv /\ [Next]_vars => FloorInv'
<1> SUFFICES ASSUME TypeOK, PruneInv, FloorInv, [Next]_vars, NEW q \in Loaders, pc'[q] = "prune"
             PROVE  Enough(Cardinality(Kept(q)'))
  BY DEF FloorInv
<1>1. ASSUME pc[q] = "prune", Kept(q) \subseteq Kept(q)', TypeOK' PROVE Enough(Cardinality(Kept(q)'))
  <2>1. IsFiniteSet(Kept(q)')
    BY ConstantAssumption, FS_Subset DEF Kept, Present
  <2> QED
    BY <1>1, <2>1, EnoughGrows DEF FloorInv
<1>2. TypeOK'
  BY TypeStep
<1>3. ASSUME NEW p \in Loaders, PruneScan(p) PROVE Enough(Cardinality(Kept(q)'))
  <2>1. CASE p = q
    BY <1>3, <2>1, ScanLeavesEnough
  <2>2. CASE p # q
    BY <1>1, <1>2, <1>3, <2>2 DEF PruneScan, TypeOK, Goto, Kept, Present, disk
  <2> QED
    BY <2>1, <2>2
<1>4. ASSUME NEW p \in Loaders, PruneRemove(p) PROVE Enough(Cardinality(Kept(q)'))
  <2>1. pc[q] = "prune" /\ p = q
    BY <1>4 DEF PruneRemove, PruneInv, TypeOK, At, Goto
  <2>2. Kept(q) \subseteq Kept(q)'
    BY <1>4, <2>1 DEF PruneRemove, TypeOK, Kept, Present
  <2> QED
    BY <1>1, <1>2, <2>1, <2>2
<1>5. ASSUME pc[q] = "prune", victims'[q] = victims[q], \A v \in Manifests : present[v] => present'[v]
      PROVE  Enough(Cardinality(Kept(q)'))
  BY <1>1, <1>2, <1>5 DEF Kept, Present
<1> USE DEF TypeOK, At, Goto, disk, artifacts, locals
<1>6. CASE ChangeManifest \/ UNCHANGED vars
  BY <1>5, <1>6 DEF ChangeManifest, vars
<1>7. ASSUME NEW p \in Loaders, NEW step \in {"idle", "failed"}, Leave(p, step),
             UNCHANGED present
      PROVE  Enough(Cardinality(Kept(q)'))
  BY <1>5, <1>7 DEF Leave
<1>8. ASSUME NEW p \in Loaders,
             \/ PrepareStorage(p) \/ FindLocklessStorageVersion(p) \/ TryAcquireBuildLock(p)
             \/ ServeCurrentOrWait(p) \/ AcquireBuildLock(p) \/ LoadReusableArtifacts(p)
      PROVE  Enough(Cardinality(Kept(q)'))
  BY <1>5, <1>8 DEF PrepareStorage, FindLocklessStorageVersion, TryAcquireBuildLock, ServeCurrentOrWait,
                    AcquireBuildLock, LoadReusableArtifacts, OpenReusableArtifacts
<1>9. ASSUME NEW p \in Loaders, CreateStorageDir(p) \/ ParseManifest(p) \/ CreateTantivy(p)
      PROVE  Enough(Cardinality(Kept(q)'))
  BY <1>5, <1>9 DEF CreateStorageDir, ParseManifest, CreateTantivy
<1>10. ASSUME NEW p \in Loaders, AcquireInUseLocks(p) PROVE Enough(Cardinality(Kept(q)'))
  <2>1. CASE p \in ReadOnly /\ needsBuild[p]
    BY <1>7, <1>10, <2>1 DEF AcquireInUseLocks
  <2>2. CASE ~(p \in ReadOnly /\ needsBuild[p])
    BY <1>5, <1>10, <2>2 DEF AcquireInUseLocks
  <2> QED
    BY <2>1, <2>2
<1>11. ASSUME NEW p \in Loaders,
              \/ ReuseStore(p) \/ FinishStore(p) \/ ReuseTantivy(p) \/ CommitTantivy(p)
              \/ WriteManifestSignature(p) \/ WriteCurrentVersion(p) \/ SaveIndexes(p)
       PROVE  Enough(Cardinality(Kept(q)'))
  BY <1>5, <1>11 DEF ReuseStore, FinishStore, ReuseTantivy, CommitTantivy, WriteManifestSignature,
                     WriteCurrentVersion, SaveIndexes
<1>12. ASSUME NEW p \in Loaders,
              BuildLockTimeout(p) \/ BuildFails(p) \/ Abort(p) \/ DropSearch(p)
       PROVE  Enough(Cardinality(Kept(q)'))
  BY <1>7, <1>12 DEF BuildLockTimeout, BuildFails, Abort, DropSearch
<1> QED
  BY <1>3, <1>4, <1>6, <1>8, <1>9, <1>10, <1>11, <1>12 DEF Next, LoadStep

\* No removal leaves fewer version directories than the smaller of
\* storage_min_versions and storage_max_instances, for every pair of limits and
\* whatever is built while prune_dirs removes.
THEOREM FloorKept == Spec => PruneKeepsFloor
<1>1. Init => FloorInv
  BY DEF Init, FloorInv
<1>2. Init => PruneInv
  BY ConstantAssumption DEF Init, PruneInv, LockHolderKeepsItsDir, Writing
<1>3. TypeOK /\ PruneInv /\ FloorInv /\ [Next]_vars =>
        [\A p \in Loaders : PruneRemove(p) =>
           \/ Cardinality(Present') >= MinKeep
           \/ MaxKeep # 0 /\ Cardinality(Present') >= MaxKeep]_vars
  <2> SUFFICES ASSUME TypeOK, PruneInv, FloorInv, [Next]_vars, NEW p \in Loaders, PruneRemove(p)
               PROVE  Enough(Cardinality(Present'))
    BY DEF Enough
  <2>1. Kept(p) \subseteq Present'
    BY DEF PruneRemove, Kept, Present, TypeOK
  <2>2. IsFiniteSet(Present')
    BY ConstantAssumption, FS_Subset DEF Present
  <2>3. Enough(Cardinality(Kept(p)))
    BY DEF FloorInv, PruneRemove, At
  <2> QED
    BY <2>1, <2>2, <2>3, EnoughGrows
<1> QED
  BY <1>1, <1>2, <1>3, FloorStep, PruneStep, TypeCorrect, PTL DEF Spec, PruneKeepsFloor

-----------------------------------------------------------------------------
(* Builds, whatever is pruned: what is said of a version is said as long as *)
(* pruning has never removed it.                                            *)

Preparing == {"scan", "prune", "mkdir", "inuse", "parse"}

\* A load that goes on without the lock has selected a complete version, and
\* the version stays complete.
LocklessIsComplete ==
  \A p \in Loaders : pc[p] \in {"reuse", "mkdir", "inuse"} \cup Writing /\ lock # p /\ sel[p] \notin pruned =>
    HasLocklessReadArtifacts(sel[p])

\* A load that will build holds the lock, and its version has no signature
\* until its own; one that will not build found a signature.
BuildersAndReaders ==
  \A p \in Loaders :
    /\ pc[p] \in {"scan", "prune"} => lock = p
    /\ sel[p] \notin pruned =>
         /\ pc[p] \in Preparing \cup Writing /\ needsBuild[p] => lock = p
         /\ pc[p] \in Preparing /\ needsBuild[p] => opened[p] = None /\ searcher[p] = None
         /\ pc[p] \in Preparing \cup {"store", "tantivy", "index", "sig"} /\ needsBuild[p] =>
              ~sig[sel[p]]
         /\ pc[p] \in Preparing \cup Writing /\ ~needsBuild[p] =>
              sig[sel[p]] /\ opened[p] # None /\ searcher[p] # None

\* How far a build has come, in the order store, index, signature.
BuildProgress ==
  \A p \in Loaders :
    /\ pc[p] \in Writing \ {"parse"} => derived[p] \in Manifests
    /\ sel[p] \notin pruned =>
         /\ pc[p] \in {"store", "tantivy"} /\ needsBuild[p] => searcher[p] = None
         /\ pc[p] \in {"tantivy", "index", "sig"} /\ needsBuild[p] => store[sel[p]] # None
         /\ pc[p] = "sig" /\ needsBuild[p] => tantivy[sel[p]] \in Manifests
         /\ pc[p] \in {"current", "save"} /\ needsBuild[p] => sig[sel[p]]

\* SignatureCertifies and PublishedIsSigned for versions that were not pruned.
SignedIsComplete ==
  \A v \in Manifests \ pruned : sig[v] => store[v] # None /\ tantivy[v] \in Manifests

PointerIsSigned == current # None /\ current \notin pruned => sig[current]

BuildInv ==
  /\ LocklessIsComplete
  /\ BuildersAndReaders
  /\ BuildProgress
  /\ SignedIsComplete
  /\ PointerIsSigned

\* Every step keeps the order store, index, signature, pointer, and lets nobody
\* without the lock into it.
LEMMA BuildStep == TypeOK /\ BuildInv /\ [Next]_vars => BuildInv'
<1> SUFFICES ASSUME TypeOK, BuildInv, [Next]_vars PROVE BuildInv'
  OBVIOUS
<1> USE ConstantAssumption
    DEF TypeOK, BuildInv, LocklessIsComplete, BuildersAndReaders,
        BuildProgress, SignedIsComplete, PointerIsSigned,
        HasLocklessReadArtifacts, Preparing, Writing, MaybeManifest, At, Goto,
        disk, artifacts, locals
<1>1. CASE ChangeManifest
  BY <1>1 DEF ChangeManifest
<1>2. ASSUME NEW p \in Loaders, NEW step \in {"idle", "failed"}, Leave(p, step),
             UNCHANGED <<source, pruned, current, store, tantivy, sig, idx>>
      PROVE BuildInv'
  BY <1>2 DEF Leave, ReleaseBuildLock
<1>3. ASSUME NEW p \in Loaders, PrepareStorage(p) PROVE BuildInv'
  BY <1>3 DEF PrepareStorage
<1>4. ASSUME NEW p \in Loaders, FindLocklessStorageVersion(p) PROVE BuildInv'
  BY <1>4 DEF FindLocklessStorageVersion
<1>5. ASSUME NEW p \in Loaders, TryAcquireBuildLock(p) PROVE BuildInv'
  BY <1>5 DEF TryAcquireBuildLock
<1>6. ASSUME NEW p \in Loaders, ServeCurrentOrWait(p) PROVE BuildInv'
  BY <1>6 DEF ServeCurrentOrWait
<1>7. ASSUME NEW p \in Loaders, AcquireBuildLock(p) PROVE BuildInv'
  BY <1>7 DEF AcquireBuildLock
<1>8. ASSUME NEW p \in Loaders, LoadReusableArtifacts(p) PROVE BuildInv'
  <2>2. LocklessIsComplete'
    BY <1>8 DEF LoadReusableArtifacts, OpenReusableArtifacts
  <2>3. BuildersAndReaders'
    <3>1. /\ sel[p] \in Manifests
          /\ sel[p] \notin pruned => needsBuild'[p] = ~sig[sel[p]]
          /\ ~sig[sel[p]] => opened'[p] = None /\ searcher'[p] = None
          /\ sig[sel[p]] /\ sel[p] \notin pruned => opened'[p] # None /\ searcher'[p] # None
      BY <1>8 DEF LoadReusableArtifacts, OpenReusableArtifacts
    <3>2. lock # p /\ sel[p] \notin pruned => sig[sel[p]]
      BY <1>8 DEF LoadReusableArtifacts
    <3>3. ASSUME NEW q \in Loaders, q # p
          PROVE  /\ pc'[q] = pc[q] /\ needsBuild'[q] = needsBuild[q]
                 /\ opened'[q] = opened[q] /\ searcher'[q] = searcher[q]
      BY <1>8, <3>3 DEF LoadReusableArtifacts, OpenReusableArtifacts
    <3>4. /\ UNCHANGED <<lock, sig, sel, pruned>>
          /\ pc'[p] = IF lock = p THEN "scan" ELSE "mkdir"
      BY <1>8 DEF LoadReusableArtifacts
    <3> SUFFICES ASSUME NEW q \in Loaders
                 PROVE  BuildersAndReaders!(q)'
      OBVIOUS
    <3>5. CASE q = p
      BY <3>1, <3>2, <3>4, <3>5
    <3>6. CASE q # p
      BY <3>3, <3>4, <3>6
    <3> QED
      BY <3>5, <3>6
  <2>4. BuildProgress'
    BY <1>8 DEF LoadReusableArtifacts, OpenReusableArtifacts
  <2>5. SignedIsComplete'
    BY <1>8 DEF LoadReusableArtifacts, OpenReusableArtifacts
  <2>6. PointerIsSigned'
    BY <1>8 DEF LoadReusableArtifacts, OpenReusableArtifacts
  <2> QED
    BY <2>2, <2>3, <2>4, <2>5, <2>6
<1>9. ASSUME NEW p \in Loaders, PruneScan(p) PROVE BuildInv'
  <2>2. LocklessIsComplete'
    BY <1>9 DEF PruneScan
  <2>3. BuildersAndReaders'
    BY <1>9 DEF PruneScan
  <2>4. BuildProgress'
    BY <1>9 DEF PruneScan
  <2>5. SignedIsComplete'
    BY <1>9 DEF PruneScan
  <2>6. PointerIsSigned'
    BY <1>9 DEF PruneScan
  <2> QED
    BY <2>2, <2>3, <2>4, <2>5, <2>6
<1>10a. ASSUME NEW p \in Loaders, CreateStorageDir(p) PROVE BuildInv'
  BY <1>10a DEF CreateStorageDir
<1>10. ASSUME NEW p \in Loaders, AcquireInUseLocks(p) PROVE BuildInv'
  <2>1. CASE p \in ReadOnly /\ needsBuild[p]
    BY <1>2, <1>10, <2>1 DEF AcquireInUseLocks
  <2>2. CASE ~(p \in ReadOnly /\ needsBuild[p])
    BY <1>10, <2>2 DEF AcquireInUseLocks
  <2> QED
    BY <2>1, <2>2
<1>11. ASSUME NEW p \in Loaders, ReuseStore(p) PROVE BuildInv'
  BY <1>11 DEF ReuseStore
<1>12. ASSUME NEW p \in Loaders, ParseManifest(p) PROVE BuildInv'
  BY <1>12 DEF ParseManifest
<1>13. ASSUME NEW p \in Loaders, FinishStore(p) PROVE BuildInv'
  <2>2. LocklessIsComplete'
    BY <1>13 DEF FinishStore
  <2>3. BuildersAndReaders'
    BY <1>13 DEF FinishStore
  <2>4. BuildProgress'
    BY <1>13 DEF FinishStore
  <2>5. SignedIsComplete'
    BY <1>13 DEF FinishStore
  <2>6. PointerIsSigned'
    BY <1>13 DEF FinishStore
  <2> QED
    BY <2>2, <2>3, <2>4, <2>5, <2>6
<1>14. ASSUME NEW p \in Loaders, ReuseTantivy(p) PROVE BuildInv'
  BY <1>14 DEF ReuseTantivy
<1>15. ASSUME NEW p \in Loaders, CreateTantivy(p) PROVE BuildInv'
  BY <1>15 DEF CreateTantivy
<1>16. ASSUME NEW p \in Loaders, CommitTantivy(p) PROVE BuildInv'
  <2>2. LocklessIsComplete'
    BY <1>16 DEF CommitTantivy
  <2>3. BuildersAndReaders'
    BY <1>16 DEF CommitTantivy
  <2>4. BuildProgress'
    BY <1>16 DEF CommitTantivy
  <2>5. SignedIsComplete'
    BY <1>16 DEF CommitTantivy
  <2>6. PointerIsSigned'
    BY <1>16 DEF CommitTantivy
  <2> QED
    BY <2>2, <2>3, <2>4, <2>5, <2>6
<1>17. ASSUME NEW p \in Loaders, WriteManifestSignature(p) PROVE BuildInv'
  <2>2. LocklessIsComplete'
    BY <1>17 DEF WriteManifestSignature
  <2>3. BuildersAndReaders'
    BY <1>17 DEF WriteManifestSignature
  <2>4. BuildProgress'
    BY <1>17 DEF WriteManifestSignature
  <2>5. SignedIsComplete'
    BY <1>17 DEF WriteManifestSignature
  <2>6. PointerIsSigned'
    BY <1>17 DEF WriteManifestSignature
  <2> QED
    BY <2>2, <2>3, <2>4, <2>5, <2>6
<1>18. ASSUME NEW p \in Loaders, WriteCurrentVersion(p) PROVE BuildInv'
  BY <1>18 DEF WriteCurrentVersion
<1>19. ASSUME NEW p \in Loaders, SaveIndexes(p) PROVE BuildInv'
  BY <1>19 DEF SaveIndexes, ReleaseBuildLock
<1>20. ASSUME NEW p \in Loaders,
              BuildLockTimeout(p) \/ BuildFails(p) \/ Abort(p) \/ DropSearch(p)
       PROVE BuildInv'
  BY <1>2, <1>20 DEF BuildLockTimeout, BuildFails, Abort, DropSearch
<1>21. ASSUME NEW p \in Loaders, PruneRemove(p) PROVE BuildInv'
  BY <1>21 DEF PruneRemove
<1>22. CASE UNCHANGED vars
  BY <1>22 DEF vars
<1> QED
  BY <1>1, <1>3, <1>4, <1>5, <1>6, <1>7, <1>8, <1>9, <1>10, <1>10a, <1>11, <1>12,
     <1>13, <1>14, <1>15, <1>16, <1>17, <1>18, <1>19, <1>20, <1>21, <1>22
  DEF Next, LoadStep
\* The build invariant holds of every behaviour.
LEMMA BuildInvariant == Spec => []BuildInv
<1>1. Init => BuildInv
  BY ConstantAssumption
  DEF Init, BuildInv, LocklessIsComplete, BuildersAndReaders,
      BuildProgress, SignedIsComplete, PointerIsSigned, Preparing, Writing
<1> QED
  BY <1>1, BuildStep, TypeCorrect, PTL DEF Spec

\* Whatever the limits of pruning, only the holder of the build lock writes a
\* version directory that pruning has never removed, for every number of loads,
\* crash and change of the manifest: a load that was let through without the
\* lock comes to build only what a pruner took away before.
THEOREM BuildersExclusive == Spec => []BuilderHoldsLock
<1>1. BuildInv => BuilderHoldsLock
  BY DEF BuildInv, BuildersAndReaders, BuilderHoldsLock, Building
<1> QED
  BY <1>1, BuildInvariant, PTL

-----------------------------------------------------------------------------
(* Pruning off (storage_max_instances = storage_max_bytes = 0).             *)

PruningOff == MaxKeep = 0 /\ ~ByteCap

\* Nothing is removed, nor about to be.
NothingRemoved == pruned = {} /\ \A p \in Loaders : victims[p] = {} /\ pc[p] # "prune"

\* With pruning off the scan selects nothing.
LEMMA ScanSelectsNothing ==
  ASSUME PruningOff, TypeOK, NEW p \in Loaders, PruneScan(p)
  PROVE  victims' = [victims EXCEPT ![p] = {}] /\ pc' = [pc EXCEPT ![p] = "mkdir"]
<1> DEFINE cands == {v \in Manifests : present[v] /\ v \notin {cur[p], sel[p]} /\ ~DirInUse(v)}
<1>1. PICK vs \in SUBSET cands :
        /\ Cardinality(vs) \in RemovalCounts(Cardinality(cands))
        /\ victims' = [victims EXCEPT ![p] = vs]
        /\ Goto(p, IF vs = {} THEN "mkdir" ELSE "prune")
  BY DEF PruneScan
<1>2. IsFiniteSet(cands) /\ IsFiniteSet(vs)
  BY <1>1, ConstantAssumption, FS_Subset
<1>3. Cardinality(cands) \in Nat
  BY <1>2, FS_CardinalityType
<1> HIDE DEF cands
<1>4. Cardinality(vs) = 0
  BY <1>1, <1>3 DEF RemovalCounts, PruningOff
<1>5. vs = {}
  BY <1>2, <1>4, FS_EmptySet
<1> QED
  BY <1>1, <1>5 DEF Goto

\* With pruning off nothing is ever removed.
LEMMA NothingIsRemoved == ASSUME PruningOff PROVE Spec => []NothingRemoved
<1>1. Init => NothingRemoved
  BY DEF Init, NothingRemoved
<1>2. TypeOK /\ NothingRemoved /\ [Next]_vars => NothingRemoved'
  <2> SUFFICES ASSUME TypeOK, NothingRemoved, [Next]_vars PROVE NothingRemoved'
    OBVIOUS
  <2> USE DEF NothingRemoved, TypeOK, At, Goto, disk, artifacts, locals
  <2>1. CASE ChangeManifest \/ UNCHANGED vars
    BY <2>1 DEF ChangeManifest, vars
  <2>2. ASSUME NEW p \in Loaders, PruneScan(p) PROVE NothingRemoved'
    <3>1. victims' = [victims EXCEPT ![p] = {}] /\ pc' = [pc EXCEPT ![p] = "mkdir"]
      BY <2>2, PruningOff, ScanSelectsNothing
    <3>2. pruned' = pruned
      BY <2>2 DEF PruneScan
    <3> QED
      BY <3>1, <3>2
  <2>3. ASSUME NEW p \in Loaders, NEW step \in {"idle", "failed"}, Leave(p, step), UNCHANGED pruned PROVE NothingRemoved'
    BY <2>3 DEF Leave
  <2>4. ASSUME NEW p \in Loaders,
               \/ PrepareStorage(p) \/ FindLocklessStorageVersion(p) \/ TryAcquireBuildLock(p) \/ ServeCurrentOrWait(p)
               \/ AcquireBuildLock(p) \/ LoadReusableArtifacts(p) \/ PruneRemove(p) \/ CreateStorageDir(p)
               \/ ReuseStore(p) \/ ParseManifest(p) \/ FinishStore(p) \/ ReuseTantivy(p) \/ CreateTantivy(p)
               \/ CommitTantivy(p) \/ WriteManifestSignature(p) \/ WriteCurrentVersion(p) \/ SaveIndexes(p)
        PROVE  NothingRemoved'
    BY <2>4 DEF PrepareStorage, FindLocklessStorageVersion, TryAcquireBuildLock, ServeCurrentOrWait,
       AcquireBuildLock, LoadReusableArtifacts, PruneRemove, CreateStorageDir, ReuseStore, ParseManifest, FinishStore,
       ReuseTantivy, CreateTantivy, CommitTantivy, WriteManifestSignature, WriteCurrentVersion, SaveIndexes
  <2>5. ASSUME NEW p \in Loaders, AcquireInUseLocks(p) PROVE NothingRemoved'
    BY <2>3, <2>5 DEF AcquireInUseLocks
  <2>6. ASSUME NEW p \in Loaders, BuildLockTimeout(p) \/ BuildFails(p) \/ Abort(p) \/ DropSearch(p) PROVE NothingRemoved'
    BY <2>3, <2>6 DEF BuildLockTimeout, BuildFails, Abort, DropSearch
  <2> QED
    BY <2>1, <2>2, <2>4, <2>5, <2>6 DEF Next, LoadStep
<1> QED
  BY <1>1, <1>2, TypeCorrect, PTL DEF Spec

\* With pruning off a signature file certifies a store and a committed search
\* index, at every moment and so after every crash.
THEOREM SignaturesCertify == ASSUME PruningOff PROVE Spec => []SignatureCertifies
<1>1. BuildInv /\ NothingRemoved => SignatureCertifies
  BY DEF BuildInv, SignedIsComplete, NothingRemoved, SignatureCertifies
<1> QED
  BY <1>1, BuildInvariant, NothingIsRemoved, PruningOff, PTL

\* With pruning off manifest.current.json always names a complete version.
THEOREM PointerSound == ASSUME PruningOff PROVE Spec => []PublishedIsSigned
<1>1. BuildInv /\ NothingRemoved => PublishedIsSigned
  BY DEF BuildInv, PointerIsSigned, NothingRemoved, PublishedIsSigned
<1> QED
  BY <1>1, BuildInvariant, NothingIsRemoved, PruningOff, PTL

-----------------------------------------------------------------------------
(* What is served, when moreover the source keeps still while it is read.   *)

\* A load waits for the lock without it, and has released it when it ends.
LockAtWork ==
  \A p \in Loaders :
    lock = p => pc[p] \notin {"idle", "failed", "select", "trylock", "busy", "waiting", "serving"}

\* What a version directory holds is of its manifest.
DirectoryOfItsManifest ==
  \A v \in Manifests : /\ store[v] \in {None, v}
                       /\ tantivy[v] \in {None, Empty, v}
                       /\ idx[v] \in {None, v}

\* A load that may come to parse the manifest has selected the version of what
\* the source holds: only one that was given a complete version has another.
ParsesWhatItHashed ==
  \A p \in Loaders :
    /\ pc[p] \in {"select", "trylock", "busy", "waiting"} => sel[p] = source
    /\ pc[p] \in {"reuse", "scan", "mkdir", "inuse", "parse"} /\ lock = p => sel[p] = source

\* What a load has open, and then what it derived, is of its version.
HoldsItsVersion ==
  \A p \in Loaders :
    /\ pc[p] \in {"scan", "mkdir", "inuse", "parse", "store", "tantivy", "index"} =>
         opened[p] \in {None, sel[p]} /\ searcher[p] \in {None, sel[p]}
    /\ pc[p] \in {"tantivy", "index", "sig", "current", "save", "serving"} => opened[p] = sel[p]
    /\ pc[p] \in {"sig", "current", "save", "serving"} => searcher[p] = sel[p]
    /\ pc[p] \in {"store", "tantivy", "index", "sig", "current", "save", "serving"} => derived[p] = sel[p]

ContentInv == LockAtWork /\ DirectoryOfItsManifest /\ ParsesWhatItHashed /\ HoldsItsVersion

\* Every step of a load writes and opens only what is of its own manifest.
LEMMA ContentStep ==
  PruningOff /\ StableSource /\ TypeOK /\ BuildInv /\ NothingRemoved /\ ContentInv /\ [Next]_vars => ContentInv'
<1> SUFFICES ASSUME PruningOff, StableSource, TypeOK, BuildInv, NothingRemoved, ContentInv, [Next]_vars PROVE ContentInv'
  OBVIOUS
<1> USE ConstantAssumption
    DEF TypeOK, ContentInv, LockAtWork, DirectoryOfItsManifest, ParsesWhatItHashed, HoldsItsVersion,
        MaybeManifest, At, Goto, disk, artifacts, locals
<1>1. CASE ChangeManifest
  BY <1>1 DEF ChangeManifest, Reading
<1>2. ASSUME NEW p \in Loaders, NEW step \in {"idle", "failed"}, Leave(p, step),
             UNCHANGED <<source, current, store, tantivy, sig, idx>>
      PROVE ContentInv'
  BY <1>2 DEF Leave, ReleaseBuildLock
<1>3. ASSUME NEW p \in Loaders, PrepareStorage(p) PROVE ContentInv'
  BY <1>3 DEF PrepareStorage
<1>4. ASSUME NEW p \in Loaders, FindLocklessStorageVersion(p) PROVE ContentInv'
  BY <1>4 DEF FindLocklessStorageVersion
<1>5. ASSUME NEW p \in Loaders, TryAcquireBuildLock(p) PROVE ContentInv'
  BY <1>5 DEF TryAcquireBuildLock
<1>6. ASSUME NEW p \in Loaders, ServeCurrentOrWait(p) PROVE ContentInv'
  BY <1>6 DEF ServeCurrentOrWait
<1>7. ASSUME NEW p \in Loaders, AcquireBuildLock(p) PROVE ContentInv'
  BY <1>7 DEF AcquireBuildLock
<1>8. ASSUME NEW p \in Loaders, LoadReusableArtifacts(p) PROVE ContentInv'
  BY <1>8 DEF LoadReusableArtifacts, OpenReusableArtifacts, BuildInv, SignedIsComplete, NothingRemoved
<1>9. ASSUME NEW p \in Loaders, PruneScan(p) PROVE ContentInv'
  BY <1>9, ScanSelectsNothing DEF PruneScan
<1>10a. ASSUME NEW p \in Loaders, CreateStorageDir(p) PROVE ContentInv'
  BY <1>10a DEF CreateStorageDir
<1>10. ASSUME NEW p \in Loaders, AcquireInUseLocks(p) PROVE ContentInv'
  <2>1. CASE p \in ReadOnly /\ needsBuild[p]
    BY <1>2, <1>10, <2>1 DEF AcquireInUseLocks
  <2>2. CASE ~(p \in ReadOnly /\ needsBuild[p])
    BY <1>10, <2>2 DEF AcquireInUseLocks
  <2> QED
    BY <2>1, <2>2
<1>11. ASSUME NEW p \in Loaders, ReuseStore(p) PROVE ContentInv'
  <2>1. sel[p] \in Manifests
    BY <1>11 DEF ReuseStore
  <2>2. lock = p \/ idx[sel[p]] # None
    BY <1>11 DEF ReuseStore, BuildInv, LocklessIsComplete, HasLocklessReadArtifacts, Writing, NothingRemoved
  <2>3. derived'[p] = sel[p]
    BY <1>11, <2>1, <2>2 DEF ReuseStore
  <2> QED
    BY <1>11, <2>3 DEF ReuseStore
<1>12. ASSUME NEW p \in Loaders, ParseManifest(p) PROVE ContentInv'
  <2>1. needsBuild[p] /\ lock = p
    BY <1>12 DEF ParseManifest, BuildInv, BuildersAndReaders, Preparing, NothingRemoved
  <2>2. derived'[p] = sel[p]
    BY <1>12, <2>1 DEF ParseManifest
  <2> QED
    BY <1>12, <2>2 DEF ParseManifest
<1>13. ASSUME NEW p \in Loaders, FinishStore(p) PROVE ContentInv'
  BY <1>13 DEF FinishStore
<1>14. ASSUME NEW p \in Loaders, ReuseTantivy(p) PROVE ContentInv'
  BY <1>14 DEF ReuseTantivy
<1>15. ASSUME NEW p \in Loaders, CreateTantivy(p) PROVE ContentInv'
  BY <1>15 DEF CreateTantivy
<1>16. ASSUME NEW p \in Loaders, CommitTantivy(p) PROVE ContentInv'
  BY <1>16 DEF CommitTantivy
<1>17. ASSUME NEW p \in Loaders, WriteManifestSignature(p) PROVE ContentInv'
  BY <1>17 DEF WriteManifestSignature
<1>18. ASSUME NEW p \in Loaders, WriteCurrentVersion(p) PROVE ContentInv'
  BY <1>18 DEF WriteCurrentVersion
<1>19. ASSUME NEW p \in Loaders, SaveIndexes(p) PROVE ContentInv'
  BY <1>19 DEF SaveIndexes, ReleaseBuildLock
<1>20. ASSUME NEW p \in Loaders,
              BuildLockTimeout(p) \/ BuildFails(p) \/ Abort(p) \/ DropSearch(p)
       PROVE ContentInv'
  BY <1>2, <1>20 DEF BuildLockTimeout, BuildFails, Abort, DropSearch
<1>21. ASSUME NEW p \in Loaders, PruneRemove(p) PROVE ContentInv'
  BY <1>21 DEF PruneRemove, NothingRemoved
<1>22. CASE UNCHANGED vars
  BY <1>22 DEF vars
<1> QED
  BY <1>1, <1>3, <1>4, <1>5, <1>6, <1>7, <1>8, <1>9, <1>10, <1>10a, <1>11, <1>12,
     <1>13, <1>14, <1>15, <1>16, <1>17, <1>18, <1>19, <1>20, <1>21, <1>22
  DEF Next, LoadStep

\* With pruning off and a source that keeps still while a load reads it, the
\* entities, the search index and the derived indexes of every live search come
\* from the manifest whose hash names its version, for every number of loads,
\* crash, half-built version and fallback to the published one.
THEOREM ServedIsOfItsVersion == ASSUME PruningOff, StableSource PROVE Spec => []ContentAddressed
<1>1. Init => ContentInv
  BY ConstantAssumption
  DEF Init, ContentInv, LockAtWork, DirectoryOfItsManifest, ParsesWhatItHashed, HoldsItsVersion
<1>2. TypeOK /\ BuildInv /\ NothingRemoved /\ ContentInv /\ [Next]_vars => ContentInv'
  BY PruningOff, StableSource, ContentStep
<1>3. ContentInv => ContentAddressed
  BY DEF ContentInv, HoldsItsVersion, ContentAddressed, At
<1> QED
  BY <1>1, <1>2, <1>3, TypeCorrect, BuildInvariant, NothingIsRemoved, PruningOff, PTL DEF Spec
=============================================================================
