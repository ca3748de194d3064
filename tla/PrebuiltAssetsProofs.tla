------------------------- MODULE PrebuiltAssetsProofs -------------------------
(***************************************************************************)
(* Theorems about PrebuiltAssets: the directories that loads replace, for  *)
(* every number of processes, generations and faults.                      *)
(***************************************************************************)
EXTENDS PrebuiltAssets, FiniteSetTheorems, TLAPS

Files == {"metadata", "storage", "models"} \X Gens

Roots == [id : Nat, versions : SUBSET Gens, boot : 0 .. Generations, files : SUBSET Files]

AssetTypes ==
  /\ published \in Gens /\ up \in BOOLEAN /\ bad \subseteq {"storage", "models"} \X Gens
  /\ root \in Roots /\ models \in 0 .. Generations
  /\ left \in [versions : SUBSET Gens, models : SUBSET Gens] /\ cut \subseteq {"storage", "models"}
  /\ proc \in [Procs -> ProcStates] /\ faults \in 0 .. Faults

\* A directory that is not there holds nothing.
SoundRoot(r) == r \in Roots /\ (r.id = 0 => r.versions = {})

\* The models in place, or in a backup, have been validated.
SoundModels(m) == m \in 0 .. Generations /\ (m # 0 => <<"models", m>> \notin bad)

\* A load that has its contract is about a generation that was published, and
\* about to move in only what it has validated; its backups are sound.
SoundState(s) ==
  /\ s \in ProcStates /\ SoundRoot(s.oldRoot) /\ SoundModels(s.oldModels)
  /\ s.pc \notin {"idle", "bootstrap", "fetch_bootstrap"} => s.gen \in Gens
  /\ s.pc \notin {"idle", "bootstrap", "fetch_bootstrap", "lock"} => s.manifest \in Gens
  /\ s.pc \in {"storage_out", "storage_in"} => <<"storage", s.gen>> \notin bad
  /\ s.pc \in {"models_out", "models_in"} => <<"models", s.gen>> \notin bad
  /\ s.pc # "storage_in" => s.oldRoot.versions = {}
  /\ s.pc # "models_in" => s.oldModels = 0

AssetsInv ==
  /\ AssetTypes /\ SoundRoot(root) /\ SoundModels(models)
  /\ \A p \in Procs : SoundState(proc[p])

-----------------------------------------------------------------------------
\* A function takes at most as many values as it has arguments.
LEMMA ImageBound ==
  ASSUME NEW S, IsFiniteSet(S), NEW f \in [S -> Nat]
  PROVE  IsFiniteSet({f[x] : x \in S}) /\ Cardinality({f[x] : x \in S}) <= Cardinality(S)
<1>1. f \in Surjection(S, {f[x] : x \in S})
  BY DEF Surjection
<1> QED
  BY <1>1, FS_Surjection

\* There is always an identity that nobody knows.
LEMMA FreshIdentity == ASSUME AssetTypes PROVE FreshId \in Nat \ {0}
<1> DEFINE locks == [q \in Procs |-> proc[q].lock]
           olds == [q \in Procs |-> proc[q].oldRoot.id]
           L == {locks[q] : q \in Procs}
           O == {olds[q] : q \in Procs}
           known == {root.id} \cup UNION {{proc[q].lock, proc[q].oldRoot.id} : q \in Procs}
           n == Cardinality(Procs)
           I == 1 .. 2 * n + 2
<1>1. locks \in [Procs -> Nat] /\ olds \in [Procs -> Nat] /\ root.id \in Nat
  BY DEF AssetTypes, ProcStates, Roots
<1>2. n \in Nat
  BY PrebuiltAssumption, FS_CardinalityType
<1>3. known = (L \cup O) \cup {root.id}
  OBVIOUS
<1>4. /\ IsFiniteSet(L) /\ Cardinality(L) <= n
      /\ IsFiniteSet(O) /\ Cardinality(O) <= n
  <2> HIDE DEF locks, olds
  <2> QED
    BY <1>1, PrebuiltAssumption, ImageBound
<1> HIDE DEF L, O, n, known
<1>5. /\ IsFiniteSet(L \cup O)
      /\ Cardinality(L) \in Nat /\ Cardinality(O) \in Nat /\ Cardinality(L \cap O) \in Nat
      /\ Cardinality(L \cup O) = Cardinality(L) + Cardinality(O) - Cardinality(L \cap O)
  <2>1. IsFiniteSet(L \cap O)
    BY <1>4, FS_Intersection
  <2> QED
    BY <1>4, <2>1, FS_Union, FS_CardinalityType
<1>6. IsFiniteSet(known) /\ Cardinality(known) \in Nat /\ Cardinality(known) <= 2 * n + 1
  <2>1. /\ IsFiniteSet(known)
        /\ Cardinality(known) = Cardinality(L \cup O) \/ Cardinality(known) = Cardinality(L \cup O) + 1
    BY <1>3, <1>5, FS_AddElement
  <2>2. \A a, b, c, d \in Nat : a <= n /\ b <= n /\ d = a + b - c => d + 1 <= 2 * n + 1
    BY <1>2
  <2>3. Cardinality(L \cup O) \in Nat /\ Cardinality(known) \in Nat
    BY <1>5, <2>1, FS_CardinalityType
  <2>4. Cardinality(L \cup O) + 1 <= 2 * n + 1
    BY <1>2, <1>4, <1>5, <2>2, <2>3
  <2> QED
    BY <1>2, <2>1, <2>3, <2>4
<1>7. \E i \in I : i \notin known
  <2>1. IsFiniteSet(I) /\ Cardinality(I) = 2 * n + 2
    BY <1>2, FS_Interval
  <2>2. ASSUME I \subseteq known PROVE FALSE
    <3>1. Cardinality(I) <= Cardinality(known)
      BY <1>6, <2>2, FS_Subset
    <3> QED
      BY <1>2, <1>6, <2>1, <3>1
  <2> QED
    BY <2>2
<1>8. FreshId \in I
  <2>1. FreshId = CHOOSE i \in I : i \notin known
    BY DEF FreshId, n, known
  <2> HIDE DEF I
  <2> QED
    BY <1>7, <2>1
<1> QED
  BY <1>2, <1>8

\* The directory made when there is none is a new and empty one.
LEMMA MadeRoot ==
  ASSUME AssetTypes
  PROVE  /\ Made \in Roots /\ Made.id # 0 /\ (root.id # 0 => Made = root)
         /\ root.id = 0 => Made.versions = {}
<1> DEFINE fresh == FreshId
<1>1. fresh \in Nat \ {0} /\ Made = IF root.id = 0 THEN [NoRoot EXCEPT !.id = fresh] ELSE root
  BY FreshIdentity DEF Made
<1> HIDE DEF fresh
<1>2. [NoRoot EXCEPT !.id = fresh] = [id |-> fresh, versions |-> {}, boot |-> 0, files |-> {}]
  BY DEF NoRoot
<1>3. 0 \in 0 .. Generations
  BY PrebuiltAssumption
<1>4. [id |-> fresh, versions |-> {}, boot |-> 0, files |-> {}] \in Roots
  BY <1>1, <1>3 DEF Roots
<1> QED
  BY <1>1, <1>2, <1>4 DEF AssetTypes

\* What a resolution of a file changes is the cache in the root.
LEMMA ResolvedRoot ==
  ASSUME AssetTypes, NEW p \in Procs, proc[p].gen \in Gens, NEW file \in {"metadata", "storage", "models"}
  PROVE  /\ Resolved(p, file).root \in Roots /\ Resolved(p, file).root.id = Made.id
         /\ Resolved(p, file).root.versions = Made.versions
BY MadeRoot DEF Resolved, Roots, Files

\* The backup of a root is a root.
LEMMA StatesOfRoots ==
  ProcStates =
    [pc : Steps, policy : {"if_missing", "always", "never"}, running : BOOLEAN,
     gen : 0 .. Generations, manifest : 0 .. Generations, lock : Nat, oldRoot : Roots,
     oldModels : 0 .. Generations, serves : 0 .. Generations]
BY DEF ProcStates, Roots, Files

\* A load that goes on or ends leaves its backups as they are.
LEMMA StateMoves ==
  ASSUME AssetsInv, NEW p \in Procs
  PROVE  /\ proc[p].pc \notin {"storage_in", "models_in"} => SoundState(Over(p))
         /\ SoundState([Dropped(p) EXCEPT !.serves = 0, !.running = FALSE]) /\ SoundState(Dropped(p))
         /\ proc[p].pc \notin {"storage_in", "models_in"} => \A step \in Steps :
              /\ proc[p].gen \in Gens /\ proc[p].manifest \in Gens
              /\ step \in {"storage_out", "storage_in"} => <<"storage", proc[p].gen>> \notin bad
              /\ step \in {"models_out", "models_in"} => <<"models", proc[p].gen>> \notin bad
              => SoundState([proc[p] EXCEPT !.pc = step])
<1>1. SoundState(proc[p]) /\ proc[p] \in ProcStates
  BY DEF AssetsInv, SoundState
<1>2. 0 \in 0 .. Generations
  BY PrebuiltAssumption
<1>3. NoRoot \in Roots /\ SoundRoot(NoRoot) /\ SoundModels(0)
  BY <1>2 DEF NoRoot, Roots, SoundRoot, SoundModels
<1>4. ASSUME proc[p].pc \notin {"storage_in", "models_in"} PROVE SoundState(Over(p))
  BY <1>1, <1>2, <1>4 DEF Over, SoundState, ProcStates, Steps
<1>5. ASSUME NEW step \in Steps, proc[p].pc \notin {"storage_in", "models_in"},
             proc[p].gen \in Gens /\ proc[p].manifest \in Gens,
             step \in {"storage_out", "storage_in"} => <<"storage", proc[p].gen>> \notin bad,
             step \in {"models_out", "models_in"} => <<"models", proc[p].gen>> \notin bad
      PROVE  SoundState([proc[p] EXCEPT !.pc = step])
  BY <1>1, <1>5 DEF SoundState, ProcStates
<1>6. SoundState(Dropped(p)) /\ SoundState([Dropped(p) EXCEPT !.serves = 0, !.running = FALSE])
  <2>1. Dropped(p) \in ProcStates /\ [Dropped(p) EXCEPT !.serves = 0, !.running = FALSE] \in ProcStates
    BY <1>1, <1>2, <1>3, StatesOfRoots DEF Steps, Dropped, Over
  <2>2. ASSUME NEW d \in {Dropped(p), [Dropped(p) EXCEPT !.serves = 0, !.running = FALSE]}
        PROVE  d.pc = "idle" /\ d.oldRoot = NoRoot /\ d.oldModels = 0
    BY <1>1, StatesOfRoots DEF Dropped, Over
  <2>3. NoRoot.versions = {}
    BY DEF NoRoot
  <2> QED
    BY <1>3, <2>1, <2>2, <2>3 DEF SoundState
<1> QED
  BY <1>4, <1>5, <1>6

\* A step of one load concerns the others through the directories only.
LEMMA OneMoves ==
  ASSUME AssetsInv, NEW p \in Procs, NEW s, Set(p, s), SoundState(s), bad' = bad,
         published' = published, up' = up, faults' \in 0 .. Faults, SoundRoot(root'), SoundModels(models'),
         left' \in [versions : SUBSET Gens, models : SUBSET Gens], cut' \subseteq {"storage", "models"}
  PROVE  AssetsInv'
<1>1. AssetTypes'
  BY DEF AssetsInv, AssetTypes, Set, SoundState, SoundRoot, SoundModels
<1>2. SoundRoot(root)' /\ SoundModels(models)'
  BY DEF SoundRoot, SoundModels
<1>3. ASSUME NEW q \in Procs PROVE SoundState(proc[q])'
  <2>1. SoundState(proc'[q])
    BY DEF AssetsInv, AssetTypes, Set
  <2> QED
    BY <2>1 DEF SoundState, SoundRoot, SoundModels
<1> QED
  BY <1>1, <1>2, <1>3 DEF AssetsInv

\* A cached file or contract is all that a fetch changes in a directory.
LEMMA CacheChanges ==
  ASSUME AssetsInv
  PROVE  /\ SoundRoot(root) /\ SoundRoot(Made)
         /\ \A b \in 0 .. Generations : SoundRoot([Made EXCEPT !.boot = b])
         /\ \A p \in Procs, file \in {"metadata", "storage", "models"} :
              proc[p].gen \in Gens => SoundRoot(Resolved(p, file).root)
         /\ \A m \in Gens : SoundRoot([Made EXCEPT !.versions = @ \cup {m}])
<1> DEFINE made == Made
<1>1. made \in Roots /\ made.id # 0
  BY MadeRoot DEF AssetsInv
<1>2. \A p \in Procs, file \in {"metadata", "storage", "models"} :
        proc[p].gen \in Gens => SoundRoot(Resolved(p, file).root)
  BY <1>1, ResolvedRoot DEF AssetsInv, SoundRoot
<1> HIDE DEF made
<1>3. \A b \in 0 .. Generations : SoundRoot([made EXCEPT !.boot = b])
  BY <1>1 DEF SoundRoot, Roots
<1>4. \A m \in Gens : SoundRoot([made EXCEPT !.versions = @ \cup {m}])
  BY <1>1 DEF SoundRoot, Roots
<1>5. SoundRoot(made) /\ SoundRoot(root)
  BY <1>1 DEF SoundRoot, AssetsInv
<1> QED
  BY <1>2, <1>3, <1>4, <1>5 DEF made

\* Every step of every load, its failures and crashes included, keeps the
\* directories and their backups sound.
LEMMA AssetsStep == AssetsInv /\ [Next]_vars => AssetsInv'
<1> SUFFICES ASSUME AssetsInv, [Next]_vars PROVE AssetsInv'
  OBVIOUS
<1>0. /\ AssetTypes /\ SoundRoot(root) /\ SoundModels(models)
      /\ faults \in 0 .. Faults /\ 0 \in 0 .. Generations /\ Faults \in Nat
      /\ published \in Gens /\ Gens \subseteq 0 .. Generations
      /\ left \in [versions : SUBSET Gens, models : SUBSET Gens] /\ cut \subseteq {"storage", "models"}
  BY PrebuiltAssumption DEF AssetsInv, AssetTypes, Gens
<1>s. ASSUME NEW p \in Procs
      PROVE  /\ SoundState(proc[p]) /\ proc[p] \in ProcStates
             /\ proc[p].pc \notin {"idle", "bootstrap", "fetch_bootstrap"} => proc[p].gen \in Gens
             /\ proc[p].pc \notin {"idle", "bootstrap", "fetch_bootstrap", "lock"} => proc[p].manifest \in Gens
  BY DEF AssetsInv, SoundState
<1>1. CASE UNCHANGED vars
  BY <1>1 DEF vars, AssetsInv, AssetTypes, SoundState, SoundRoot, SoundModels
<1>2. CASE Publish \/ Outage \/ Recover
  <2>1. UNCHANGED <<bad, root, models, left, cut, proc>>
    BY <1>2 DEF Publish, Outage, Recover
  <2>2. published' \in Gens /\ faults' \in 0 .. Faults
    BY <1>0, <1>2, PrebuiltAssumption DEF Publish, Outage, Recover, Gens
  <2>3. up' \in BOOLEAN
    BY <1>0, <1>2, Zenon DEF Publish, Outage, Recover, AssetTypes
  <2>4. AssetTypes'
    BY <1>0, <2>1, <2>2, <2>3 DEF AssetTypes
  <2> QED
    BY <2>1, <2>4 DEF AssetsInv, SoundState, SoundRoot, SoundModels
\* A load that goes on to another step.
<1>a. ASSUME NEW p \in Procs, NEW step \in Steps, Goto(p, step), UNCHANGED <<world, models>>, SoundRoot(root'),
             proc[p].pc \notin {"storage_in", "models_in"},
             proc[p].gen \in Gens /\ proc[p].manifest \in Gens,
             step \in {"storage_out", "storage_in"} => <<"storage", proc[p].gen>> \notin bad,
             step \in {"models_out", "models_in"} => <<"models", proc[p].gen>> \notin bad
      PROVE  AssetsInv'
  <2>1. SoundState([proc[p] EXCEPT !.pc = step])
    BY <1>a, StateMoves
  <2> QED
    BY <1>0, <1>a, <2>1, OneMoves DEF Goto, world
\* One that has no contract yet.
<1>e. ASSUME NEW p \in Procs, NEW step \in {"bootstrap", "fetch_bootstrap"}, Goto(p, step), UNCHANGED <<world, models>>,
             SoundRoot(root'), proc[p].pc \notin {"storage_in", "models_in"}
      PROVE  AssetsInv'
  <2>1. SoundState([proc[p] EXCEPT !.pc = step])
    BY <1>e, <1>s DEF SoundState, ProcStates, Steps
  <2> QED
    BY <1>0, <1>e, <2>1, OneMoves DEF Goto, world
\* One that fails.
<1>b. ASSUME NEW p \in Procs, Fail(p), UNCHANGED <<world, models>>, SoundRoot(root'),
             proc[p].pc \notin {"storage_in", "models_in"}
      PROVE  AssetsInv'
  BY <1>0, <1>b, StateMoves, OneMoves DEF Fail, world
<1>c. ASSUME NEW p \in Procs, NEW g \in Gens, Bootstrapped(p, g), UNCHANGED <<world, models>>, SoundRoot(root'),
             proc[p].pc \notin {"storage_in", "models_in"}
      PROVE  AssetsInv'
  <2>1. SoundState([proc[p] EXCEPT !.pc = "lock", !.gen = g, !.running = TRUE])
    BY <1>0, <1>c, <1>s DEF SoundState, ProcStates, Steps
  <2> QED
    BY <1>0, <1>c, <2>1, OneMoves DEF Bootstrapped, world
<1>3. ASSUME NEW p \in Procs, Begin(p) PROVE AssetsInv'
  BY <1>0, <1>3, <1>e DEF Begin
<1>4. ASSUME NEW p \in Procs, ResolveBootstrap(p) PROVE AssetsInv'
  <2>1. root.boot # 0 => root.boot \in Gens
    BY <1>0 DEF AssetTypes, Roots, Gens
  <2>2. CASE root.boot # 0 /\ Bootstrapped(p, root.boot) /\ UNCHANGED root
    BY <1>0, <1>4, <1>c, <2>1, <2>2 DEF ResolveBootstrap
  <2>3. CASE Fail(p) /\ UNCHANGED root
    BY <1>0, <1>4, <1>b, <2>3 DEF ResolveBootstrap
  <2>4. CASE root' \in {Made, [Made EXCEPT !.boot = 0]} /\ Goto(p, "fetch_bootstrap")
    <3>1. SoundRoot(root')
      BY <1>0, <2>4, CacheChanges
    <3> QED
      BY <1>4, <1>e, <2>4, <3>1 DEF ResolveBootstrap
  <2> QED
    BY <1>4, <2>2, <2>3, <2>4 DEF ResolveBootstrap
<1>5. ASSUME NEW p \in Procs, FetchBootstrap(p) PROVE AssetsInv'
  BY <1>0, <1>5, <1>b, <1>c, CacheChanges DEF FetchBootstrap
<1>6. ASSUME NEW p \in Procs, TakeLock(p) PROVE AssetsInv'
  <2>1. SoundRoot(root') /\ UNCHANGED <<world, models>> /\ proc[p].pc = "lock" /\ proc[p].gen \in Gens
    BY <1>6, <1>s, CacheChanges DEF TakeLock
  <2>2. CASE Fail(p)
    BY <1>b, <2>1, <2>2
  <2>3. CASE Set(p, [proc[p] EXCEPT !.pc = "load", !.manifest = published])
    <3>1. SoundState([proc[p] EXCEPT !.pc = "load", !.manifest = published])
      <4> DEFINE s == [proc[p] EXCEPT !.pc = "load", !.manifest = published]
      <4>1. /\ s \in ProcStates
            /\ s.pc = "load" /\ s.gen = proc[p].gen /\ s.manifest = published /\ s.oldRoot = proc[p].oldRoot /\ s.oldModels = proc[p].oldModels
        <5>1. proc[p] \in ProcStates /\ "load" \in Steps /\ published \in 0 .. Generations
          BY <1>0, <1>s DEF Steps
        <5> QED
          BY <5>1, StatesOfRoots
      <4> HIDE DEF s
      <4>2. SoundState(s)
        BY <1>0, <1>s, <2>1, <4>1 DEF SoundState
      <4> QED
        BY <4>2 DEF s
    <3> QED
      BY <1>0, <2>1, <2>3, <3>1, OneMoves DEF world
  <2>4. ASSUME NEW step \in {"wait", "metadata"},
               Set(p, [proc[p] EXCEPT !.lock = Made.id, !.manifest = published, !.pc = step])
        PROVE  AssetsInv'
    <3>1. Made.id \in Nat
      BY MadeRoot, <1>0 DEF Roots
    <3>2. SoundState([proc[p] EXCEPT !.lock = Made.id, !.manifest = published, !.pc = step])
      <4> DEFINE s == [proc[p] EXCEPT !.lock = Made.id, !.manifest = published, !.pc = step]
      <4>1. /\ s \in ProcStates
            /\ s.pc = step /\ s.gen = proc[p].gen /\ s.manifest = published /\ s.oldRoot = proc[p].oldRoot /\ s.oldModels = proc[p].oldModels
        <5>1. proc[p] \in ProcStates /\ step \in Steps /\ published \in 0 .. Generations
          BY <1>0, <1>s, <2>4 DEF Steps
        <5> QED
          BY <3>1, <5>1, StatesOfRoots
      <4> HIDE DEF s
      <4>2. SoundState(s)
        BY <1>0, <1>s, <2>1, <2>4, <4>1 DEF SoundState
      <4> QED
        BY <4>2 DEF s
    <3> QED
      BY <1>0, <2>1, <2>4, <3>2, OneMoves DEF world
  <2> QED
    BY <1>6, <2>2, <2>3, <2>4 DEF TakeLock
<1>7. ASSUME NEW p \in Procs, GetLock(p) PROVE AssetsInv'
  BY <1>0, <1>7, <1>a, <1>s DEF GetLock, Steps
<1>8. ASSUME NEW p \in Procs, LockTimesOut(p) PROVE AssetsInv'
  BY <1>0, <1>8, <1>b DEF LockTimesOut
<1>9. ASSUME NEW p \in Procs, CheckMetadata(p) PROVE AssetsInv'
  <2>1. SoundRoot(root') /\ UNCHANGED <<world, models>> /\ proc[p].pc = "metadata"
    BY <1>9, <1>s, CacheChanges DEF CheckMetadata
  <2> QED
    BY <1>9, <1>a, <1>b, <1>s, <2>1 DEF CheckMetadata, Steps
<1>10. ASSUME NEW p \in Procs, StageStorage(p) PROVE AssetsInv'
  <2>1. SoundRoot(root') /\ UNCHANGED <<world, models>> /\ proc[p].pc = "storage"
    BY <1>0, <1>10, <1>s, CacheChanges DEF StageStorage, Stage
  <2>2. \/ Goto(p, "models") \/ Fail(p)
        \/ <<"storage", proc[p].gen>> \notin bad /\ Goto(p, "storage_out")
    BY <1>10 DEF StageStorage, Stage, ArchiveValid
  <2> QED
    BY <1>a, <1>b, <1>s, <2>1, <2>2 DEF Steps
<1>11. ASSUME NEW p \in Procs, StageModels(p) PROVE AssetsInv'
  <2>1. SoundRoot(root') /\ UNCHANGED <<world, models>> /\ proc[p].pc = "models"
    BY <1>0, <1>11, <1>s, CacheChanges DEF StageModels, Stage
  <2>2. \/ Goto(p, "load") \/ Fail(p)
        \/ <<"models", proc[p].gen>> \notin bad /\ Goto(p, "models_out")
    BY <1>11 DEF StageModels, Stage, ArchiveValid
  <2> QED
    BY <1>a, <1>b, <1>s, <2>1, <2>2 DEF Steps
<1>12. ASSUME NEW p \in Procs, MoveAside(p) PROVE AssetsInv'
  <2>0. SoundRoot(NoRoot) /\ SoundModels(0)
    BY <1>0 DEF NoRoot, SoundRoot, SoundModels, Roots
  <2>1. CASE /\ proc[p].pc = "storage_out" /\ root' = NoRoot /\ UNCHANGED models
             /\ Set(p, [proc[p] EXCEPT !.pc = "storage_in", !.oldRoot = root])
    <3>1. SoundState([proc[p] EXCEPT !.pc = "storage_in", !.oldRoot = root])
      <4> DEFINE s == [proc[p] EXCEPT !.pc = "storage_in", !.oldRoot = root]
      <4>1. /\ s \in ProcStates /\ s.pc = "storage_in" /\ s.oldRoot = root
            /\ s.gen = proc[p].gen /\ s.manifest = proc[p].manifest /\ s.oldModels = proc[p].oldModels
        BY <1>0, <1>s, StatesOfRoots DEF Steps, AssetTypes
      <4> HIDE DEF s
      <4>2. SoundState(s)
        BY <1>0, <1>s, <2>1, <4>1 DEF SoundState
      <4> QED
        BY <4>2 DEF s
    <3> QED
      BY <1>0, <1>12, <2>0, <2>1, <3>1, OneMoves DEF MoveAside, world
  <2>2. CASE /\ proc[p].pc = "models_out" /\ models' = 0 /\ UNCHANGED root
             /\ Set(p, [proc[p] EXCEPT !.pc = "models_in", !.oldModels = models])
    <3>1. SoundState([proc[p] EXCEPT !.pc = "models_in", !.oldModels = models])
      <4> DEFINE s == [proc[p] EXCEPT !.pc = "models_in", !.oldModels = models]
      <4>1. /\ s \in ProcStates
            /\ s.pc = "models_in" /\ s.gen = proc[p].gen /\ s.manifest = proc[p].manifest /\ s.oldRoot = proc[p].oldRoot /\ s.oldModels = models
        BY <1>0, <1>s, <2>2, StatesOfRoots DEF Steps, AssetTypes
      <4> HIDE DEF s
      <4>2. SoundState(s)
        BY <1>0, <1>s, <2>2, <4>1 DEF SoundState
      <4> QED
        BY <4>2 DEF s
    <3> QED
      BY <1>0, <1>12, <2>0, <2>2, <3>1, OneMoves DEF MoveAside, world
  <2> QED
    BY <1>12, <2>1, <2>2 DEF MoveAside
<1>13. ASSUME NEW p \in Procs, MoveIn(p) PROVE AssetsInv'
  <2>0. SoundRoot(NoRoot) /\ SoundModels(0) /\ NoRoot \in Roots
    BY <1>0 DEF NoRoot, SoundRoot, SoundModels, Roots
  <2>1. CASE /\ proc[p].pc = "storage_in" /\ root' = [NoRoot EXCEPT !.id = FreshId, !.versions = {proc[p].gen}]
             /\ UNCHANGED models /\ Set(p, [proc[p] EXCEPT !.pc = "models", !.oldRoot = NoRoot])
    <3>1. SoundState([proc[p] EXCEPT !.pc = "models", !.oldRoot = NoRoot])
      <4> DEFINE s == [proc[p] EXCEPT !.pc = "models", !.oldRoot = NoRoot]
      <4>1. /\ s \in ProcStates
            /\ s.pc = "models" /\ s.gen = proc[p].gen /\ s.manifest = proc[p].manifest /\ s.oldRoot = NoRoot /\ s.oldModels = proc[p].oldModels /\ NoRoot.versions = {}
        BY <1>0, <1>s, <2>0, <2>1, StatesOfRoots DEF Steps, NoRoot
      <4> HIDE DEF s
      <4>2. SoundState(s)
        BY <1>0, <1>s, <2>0, <2>1, <4>1 DEF SoundState
      <4> QED
        BY <4>2 DEF s
    <3>2. SoundRoot(root')
      BY <1>0, <1>s, <2>0, <2>1, FreshIdentity DEF SoundRoot, Roots, NoRoot
    <3> QED
      BY <1>0, <1>13, <2>1, <3>1, <3>2, OneMoves DEF MoveIn, world
  <2>2. CASE /\ proc[p].pc = "models_in" /\ models' = proc[p].gen /\ UNCHANGED root
             /\ Set(p, [proc[p] EXCEPT !.pc = "load", !.oldModels = 0])
    <3>1. SoundState([proc[p] EXCEPT !.pc = "load", !.oldModels = 0])
      <4> DEFINE s == [proc[p] EXCEPT !.pc = "load", !.oldModels = 0]
      <4>1. proc[p] \in ProcStates /\ "load" \in Steps /\ 0 \in 0 .. Generations
        BY <1>0, <1>s DEF Steps
      <4>2. /\ s \in ProcStates
            /\ s.pc = "load" /\ s.gen = proc[p].gen /\ s.manifest = proc[p].manifest /\ s.oldRoot = proc[p].oldRoot /\ s.oldModels = 0
        BY <4>1, StatesOfRoots
      <4> HIDE DEF s
      <4>3. SoundState(s)
        BY <1>s, <2>0, <2>2, <4>2 DEF SoundState
      <4> QED
        BY <4>3 DEF s
    <3>2. SoundModels(models')
      BY <1>0, <1>s, <2>2 DEF SoundModels, SoundState
    <3> QED
      BY <1>0, <1>13, <2>2, <3>1, <3>2, OneMoves DEF MoveIn, world
  <2> QED
    BY <1>13, <2>1, <2>2 DEF MoveIn
\* What a load leaves behind is of published generations.
<1>l. ASSUME NEW p \in Procs
      PROVE  /\ LeftBy(p) \in [versions : SUBSET Gens, models : SUBSET Gens]
             /\ cut \cup Emptied(p) \subseteq {"storage", "models"}
  <2>1. proc[p].oldRoot.versions \subseteq Gens /\ {proc[p].oldModels} \ {0} \subseteq Gens
    BY <1>s, PrebuiltAssumption DEF ProcStates, Gens
  <2> QED
    BY <1>0, <2>1 DEF LeftBy, Emptied
<1>14. ASSUME NEW p \in Procs, MoveInFails(p) PROVE AssetsInv'
  <2>1. SoundRoot(root') /\ SoundModels(models')
    BY <1>0, <1>14, <1>s DEF MoveInFails, SoundState
  <2>2. faults' \in 0 .. Faults
    BY <1>0, <1>14 DEF MoveInFails
  <2>3. left' \in [versions : SUBSET Gens, models : SUBSET Gens] /\ cut' \subseteq {"storage", "models"}
    BY <1>0, <1>14, <1>l DEF MoveInFails
  <2> QED
    BY <1>14, <2>1, <2>2, <2>3, StateMoves, OneMoves DEF MoveInFails
<1>d. ASSUME NEW p \in Procs, proc[p].manifest \in Gens, proc[p].pc \notin {"storage_in", "models_in"}
      PROVE  SoundState([Over(p) EXCEPT !.serves = proc[p].manifest])
  <2> DEFINE s == [Over(p) EXCEPT !.serves = proc[p].manifest]
  <2>1. /\ s \in ProcStates
        /\ s.pc = "idle" /\ s.oldRoot = proc[p].oldRoot /\ s.oldModels = proc[p].oldModels
    BY <1>0, <1>d, <1>s, StatesOfRoots DEF Steps, Over
  <2> HIDE DEF s
  <2>2. SoundState(s)
    BY <1>0, <1>d, <1>s, <2>1 DEF SoundState
  <2> QED
    BY <2>2 DEF s
<1>15. ASSUME NEW p \in Procs, Open(p) PROVE AssetsInv'
  <2>1. CASE Set(p, [Over(p) EXCEPT !.serves = proc[p].manifest])
    BY <1>0, <1>15, <1>d, <1>s, <2>1, OneMoves DEF Open, world
  <2>2. CASE Fail(p) \/ Goto(p, "building")
    BY <1>0, <1>15, <1>a, <1>b, <1>s, <2>2 DEF Open, Steps
  <2> QED
    BY <1>15, <2>1, <2>2 DEF Open
<1>16. ASSUME NEW p \in Procs, Build(p) PROVE AssetsInv'
  <2>1. proc[p].manifest \in Gens
    BY <1>16, <1>s DEF Build
  <2> QED
    BY <1>0, <1>16, <1>d, <2>1, CacheChanges, OneMoves DEF Build, world
<1>17. ASSUME NEW p \in Procs, Crash(p) PROVE AssetsInv'
  <2>1. /\ faults' \in 0 .. Faults
        /\ left' \in [versions : SUBSET Gens, models : SUBSET Gens] /\ cut' \subseteq {"storage", "models"}
    BY <1>0, <1>17, <1>l DEF Crash
  <2> QED
    BY <1>0, <1>17, <2>1, StateMoves, OneMoves DEF Crash
<1>18. ASSUME NEW p \in Procs, GoOffline(p) PROVE AssetsInv'
  <2>1. SoundState([proc[p] EXCEPT !.policy = "never", !.serves = 0, !.running = FALSE])
    BY <1>0, <1>s DEF SoundState, ProcStates
  <2> QED
    BY <1>0, <1>18, <2>1, OneMoves DEF GoOffline, world
<1> QED
  BY <1>1, <1>2, <1>3, <1>4, <1>5, <1>6, <1>7, <1>8, <1>9, <1>10, <1>11, <1>12, <1>13, <1>14, <1>15,
     <1>16, <1>17, <1>18 DEF Next, Work

-----------------------------------------------------------------------------
\* A load that is not between its two renames has emptied no place.
LEMMA EmptiedAt ==
  ASSUME NEW p \in Procs
  PROVE  /\ "storage" \in Emptied(p) <=> proc[p].pc = "storage_in" /\ proc[p].oldRoot.id # 0
         /\ "models" \in Emptied(p) <=> proc[p].pc = "models_in" /\ proc[p].oldModels # 0
         /\ "storage" \in Emptied(p)' <=> proc'[p].pc = "storage_in" /\ proc'[p].oldRoot.id # 0
         /\ "models" \in Emptied(p)' <=> proc'[p].pc = "models_in" /\ proc'[p].oldModels # 0
BY DEF Emptied

\* What a swap keeps of PutBack: the loads other than p keep what they emptied,
\* so only the places p had emptied are to be accounted for.
LEMMA PutBackBy ==
  ASSUME AssetsInv, PutBack, NEW p \in Procs, NEW s, Set(p, s), cut \subseteq cut',
         \/ root'.id # 0 \/ left'.versions = {} \/ "storage" \in cut' \/ "storage" \in Emptied(p)'
         \/ root.id = 0 /\ left'.versions = left.versions /\ "storage" \notin Emptied(p),
         \/ models' # 0 \/ left'.models = {} \/ "models" \in cut' \/ "models" \in Emptied(p)'
         \/ models = 0 /\ left'.models = left.models /\ "models" \notin Emptied(p)
  PROVE  PutBack'
<1>1. ASSUME NEW q \in Procs, q # p PROVE Emptied(q)' = Emptied(q)
  BY <1>1 DEF Set, Emptied, AssetsInv, AssetTypes
<1>2. root'.id = 0 /\ left'.versions # {} => "storage" \in cut' \/ \E q \in Procs : "storage" \in Emptied(q)'
  BY <1>1 DEF PutBack
<1>3. models' = 0 /\ left'.models # {} => "models" \in cut' \/ \E q \in Procs : "models" \in Emptied(q)'
  BY <1>1 DEF PutBack
<1> QED
  BY <1>2, <1>3 DEF PutBack

\* Every step keeps PutBack: a place is emptied by a load that then is between
\* its renames, and it leaves that position by filling the place, by putting
\* back what was there, or cut short.
LEMMA PutBackStep == ASSUME AssetsInv, PutBack, [Next]_vars PROVE PutBack'
<1>0. /\ AssetTypes /\ SoundRoot(root) /\ SoundModels(models)
  BY DEF AssetsInv
<1>s. ASSUME NEW p \in Procs PROVE SoundState(proc[p]) /\ proc[p] \in ProcStates
  BY DEF AssetsInv, SoundState
<1>m. Made.id # 0
  BY <1>0, MadeRoot
<1>1. CASE UNCHANGED <<root, models, left, cut, proc>>
  <2>1. \A p \in Procs : Emptied(p)' = Emptied(p)
    BY <1>1 DEF Emptied
  <2> QED
    BY <1>1, <2>1 DEF PutBack
\* A load elsewhere than in a swap takes nothing away.
<1>2. ASSUME NEW p \in Procs, NEW s, Set(p, s), UNCHANGED <<models, left, cut>>,
             root' = root \/ root'.id # 0, proc[p].pc \notin {"storage_in", "models_in"}
      PROVE  PutBack'
  BY <1>2, EmptiedAt, PutBackBy
<1>3. ASSUME NEW p \in Procs,
             \/ Begin(p) \/ ResolveBootstrap(p) \/ FetchBootstrap(p) \/ TakeLock(p) \/ GetLock(p) \/ CheckMetadata(p)
             \/ StageStorage(p) \/ StageModels(p) \/ Open(p) \/ Build(p) \/ LockTimesOut(p) \/ GoOffline(p)
      PROVE  PutBack'
  <2>1. /\ proc[p].pc \notin {"storage_in", "models_in"} /\ UNCHANGED <<models, left, cut>>
        /\ \E s : Set(p, s)
    BY <1>3 DEF Begin, ResolveBootstrap, FetchBootstrap, TakeLock, GetLock, CheckMetadata, StageStorage, StageModels,
                Stage, Open, Build, LockTimesOut, GoOffline, Goto, Fail, Bootstrapped, world
  <2>2. CASE Begin(p) \/ GetLock(p) \/ LockTimesOut(p) \/ GoOffline(p) \/ Open(p)
    BY <1>2, <2>1, <2>2 DEF Begin, GetLock, LockTimesOut, GoOffline, Open
  <2>3. CASE ResolveBootstrap(p) \/ FetchBootstrap(p) \/ TakeLock(p)
    <3>1. \A b \in 0 .. Generations : [Made EXCEPT !.boot = b].id = Made.id
      BY <1>0, MadeRoot DEF Roots
    <3>2. published \in 0 .. Generations /\ 0 \in 0 .. Generations
      BY <1>0, PrebuiltAssumption DEF AssetTypes, Gens
    <3>3. root' = root \/ root'.id = Made.id
      BY <2>3, <3>1, <3>2 DEF ResolveBootstrap, FetchBootstrap, TakeLock
    <3> QED
      BY <1>2, <1>m, <2>1, <3>3
  <2>4. CASE CheckMetadata(p) \/ StageStorage(p) \/ StageModels(p)
    <3>1. proc[p].gen \in Gens
      BY <1>s, <2>4 DEF CheckMetadata, StageStorage, StageModels, SoundState
    <3>2. root' = root \/ \E file \in {"metadata", "storage", "models"} : root' = Resolved(p, file).root
      BY <2>4 DEF CheckMetadata, StageStorage, StageModels, Stage
    <3>3. root' = root \/ root'.id = Made.id
      BY <1>0, <3>1, <3>2, ResolvedRoot
    <3> QED
      BY <1>2, <1>m, <2>1, <3>3
  <2>5. CASE Build(p)
    <3>1. root'.id = Made.id
      BY <1>0, <2>5, MadeRoot DEF Build, Roots
    <3> QED
      BY <1>2, <1>m, <2>1, <3>1
  <2> QED
    BY <1>3, <2>2, <2>3, <2>4, <2>5
<1>4. ASSUME NEW p \in Procs, MoveAside(p) PROVE PutBack'
  <2>1. CASE /\ proc[p].pc = "storage_out" /\ root' = NoRoot /\ UNCHANGED models
             /\ Set(p, [proc[p] EXCEPT !.pc = "storage_in", !.oldRoot = root])
    <3>1. proc'[p].pc = "storage_in" /\ proc'[p].oldRoot = root
      BY <1>0, <1>s, <2>1 DEF Set, AssetTypes, ProcStates
    <3> QED
      BY <1>4, <2>1, <3>1, EmptiedAt, PutBackBy DEF MoveAside, world
  <2>2. CASE /\ proc[p].pc = "models_out" /\ models' = 0 /\ UNCHANGED root
             /\ Set(p, [proc[p] EXCEPT !.pc = "models_in", !.oldModels = models])
    <3>1. proc'[p].pc = "models_in" /\ proc'[p].oldModels = models
      BY <1>0, <1>s, <2>2 DEF Set, AssetTypes, ProcStates
    <3> QED
      BY <1>4, <2>2, <3>1, EmptiedAt, PutBackBy DEF MoveAside, world
  <2> QED
    BY <1>4, <2>1, <2>2 DEF MoveAside
<1>5. ASSUME NEW p \in Procs, MoveIn(p) PROVE PutBack'
  <2>1. CASE proc[p].pc = "storage_in" /\ root'.id # 0 /\ UNCHANGED models
    BY <1>5, <2>1, EmptiedAt, PutBackBy DEF MoveIn, world
  <2>2. CASE proc[p].pc = "models_in" /\ models' # 0 /\ UNCHANGED root
    BY <1>5, <2>2, EmptiedAt, PutBackBy DEF MoveIn, world
  <2>3. proc[p].pc = "storage_in" /\ UNCHANGED models => root'.id = FreshId
    BY <1>5 DEF MoveIn, NoRoot
  <2>4. proc[p].pc = "models_in" /\ UNCHANGED root => models' # 0
    <3>1. proc[p].pc = "models_in" => proc[p].gen \in Gens
      BY <1>s DEF SoundState
    <3>2. \A g \in Gens : g # 0
      BY DEF Gens
    <3> QED
      BY <1>5, <3>1, <3>2 DEF MoveIn
  <2> QED
    BY <1>0, <1>5, <2>1, <2>2, <2>3, <2>4, FreshIdentity DEF MoveIn
<1>6. ASSUME NEW p \in Procs, MoveInFails(p) PROVE PutBack'
  <2>0. /\ Set(p, Dropped(p)) /\ proc[p].pc \in {"storage_in", "models_in"}
        /\ proc[p].pc = "storage_in" => "models" \notin Emptied(p)
        /\ proc[p].pc = "models_in" => "storage" \notin Emptied(p)
    BY <1>6, EmptiedAt DEF MoveInFails
  <2>9. /\ left.versions \subseteq LeftBy(p).versions /\ left.models \subseteq LeftBy(p).models
        /\ LeftBy(p).versions = left.versions \cup proc[p].oldRoot.versions
        /\ LeftBy(p).models = left.models \cup ({proc[p].oldModels} \ {0})
    BY DEF LeftBy
  <2>x. /\ proc[p].pc # "storage_in" => proc[p].oldRoot.versions = {}
        /\ proc[p].pc # "models_in" => proc[p].oldModels = 0
    BY <1>s DEF SoundState
  <2>1. CASE Taken(p) /\ left' = LeftBy(p) /\ UNCHANGED <<root, models, cut>>
    BY <2>0, <2>1, <2>9, <2>x, EmptiedAt, PutBackBy DEF Taken
  <2>2. CASE /\ ~Taken(p) /\ UNCHANGED <<left, cut>>
             /\ root' = IF proc[p].pc = "storage_in" THEN proc[p].oldRoot ELSE root
             /\ models' = IF proc[p].pc = "models_in" THEN proc[p].oldModels ELSE models
    BY <2>0, <2>2, EmptiedAt, PutBackBy DEF Taken
  <2>3. CASE ~Taken(p) /\ left' = LeftBy(p) /\ cut' = cut \cup Emptied(p) /\ UNCHANGED <<root, models>>
    <3>1. "storage" \notin Emptied(p) => proc[p].oldRoot.versions = {}
      BY <1>s, <2>x, EmptiedAt DEF SoundState, SoundRoot
    <3>2. "models" \notin Emptied(p) => proc[p].oldModels = 0
      BY <2>x, EmptiedAt
    <3> QED
      BY <2>0, <2>3, <2>9, <3>1, <3>2, PutBackBy
  <2> QED
    BY <1>6, <2>1, <2>2, <2>3 DEF MoveInFails
<1>7. ASSUME NEW p \in Procs, Crash(p) PROVE PutBack'
  <2>9. /\ LeftBy(p).versions = left.versions \cup proc[p].oldRoot.versions
        /\ LeftBy(p).models = left.models \cup ({proc[p].oldModels} \ {0})
    BY DEF LeftBy
  <2>1. "storage" \notin Emptied(p) => proc[p].oldRoot.versions = {}
    BY <1>s, EmptiedAt DEF SoundState, SoundRoot
  <2>2. "models" \notin Emptied(p) => proc[p].oldModels = 0
    BY <1>s, EmptiedAt DEF SoundState
  <2>3. cut \subseteq cut' /\ left' = LeftBy(p) /\ cut' = cut \cup Emptied(p) /\ UNCHANGED <<root, models>>
    BY <1>7 DEF Crash
  <2> QED
    BY <1>7, <2>1, <2>2, <2>3, <2>9, PutBackBy DEF Crash
<1> QED
  BY <1>1, <1>3, <1>4, <1>5, <1>6, <1>7 DEF Next, Work, Publish, Outage, Recover, vars

\* What a step takes from the disk has its successor in its place.
Backed ==
  /\ \A v \in VersionsOnDisk \ VersionsOnDisk' : root.id = 0 /\ root'.versions # {}
  /\ \A m \in ModelsOnDisk \ ModelsOnDisk' : models = 0 /\ models' # 0

\* What a load has or had in its hands is on disk.
LEMMA OnDisk ==
  /\ \A v : v \in VersionsOnDisk <=>
       v \in root.versions \/ v \in left.versions \/ \E q \in Procs : v \in proc[q].oldRoot.versions
  /\ \A v : v \in VersionsOnDisk' <=>
       v \in root'.versions \/ v \in left'.versions \/ \E q \in Procs : v \in proc'[q].oldRoot.versions
  /\ \A m : m \in ModelsOnDisk <=>
       m # 0 /\ (m = models \/ m \in left.models \/ \E q \in Procs : m = proc[q].oldModels)
  /\ \A m : m \in ModelsOnDisk' <=>
       m # 0 /\ (m = models' \/ m \in left'.models \/ \E q \in Procs : m = proc'[q].oldModels)
BY DEF VersionsOnDisk, ModelsOnDisk

\* The other loads keep their backups, so what p does with its own and with the
\* places decides.
LEMMA BackedBy ==
  ASSUME AssetsInv, NEW p \in Procs, NEW s, Set(p, s),
         \/ root.id = 0 /\ root'.versions # {}
         \/ /\ root.versions \subseteq root'.versions \cup s.oldRoot.versions
            /\ left.versions \subseteq left'.versions
            /\ proc[p].oldRoot.versions \subseteq root'.versions \cup left'.versions \cup s.oldRoot.versions,
         \/ models = 0 /\ models' # 0
         \/ /\ models \in {0, models', s.oldModels} /\ left.models \subseteq left'.models
            /\ proc[p].oldModels \in {0, models', s.oldModels} \cup left'.models
  PROVE  Backed
<1>1. proc'[p] = s /\ \A q \in Procs : q # p => proc'[q] = proc[q]
  BY DEF Set, AssetsInv, AssetTypes
<1>2. \A v \in VersionsOnDisk \ VersionsOnDisk' : root.id = 0 /\ root'.versions # {}
  BY <1>1, OnDisk
<1>3. \A m \in ModelsOnDisk \ ModelsOnDisk' : models = 0 /\ models' # 0
  BY <1>1, OnDisk
<1> QED
  BY <1>2, <1>3 DEF Backed

\* What a step brings into its place has been validated, restored or built.
Checked ==
  /\ models' \notin {0, models} => <<"models", models'>> \notin bad
  /\ root'.id # root.id => \A v \in root'.versions :
       \/ <<"storage", v>> \notin bad
       \/ \E p \in Procs : v \in proc[p].oldRoot.versions
       \/ \E p \in Procs : proc[p].pc = "building" /\ proc'[p].serves = v

\* Process p keeps the backups it has.
SameBackups(p) == proc'[p].oldRoot = proc[p].oldRoot /\ proc'[p].oldModels = proc[p].oldModels

\* The steps that move directories, and that build, are safe; no other changes
\* what a directory holds.
LEMMA SwapStep == ASSUME AssetsInv, Next PROVE Backed /\ Checked
<1>0. /\ AssetTypes /\ SoundRoot(root) /\ SoundModels(models) /\ Gens \subseteq 0 .. Generations
      /\ \A m \in Gens : m # 0
  BY DEF AssetsInv, Gens
<1>s. ASSUME NEW p \in Procs
      PROVE  /\ SoundState(proc[p]) /\ proc[p] \in ProcStates
             /\ proc[p].pc \notin {"idle", "bootstrap", "fetch_bootstrap"} => proc[p].gen \in Gens
             /\ proc[p].pc \notin {"idle", "bootstrap", "fetch_bootstrap", "lock"} => proc[p].manifest \in Gens
  BY DEF AssetsInv, SoundState
<1>m. /\ Made.id # 0 /\ Made.versions = root.versions /\ (root.id # 0 => Made = root)
      /\ Made \in Roots
  BY <1>0, MadeRoot DEF SoundRoot
\* Nothing is moved.
<1>a. ASSUME NEW p \in Procs, NEW s, Set(p, s), models' = models, root.versions = root'.versions,
             root'.id = root.id \/ root.versions = {}, left' = left \/ left' = LeftBy(p),
             s.oldRoot.versions = proc[p].oldRoot.versions \/ left' = LeftBy(p),
             s.oldModels = proc[p].oldModels \/ left' = LeftBy(p)
      PROVE  Backed /\ Checked
  <2>1. /\ LeftBy(p).versions = left.versions \cup proc[p].oldRoot.versions
        /\ LeftBy(p).models = left.models \cup ({proc[p].oldModels} \ {0})
    BY DEF LeftBy
  <2>2. Backed
    BY <1>a, <2>1, BackedBy
  <2> QED
    BY <1>a, <2>2 DEF Checked
<1>1. CASE Publish \/ Outage \/ Recover
  <2>1. UNCHANGED <<root, models, left, proc>>
    BY <1>1 DEF Publish, Outage, Recover
  <2> QED
    BY <2>1 DEF Backed, Checked, VersionsOnDisk, ModelsOnDisk
\* A load that stays out of the places, or only makes them, keeps its backups.
<1>b. ASSUME NEW p \in Procs,
             \/ Begin(p) \/ ResolveBootstrap(p) \/ FetchBootstrap(p) \/ TakeLock(p) \/ GetLock(p)
             \/ CheckMetadata(p) \/ StageStorage(p) \/ StageModels(p) \/ Open(p) \/ Build(p)
             \/ LockTimesOut(p) \/ GoOffline(p)
      PROVE  UNCHANGED <<models, left>> /\ Set(p, proc'[p]) /\ SameBackups(p)
  <2>0. proc \in [Procs -> ProcStates]
    BY <1>0 DEF AssetTypes
  <2>z. ASSUME NEW s, Set(p, s), s.oldRoot = proc[p].oldRoot, s.oldModels = proc[p].oldModels
        PROVE  Set(p, proc'[p]) /\ SameBackups(p)
    BY <2>0, <2>z DEF Set, SameBackups
  <2>1. UNCHANGED <<models, left>>
    BY <1>b DEF Begin, ResolveBootstrap, FetchBootstrap, TakeLock, GetLock, CheckMetadata, StageStorage, StageModels,
                Stage, Open, Build, LockTimesOut, GoOffline, world
  <2>2. ASSUME NEW step, Goto(p, step) PROVE Set(p, proc'[p]) /\ SameBackups(p)
    BY <1>s, <2>2, <2>z, StatesOfRoots DEF Goto
  <2>3. ASSUME Fail(p) PROVE Set(p, proc'[p]) /\ SameBackups(p)
    BY <1>s, <2>3, <2>z, StatesOfRoots DEF Fail, Over
  <2>4. ASSUME NEW g, Bootstrapped(p, g) PROVE Set(p, proc'[p]) /\ SameBackups(p)
    BY <1>s, <2>4, <2>z, StatesOfRoots DEF Bootstrapped
  <2>5. CASE \/ Begin(p) \/ ResolveBootstrap(p) \/ FetchBootstrap(p) \/ GetLock(p)
             \/ CheckMetadata(p) \/ StageStorage(p) \/ StageModels(p) \/ LockTimesOut(p)
    BY <2>1, <2>2, <2>3, <2>4, <2>5 DEF Begin, ResolveBootstrap, FetchBootstrap, GetLock, CheckMetadata,
       StageStorage, StageModels, Stage, LockTimesOut
  <2>6. CASE GoOffline(p)
    BY <1>s, <2>1, <2>6, <2>z, StatesOfRoots DEF GoOffline
  <2>7. CASE Open(p) \/ Build(p)
    <3>1. LET s == [Over(p) EXCEPT !.serves = proc[p].manifest]
          IN  s.oldRoot = proc[p].oldRoot /\ s.oldModels = proc[p].oldModels
      BY <1>s, StatesOfRoots DEF Over
    <3> QED
      BY <2>1, <2>2, <2>3, <2>7, <2>z, <3>1 DEF Open, Build
  <2>8. CASE TakeLock(p)
    <3>1. \A step, l, m : LET s == [proc[p] EXCEPT !.lock = l, !.manifest = m, !.pc = step]
                            t == [proc[p] EXCEPT !.pc = step, !.manifest = m]
          IN  /\ s.oldRoot = proc[p].oldRoot /\ s.oldModels = proc[p].oldModels
              /\ t.oldRoot = proc[p].oldRoot /\ t.oldModels = proc[p].oldModels
      BY <1>s, StatesOfRoots
    <3>2. CASE Fail(p)
      BY <2>1, <2>3, <3>2
    <3>3. CASE Set(p, [proc[p] EXCEPT !.pc = "load", !.manifest = published])
      BY <2>1, <2>z, <3>1, <3>3
    <3>4. ASSUME NEW step, Set(p, [proc[p] EXCEPT !.lock = Made.id, !.manifest = published, !.pc = step])
          PROVE  Set(p, proc'[p]) /\ SameBackups(p)
      BY <2>z, <3>1, <3>4
    <3> QED
      BY <2>1, <2>8, <3>2, <3>3, <3>4 DEF TakeLock
  <2> QED
    BY <1>b, <2>5, <2>6, <2>7, <2>8
<1>2. ASSUME NEW p \in Procs,
             \/ Begin(p) \/ GetLock(p) \/ LockTimesOut(p) \/ GoOffline(p) \/ Open(p)
      PROVE  Backed /\ Checked
  <2>1. root' = root
    BY <1>2 DEF Begin, GetLock, LockTimesOut, GoOffline, Open
  <2> QED
    BY <1>2, <1>a, <1>b, <2>1 DEF SameBackups
<1>3. ASSUME NEW p \in Procs, ResolveBootstrap(p) \/ FetchBootstrap(p) \/ TakeLock(p)
      PROVE  Backed /\ Checked
  <2>1. root' = root \/ root' = Made \/ \E b \in 0 .. Generations : root' = [Made EXCEPT !.boot = b]
    BY <1>0, <1>3, PrebuiltAssumption DEF ResolveBootstrap, FetchBootstrap, TakeLock, AssetTypes
  <2>2. root'.versions = root.versions /\ (root'.id = root.id \/ root.versions = {})
    BY <1>0, <1>m, <2>1 DEF Roots, SoundRoot
  <2> QED
    BY <1>3, <1>a, <1>b, <2>2 DEF SameBackups
<1>4. ASSUME NEW p \in Procs, CheckMetadata(p) \/ StageStorage(p) \/ StageModels(p)
      PROVE  Backed /\ Checked
  <2>1. root' = root \/ \E file \in {"metadata", "storage", "models"} : root' = Resolved(p, file).root
    BY <1>4 DEF CheckMetadata, StageStorage, StageModels, Stage
  <2>2. proc[p].gen \in Gens
    BY <1>4, <1>s DEF CheckMetadata, StageStorage, StageModels
  <2>3. root'.versions = root.versions /\ (root'.id = root.id \/ root.versions = {})
    BY <1>0, <1>m, <2>1, <2>2, ResolvedRoot DEF SoundRoot
  <2> QED
    BY <1>4, <1>a, <1>b, <2>3 DEF SameBackups
<1>5. ASSUME NEW p \in Procs, MoveAside(p) PROVE Backed /\ Checked
  <2>0. left' = left /\ proc[p].oldRoot.versions \subseteq {} \cup proc[p].oldRoot.versions
    BY <1>5 DEF MoveAside, world
  <2>1. CASE /\ proc[p].pc = "storage_out" /\ root' = NoRoot /\ UNCHANGED models
             /\ Set(p, [proc[p] EXCEPT !.pc = "storage_in", !.oldRoot = root])
    <3>1. LET s == [proc[p] EXCEPT !.pc = "storage_in", !.oldRoot = root]
          IN  s.oldRoot = root /\ s.oldModels = proc[p].oldModels
      BY <1>s, StatesOfRoots
    <3>2. proc[p].oldRoot.versions = {} /\ root'.versions = {}
      BY <1>s, <2>1 DEF SoundState, NoRoot
    <3>3. Backed
      BY <2>0, <2>1, <3>1, <3>2, BackedBy
    <3> QED
      BY <2>1, <3>2, <3>3 DEF Checked
  <2>2. CASE /\ proc[p].pc = "models_out" /\ models' = 0 /\ UNCHANGED root
             /\ Set(p, [proc[p] EXCEPT !.pc = "models_in", !.oldModels = models])
    <3>1. LET s == [proc[p] EXCEPT !.pc = "models_in", !.oldModels = models]
          IN  s.oldRoot = proc[p].oldRoot /\ s.oldModels = models
      BY <1>s, StatesOfRoots
    <3>2. proc[p].oldModels = 0
      BY <1>s, <2>2 DEF SoundState
    <3>3. Backed
      BY <2>0, <2>2, <3>1, <3>2, BackedBy
    <3> QED
      BY <2>2, <3>3 DEF Checked
  <2> QED
    BY <1>5, <2>1, <2>2 DEF MoveAside
<1>6. ASSUME NEW p \in Procs, MoveIn(p) PROVE Backed /\ Checked
  <2>0. left' = left
    BY <1>6 DEF MoveIn, world
  <2>1. CASE /\ proc[p].pc = "storage_in" /\ root.id = 0 /\ UNCHANGED models
             /\ root' = [NoRoot EXCEPT !.id = FreshId, !.versions = {proc[p].gen}]
             /\ Set(p, [proc[p] EXCEPT !.pc = "models", !.oldRoot = NoRoot])
    <3>1. root'.versions = {proc[p].gen} /\ <<"storage", proc[p].gen>> \notin bad
      BY <1>s, <2>1 DEF SoundState, NoRoot
    <3>2. LET s == [proc[p] EXCEPT !.pc = "models", !.oldRoot = NoRoot] IN s.oldModels = proc[p].oldModels
      BY <1>s, StatesOfRoots
    <3>3. Backed
      BY <2>0, <2>1, <3>1, <3>2, BackedBy
    <3> QED
      BY <2>1, <3>1, <3>3 DEF Checked
  <2>2. CASE /\ proc[p].pc = "models_in" /\ models = 0 /\ models' = proc[p].gen /\ UNCHANGED root
             /\ Set(p, [proc[p] EXCEPT !.pc = "load", !.oldModels = 0])
    <3>1. <<"models", proc[p].gen>> \notin bad /\ models' # 0
      BY <1>0, <1>s, <2>2 DEF SoundState
    <3>2. LET s == [proc[p] EXCEPT !.pc = "load", !.oldModels = 0] IN s.oldRoot = proc[p].oldRoot
      BY <1>s, StatesOfRoots
    <3>3. Backed
      BY <2>0, <2>2, <3>1, <3>2, BackedBy
    <3> QED
      BY <2>2, <3>1, <3>3 DEF Checked
  <2> QED
    BY <1>6, <2>1, <2>2 DEF MoveIn
<1>7. ASSUME NEW p \in Procs, MoveInFails(p) PROVE Backed /\ Checked
  <2>0. Set(p, Dropped(p)) /\ proc[p].pc \in {"storage_in", "models_in"}
    BY <1>7 DEF MoveInFails
  <2>1. CASE left' = LeftBy(p) /\ UNCHANGED <<root, models>>
    BY <1>a, <2>0, <2>1
  <2>2. CASE /\ proc[p].pc = "storage_in" /\ root.id = 0 /\ UNCHANGED <<left, models>>
             /\ root' = proc[p].oldRoot
    <3>1. proc[p].oldModels = 0 /\ root.versions = {}
      BY <1>0, <1>s, <2>2 DEF SoundState, SoundRoot
    <3>2. Backed
      BY <2>0, <2>2, <3>1, BackedBy
    <3> QED
      BY <2>2, <3>2 DEF Checked
  <2>3. CASE /\ proc[p].pc = "models_in" /\ models = 0 /\ UNCHANGED <<left, root>>
             /\ models' = proc[p].oldModels
    <3>1. proc[p].oldRoot.versions = {}
      BY <1>s, <2>3 DEF SoundState
    <3>2. Backed
      BY <2>0, <2>3, <3>1, BackedBy
    <3> QED
      BY <1>s, <2>3, <3>2 DEF Checked, SoundState, SoundModels
  <2> QED
    BY <1>7, <2>1, <2>2, <2>3 DEF MoveInFails, Taken
<1>8. ASSUME NEW p \in Procs, Build(p) PROVE Backed /\ Checked
  <2>1. proc'[p].serves = proc[p].manifest /\ proc[p].pc = "building" /\ models' = models
    BY <1>0, <1>8, <1>s DEF Build, Over, Set, AssetTypes, ProcStates
  <2>2. root'.versions = root.versions \cup {proc[p].manifest} /\ root'.id = Made.id
    BY <1>8, <1>m DEF Build, Roots
  <2>3. Backed
    BY <1>8, <1>b, <2>1, <2>2, BackedBy DEF SameBackups
  <2>4. CASE root.id # 0
    BY <1>m, <2>1, <2>2, <2>3, <2>4 DEF Checked
  <2>5. CASE root.id = 0
    BY <1>0, <2>1, <2>2, <2>3, <2>5 DEF Checked, SoundRoot
  <2> QED
    BY <2>4, <2>5
<1>9. ASSUME NEW p \in Procs, Crash(p) PROVE Backed /\ Checked
  BY <1>9, <1>a DEF Crash
<1> QED
  BY <1>1, <1>2, <1>3, <1>4, <1>5, <1>6, <1>7, <1>8, <1>9 DEF Next, Work

\* The swap of a directory by two renames is safe, for every number of processes
\* that share the storage root, of generations and of crashes, failing renames
\* and outages, although the lock is moved with the directory it guards: what is
\* taken out of its place is on disk until its successor is in its place, it is
\* put back when the swap fails, unless the process died or the file system
\* refused that too, and only validated archives and backups are moved in.
THEOREM SwapsCorrect == Spec => SwapsAreSafe
<1>1. Init => AssetsInv /\ PutBack
  <2> SUFFICES ASSUME Init PROVE AssetsInv /\ PutBack
    OBVIOUS
  <2>0. 0 \in 0 .. Generations /\ 0 \in 0 .. Faults /\ 1 \in Gens
    BY PrebuiltAssumption DEF Gens
  <2>1. NoRoot \in Roots /\ SoundRoot(NoRoot) /\ SoundModels(0) /\ NoRoot.versions = {}
    BY <2>0 DEF NoRoot, Roots, SoundRoot, SoundModels
  <2>2. up \in BOOLEAN
    BY Zenon DEF Init
  <2>3. proc \in [Procs -> ProcStates] /\ \A p \in Procs : SoundState(proc[p])
    BY <2>0, <2>1, PrebuiltAssumption DEF Init, ProcStates, SoundState, Steps, Roots, Files
  <2>4. bad \subseteq {"storage", "models"} \X Gens
    BY DEF Init
  <2>5. left \in [versions : SUBSET Gens, models : SUBSET Gens] /\ cut \subseteq {"storage", "models"} /\ PutBack
    BY DEF Init, PutBack
  <2> QED
    BY <2>0, <2>1, <2>2, <2>3, <2>4, <2>5 DEF Init, AssetsInv, AssetTypes
<1>2. AssetsInv => TypeOK
  BY DEF AssetsInv, AssetTypes, TypeOK, Roots, Files
<1>3. AssetsInv /\ [Next]_vars => [Backed /\ Checked]_vars
  BY SwapStep
<1>4. AssetsInv /\ PutBack /\ [Next]_vars => AssetsInv' /\ PutBack'
  BY AssetsStep, PutBackStep
<1> QED
  BY <1>1, <1>2, <1>3, <1>4, PTL DEF Spec, SwapsAreSafe, NothingLost, OnlyValidArchives, Backed, Checked
=============================================================================
