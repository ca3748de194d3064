# TLA+ models of dbt-nova

dbt-nova is an MCP server (and CLI) that answers questions about a dbt project from its
`manifest.json`. It resolves the manifest from a local or remote source, builds an entity
store, a Tantivy index and derived indexes in a versioned directory on disk, keeps one search
over them active while it answers requests, and replaces that search when the manifest
changes or a client asks for it. Around that it executes SQL on warehouses, ranks search
results, walks lineage graphs, validates metadata and runs evals.

This directory models those parts: the ones in which processes, tasks and requests meet as
state machines, the algorithms without state as operators that are compared with a reference
definition on all small inputs. Paths below are relative to `src/src/`.

## Inventory

| Component | State it keeps | Operations | Hard behaviour | What makes it correct |
|---|---|---|---|---|
| Versioned index storage and loading (`manifest/loader.rs`, `loader/storage.rs`, `utils/storage.rs`, `store.rs`, `tantivy_search.rs`, `rkyv_indexes.rs`) | `versions/<id>/` with store, index, signature, derived indexes; `manifest.current.json`; `.build.lock`; `.in_use.lock` | `ManifestSearch::new`: select a version, lock or fall back, open or build, sign, publish, save; prune | several processes on one directory, crash at every step, lock timeout, check-then-act pruning | one builder, a signature means complete, the pointer names a signed version, content matches the version id, servers converge |
| Storage instances and commands (`cli/mod.rs`, `cli/storage_cmd.rs`) | instance directories of a root, their locks | start, prune, cleanup | commands and servers side by side, removal after a look | what is served is spared, limits are kept exactly |
| Search handle (`manifest/search/core.rs`) | state, active search, configuration, counters, a `Notify` | `spawn`, `reload`, `refresh_loop`, `get`, `wait_ready` | concurrent reloads and refreshes; copies used after awaits; lost wake-ups | one load at a time, failures keep what is served, waiters return, what is served follows the source |
| Manifest sources and cache (`manifest/source/`) | cached body and metadata per URI | resolve: fresh, revalidated, fetched, fallen back | two renames, shared cache directory, retries, chunked reads | what is handed out was published, a confirmed copy is the one served |
| Prebuilt assets and bootstrap (`manifest/prebuilt_assets*.rs`, `bootstrap.rs`) | downloaded artifacts, installed directories, backups | resolve, verify, swap, reload | crash between renames, outages, stale contracts | nothing lost, a failed swap undone, nothing unchecked installed, reloads adopt the latest |
| Semantic caches and embeddings (`manifest/rkyv_*.rs`, `semantic_cache.rs`, `embeddings/`) | cache files by manifest and model, lazily loaded query models | build, load, save, search | builders without a lock, failing batches | ready means complete, so does a cache file |
| Circuit breakers (`utils/circuit_breaker.rs`) | state, failures, opening time, trial flag | `allow`, `on_success`, `on_failure` | late reports, reports that never come | one trial per window, a disabled model is tried again |
| Concurrency limiter and tool calls (`server/mcp.rs`) | two semaphores, deadlines, rate windows | `acquire`, release, run, time out, record | hand-over racing timeouts and dropped requests | permits conserved, no idle slot, every call answered and recorded once; calls during the first load, before there is a searcher, are the exception to slots and deadlines |
| Response budget (`server/mcp/response_budget.rs`) | none | cut, page | counts after a cut | answers fit, pages are complete (but for cut pages of `get_undocumented`) |
| Hosted identity (`server/identity.rs`) | cached key set | verify, fetch, store | rotation during verification | good tokens accepted unless an older key set is in hand, stale ones not |
| Tool trace (`utils/tool_trace.rs`) | one JSONL file, call index | append, empty, read | death in the middle of a row, several processes | bounded, readable, growing index |
| Warehouses (`warehouse/`, `tools/sql.rs`) | running statements, pool, tokens | submit, poll, cancel, fetch, check, preflight | lost answers, timeouts, truncation, refused tokens | started once; complete or marked, but for chunks Databricks leaves out and rows Snowflake withholds; a statement left running is reported |
| Lineage, search ranking, recipes, evals, metadata, modelling tools, settings (`tools/`, `nova_meta/`, `config/`, `cli/`) | none, but for the telemetry file of evals | functions of a manifest, a request, a suite | cycles, limits, ties, precedence | agreement with reference definitions |

How they interact: the CLI or MCP server prepares the *storage root*, fetches *prebuilt
assets* and spawns a *search handle*; its loads call `ManifestSearch::new`, which resolves a
*source*, works in the *storage* shared with other processes, and builds *embeddings* over
shared cache files. Requests pass *identity*, the *limiter* and the rate limit, take the
active search from the handle, call the semantic models behind the *breakers*, execute SQL,
are cut to a *budget* and leave a row in the *trace*.

## Modules

State machines:

| Module | Models | Checked through |
|---|---|---|
| `VersionedStorage` | the instance directory and the loads sharing it | itself |
| `StorageInstances` | the instances of a storage root, servers and commands | `MCCommands` |
| `SearchHandle` | `ManifestSearchHandle` | itself |
| `ManifestSource` | what resolving a remote manifest promises (abstract) | `MCCache` |
| `ManifestCache` | the resolver and its cache files; implements `ManifestSource` | `MCCache` |
| `EmbeddingCache` | the caches of embeddings and the query models | `MCCache` |
| `PrebuiltAssets` | hydration and the swap of directories | itself |
| `CircuitBreaker` | the breaker and the searches reporting to it | itself |
| `ConcurrencyLimiter` | the limiter and its requests | `MCWarehouse` |
| `ToolRequests` | tool calls; extends `ConcurrencyLimiter` | `MCServer` |
| `HostedIdentity`, `ToolTrace` | verification of requests; the trace file | `MCServer` |
| `StatementExecution`, `DuckDbPool`, `TokenCache` | a statement on a remote warehouse; the pool; shared credentials | `MCWarehouse` |
| `EvalGate` | eval runs, their telemetry file and the gate | `MCCommands` |

Algorithms (operators; one input is one state of `MCTools`, which extends `MCReports`, or, for
the first two, of `MCServer`):

| Module | Models |
|---|---|
| `SqlStatements` | read-only check, placeholder scanners, preflight report |
| `ResponseBudget` | byte budget and paging |
| `Lineage` | lineage, column lineage, column matching, projections in SQL, paths, diff |
| `TextIndex`, `SearchRanking`, `SemanticIndex` | fields of the index; fusion, reranking, adjustment, indicators, columns, paging; LSH lookup |
| `EvalScoring`, `EvalSuites` | traces of providers, assertions, comparison, calendar; validation and selection of cases |
| `Recipes` | placeholders, Jinja, parameters, rendering and running |
| `AssetContracts`, `ManifestCommands`, `Settings` | validation of published assets; `manifest load/reload/warm`; environment, presets, validation, fingerprints |
| `EntityMeta`, `NovaMeta` | `meta.nova` as the loader reads it, and as the validator does |
| `MetadataScore` | points, recommendations and diagnostics of entities and columns; the project scope and its pages |
| `EntityOverlap`, `ModellingFindings` | grains, overlap, consistency report; findings of the modelling audit |

Proofs: `VersionedStorageProofs`, `CommandsProofs` (instances, eval gate), `SearchHandleProofs`,
`PrebuiltAssetsProofs`, `CacheProofs` (manifest cache and embeddings), `WarehouseProofs` (pool,
tokens, statements), `ServerProofs` (limiter, tool calls, identity, trace, `SqlStatements`,
`ResponseBudget`); those of the breaker are in `CircuitBreaker` itself.

The modules without a run of their own that appear in one MC module are independent parts of
it: a variable `part` picks one at the start and the others keep still. Algorithms are such
parts too: a step takes one of their inputs, about which the invariant speaks.

### VersionedStorage and StorageInstances

A *loader* is one call of `ManifestSearch::new` and the life of the search it returns. `pc`
follows the steps of `new` in their order; between two steps anything may happen, and `Abort`
ends a load at any of them (an error or the death of its process: both drop the file locks).
A version id is a prefix of the manifest's hash, so versions are indexed by manifest. What a
version directory holds is one variable per artifact: the store (`None` if its checksums do
not match), the Tantivy index (`Empty` when created and not committed: it opens without
error), the signature, `indexes.rkyv`. Each value is the manifest the artifact was made from,
which is what lets content and version id be compared. `OpenReusableArtifacts`,
`PruneScan`/`PruneRemove` and the three writes of `persist_storage_outputs` are separate steps
because the code makes them separately visible to others. Which candidates pruning removes
depends on ages and sizes, so any choice of the right number may go; the number is
`RemovalCounts`, from the limits.

`StorageInstances` looks at whole instances: servers make, lock and leave them; a command is
a list of plans (a cleanup of one instance, prunings with their limits) that it works off
step by step: list, look at each entry, remove. Modification times and sizes are modelled,
since they decide what goes.

### SearchHandle

A load is a task that reads its source and ends well or badly. A step under the state lock
is one action. `reload` is two actions (the copy of the configuration is made before the
lock); the refresh loop is six, because its copies of the configuration and of the active
search are taken under different locks, and the source is resolved with none. The load of
`VersionedStorage` appears as `TaskStart(k, c)`: it may read an older content `c`, the one
published while another process builds. `Settle` is the moment, if any, after which the
outside stops disturbing: sources keep still, loads succeed, clients no longer reload; the
convergence properties are about runs in which it happens. `SameHash` carries the difference
between the loader's hash, which covers the catalog, and the refresh loop's, which does not.

### ManifestCache and ManifestSource

A resolution reads the metadata, decides whether the copy is fresh, asks the source (HTTP in
one piece with etags and 304; DBFS with a status request and pieces of 1 MiB; the SDKs), and
writes body and metadata with one rename each. Other resolvers and crashes come in between
any two steps. Manifests are numbered by publication, and a body is the sequence of the
publications its pieces come from, so a torn read is visible. `ManifestSource` is the abstract
specification: a resolution fails or hands out something published, whole if the remote
answers in one piece. A DBFS answer without data ends the file: cut short, or empty if it is
the first (`ReadTruncated`, `ReadNothing`). The two validators of an answer, etag and
last-modified, are one number here, for they are stored and sent together. `ImplementsSource` instantiates it with what is published and what was
handed out, and checks that every step is one of its steps or stutters.

### EmbeddingCache and PrebuiltAssets

Builders load the compressed or the raw cache of their manifest and model, or embed in
batches that may fail, and save by writing a temporary file and renaming it; models with the
same slug share a file. Searches then load the query model under a lock, after another look at
whether it is there (`Ask`, `LockModel`, `CheckModel`, `LoadModel`). `PrebuiltAssets` has
the bootstrap contract, the artifact cache inside the storage root, the build lock, metadata
and archives, and `swap_directory_atomically` as its two renames, with the failing second one,
after which the backup is put back, where that is possible. A backup that is not stays on
disk: `left` holds what is in those, and `cut` remembers the places whose swap was cut short by
the death of the process or by a file system that refuses twice; `Emptied` are the places a
load is just replacing. The contract is fetched in one step and the manifest resolved in
another, and the store may fail or publish in between.

### CircuitBreaker, ConcurrencyLimiter, ToolRequests

`allow` and the two reports each hold the mutex, so each is one action. Time is reduced to
whether `open_duration` has passed. `ReturnUnreported` is every way a search admitted by
`allow` ends without a report. `acquire` is three operations on two semaphores
(`TakeSlot`/`MissSlot`, `TakePlace`/`TurnAway`, `AwaitSlot`), dropping a permit is two. The
tokio semaphore is external: a released permit goes to the first waiter. `ToolRequests` uses
these actions for its permits and adds the searcher, the deadline, the rate limit, the tool,
the record of the call, and clients that go away; deadlines pass at any time. A behaviour has
calls of one `kind`, searches (whose deadline bounds wait and tool) or statements (whose
`sql_queue_timeout_ms` bounds the wait), for each kind has a limiter of its own. A call looks at
the searcher three times, as in `mcp.rs`: for its deadline (`Arrive`; `found` is what it saw),
for its permit (`RemainingTimeout` or `WithoutPermit`), and to run (`NoSearcher` or the rate
limit and `StartTool`). `SearcherReady`, the end of the first load, may come between any two of
them, so a call may run without a slot, or without a deadline; the properties are about those
that found the searcher when they came. A call that is over may come again.

### HostedIdentity, ToolTrace, EvalGate

The key set is fetched without a lock and stored under one while the issuer rotates keys; the
second look at a token reads the shared set and not the one just stored. `steady` is the
history `GoodTokenAccepted` needs: the key has been published since the request came, and no
request had a set without it in hand then. Clocks run up to `Top`, for `u64::MAX`, where sums
saturate.
The trace file is a sequence of lines; a process that dies in the middle of a row leaves a
torn line to which the next row is appended, and the call index is seeded from the rows found.
The telemetry file of evals is appended to row by row by several runs, cut by retention, and
read by the gate while the suite may be edited.

### StatementExecution, DuckDbPool, TokenCache

The warehouse is external: `job` is its state there, and requests or their answers may be
lost. Each provider has its submit, poll and result steps; rows are pairs of chunk and
position, so that order and completeness can be stated. The limits on rows and chunks are those
of the request, brought under the configured maxima. Databricks and Snowflake get the row limit
with the statement: `withheld` says that the warehouse had more rows, which only Databricks
tells. `failed` is the last exchange with the warehouse that failed, so that `NoOrphan` can
say which calls leave a statement running: a failed submission or poll, answered with an error
and nothing cancelled; a timeout whose cancel request failed; a call that was dropped. The pool's slots, its count of created
connections and its idle list are separate variables, as in the code. A token is a number in
the order of issue.

### Algorithms

Texts are small values or sets of words; scores are integers or fractions; ids are numbers
with the order of ids. Where a scanner reads characters (placeholders, Jinja, projections),
statements are sequences over the few characters it tells apart. A query is a tree of set
expressions, each a common table expression, an operand or a derived table or subquery of the
one above it; the read-only check goes into the first two, and the property compares it with
the set of expressions that are in none of the third kind (`Exposed`). A page of
`get_undocumented` is two arrays cut out of one list by one offset (`Undocumented`), that of
the other tools one. Each module ends with its
properties, written without looking at the algorithm: the set of entities reachable in at most
n counted steps for a bounded traversal, the inverse operation for a splitter, the mirror
image for a comparison, the union of the pages for paging. For the metadata score: more
metadata or another test never lowers it; what would raise a category is recommended on
there; the integrity of a key is credited only if a test shows the key to be unique; the
diagnostics tell the points that were given; and what is said of a project does not depend on
the page asked for.

## Runs

| Run | Expected | Question |
|---|---|---|
| `storage` | pass | With crashes and errors at every step, pruning off (a version removed by pruning may be rebuilt without the lock): one builder at a time, signatures certify complete versions, the pointer names a signed one, searches serve the content their version is named for, and every server converges to a source that keeps still. |
| `storage_prune` | pass | With pruning on: the directory a lock holder works in survives, the retention floor holds. |
| `handle_load` | pass | Two clients, the boot load and the refresh loop: one load at a time and a state that says so, a search that survives failures, counters that add up. |
| `handle_serve` | pass | Under fairness: no lost wake-up, what is served follows the configured source, the loop stops loading an unchanged source. |
| `breaker` | pass | Reports in any order and state, or none: one trial per window, an open breaker is tried again and a half-open one decided if anyone reports. |
| `breaker_stuck` | violation | A trial that ends without a report leaves the breaker half-open for ever, against `docs/getting-started/glossary.md:43`. |
| `cache` | pass | The manifest cache implements its abstract source, a confirmed copy is the one served, a lone resolver converges; caches of embeddings are whole. |
| `warehouse` | pass | The way of an SQL call: limiter; statement with its failures, limits and marks; pool; credentials. |
| `server` | pass | Tool calls, also while the first load ends; hosted identity; the trace; statements before they are executed, and the pages of an answer. |
| `assets` | pass | Hydration by two processes with crashes, failing renames and roll-backs, and outages: nothing lost, failed swaps undone, the last generation adopted. |
| `commands` | pass | Commands that share files: the gate against interleaved, cut, torn and outdated telemetry; across the instances of a storage root, what was served before a command began is spared and limits are kept exactly. |
| `tools` | pass | Every other algorithm on all inputs up to its bounds. |

A property of a run that speaks of several things is a conjunction of named ones, each defined
and explained in the module it is about (`StatementSound`, say, is `StartedOnce`, `NoOrphan`,
`CompleteUnlessTruncated`, `TruncatedIsShort` and `RowsBounded` of `StatementExecution`). For
most of these parts the modules hold a mutated operator (`\* Mutant: ...`), a plausible bug that
makes TLC find that part violated.

### Bounds

- Storage: two loaders are enough for every pairwise race (builder and reader, pruner and
  reader, two builders), two manifests for a published version that is not the wanted one;
  three when pruning, so that candidates remain after the published and the wanted version
  are left out. `MaxKeep = 2`, `MinKeep = 1` and `ByteCap` make both reasons for pruning and
  the floor happen. `StableSource = TRUE` keeps the manifest still between its hash and its
  parse: the code has no protection there, and `ContentAddressed` is about everything else.
- Instances: three of different sizes, one server, two commands with one of three requests
  each; `MaxTouches = 1` lets one instance be made again with a newer time.
- Handle: two clients race each other, the boot load and the loop; two sources and two
  contents distinguish old from new. `StatCap` saturates the counters (3 where they matter,
  0 where they do not). `RefreshOn` is what a configuration may say about polling.
- Breaker: four searches against a threshold of 2 leave reports outstanding when it opens,
  half-opens and closes; `MaxFailures` saturates the counter above the threshold.
- Caches: two resolvers and two publications, bodies of two pieces, two attempts; two builders
  and two searches, two models of one slug, two releases, three entities in batches of two,
  one fault.
- Warehouse: five requests on two slots and two places fill both and leave one to be refused;
  results of up to three chunks, an empty one among them, around limits of
  0, 1, 2 and none, with and without a configured maximum of one row or one chunk, and with
  rows withheld by the warehouse; `MaxPoll = 2`; three callers on two connections, one panic; three tokens.
- Server: three calls, each of which may come again, on one slot, one place and a rate limit of
  one; two requests, two keys, clocks from 0 to `Top = 4` with a maximal age of 2 and a skew of 1,
  so that both ends saturate;
  two writers of one or two processes, rows below, at and above the file's bound; statements
  of up to four of the ten characters the scanners tell apart; query trees of up to three
  expressions of four kinds, one for each way the check treats a kind; up to four items of three
  sizes, any of them columns, budgets from none to more than all of them need.
- Assets: two processes, two generations, one fault. Gate: two runs, two cases, two versions,
  a retention of three rows, one crash, one edit.
- Tools: graphs of four entities, result lists of up to
  four, two or three entities with one or two indicators; the comment at each invariant of
  `MCTools` and `MCReports` says how many.

Symmetry is used only in runs without liveness properties, over model values (manifests in
`storage_prune`, clients and contents in `handle_load`, eval runs and commands in `commands`).

Deadlock is not checked where the system may really stop: a handle whose loads are done, with
the refresh loop off and nobody calling; a breaker whose trial was lost; processes that have
been taken offline; eval runs that are over.

### Fairness

- Storage: a load's own steps are weakly fair (it runs on its own thread); taking the lock is
  strongly fair, since it is polled every 250 ms while it is repeatedly free; a failed load is
  retried and a stale search refreshed at a later tick of the refresh loop. Convergence
  assumes, as its premise, that crashes, lock timeouts and changes of the source end.
- Handle: the runtime polls every task, a load ends, the loop's sleep ends, a caller of
  `reload` goes on after its copy.
- Breaker: time passes, searches keep coming, model calls end (they run under a deadline).
- Limiter and calls: running requests end and drop their permits, deadlines pass. Nobody is
  assumed to come back or to give up.
- Statements: the client's own steps are taken (its requests carry timeouts); the warehouse
  is not assumed to finish anything.
- Caches: a resolution goes on, and time passes, so a copy grows old. Convergence is of a
  resolver that nobody disturbs.
- Assets: a load that has begun goes on, and the artifact store comes back.

## Proofs

Every theorem is for every value of the constants that satisfies the assumptions its module
names; TLC evaluates these on every run. TLC checked each inductive invariant on the run's
instance, or on a smaller one, before it was proved. Where several components are parts of one
MC module, the theorems are about the component's own specification (`Pool!Spec`,
`Identity!Spec`, `ToolsSpec`), and `WarehouseCorrect`, `CachesCorrect`, `ServerCorrect` and
`CommandsCorrect` carry them over to the composed one: a step of one part leaves the others.

The assumptions say of constants no more than that bounds and sizes are natural numbers, that
sets which are counted are finite, and that special values are none of the others. Some theorems
have a hypothesis besides: `PruningOff` or a `Retention` of `None`, each a setting of the program,
and `StableSource`, that the manifest keeps still while it is read.

What a definition by recursion along a sequence computes (the bytes of a file, the rows read
from it, the place of a scanner, the client that follows the pages) is proved by induction over
its length. `SetInduction`, that a set of numbers with 0 and the successors of its elements has
them all, follows from the library's `WFMin` on the well-founded order of the numbers; from it,
`Recursion` gives a function with a first value and a step, and `SameAlong` says that there is
one only, so that it is the one the definition chooses.

`VersionedStorageProofs`
- `TypeCorrect`, and `LockHolderSafe` for any pruning.
- `BuildersExclusive`, for any pruning: who writes a version holds the build lock, unless pruning
  removed that version at some time (`pruned`, a history variable). It is not inductive alone;
  `BuildInv` ties a load's local knowledge to the disk, for the versions that were not pruned:
  what a load without the lock has been told is complete still is, a version under construction
  is unsigned, and only a lock holder constructs. For a version that pruning did remove it is
  false in the code (see the deviations below).
- `FloorKept`: no removal goes below the retention floor, although `prune_dirs` scans first and
  removes later. The invariant behind it: what the scan did not select is enough by itself. Only
  the lock holder removes, so those directories stay whatever others build meanwhile.
- With pruning off (`PruningOff`: no limit on number or bytes, a hypothesis of these theorems and
  not of the module), `SignaturesCertify` and `PointerSound`: `pruned` is empty then, and
  `BuildInv` speaks of every version.
- `ServedIsOfItsVersion`: moreover with a source that keeps still while a load reads it
  (`StableSource`), all that is served comes from the manifest the version is named for.
  `ContentInv` adds to `BuildInv` that a directory holds nothing of another manifest, that who
  may come to parse has selected the version of what the source holds now (a load sent to the
  published version never parses), and what a load has open is of its version.

`CommandsProofs`
- `ServedStay`: no command removes the instance of a server that served before it began. A
  listing takes up nothing that a lock is on, and such a server keeps its lock on the directory
  that is there; that choosing the victims adds nothing to the listing is a lemma about the
  operators.
- `InstancesCorrect`: moreover a pruning that nothing disturbed removes what the limits ask for
  and no more. `OnTheWay` ties its progress to `ToGo`, what has to go of the instances there
  were when it began: nothing else is gone, and what has to go and is still there is to be
  listed, or listed, or in line. That `ToGo` leaves the newest that fit is a lemma about
  `PruneVictims`, the least number of the oldest whose removal is enough.
- `GateCorrect`, without retention: a gate that allows speaks for one run of the whole suite as
  it reads now, and the last undisturbed run decides. `GateInv` says that a run has one stamp and one report, that each row in
  the file is one of a report, no case of a run is there twice, and what a writer has written
  and has left to write is what it found. With retention the file is rewritten, which is
  checked for two runs only (see the deviations below for three).
- `CommandsCorrect`: both in the composed specification.

`SearchHandleProofs`
- Types, with the facts about tasks they need (a task that loads has a configuration and a
  content); `SingleLoad`; `ServingSurvives`, from the invariant that a search is active exactly
  in `Ready` and `Refreshing`, and that a reload under way kept the search that is still active;
  `CountersSound`, from the exact count (an attempt is a success, a failure or the one under
  way).

`CircuitBreaker`
- `BreakerCoherent` (an open breaker keeps its clock, a half-open one has given its trial, a
  closed one is below the threshold), inductive with the types, and from it `TrialsBounded`.

`CacheProofs`
- `CacheImplementsSource`: the refinement of `ManifestSource`, one lemma for the initial states
  and one for the steps, on the invariant that every body, cached or under way, is made of
  publications so far, and of a single one if the remote answers in one piece.
- `ConfirmedCorrect`: a 304 is about the copy that is served. For a resolver alone at the entry,
  an etag of the current publication means its body. Between the two renames, or after a crash
  there, the body is newer than its etag, which then is of an older publication than the current
  one, so no 304 will be about it.
- `CachesCorrect`: a compressed file is one that a complete build renamed; a builder past its
  batches has a vector for every entity; a query model is loaded by the holder of its lock, while
  there is none. `EmbeddingAssumption` says of files left by an earlier release that those named
  after a manifest hold entities of it and no others; they need not hold all.

`WarehouseProofs`
- `PoolCorrect`: a slot is free or belongs to a task that checks out, opens or runs, so a task at
  its checkout finds an idle connection or room for one, as long as none was lost.
- `TokensCorrect`: from its clear to its second attempt, nothing a refused request can come upon
  is the token it was refused with: not the cache, not what another is about to store (the login
  holds the mutex), not its own.
- `StatementCorrect`: `ControlInv` for what the warehouse does (started once; running after the
  call only behind the exchange that failed), `CollectInv` for the rows: whole chunks in order
  until the mark, none after it. The theorem says of every short answer that it is marked, or is
  one of Databricks without the chunks it was not asked for, or one of Snowflake whose rows the
  warehouse withheld.
- `WarehouseCorrect`: all of it in the composed specification.

`ServerProofs`
- `LimiterCorrect`: permits are conserved (counted over the requests that hold one), and a slot
  is free only when nobody waits; the line of waiters holds exactly the waiting requests, once.
- `CallsCorrect` and `InTime`: `CallsInv` couples the phase of a call to its state in the limiter
  and its answer to its records. A call that found the searcher when it came finds it again, so
  it goes for a permit and keeps its deadline; one that did not may run without either, next to
  the others, and the count of the slots is shown for those that have one.
- `IdentityCorrect`: `SteadyKept` follows a request whose key stays published through fetch,
  store and second look: with no older set in hand when it came, every set that is stored
  meanwhile was fetched while its key was published.
- `TraceCorrect`: `TraceInv` says that the bytes keep to the bound and that what is read from the
  file is what was put into it since it was last emptied. The lemmas under it say what a row
  adds to the bytes of a file and to what is read from it, be it a line of its own or the end
  of a torn one.
- `SqlCorrect`, for statements of any length. `SameScan`: without dollars and backslashes the two
  scanners are at the same place behind every character. `ReplacedScan`: a scanner of the
  replaced statement goes where that of the original went, since a question mark opens and
  closes nothing and a replaced colon has an identifier behind it. `InCodeByQuotes`: before an
  identifier or a comment has begun, the scanner is in a string exactly behind an odd number of
  quotes; a doubled quote, which it takes at once, is what makes this need the character to
  come. The read-only check is an induction along the tree, from its leaves: it says yes at an
  expression exactly if nothing writes in what it exposes. The preflight report is a case for
  each provider.
- `AnswersCorrect`, for any sizes, limit, budget and cuts. Each cut keeps the count and leaves at
  most the items there were, so that the shape given afterwards notices every loss
  (`Shaped`); the final check compares what is sent (`Finalized`). `ClientSound` is the
  induction along the pages: who is not done has the items up to its offset, and as many pages
  at most; with two arrays, as long as every page came whole.
- `ServerCorrect`: all of it in the composed specification.

`PrebuiltAssetsProofs`
- `SwapsCorrect`: the storage root is an object with an identity, for the lock in it moves with
  the directory. What a process has taken out it holds as a backup until the successor is in
  place; if it fails there it puts it back or, where the place is taken, leaves it on disk; and
  a load that moves something in has validated it. `PutBack` is an invariant because a place
  that lies empty next to such a backup is one some load is at, or was cut short at. That an identity is fresh is by
  counting: a finite number of processes knows finitely many.

Two of the proofs corrected the model. `OnlyValidArchives` had forbidden that a load builds its
version in a directory that was taken away and is made again for it, which the code does; it now says
that a version in a new directory came in a valid archive, or back with a backup, or was built
there. Loading a query model under the lock has become two steps, the second look and the load,
as in `get_or_try_init`.

Only model-checked:
- everything temporal under fairness: `ServedConverges`, `WaitersReturn`, `ServedFollowsSource`,
  `RefreshSettles`, `RetriedAndDecided`, `ResolverConverges`, `CallsEnd`, `CallsInTime` (its part
  about late starts is `InTime`), `AdoptsLatest`; the prover has no fairness or `ENABLED`;
- the properties of the run `tools`: its algorithms are recursive operators over graphs, trees
  and texts, and a module that reaches a `RECURSIVE` declaration has no SMT backend;
- `GateSound` with retention.

## Known deviations

Where the code does something else than a document or its own other half says, and what the
model shows of it. `breaker_stuck` is a run; the formulas named below are definitions of the
modules that TLC refutes when they are added to a cfg.

Storage and serving:
- With pruning, which is on by default, a load allowed to read a version without the lock may
  find it pruned and rebuild it without the lock (`loader/storage.rs:267`; `BuilderHoldsLock`
  without its `sel[p] \notin pruned`, with `MaxKeep > 0` and no read-only loader), against
  `docs/development/architecture.md:277`.
- `prune_dirs` looks at in-use locks first and removes later (`utils/storage.rs:94`;
  `InUseProtected`), against `docs/operations/ops.md:200`; an instance locked after a prune or
  cleanup looked at it goes under its server. `ServedAreSpared` is about the ones locked before.
- The loader's prune keeps `storage_max_instances` other instances, the command line's one
  fewer (`loader.rs:298`, `cli/mod.rs:204`).
- A refresh that copied the configuration before a reload puts the old source back
  (`search/core.rs:977`; `SettledServesConfigured`), against
  `docs/configuration/manifest-sources.md:143`.
- With a catalog the refresh loop reloads an unchanged source at every tick
  (`search/core.rs:1041`; `RefreshSettles` with `Catalogued`), against `docs/operations/ops.md:30`.
- A strict read-only start after a writable run finds no cached bootstrap contract when the
  artifact cache was inside the storage root that a swap replaced
  (`prebuilt_assets_resolver.rs:1275`; `OfflineReuse`), against
  `docs/operations/prebuilt-assets.md:462`.
- Vectors of a quantized cache are quantized again when loaded (`embeddings/mod.rs:745`;
  `EmbeddingCache!ServedAsBuilt`); a cache does not record `vector_max_chars`.
- A warm is verified without the number of cache entries (`cli/manifest.rs:682`), and `force`
  accepts a file up to two seconds older than the command.
- A swap that dies between its renames, or whose roll-back fails too, leaves the old directory
  in a backup that nothing looks for (`prebuilt_assets_resolver.rs:1289`); the next load fetches or
  builds anew.
- A reload that names another source and a blank `storage_instance_id` keeps the instance derived
  from the old source (`search/core.rs:847`; `ConfiguredAfresh` without its `blank`).
- Queue places stay held while a request runs, so fewer requests can wait than
  `docs/configuration/reference.md:284` says (`server/mcp.rs:556`; `TurnedAwayWhenFull`).

Calls and warehouses:
- A call that comes while the first load is under way, and whose later looks find the searcher,
  runs without a slot (`server/mcp.rs:163`, `424`) or, a search, without a deadline (`419`):
  `RunsHoldSlots` and `StartsInTime` without their `found[r]`.
- A search that is late when it reaches the limiter waits without a limit (`server/mcp.rs:1626`):
  it ends when a slot is free, with a timeout.
- Databricks leaves out the chunks beyond `max_chunks`, and all but the first without
  `fetch_all_chunks`, and does not set `truncated` (`databricks.rs:453`); Snowflake does not set it when
  `rows_per_resultset` cut the rows (`snowflake.rs:1077`); `docs/api/response-format.md:48` has it set
  "when results were limited/truncated". `CompleteUnlessTruncated` with `TRUE` for `Asked(c)`, or
  without its last disjunct.
- After a failed poll the statement is left running and nothing cancels it (`databricks.rs:365`):
  `NoOrphan` without "get".
- A request that refreshed the key set looks its key up in the shared cache (`identity.rs:280`); an
  older set stored since by another refuses a token whose key is published: `GoodTokenAccepted`
  with a `steady` that does not look at the sets in hand.
- The read-only check does not go into derived tables and subqueries (`tools/sql.rs:133`), which are
  left to the parser and to the warehouse.
- A page of `get_undocumented` that is cut for the budget loses the end of both arrays, and its
  `next_offset` counts what is left of both (`response_budget.rs:100`, `undocumented.rs:47`): the next page
  repeats some items and skips others. `PagingIsComplete` without the exception for that tool.

Configuration: the fingerprint of the index leaves out `ngram_min`, `ngram_max`, `enable_ngram`
and `max_sql_chunk_bytes` (`config/search.rs:606` calls it the fingerprint of
"search-index-affecting config"); `min_multiplier` above `max_multiplier` makes `f32::clamp`
panic (`tools/search/full.rs:1408`); infinite, NaN and negative weights are accepted.

Tools: `find_recipe` takes an earlier id that ends with the one asked for (`recipes.rs:247`);
`____` is a placeholder without a name that nothing can fill; types of placeholders in the
metadata are ignored when rendering. Eval case ids with white space around them can never be
selected; a telemetry row and its newline are two appends, so rows of two runs may share a
line. With `--telemetry-retention 2`, three runs at once and a suite of three cases, two of the
rewrites can leave a row twice, and the gate may then allow although a case failed
(`telemetry.rs:181`; `AllowedMeansRun`). A page that fits its budget only without `next_offset` is sent
without it and is not marked truncated (`response_budget.rs:149`), against
`docs/api/response-format.md:74`: a client that follows the offsets stops there. Pages of one search are cut out of rankings of different length (`full.rs:79`); fuzzy
queries use unstemmed words on a stemmed field (`tantivy_search.rs:593`); both directions of an
alias share one map, so `b as x, a as y, a as b` loses one (`lineage_sql.rs:82`).

Metadata and modelling: the validator trims grain keys and dimensions, the loader does not
(`entity.rs:780`); a blank first field blocks the fallback to the next (`entity.rs:1112`); a
MetricFlow grain lists its time field also as a dimension, which the validator forbids; a
table named like its source is reported at the source's line. `find_entity_overlap` falls back to all pairs when the
focus is not comparable (`report.rs:315`); swapping two entities may show another pair of
grains on a tie (`agent_context.rs:1138`); shared dimensions are hidden when a pair of grains
that shares only a key scores higher; of two metrics of one name the duplicate rows keep the
last and the labels the first (`report.rs:115`); `entity_grain_signatures` depends on the order of
keys (`agent_context.rs:434`).

Metadata score: the semantic points of an entity add up to 110 and are divided by 98; the
points for tests on the whole model are shown and recommended, and never added, so quality
reaches 70 of 100 (`quality/entity.rs:81`). A grain object without a known field is diagnosed
as scoring nothing (`diagnostics.rs:360`) and gets its 20 points (`semantic/entity.rs:448`). The
diagnostics of a column count three types of constraints, its score all of them. The point gap
of documentation in the project summary is taken from 100 though 85 is the most there is. A
page with `limit` 0 names itself as the next one. Giving a column a role may lower the score,
for it then is a column that ought to be tested.

## Not modelled

- Numeric kernels (BM25, embeddings, cosine scores, quantization): real arithmetic, outside
  TLC's reach; the models take their order or their verdict as input.
- JSON and YAML decoding, SQL parsing, archive formats, TLS and signatures: libraries, present
  by their outcomes.
- Rendering, wording of messages, logging, metrics counters, argument parsing and dispatch of
  the command line, health endpoints.
- The catalog, context, coverage and summary tools: reshaped records over one loaded manifest,
  without state or order.
- Trace, audit and agent-readiness commands: reports over what other modules model.
