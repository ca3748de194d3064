----------------------------- MODULE SearchHandle -----------------------------
(***************************************************************************)
(* `ManifestSearchHandle` (src/src/manifest/search/core.rs): the one       *)
(* search a server answers from, and everything that replaces it while     *)
(* requests are being answered:                                            *)
(*                                                                         *)
(*   - the load spawned at start-up (Boot);                                *)
(*   - `reload`, called by any number of MCP clients at once;              *)
(*   - `refresh_loop`, which polls the manifest source (Loop);             *)
(*   - `wait_ready`, whose callers sleep on a tokio `Notify`.              *)
(*                                                                         *)
(* A load (`ManifestSearch::new`, module VersionedStorage) is here a task  *)
(* that reads its source and ends well or badly. A search is the source    *)
(* and the content it was loaded from; a configuration is a source and     *)
(* whether the refresh loop polls it (manifest_refresh_secs > 0 and not    *)
(* storage_read_only). A step that holds the state lock is one action.     *)
(***************************************************************************)
EXTENDS Naturals, TLC

CONSTANTS
  Clients,     \* callers of reload
  Waiters,     \* callers of wait_ready
  Boot, Loop,  \* the load spawned at start-up, the load of the refresh loop
  Sources,     \* manifest URIs or paths
  Contents,    \* contents a source may have
  Catalogued,  \* sources with a catalog next to them
  RefreshOn,   \* the choices a configuration has for "polled"
  None,
  StatCap      \* the counters of RefreshStats saturate here

ASSUME ConstantAssumption ==
  /\ Boot \notin Clients /\ Loop \notin Clients /\ Boot # Loop
  /\ Catalogued \subseteq Sources
  /\ RefreshOn \subseteq BOOLEAN
  /\ None \notin [source : Sources, content : Contents]
  /\ None \notin [source : Sources, refresh : RefreshOn]
  /\ StatCap \in Nat

VARIABLES
  content,     \* what each source holds now
  config,      \* the shared configuration
  state,       \* ManifestSearchState ...
  active,      \* ... and the search in it
  attempts, successes, failures,  \* RefreshStats
  \* The task of each starter, and the reload call that spawns a client's.
  tpc,
  tConfig,     \* the configuration it loads
  tContent,    \* the content it has read
  tActive,     \* the search reload keeps to fall back on
  \* The locals of refresh_loop.
  lpc,
  lConfig,     \* config_snapshot
  lActive,     \* the search whose hash is active_hash
  wpc,         \* the callers of wait_ready
  calm         \* from here on nothing outside disturbs the handle

Tasks == Clients \cup {Boot, Loop}
Searches == [source : Sources, content : Contents]
MaybeSearch == Searches \cup {None}
Configs == [source : Sources, refresh : RefreshOn]
MaybeConfig == Configs \cup {None}

stats == <<attempts, successes, failures>>
tasks == <<tpc, tConfig, tContent, tActive>>
loop == <<lpc, lConfig, lActive>>
vars == <<content, config, state, active, stats, tasks, loop, wpc, calm>>

\* Every variable has its type.
TypeOK ==
  /\ content \in [Sources -> Contents]
  /\ config \in Configs
  /\ state \in {"Loading", "Ready", "Refreshing", "Failed"}
  /\ active \in MaybeSearch
  /\ attempts \in 0 .. StatCap /\ successes \in 0 .. StatCap /\ failures \in 0 .. StatCap
  /\ tpc \in [Tasks -> {"none", "prepared", "spawned", "loading"}]
  /\ tConfig \in [Tasks -> MaybeConfig]
  /\ tContent \in [Tasks -> Contents \cup {None}]
  /\ tActive \in [Tasks -> MaybeSearch]
  /\ lpc \in {"check", "sleep", "peek", "resolve", "begin"}
  /\ lConfig \in MaybeConfig
  /\ lActive \in MaybeSearch
  /\ wpc \in [Waiters -> {"idle", "start", "registered", "notified", "looked", "rung", "asleep"}]
  /\ calm \in BOOLEAN

\* spawn: the first load is on its way when the handle exists.
Init ==
  /\ content \in [Sources -> Contents]
  /\ config \in Configs
  /\ state = "Loading" /\ active = None
  /\ attempts = 0 /\ successes = 0 /\ failures = 0
  /\ tpc = [k \in Tasks |-> IF k = Boot THEN "spawned" ELSE "none"]
  /\ tConfig = [k \in Tasks |-> IF k = Boot THEN config ELSE None]
  /\ tContent = [k \in Tasks |-> None]
  /\ tActive = [k \in Tasks |-> None]
  /\ lpc = "check" /\ lConfig = None /\ lActive = None
  /\ wpc = [w \in Waiters |-> "idle"]
  /\ calm = FALSE

InFlight(k) == tpc[k] \in {"spawned", "loading"}

\* A reload call that is turned down, or a task that ends, drops its locals.
EndTask(k) ==
  /\ tpc' = [tpc EXCEPT ![k] = "none"]
  /\ tConfig' = [tConfig EXCEPT ![k] = None]
  /\ tContent' = [tContent EXCEPT ![k] = None]
  /\ tActive' = [tActive EXCEPT ![k] = None]

\* The next turn of the refresh loop.
Continue == lpc' = "check" /\ lConfig' = None /\ lActive' = None

Bump(n) == IF n < StatCap THEN n + 1 ELSE n

\* Mutant: the hashes never agree.
NeverSameHash(search, c) == FALSE

\* manifest_hash of a search against scoped_refresh_manifest_hash of a
\* source's content: the loader mixes the catalog into the hash, the refresh
\* loop does not, so with a catalog they never agree.
SameHash(search, c) ==
  search # None /\ search.source \notin Catalogued /\ search.content = c

-----------------------------------------------------------------------------
(* Outside the process: the manifest sources. From Settle on, if it ever   *)
(* happens, they keep still, loads succeed with what they hold, and clients*)
(* call reload no more.                                                    *)

Settle ==
  /\ ~calm /\ calm' = TRUE
  /\ UNCHANGED <<content, config, state, active, stats, tasks, loop, wpc>>

ChangeContent(s) ==
  /\ ~calm
  /\ \E c \in Contents \ {content[s]} : content' = [content EXCEPT ![s] = c]
  /\ UNCHANGED <<config, state, active, stats, tasks, loop, wpc, calm>>

-----------------------------------------------------------------------------
(* reload.                                                                 *)

\* The configuration is copied and the parameters are laid over the copy. A
\* bootstrap or validation error ends the call here and changes nothing.
ReloadPrepare(c) ==
  /\ ~calm
  /\ tpc[c] = "none"
  /\ \E next \in Configs : tConfig' = [tConfig EXCEPT ![c] = next]
  /\ tpc' = [tpc EXCEPT ![c] = "prepared"]
  /\ UNCHANGED <<content, config, state, active, stats, tContent, tActive, loop, wpc, calm>>

\* Mutant: a task swaps in a search without having read its source.
TaskStartUnread(k, c) ==
  /\ tpc[k] = "spawned"
  /\ tpc' = [tpc EXCEPT ![k] = "loading"]
  /\ attempts' = IF k = Boot THEN attempts ELSE Bump(attempts)
  /\ UNCHANGED <<content, config, state, active, successes, failures, tConfig, tContent,
                 tActive, loop, wpc, calm>>

\* Mutant: a load already under way does not turn the reload down.
ReloadBeginAlways(c) ==
  /\ tpc[c] = "prepared"
  /\ state' = IF state = "Ready" THEN "Refreshing" ELSE "Loading"
  /\ tpc' = [tpc EXCEPT ![c] = "spawned"]
  /\ tActive' = [tActive EXCEPT ![c] = active]
  /\ UNCHANGED <<content, config, active, stats, tConfig, tContent, loop, wpc, calm>>

\* Mutant: the search to fall back on is not kept.
ReloadBeginForgetting(c) ==
  /\ tpc[c] = "prepared"
  /\ IF state \in {"Loading", "Refreshing"}
       THEN EndTask(c) /\ UNCHANGED state
       ELSE /\ state' = IF state = "Ready" THEN "Refreshing" ELSE "Loading"
            /\ tpc' = [tpc EXCEPT ![c] = "spawned"]
            /\ tActive' = [tActive EXCEPT ![c] = None]
            /\ UNCHANGED <<tConfig, tContent>>
  /\ UNCHANGED <<content, config, active, stats, loop, wpc, calm>>

\* Under the state lock: turned down while a load is under way, otherwise the
\* task is spawned and the active search kept.
ReloadBegin(c) ==
  /\ tpc[c] = "prepared"
  /\ IF state \in {"Loading", "Refreshing"}
       THEN EndTask(c) /\ UNCHANGED state
       ELSE /\ state' = IF state = "Ready" THEN "Refreshing" ELSE "Loading"
            /\ tpc' = [tpc EXCEPT ![c] = "spawned"]
            /\ tActive' = [tActive EXCEPT ![c] = active]
            /\ UNCHANGED <<tConfig, tContent>>
  /\ UNCHANGED <<content, config, active, stats, loop, wpc, calm>>

-----------------------------------------------------------------------------
(* refresh_loop.                                                           *)

\* The interval is read; 0 means look again in a second.
LoopCheck ==
  /\ lpc = "check" /\ config.refresh
  /\ lpc' = "sleep"
  /\ UNCHANGED <<content, config, state, active, stats, tasks, lConfig, lActive, wpc, calm>>

\* After the sleep the configuration is copied ...
LoopSnapshot ==
  /\ lpc = "sleep"
  /\ lpc' = "peek"
  /\ lConfig' = config
  /\ UNCHANGED <<content, config, state, active, stats, tasks, lActive, wpc, calm>>

\* ... and, under another lock, the active search: a reload may have been
\* completed in between.
LoopPeek ==
  /\ lpc = "peek"
  /\ lpc' = "resolve"
  /\ lActive' = active
  /\ UNCHANGED <<content, config, state, active, stats, tasks, lConfig, wpc, calm>>

\* The source is resolved and hashed, and compared with the copy's hash ...
LoopResolve ==
  /\ lpc = "resolve"
  /\ IF SameHash(lActive, content[lConfig.source])
       THEN Continue
       ELSE lpc' = "begin" /\ UNCHANGED <<lConfig, lActive>>
  /\ UNCHANGED <<content, config, state, active, stats, tasks, wpc, calm>>

\* ... or cannot be: that counts as a failure, though nothing was attempted.
LoopResolveFails ==
  /\ ~calm
  /\ lpc = "resolve"
  /\ Continue
  /\ failures' = Bump(failures)
  /\ UNCHANGED <<content, config, state, active, attempts, successes, tasks, wpc, calm>>

\* Mutant: a failed first load is never retried.
LoopBeginIfReady ==
  /\ lpc = "begin"
  /\ Continue
  /\ IF state # "Ready"
       THEN UNCHANGED <<state, tpc, tConfig>>
       ELSE /\ state' = "Refreshing"
            /\ tpc' = [tpc EXCEPT ![Loop] = "spawned"]
            /\ tConfig' = [tConfig EXCEPT ![Loop] = lConfig]
  /\ UNCHANGED <<content, config, active, stats, tContent, tActive, wpc, calm>>

\* Under the state lock: skipped while a load is under way, otherwise a task
\* is spawned with the copied configuration.
LoopBegin ==
  /\ lpc = "begin"
  /\ Continue
  /\ IF state \in {"Loading", "Refreshing"}
       THEN UNCHANGED <<state, tpc, tConfig>>
       ELSE /\ state' = IF state = "Ready" THEN "Refreshing" ELSE "Loading"
            /\ tpc' = [tpc EXCEPT ![Loop] = "spawned"]
            /\ tConfig' = [tConfig EXCEPT ![Loop] = lConfig]
  /\ UNCHANGED <<content, config, active, stats, tContent, tActive, wpc, calm>>

-----------------------------------------------------------------------------
(* The spawned tasks.                                                      *)

\* Mutant: the attempt is counted when the loop ticks, not when a task starts.
TaskStartUncounted(k, c) ==
  /\ tpc[k] = "spawned"
  /\ calm => c = content[tConfig[k].source]
  /\ tpc' = [tpc EXCEPT ![k] = "loading"]
  /\ tContent' = [tContent EXCEPT ![k] = c]
  /\ UNCHANGED <<content, config, state, active, stats, tConfig, tActive, loop, wpc, calm>>

\* The attempt is counted and ManifestSearch::new reads content c: the
\* source's, or an older one that is published while another process holds
\* the build lock.
TaskStart(k, c) ==
  /\ tpc[k] = "spawned"
  /\ calm => c = content[tConfig[k].source]
  /\ tpc' = [tpc EXCEPT ![k] = "loading"]
  /\ tContent' = [tContent EXCEPT ![k] = c]
  /\ attempts' = IF k = Boot THEN attempts ELSE Bump(attempts)
  /\ UNCHANGED <<content, config, state, active, successes, failures, tConfig,
                 tActive, loop, wpc, calm>>

\* Mutant: a caller that has not gone to sleep yet is not reached, as if it
\* registered after looking at the state.
NotifySleepers ==
  wpc' = [w \in Waiters |-> IF wpc[w] = "asleep" THEN "start" ELSE wpc[w]]

\* notify_waiters reaches whoever has registered, asleep or not.
NotifyWaiters ==
  wpc' = [w \in Waiters |-> CASE wpc[w] = "registered" -> "notified"
                              [] wpc[w] = "looked" -> "rung"
                              [] wpc[w] = "asleep" -> "start"
                              [] OTHER -> wpc[w]]

\* Under the state lock the new search is swapped in; a reload also stores
\* its configuration. Nothing is counted for the first load.
TaskSucceeds(k) ==
  /\ tpc[k] = "loading"
  /\ EndTask(k)
  /\ config' = IF k \in Clients THEN tConfig[k] ELSE config
  /\ state' = "Ready"
  /\ active' = [source |-> tConfig[k].source, content |-> tContent[k]]
  /\ successes' = IF k = Boot THEN successes ELSE Bump(successes)
  /\ NotifyWaiters
  /\ UNCHANGED <<content, attempts, failures, loop, calm>>

\* Under the state lock: a reload falls back on the search it kept, the
\* refresh loop on the one in the state; without one the handle has failed.
TaskFails(k) ==
  /\ ~calm
  /\ tpc[k] = "loading"
  /\ EndTask(k)
  /\ \/ /\ k = Boot
        /\ state' = "Failed" /\ UNCHANGED <<active, failures>>
     \/ /\ k \in Clients
        /\ active' = tActive[k]
        /\ state' = IF tActive[k] # None THEN "Ready" ELSE "Failed"
        /\ failures' = Bump(failures)
     \/ /\ k = Loop
        /\ UNCHANGED active
        /\ state' = CASE state = "Refreshing" -> "Ready"
                      [] state = "Loading" -> "Failed"
                      [] OTHER -> state
        /\ failures' = IF state \in {"Refreshing", "Loading"} THEN Bump(failures) ELSE failures
  /\ NotifyWaiters
  /\ UNCHANGED <<content, config, attempts, successes, loop, calm>>

-----------------------------------------------------------------------------
(* wait_ready.                                                             *)

WaitReady(w) ==
  /\ wpc[w] = "idle"
  /\ wpc' = [wpc EXCEPT ![w] = "start"]
  /\ UNCHANGED <<content, config, state, active, stats, tasks, loop, calm>>

\* The Notified future is created and enabled ...
Register(w) ==
  /\ wpc[w] = "start"
  /\ wpc' = [wpc EXCEPT ![w] = "registered"]
  /\ UNCHANGED <<content, config, state, active, stats, tasks, loop, calm>>

\* ... get() is called: a search or a failure is returned ...
CheckReady(w) ==
  /\ wpc[w] \in {"registered", "notified"}
  /\ wpc' = [wpc EXCEPT ![w] = IF state # "Loading" THEN "idle"
                               ELSE IF wpc[w] = "notified" THEN "rung" ELSE "looked"]
  /\ UNCHANGED <<content, config, state, active, stats, tasks, loop, calm>>

\* ... or the caller sleeps until it is notified, not at all if it has been.
AwaitNotified(w) ==
  /\ wpc[w] \in {"looked", "rung"}
  /\ wpc' = [wpc EXCEPT ![w] = IF wpc[w] = "rung" THEN "start" ELSE "asleep"]
  /\ UNCHANGED <<content, config, state, active, stats, tasks, loop, calm>>

-----------------------------------------------------------------------------
LoopStep ==
  \/ LoopCheck \/ LoopSnapshot \/ LoopPeek
  \/ LoopResolve \/ LoopResolveFails \/ LoopBegin

TaskStep(k) == (\E c \in Contents : TaskStart(k, c)) \/ TaskSucceeds(k) \/ TaskFails(k)

WaiterStep(w) == Register(w) \/ CheckReady(w) \/ AwaitNotified(w)

Next ==
  \/ Settle
  \/ \E s \in Sources : ChangeContent(s)
  \/ \E c \in Clients : ReloadPrepare(c) \/ ReloadBegin(c)
  \/ LoopStep
  \/ \E k \in Tasks : TaskStep(k)
  \/ \E w \in Waiters : WaitReady(w) \/ WaiterStep(w)

Spec == Init /\ [][Next]_vars

\* The runtime polls every task, a load ends one way or the other, and a
\* sleeping loop wakes up.
Fairness ==
  /\ WF_vars(LoopStep)
  /\ \A k \in Tasks : WF_vars(TaskStep(k))
  /\ \A c \in Clients : WF_vars(ReloadBegin(c))
  /\ \A w \in Waiters : WF_vars(WaiterStep(w))

FairSpec == Spec /\ Fairness

-----------------------------------------------------------------------------
(* Properties.                                                             *)

\* At most one load runs, whoever starts it, and the handle says Loading or
\* Refreshing exactly while it does: the state is what keeps the boot load,
\* the reloads and the refresh loop apart, and it is never left behind by a
\* load that is gone (every later reload would be turned down).
OneLoadInFlight ==
  /\ \A j, k \in Tasks : InFlight(j) /\ InFlight(k) => j = k
  /\ state \in {"Loading", "Refreshing"} <=> \E k \in Tasks : InFlight(k)

\* "If a refresh swap fails after a ready manifest is active, Nova keeps
\* serving the previous index" (docs/development/architecture.md:240): get()
\* never goes back to an error, and a failing load leaves the very search
\* that was active.
FailureKeepsServing ==
  [][/\ active # None => active' # None
     /\ active # None => state' \in {"Ready", "Refreshing"}
     /\ \A k \in Tasks : TaskFails(k) => active' = active]_vars

\* The counters add up whatever the order in which tasks are spawned, start
\* and end: every attempt but the one under way has ended as a success or is
\* among the failures (which also count sources that did not resolve).
CountersAddUp ==
  attempts < StatCap /\ failures < StatCap =>
    successes <= attempts /\ attempts <= successes + failures + 1

\* No wake-up is lost: unless the handle keeps going back to Loading, every
\* wait_ready returns, also one whose load ends between the look and the
\* sleep.
WaitersReturn ==
  <>[](state # "Loading") => \A w \in Waiters : wpc[w] # "idle" ~> wpc[w] = "idle"

\* With the refresh loop on, once the source keeps still and loads succeed the
\* handle serves what the configured source holds, whatever failed first loads,
\* late reloads and stale copies in the loop came before.
ServedFollowsSource ==
  <>calm =>
    <>[](active # None /\ active.content = content[config.source])

\* "switch manifest sources at runtime" (docs/configuration/manifest-sources.md:143):
\* when no load is under way and the refresh loop is off and between two looks,
\* so that nothing will change it, the search served is of the configured
\* source.
SettledServesConfigured ==
  state = "Ready" /\ ~config.refresh /\ lpc = "check" => active.source = config.source

\* "refresh attempts (manifest changed)" (docs/operations/ops.md:30): once the
\* source keeps still and loads succeed, the loop stops starting loads.
RefreshSettles ==
  <>calm => <>[](tpc[Loop] = "none")

-----------------------------------------------------------------------------
\* For TLC: clients are interchangeable, and so are contents.
Symmetry == Permutations(Clients) \cup Permutations(Contents)
=============================================================================
