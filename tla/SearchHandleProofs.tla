-------------------------- MODULE SearchHandleProofs --------------------------
(***************************************************************************)
(* Proofs about SearchHandle: the types, the single load in flight, that a *)
(* failure keeps the search being served, and that the counters add up,    *)
(* for any number of clients, waiters, sources and contents.               *)
(***************************************************************************)
EXTENDS SearchHandle, TLAPS

\* A task that has read its source has a configuration and a content.
TaskInv ==
  /\ \A k \in Tasks : tpc[k] # "none" => tConfig[k] \in Configs
  /\ \A k \in Tasks : tpc[k] = "loading" => tContent[k] \in Contents
  /\ tpc[Boot] # "prepared" /\ tpc[Loop] # "prepared"
  /\ lpc \in {"peek", "resolve", "begin"} => lConfig \in Configs

\* A new handle has no task but the boot load's.
LEMMA TypeInit == Init => TypeOK /\ TaskInv
<1> SUFFICES ASSUME Init PROVE TypeOK /\ TaskInv
  OBVIOUS
<1> USE ConstantAssumption DEF Init, Tasks
<1>1. TypeOK
  <2>1. tpc \in [Tasks -> {"none", "prepared", "spawned", "loading"}]
    OBVIOUS
  <2>2. tConfig \in [Tasks -> MaybeConfig]
    BY DEF MaybeConfig
  <2>3. wpc \in [Waiters -> {"idle", "start", "registered", "notified", "looked", "rung", "asleep"}]
    OBVIOUS
  <2>4. tContent \in [Tasks -> Contents \cup {None}] /\ tActive \in [Tasks -> MaybeSearch]
    BY DEF MaybeSearch
  <2>5. calm \in BOOLEAN
    OBVIOUS
  <2> QED
    BY <2>1, <2>2, <2>3, <2>4, <2>5 DEF TypeOK, MaybeConfig, MaybeSearch
<1>2. TaskInv
  BY DEF TaskInv
<1> QED
  BY <1>1, <1>2

\* Every action keeps the types: what a task swaps in is a search because a
\* task that is loading has a configuration and a content.
LEMMA TypeStep == TypeOK /\ TaskInv /\ [Next]_vars => TypeOK' /\ TaskInv'
<1> SUFFICES ASSUME TypeOK, TaskInv, [Next]_vars PROVE TypeOK' /\ TaskInv'
  OBVIOUS
<1> USE ConstantAssumption DEF TypeOK, TaskInv, Tasks, MaybeConfig, MaybeSearch,
          stats, tasks, loop
<1>b. \A n \in 0 .. StatCap : Bump(n) \in 0 .. StatCap
  BY DEF Bump
<1>1. CASE Settle
  BY <1>1 DEF Settle
<1>2. ASSUME NEW s \in Sources, ChangeContent(s) PROVE TypeOK' /\ TaskInv'
  BY <1>2 DEF ChangeContent
<1>3. ASSUME NEW c \in Clients, ReloadPrepare(c) PROVE TypeOK' /\ TaskInv'
  BY <1>3 DEF ReloadPrepare
<1>4. ASSUME NEW c \in Clients, ReloadBegin(c) PROVE TypeOK' /\ TaskInv'
  <2>1. CASE state \in {"Loading", "Refreshing"}
    <3>1. EndTask(c) /\ UNCHANGED <<state, content, config, active, stats, loop, wpc, calm>>
      BY <1>4, <2>1 DEF ReloadBegin
    <3>2. TypeOK'
      BY <3>1 DEF EndTask
    <3>3. TaskInv'
      BY <3>1 DEF EndTask
    <3> QED
      BY <3>2, <3>3
  <2>2. CASE state \notin {"Loading", "Refreshing"}
    <3>1. TypeOK'
      BY <1>4, <2>2 DEF ReloadBegin
    <3>2. TaskInv'
      BY <1>4, <2>2 DEF ReloadBegin
    <3> QED
      BY <3>1, <3>2
  <2> QED
    BY <2>1, <2>2
<1>5. CASE LoopStep
  BY <1>5, <1>b DEF LoopStep, LoopCheck, LoopSnapshot, LoopPeek, LoopResolve, LoopResolveFails,
     LoopBegin, Continue
<1>6. ASSUME NEW k \in Tasks, NEW c \in Contents, TaskStart(k, c)
      PROVE  TypeOK' /\ TaskInv'
  BY <1>6, <1>b DEF TaskStart
<1>7. ASSUME NEW k \in Tasks, TaskSucceeds(k) PROVE TypeOK' /\ TaskInv'
  BY <1>7, <1>b DEF TaskSucceeds, EndTask, NotifyWaiters, Searches, Configs
<1>8. ASSUME NEW k \in Tasks, TaskFails(k) PROVE TypeOK' /\ TaskInv'
  BY <1>8, <1>b DEF TaskFails, EndTask, NotifyWaiters
<1>9. ASSUME NEW w \in Waiters, WaitReady(w) \/ WaiterStep(w) PROVE TypeOK' /\ TaskInv'
  BY <1>9 DEF WaitReady, WaiterStep, Register, CheckReady, AwaitNotified
<1>10. CASE UNCHANGED vars
  BY <1>10 DEF vars
<1> QED
  BY <1>1, <1>2, <1>3, <1>4, <1>5, <1>6, <1>7, <1>8, <1>9, <1>10 DEF Next, TaskStep

\* The variables of the handle always have their types: in particular what is
\* served is always a loaded search, never one whose source or content is
\* missing.
THEOREM TypeCorrect == Spec => []TypeOK
<1>1. Init => TypeOK /\ TaskInv
  BY TypeInit
<1>2. TypeOK /\ TaskInv /\ [Next]_vars => (TypeOK /\ TaskInv)'
  BY TypeStep
<1> QED
  BY <1>1, <1>2, PTL DEF Spec

\* The state and the tasks say the same thing: Loading and Refreshing exactly
\* while one task is in flight, Loading while it is the first load, a search
\* exactly when not Loading or Failed, and a reload in flight keeps the very
\* search that is being served.
HandleInv ==
  /\ OneLoadInFlight
  /\ active = None <=> state \in {"Loading", "Failed"}
  /\ \A c \in Clients : InFlight(c) => tActive[c] = active
  /\ InFlight(Boot) => state = "Loading"

\* A new handle has at most its boot load in flight.
LEMMA HandleInit == Init => HandleInv
  BY ConstantAssumption DEF Init, HandleInv, OneLoadInFlight, InFlight, Tasks

\* A task is only spawned when none is in flight, and it ends together with
\* the state that announced it.
LEMMA HandleStep ==
  TypeOK /\ TaskInv /\ HandleInv /\ [Next]_vars => HandleInv'
<1> SUFFICES ASSUME TypeOK, TaskInv, HandleInv, [Next]_vars PROVE HandleInv'
  OBVIOUS
<1> USE ConstantAssumption DEF TypeOK, TaskInv, HandleInv, OneLoadInFlight, InFlight, Tasks,
          MaybeConfig, MaybeSearch, stats, tasks, loop
<1>1. CASE Settle
  BY <1>1 DEF Settle
<1>2. ASSUME NEW s \in Sources, ChangeContent(s) PROVE HandleInv'
  BY <1>2 DEF ChangeContent
<1>3. ASSUME NEW c \in Clients, ReloadPrepare(c) PROVE HandleInv'
  BY <1>3 DEF ReloadPrepare
<1>4. ASSUME NEW c \in Clients, ReloadBegin(c) PROVE HandleInv'
  <2>1. CASE state \in {"Loading", "Refreshing"}
    BY <1>4, <2>1 DEF ReloadBegin, EndTask
  <2>2. CASE state \notin {"Loading", "Refreshing"}
    BY <1>4, <2>2 DEF ReloadBegin
  <2> QED
    BY <2>1, <2>2
<1>5. CASE LoopCheck \/ LoopSnapshot \/ LoopPeek \/ LoopResolve \/ LoopResolveFails
  BY <1>5 DEF LoopCheck, LoopSnapshot, LoopPeek, LoopResolve, LoopResolveFails, Continue
<1>6. CASE LoopBegin
  BY <1>6 DEF LoopBegin, Continue
<1>7. ASSUME NEW k \in Tasks, NEW c \in Contents, TaskStart(k, c) PROVE HandleInv'
  BY <1>7 DEF TaskStart
<1>8. ASSUME NEW k \in Tasks, TaskSucceeds(k) PROVE HandleInv'
  <2>1. active' # None
    BY <1>8 DEF TaskSucceeds, EndTask, Configs
  <2> QED
    BY <1>8, <2>1 DEF TaskSucceeds, EndTask
<1>9. ASSUME NEW k \in Tasks, TaskFails(k) PROVE HandleInv'
  <2>1. state \in {"Loading", "Refreshing"}
    BY <1>9 DEF TaskFails
  <2>2. active' = active
    BY <1>9, <2>1 DEF TaskFails
  <2>3. state' = IF state = "Refreshing" THEN "Ready" ELSE "Failed"
    BY <1>9, <2>1 DEF TaskFails
  <2> QED
    BY <1>9, <2>1, <2>2, <2>3 DEF TaskFails, EndTask
<1>10. ASSUME NEW w \in Waiters, WaitReady(w) \/ WaiterStep(w) PROVE HandleInv'
  BY <1>10 DEF WaitReady, WaiterStep, Register, CheckReady, AwaitNotified
<1>11. CASE UNCHANGED vars
  BY <1>11 DEF vars
<1> QED
  BY <1>1, <1>2, <1>3, <1>4, <1>5, <1>6, <1>7, <1>8, <1>9, <1>10, <1>11
  DEF Next, LoopStep, TaskStep

\* Types, tasks and the announced state hold together in every behaviour.
LEMMA HandleInvariant == Spec => [](TypeOK /\ TaskInv /\ HandleInv)
<1>1. Init => TypeOK /\ TaskInv /\ HandleInv
  BY TypeInit, HandleInit
<1>2. TypeOK /\ TaskInv /\ HandleInv /\ [Next]_vars => (TypeOK /\ TaskInv /\ HandleInv)'
  BY TypeStep, HandleStep
<1> QED
  BY <1>1, <1>2, PTL DEF Spec

\* The boot load, any number of concurrent reloads and the refresh loop never
\* load at the same time, and Loading or Refreshing is never left behind.
THEOREM SingleLoad == Spec => []OneLoadInFlight
<1>1. HandleInv => OneLoadInFlight
  BY DEF HandleInv
<1> QED
  BY <1>1, HandleInvariant, PTL

\* Once a search is served, requests keep finding one, and a load that fails
\* leaves exactly the search that was served.
THEOREM ServingSurvives == Spec => FailureKeepsServing
<1> DEFINE Keeps == /\ active # None => active' # None
                    /\ active # None => state' \in {"Ready", "Refreshing"}
                    /\ \A k \in Tasks : TaskFails(k) => active' = active
<1>1. TypeOK /\ TaskInv /\ HandleInv /\ HandleInv' /\ TypeOK' /\ [Next]_vars => [Keeps]_vars
  <2> SUFFICES ASSUME TypeOK, TaskInv, HandleInv, HandleInv', TypeOK', [Next]_vars,
                      vars' # vars
               PROVE  Keeps
    OBVIOUS
  <2>1. ASSUME NEW k \in Tasks, TaskFails(k) PROVE active' = active
    <3>1. InFlight(k) /\ state \in {"Loading", "Refreshing"}
      BY <2>1 DEF TaskFails, HandleInv, OneLoadInFlight, InFlight
    <3> QED
      BY <2>1, <3>1 DEF TaskFails, HandleInv, Tasks
  <2>2. active # None => active' # None
    <3>1. ASSUME NEW k \in Tasks, TaskSucceeds(k) PROVE active' # None
      BY <3>1, ConstantAssumption DEF TaskSucceeds, TaskInv, Configs
    <3>2. CASE (\E k \in Tasks : TaskSucceeds(k) \/ TaskFails(k))
      BY <2>1, <3>1, <3>2
    <3>3. CASE ~(\E k \in Tasks : TaskSucceeds(k) \/ TaskFails(k))
      BY <3>3 DEF Next, vars, Settle, ChangeContent, ReloadPrepare, ReloadBegin, LoopStep,
         LoopCheck, LoopSnapshot, LoopPeek, LoopResolve, LoopResolveFails, LoopBegin, TaskStep,
         TaskStart, WaitReady, WaiterStep, Register, CheckReady, AwaitNotified
    <3> QED
      BY <3>2, <3>3
  <2>3. active # None => state' \in {"Ready", "Refreshing"}
    BY <2>2 DEF HandleInv, TypeOK
  <2> QED
    BY <2>1, <2>2, <2>3
<1> QED
  BY <1>1, HandleInvariant, PTL DEF Spec, FailureKeepsServing

\* An attempt is under way when a task other than the first load is loading.
Attempting == \E k \in Tasks \ {Boot} : tpc[k] = "loading"

\* The exact account, which needs the single load: attempts that have ended
\* are successes or failures, at most one has not.
CountInv ==
  attempts < StatCap /\ failures < StatCap =>
    IF Attempting
      THEN successes + 1 <= attempts /\ attempts <= successes + failures + 1
      ELSE successes <= attempts /\ attempts <= successes + failures

\* A load in flight is an attempt not yet accounted for, and its end accounts
\* for it.
LEMMA CountStep ==
  TypeOK /\ TaskInv /\ HandleInv /\ CountInv /\ [Next]_vars => CountInv'
<1> SUFFICES ASSUME TypeOK, TaskInv, HandleInv, CountInv, [Next]_vars PROVE CountInv'
  OBVIOUS
<1>t. /\ attempts \in Nat /\ successes \in Nat /\ failures \in Nat /\ StatCap \in Nat
      /\ attempts <= StatCap /\ successes <= StatCap /\ failures <= StatCap
      /\ tpc \in [Tasks -> {"none", "prepared", "spawned", "loading"}]
  BY ConstantAssumption DEF TypeOK
<1>q. ASSUME UNCHANGED stats, Attempting' = Attempting PROVE CountInv'
  BY <1>q DEF CountInv, stats
<1>1. CASE Settle \/ (\E s \in Sources : ChangeContent(s)) \/ UNCHANGED vars
  BY <1>1, <1>q DEF Settle, ChangeContent, vars, tasks, Attempting
<1>2. ASSUME NEW c \in Clients, ReloadPrepare(c) PROVE CountInv'
  <2>1. \A k \in Tasks : tpc'[k] = "loading" <=> tpc[k] = "loading"
    BY <1>2, <1>t DEF ReloadPrepare, Tasks
  <2>2. Attempting' = Attempting
    BY <2>1 DEF Attempting
  <2> QED
    BY <1>2, <2>2, <1>q DEF ReloadPrepare
<1>3. ASSUME NEW c \in Clients, ReloadBegin(c) PROVE CountInv'
  <2>1. \A k \in Tasks : tpc'[k] = "loading" <=> tpc[k] = "loading"
    BY <1>3, <1>t DEF ReloadBegin, EndTask, Tasks
  <2>2. Attempting' = Attempting
    BY <2>1 DEF Attempting
  <2> QED
    BY <1>3, <2>2, <1>q DEF ReloadBegin
<1>4. CASE LoopCheck \/ LoopSnapshot \/ LoopPeek \/ LoopResolve
  BY <1>4, <1>q DEF LoopCheck, LoopSnapshot, LoopPeek, LoopResolve, tasks, Attempting
<1>5. CASE LoopResolveFails
  <2>1. Attempting' = Attempting /\ attempts' = attempts /\ successes' = successes
    BY <1>5 DEF LoopResolveFails, tasks, Attempting
  <2>2. failures' < StatCap => failures < StatCap /\ failures' = failures + 1
    BY <1>5, <1>t DEF LoopResolveFails, Bump
  <2>3. failures' \in Nat
    BY <1>5, <1>t DEF LoopResolveFails, Bump
  <2> QED
    BY <1>t, <2>1, <2>2, <2>3 DEF CountInv
<1>6. CASE LoopBegin
  <2>1. ~InFlight(Loop) \/ tpc' = tpc
    BY <1>6 DEF LoopBegin, HandleInv, OneLoadInFlight, Tasks
  <2>2. \A k \in Tasks : tpc'[k] = "loading" <=> tpc[k] = "loading"
    BY <1>6, <1>t, <2>1 DEF LoopBegin, InFlight, Tasks
  <2>3. Attempting' = Attempting
    BY <2>2 DEF Attempting
  <2> QED
    BY <1>6, <2>3, <1>q DEF LoopBegin
<1>7. ASSUME NEW k \in Tasks, NEW c \in Contents, TaskStart(k, c) PROVE CountInv'
  <2>1. ~Attempting
    BY <1>7, <1>t DEF TaskStart, HandleInv, OneLoadInFlight, InFlight, Attempting
  <2>2. CASE k = Boot
    <3>1. ~Attempting'
      BY <1>7, <1>t, <2>1, <2>2 DEF TaskStart, Attempting
    <3>2. UNCHANGED stats
      BY <1>7, <2>2 DEF TaskStart, stats
    <3>3. Attempting' = Attempting
      BY <2>1, <3>1 DEF Attempting
    <3> QED
      BY <3>2, <3>3, <1>q
  <2>3. CASE k # Boot
    <3>1. Attempting'
      BY <1>7, <1>t, <2>3 DEF TaskStart, Attempting
    <3>2. successes' = successes /\ failures' = failures /\ attempts' = Bump(attempts)
      BY <1>7, <2>3 DEF TaskStart
    <3>3. attempts' < StatCap => attempts < StatCap /\ attempts' = attempts + 1
      BY <1>t, <3>2 DEF Bump
    <3> QED
      BY <1>t, <2>1, <3>1, <3>2, <3>3 DEF CountInv
  <2> QED
    BY <2>2, <2>3
<1>8. ASSUME NEW k \in Tasks, TaskSucceeds(k) \/ TaskFails(k) PROVE CountInv'
  <2>1. tpc[k] = "loading" /\ tpc' = [tpc EXCEPT ![k] = "none"]
    BY <1>8 DEF TaskSucceeds, TaskFails, EndTask
  <2>2. ~Attempting' /\ (Attempting <=> k # Boot)
    BY <1>t, <2>1 DEF HandleInv, OneLoadInFlight, InFlight, Attempting
  <2>3. attempts' = attempts
    BY <1>8 DEF TaskSucceeds, TaskFails
  <2>4. CASE k = Boot
    <3>1. UNCHANGED stats
      BY <1>8, <2>4, ConstantAssumption DEF TaskSucceeds, TaskFails, stats
    <3>2. Attempting' = Attempting
      BY <2>2, <2>4 DEF Attempting
    <3> QED
      BY <3>1, <3>2, <1>q
  <2>5. CASE k # Boot
    <3>1. state \in {"Loading", "Refreshing"}
      BY <2>1 DEF HandleInv, OneLoadInFlight, InFlight
    <3>2. \/ successes' = Bump(successes) /\ failures' = failures
          \/ successes' = successes /\ failures' = Bump(failures)
      BY <1>8, <2>5, <3>1 DEF TaskSucceeds, TaskFails
    <3>3. CASE successes' = Bump(successes) /\ failures' = failures
      BY <1>t, <2>2, <2>3, <2>5, <3>3 DEF CountInv, Bump
    <3>4. CASE successes' = successes /\ failures' = Bump(failures)
      BY <1>t, <2>2, <2>3, <2>5, <3>4 DEF CountInv, Bump
    <3> QED
      BY <3>2, <3>3, <3>4
  <2> QED
    BY <2>4, <2>5
<1>9. ASSUME NEW w \in Waiters, WaitReady(w) \/ WaiterStep(w) PROVE CountInv'
  BY <1>9, <1>q DEF WaitReady, WaiterStep, Register, CheckReady, AwaitNotified, tasks, Attempting
<1> QED
  BY <1>1, <1>2, <1>3, <1>4, <1>5, <1>6, <1>7, <1>8, <1>9 DEF Next, LoopStep, TaskStep

\* The refresh counters a client reads add up in every interleaving of calls,
\* ticks and task ends, as long as none has reached its bound.
THEOREM CountersSound == Spec => []CountersAddUp
<1>1. Init => CountInv
  <2> SUFFICES ASSUME Init PROVE CountInv
    OBVIOUS
  <2>1. ~Attempting
    BY DEF Init, Attempting
  <2> QED
    BY <2>1 DEF Init, CountInv
<1>2. TypeOK /\ TaskInv /\ HandleInv /\ CountInv /\ [Next]_vars => CountInv'
  BY CountStep
<1>3. TypeOK /\ CountInv => CountersAddUp
  BY DEF TypeOK, CountInv, CountersAddUp
<1> QED
  BY <1>1, <1>2, <1>3, HandleInvariant, PTL DEF Spec
=============================================================================
