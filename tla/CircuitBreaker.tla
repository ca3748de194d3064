---------------------------- MODULE CircuitBreaker ----------------------------
(***************************************************************************)
(* The circuit breaker in front of the vector, sparse and reranker models  *)
(* (src/src/utils/circuit_breaker.rs), with the searches that use it       *)
(* (src/src/tools/search/full.rs, indicators.rs). A search asks `allow`,   *)
(* runs the model on a blocking thread under its deadline, and reports     *)
(* `on_success` or `on_failure`, or returns without reporting. Each call   *)
(* holds the breaker's mutex, so it is one action; searches interleave     *)
(* between their two calls.                                                *)
(***************************************************************************)
EXTENDS Naturals, TLAPS

CONSTANTS
  Searches,    \* concurrent searches
  Threshold,   \* failure_threshold, at least 1
  MaxFailures  \* the failure counter is followed up to here

ASSUME ConstantAssumption ==
  /\ Threshold \in Nat \ {0}
  /\ MaxFailures \in Nat /\ MaxFailures >= Threshold

VARIABLES
  state,       \* CircuitBreakerState
  failures,
  openedAt,    \* "none", or "recent" or "old" against open_duration
  trial,       \* half_open_trial
  admitted     \* searches between allow and their report

vars == <<state, failures, openedAt, trial, admitted>>

\* Every variable has its type.
TypeOK ==
  /\ state \in {"Closed", "Open", "HalfOpen"}
  /\ failures \in 0 .. MaxFailures
  /\ openedAt \in {"none", "recent", "old"}
  /\ trial \in BOOLEAN
  /\ admitted \subseteq Searches

Init ==
  /\ state = "Closed" /\ failures = 0 /\ openedAt = "none" /\ trial = FALSE
  /\ admitted = {}

-----------------------------------------------------------------------------
\* open_duration passes.
OpenDurationPasses ==
  /\ openedAt = "recent"
  /\ openedAt' = "old"
  /\ UNCHANGED <<state, failures, trial, admitted>>

\* Mutant: the search that half-opens the breaker does not take the trial.
AllowWithoutTrial(s) ==
  /\ s \notin admitted
  /\ \/ /\ state = "Closed"
        /\ UNCHANGED <<state, trial>>
     \/ /\ state # "Closed"
        /\ state = "Open" => openedAt = "old"
        /\ state = "HalfOpen" => ~trial
        /\ state' = "HalfOpen" /\ trial' = (state = "HalfOpen")
  /\ admitted' = admitted \cup {s}
  /\ UNCHANGED <<failures, openedAt>>

\* Mutant: an open breaker never half-opens.
AllowWhenClosed(s) ==
  /\ s \notin admitted
  /\ state = "Closed"
  /\ admitted' = admitted \cup {s}
  /\ UNCHANGED <<state, failures, openedAt, trial>>

\* allow, when it returns true: the breaker is closed, or it half-opens (or is
\* half-open with its trial to give) and this search is the trial. Otherwise
\* the retriever is skipped and nothing changes.
Allow(s) ==
  /\ s \notin admitted
  /\ \/ /\ state = "Closed"
        /\ UNCHANGED <<state, trial>>
     \/ /\ state # "Closed"
        /\ state = "Open" => openedAt = "old"
        /\ state = "HalfOpen" => ~trial
        /\ state' = "HalfOpen" /\ trial' = TRUE
  /\ admitted' = admitted \cup {s}
  /\ UNCHANGED <<failures, openedAt>>

\* The model answered.
OnSuccess(s) ==
  /\ s \in admitted
  /\ state' = "Closed" /\ failures' = 0 /\ openedAt' = "none" /\ trial' = FALSE
  /\ admitted' = admitted \ {s}

\* Mutant: the failure counter does not saturate.
OnFailureUnsaturated(s) ==
  /\ s \in admitted
  /\ failures' = failures + 1
  /\ \/ /\ state = "HalfOpen"
        /\ state' = "Open" /\ openedAt' = "recent" /\ trial' = FALSE
     \/ /\ state # "HalfOpen" /\ failures' >= Threshold
        /\ state' = "Open" /\ openedAt' = "recent" /\ UNCHANGED trial
     \/ /\ state # "HalfOpen" /\ failures' < Threshold
        /\ UNCHANGED <<state, openedAt, trial>>
  /\ admitted' = admitted \ {s}

\* Mutant: reopening does not restart the clock.
OnFailureClockForgotten(s) ==
  /\ s \in admitted
  /\ failures' = IF failures < MaxFailures THEN failures + 1 ELSE failures
  /\ \/ /\ state = "HalfOpen"
        /\ state' = "Open" /\ openedAt' = "none" /\ trial' = FALSE
     \/ /\ state # "HalfOpen" /\ failures' >= Threshold
        /\ state' = "Open" /\ openedAt' = "recent" /\ UNCHANGED trial
     \/ /\ state # "HalfOpen" /\ failures' < Threshold
        /\ UNCHANGED <<state, openedAt, trial>>
  /\ admitted' = admitted \ {s}

\* The model returned an error or timed out, whatever the state is by now.
OnFailure(s) ==
  /\ s \in admitted
  /\ failures' = IF failures < MaxFailures THEN failures + 1 ELSE failures
  /\ \/ /\ state = "HalfOpen"
        /\ state' = "Open" /\ openedAt' = "recent" /\ trial' = FALSE
     \/ /\ state # "HalfOpen" /\ failures' >= Threshold
        /\ state' = "Open" /\ openedAt' = "recent" /\ UNCHANGED trial
     \/ /\ state # "HalfOpen" /\ failures' < Threshold
        /\ UNCHANGED <<state, openedAt, trial>>
  /\ admitted' = admitted \ {s}

\* The search returns and tells the breaker nothing: nothing to rerank, its
\* deadline left no time (SkippedDeadline), an entity failed to load or the
\* blocking task to join, or the request was dropped.
ReturnUnreported(s) ==
  /\ s \in admitted
  /\ admitted' = admitted \ {s}
  /\ UNCHANGED <<state, failures, openedAt, trial>>

Report(s) == OnSuccess(s) \/ OnFailure(s) \/ ReturnUnreported(s)

Next ==
  \/ OpenDurationPasses
  \/ \E s \in Searches : Allow(s) \/ Report(s)

Spec == Init /\ [][Next]_vars

\* Time passes, searches keep coming (so that allow is asked again), and the
\* model call of each ends.
Fairness ==
  /\ WF_vars(OpenDurationPasses)
  /\ \A s \in Searches : WF_vars(Allow(s)) /\ WF_vars(Report(s))

FairSpec == Spec /\ Fairness

-----------------------------------------------------------------------------
(* Properties.                                                             *)

\* An open breaker always has a clock running towards its next trial (allow
\* turns everything down for good in Open without opened_at), a half-open one
\* has given out its trial, and a closed one is below the threshold, also when
\* reports of searches admitted long ago arrive in any state and order.
Coherent ==
  /\ state # "Closed" => openedAt # "none"
  /\ state = "HalfOpen" => trial
  /\ state = "Closed" => failures < Threshold

\* While the models are failing, at most one search is admitted each time
\* open_duration has passed: half-open itself admits nobody.
OneTrialPerWindow ==
  [][\A s \in Searches : Allow(s) /\ state # "Closed" =>
       state = "Open" /\ openedAt = "old" /\ state' = "HalfOpen"]_vars

\* An open breaker is tried again, and a half-open one decided unless every
\* search it let through has returned without telling it anything, whatever
\* reports of older searches arrive meanwhile.
RetriedAndDecided ==
  /\ state = "Open" ~> state # "Open"
  /\ state = "HalfOpen" ~> state # "HalfOpen" \/ admitted = {}

\* A circuit breaker "temporarily disables failing operations"
\* (docs/getting-started/glossary.md:43): a half-open breaker is decided, and an
\* open one is tried again.
DisabledTemporarily ==
  /\ state = "Open" ~> state # "Open"
  /\ state = "HalfOpen" ~> state # "HalfOpen"

-----------------------------------------------------------------------------
(* Proofs, for any number of searches and any threshold.                    *)

\* Types and coherence are preserved together: every report ends in a state
\* with its clock and its trial set as that state needs them.
LEMMA CoherentStep == TypeOK /\ Coherent /\ [Next]_vars => TypeOK' /\ Coherent'
<1> SUFFICES ASSUME TypeOK, Coherent, [Next]_vars PROVE TypeOK' /\ Coherent'
  OBVIOUS
<1> USE ConstantAssumption DEF TypeOK, Coherent
<1>1. CASE OpenDurationPasses
  BY <1>1 DEF OpenDurationPasses
<1>2. ASSUME NEW s \in Searches, Allow(s) PROVE TypeOK' /\ Coherent'
  BY <1>2 DEF Allow
<1>3. ASSUME NEW s \in Searches, OnSuccess(s) PROVE TypeOK' /\ Coherent'
  <2>1. trial' \in BOOLEAN
    BY <1>3 DEF OnSuccess
  <2>2. state' = "HalfOpen" => trial'
    BY <1>3 DEF OnSuccess
  <2>3. /\ state' \in {"Closed", "Open", "HalfOpen"} /\ failures' \in 0 .. MaxFailures
        /\ openedAt' \in {"none", "recent", "old"} /\ admitted' \subseteq Searches
    BY <1>3 DEF OnSuccess
  <2>4. /\ state' # "Closed" => openedAt' # "none"
        /\ state' = "Closed" => failures' < Threshold
    BY <1>3 DEF OnSuccess
  <2> QED
    BY <2>1, <2>2, <2>3, <2>4
<1>4. ASSUME NEW s \in Searches, OnFailure(s) PROVE TypeOK' /\ Coherent'
  <2>1. trial' \in BOOLEAN
    BY <1>4 DEF OnFailure
  <2>2. state' = "HalfOpen" => trial'
    BY <1>4 DEF OnFailure
  <2>3. /\ state' \in {"Closed", "Open", "HalfOpen"} /\ failures' \in 0 .. MaxFailures
        /\ openedAt' \in {"none", "recent", "old"} /\ admitted' \subseteq Searches
    BY <1>4 DEF OnFailure
  <2>4. /\ state' # "Closed" => openedAt' # "none"
        /\ state' = "Closed" => failures' < Threshold
    BY <1>4 DEF OnFailure
  <2> QED
    BY <2>1, <2>2, <2>3, <2>4
<1>5. ASSUME NEW s \in Searches, ReturnUnreported(s) PROVE TypeOK' /\ Coherent'
  BY <1>5 DEF ReturnUnreported
<1>6. CASE UNCHANGED vars
  BY <1>6 DEF vars
<1> QED
  BY <1>1, <1>2, <1>3, <1>4, <1>5, <1>6 DEF Next, Report

\* Coherence holds of every behaviour, with the types it needs.
LEMMA CoherentInvariant == Spec => [](TypeOK /\ Coherent)
<1>1. Init => TypeOK /\ Coherent
  <2> SUFFICES ASSUME Init PROVE TypeOK /\ Coherent
    OBVIOUS
  <2>1. TypeOK
    <3>1. trial \in BOOLEAN
      BY DEF Init
    <3>2. 0 \in 0 .. MaxFailures
      BY ConstantAssumption
    <3> QED
      BY <3>1, <3>2 DEF Init, TypeOK
  <2>2. Coherent
    BY ConstantAssumption DEF Init, Coherent
  <2> QED
    BY <2>1, <2>2
<1> QED
  BY <1>1, CoherentStep, PTL DEF Spec

\* An open breaker never loses the clock that will let it be tried again, and
\* a closed one is never past its threshold.
THEOREM BreakerCoherent == Spec => []Coherent
  BY CoherentInvariant, PTL

\* Failing models see at most one search per open_duration, however many
\* searches ask and however late their reports are.
THEOREM TrialsBounded == Spec => OneTrialPerWindow
<1>1. TypeOK /\ Coherent =>
        \A s \in Searches : Allow(s) /\ state # "Closed" =>
          state = "Open" /\ openedAt = "old" /\ state' = "HalfOpen"
  BY DEF TypeOK, Coherent, Allow
<1> QED
  BY <1>1, CoherentInvariant, PTL DEF OneTrialPerWindow
=============================================================================
