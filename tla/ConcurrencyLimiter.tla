-------------------------- MODULE ConcurrencyLimiter --------------------------
(***************************************************************************)
(* `ConcurrencyLimiter` of the MCP server (src/src/server/mcp.rs), which   *)
(* bounds the searches and the SQL executions that run and wait at once:   *)
(* one tokio semaphore of execution slots, one of queue places. A request  *)
(* takes a slot, or a queue place and then waits for a slot, or is turned  *)
(* away; its permits are dropped when it ends, when its wait times out or  *)
(* when its client goes away.                                              *)
(***************************************************************************)
EXTENDS Naturals, Sequences, FiniteSets, SequencesExt

CONSTANTS
  Requests,    \* tool calls
  MaxSlots,    \* max_concurrent, not 0 (0 builds no limiter)
  MaxQueue     \* max_queue

ASSUME ConstantAssumption ==
  /\ IsFiniteSet(Requests)
  /\ MaxSlots \in Nat \ {0}
  /\ MaxQueue \in Nat

VARIABLES
  status,      \* where each request is
  slots,       \* available_permits of the slots
  places,      \* available_permits of the queue
  placed,      \* whether a request holds a queue place
  waiters      \* those waiting for a slot, in the semaphore's order

vars == <<status, slots, places, placed, waiters>>

\* Every variable has its type.
TypeOK ==
  /\ status \in [Requests -> {"out", "refused", "placed", "waiting", "running", "ending"}]
  /\ slots \in 0 .. MaxSlots
  /\ places \in 0 .. MaxQueue
  /\ placed \in [Requests -> BOOLEAN]
  /\ waiters \in Seq(Requests)

Init ==
  /\ status = [r \in Requests |-> "out"]
  /\ slots = MaxSlots /\ places = MaxQueue
  /\ placed = [r \in Requests |-> FALSE]
  /\ waiters = <<>>

Become(r, s) == status' = [status EXCEPT ![r] = s]

-----------------------------------------------------------------------------
\* acquire: the first try_acquire_owned succeeds ...
TakeSlot(r) ==
  /\ status[r] = "out"
  /\ slots > 0
  /\ slots' = slots - 1
  /\ Become(r, "running")
  /\ UNCHANGED <<places, placed, waiters>>

\* ... or does not. Each of the calls that follow is atomic on its own
\* semaphore only: other requests may release or take permits in between.
MissSlot(r) ==
  /\ status[r] = "out"
  /\ slots = 0
  /\ Become(r, "refused")
  /\ UNCHANGED <<slots, places, placed, waiters>>

\* Mutant: a place is taken from a queue that has none left.
TakePlaceBelowZero(r) ==
  /\ status[r] = "refused"
  /\ places' = places - 1
  /\ placed' = [placed EXCEPT ![r] = TRUE]
  /\ Become(r, "placed")
  /\ UNCHANGED <<slots, waiters>>

\* A place in the queue ...
TakePlace(r) ==
  /\ status[r] = "refused"
  /\ places > 0
  /\ places' = places - 1
  /\ placed' = [placed EXCEPT ![r] = TRUE]
  /\ Become(r, "placed")
  /\ UNCHANGED <<slots, waiters>>

\* ... or "queue is full" ("concurrency limit exceeded" without a queue).
TurnAway(r) ==
  /\ status[r] = "refused"
  /\ places = 0
  /\ Become(r, "out")
  /\ UNCHANGED <<slots, places, placed, waiters>>

\* Mutant: the request joins the waiting line without looking for a slot.
AwaitSlotBlindly(r) ==
  /\ status[r] = "placed"
  /\ waiters' = Append(waiters, r)
  /\ Become(r, "waiting")
  /\ UNCHANGED <<slots, places, placed>>

\* acquire_owned: a slot that has become free is taken, otherwise the request
\* joins the waiting line.
AwaitSlot(r) ==
  /\ status[r] = "placed"
  /\ IF slots > 0
       THEN /\ slots' = slots - 1
            /\ Become(r, "running")
            /\ UNCHANGED waiters
       ELSE /\ waiters' = Append(waiters, r)
            /\ Become(r, "waiting")
            /\ UNCHANGED slots
  /\ UNCHANGED <<places, placed>>

\* Mutant: the place in the queue is kept by a request that gave up.
GiveUpKeepingPlace(r) ==
  /\ status[r] = "waiting"
  /\ \E i \in DOMAIN waiters : waiters[i] = r /\ waiters' = RemoveAt(waiters, i)
  /\ Become(r, "out")
  /\ UNCHANGED <<slots, places, placed>>

\* The wait times out, or the request is dropped while it waits.
GiveUp(r) ==
  /\ status[r] = "waiting"
  /\ \E i \in DOMAIN waiters : waiters[i] = r /\ waiters' = RemoveAt(waiters, i)
  /\ places' = places + 1
  /\ placed' = [placed EXCEPT ![r] = FALSE]
  /\ Become(r, "out")
  /\ UNCHANGED slots

\* Mutant: the slot goes back to the pool past those who wait for it.
ReleaseSlotToPool(r) ==
  /\ status[r] = "running"
  /\ status' = [status EXCEPT ![r] = "ending"]
  /\ slots' = slots + 1
  /\ UNCHANGED <<places, placed, waiters>>

\* The request ends (or its deadline passes, or it is dropped) and its permit
\* is dropped: first the slot, which goes to the first waiter if there is one
\* (acquire returns to it a ConcurrencyPermit with its queue place inside) ...
ReleaseSlot(r) ==
  /\ status[r] = "running"
  /\ IF waiters = <<>>
       THEN /\ slots' = slots + 1
            /\ Become(r, "ending")
            /\ UNCHANGED waiters
       ELSE /\ status' = [status EXCEPT ![r] = "ending", ![Head(waiters)] = "running"]
            /\ waiters' = Tail(waiters)
            /\ UNCHANGED slots
  /\ UNCHANGED <<places, placed>>

\* ... then the place in the queue, if it ever waited.
ReleasePlace(r) ==
  /\ status[r] = "ending"
  /\ places' = IF placed[r] THEN places + 1 ELSE places
  /\ placed' = [placed EXCEPT ![r] = FALSE]
  /\ Become(r, "out")
  /\ UNCHANGED <<slots, waiters>>

Next ==
  \E r \in Requests :
    \/ TakeSlot(r) \/ MissSlot(r) \/ TakePlace(r) \/ TurnAway(r)
    \/ AwaitSlot(r) \/ GiveUp(r) \/ ReleaseSlot(r) \/ ReleasePlace(r)

Spec == Init /\ [][Next]_vars

\* Requests end and their permits are dropped; nobody has to come back.
Fairness == \A r \in Requests : WF_vars(ReleaseSlot(r)) /\ WF_vars(ReleasePlace(r))

FairSpec == Spec /\ Fairness

-----------------------------------------------------------------------------
(* Properties.                                                             *)

With(s) == {r \in Requests : status[r] = s}
Placed == {r \in Requests : placed[r]}

\* No permit is lost or made up by timeouts, dropped requests and the two-step
\* release: what is not available is held by a request that runs, waits or
\* ends. A lost one would shrink the server's capacity until it restarts.
PermitsConserved ==
  /\ slots + Cardinality(With("running")) = MaxSlots
  /\ places + Cardinality(Placed) = MaxQueue
  /\ \A r \in Requests : status[r] \in {"placed", "waiting"} => placed[r]
  /\ \A r \in Requests : placed[r] => status[r] \in {"placed", "waiting", "running", "ending"}

\* Nobody waits while a slot is free, and the waiting line is exactly the
\* requests that wait, each once.
NoIdleSlot ==
  /\ waiters # <<>> => slots = 0
  /\ ToSet(waiters) = With("waiting")
  /\ IsInjective(waiters)

\* The limiter in front of a call: no permit is lost or made up by a timeout or a
\* client that goes away, and no slot is idle while a request waits for one.
LimiterSound == TypeOK /\ PermitsConserved /\ NoIdleSlot

\* A request that waits gets its slot or gives up, whoever else comes: slots
\* are handed over in order.
WaitEnds == \A r \in Requests : status[r] = "waiting" ~> status[r] # "waiting"

\* "max queued SQL executions while all slots are busy"
\* (docs/configuration/reference.md:284; 329 for searches): a request is turned
\* away for a full queue only when that many requests wait, or are on their
\* way in or out.
TurnedAwayWhenFull ==
  [][\A r \in Requests : TurnAway(r) =>
       Cardinality({q \in Requests : placed[q] /\ status[q] # "running"}) = MaxQueue]_vars
=============================================================================
