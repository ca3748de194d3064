------------------------------ MODULE DuckDbPool ------------------------------
(***************************************************************************)
(* The connection pool of the DuckDB provider, warehouse/duckdb.rs: a      *)
(* semaphore of max_size slots and, behind a mutex, the idle connections   *)
(* and the count of connections created. A request waits for a slot, then  *)
(* a blocking task that owns the slot checks a connection out, runs the    *)
(* statement and returns the connection. The task outlives a caller that   *)
(* gives up; it takes its slot with it when it panics.                     *)
(***************************************************************************)
EXTENDS Naturals, FiniteSets

CONSTANTS Requests, MaxSize, MaxPanics

VARIABLES
  slots,     \* free slots of the semaphore
  idle,      \* number of idle connections
  created,   \* DuckDbPoolState::created
  task,      \* request -> where its task is
  caller,    \* request -> whether somebody still waits for it
  lost       \* connections dropped by a panicking task
vars == <<slots, idle, created, task, caller, lost>>

Init ==
  /\ slots = MaxSize /\ idle = 0 /\ created = 0 /\ lost = 0
  /\ task = [r \in Requests |-> "none"]
  /\ caller = [r \in Requests |-> FALSE]

Goto(r, step) == task' = [task EXCEPT ![r] = step]

\* execute_duckdb_async, preflight_duckdb_async.
Request(r) ==
  /\ task[r] \in {"none", "ok", "failed", "exhausted"}
  /\ ~caller[r]
  /\ Goto(r, "waiting")
  /\ caller' = [caller EXCEPT ![r] = TRUE]
  /\ UNCHANGED <<slots, idle, created, lost>>

\* The caller's deadline: waiting for a slot stops, a task goes on.
GiveUp(r) ==
  /\ caller[r]
  /\ caller' = [caller EXCEPT ![r] = FALSE]
  /\ task' = IF task[r] = "waiting" THEN [task EXCEPT ![r] = "none"] ELSE task
  /\ UNCHANGED <<slots, idle, created, lost>>

Receive(r) ==
  /\ caller[r] /\ task[r] \in {"ok", "failed", "exhausted"}
  /\ caller' = [caller EXCEPT ![r] = FALSE]
  /\ UNCHANGED <<slots, idle, created, task, lost>>

AcquireSlot(r) ==
  /\ task[r] = "waiting" /\ slots > 0
  /\ slots' = slots - 1
  /\ Goto(r, "checkout")
  /\ UNCHANGED <<idle, created, caller, lost>>

\* checkout_connection up to the call of open_connection.
Checkout(r) ==
  /\ task[r] = "checkout"
  /\ \/ /\ idle > 0
        /\ idle' = idle - 1 /\ Goto(r, "running")
        /\ UNCHANGED <<slots, created>>
     \/ /\ idle = 0 /\ created >= MaxSize
        /\ slots' = slots + 1 /\ Goto(r, "exhausted")
        /\ UNCHANGED <<idle, created>>
     \/ /\ idle = 0 /\ created < MaxSize
        /\ created' = created + 1 /\ Goto(r, "opening")
        /\ UNCHANGED <<slots, idle>>
  /\ UNCHANGED <<caller, lost>>

Open(r) ==
  /\ task[r] = "opening"
  /\ Goto(r, "running")
  /\ UNCHANGED <<slots, idle, created, caller, lost>>

\* Mutant: a connection that could not be opened stays counted.
OpenFailsCounted(r) ==
  /\ task[r] = "opening"
  /\ slots' = slots + 1 /\ Goto(r, "failed")
  /\ UNCHANGED <<idle, created, caller, lost>>

OpenFails(r) ==
  /\ task[r] = "opening"
  /\ created' = created - 1
  /\ slots' = slots + 1 /\ Goto(r, "failed")
  /\ UNCHANGED <<idle, caller, lost>>

\* Mutant: the slot is given back before the connection.
ReturnSlotFirst(r) ==
  \/ /\ task[r] = "running"
     /\ slots' = slots + 1 /\ Goto(r, "returning")
     /\ UNCHANGED <<idle, created, caller, lost>>
  \/ /\ task[r] = "returning"
     /\ idle' = idle + 1 /\ Goto(r, "ok")
     /\ UNCHANGED <<slots, created, caller, lost>>

\* The statement ends, well or badly: return_connection, then the slot.
Return(r) ==
  /\ task[r] = "running"
  /\ IF idle < MaxSize THEN idle' = idle + 1 /\ UNCHANGED created
                       ELSE created' = created - 1 /\ UNCHANGED idle
  /\ slots' = slots + 1
  /\ task' \in {[task EXCEPT ![r] = "ok"], [task EXCEPT ![r] = "failed"]}
  /\ UNCHANGED <<caller, lost>>

\* The task panics: its slot is released, its connection is not returned.
Panic(r) ==
  /\ task[r] = "running" /\ lost < MaxPanics
  /\ slots' = slots + 1 /\ Goto(r, "failed")
  /\ lost' = lost + 1
  /\ UNCHANGED <<idle, created, caller>>

TaskStep(r) ==
  AcquireSlot(r) \/ Checkout(r) \/ Open(r) \/ OpenFails(r) \/ Return(r)

Next == \E r \in Requests :
          Request(r) \/ GiveUp(r) \/ Receive(r) \/ TaskStep(r) \/ Panic(r)

Spec == Init /\ [][Next]_vars

-----------------------------------------------------------------------------
At(steps) == {r \in Requests : task[r] \in steps}
In(steps) == Cardinality(At(steps))

\* As long as no task panicked, "DuckDB connection pool exhausted unexpectedly"
\* is never returned: a slot always stands for a connection, whatever opens
\* fail and whichever callers give up.
NeverExhausted == lost = 0 => In({"exhausted"}) = 0

\* Every connection counted is idle, in use, being opened or lost, and there
\* are never more than MaxSize.
ConnectionsConserved ==
  /\ created = idle + In({"opening", "running"}) + lost
  /\ created <= MaxSize
=============================================================================
