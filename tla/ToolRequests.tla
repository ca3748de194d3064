----------------------------- MODULE ToolRequests -----------------------------
(***************************************************************************)
(* The path of a tool call through the MCP server, src/src/server/mcp.rs:  *)
(* handle_bounded_search_result (searches: a permit, a deadline, the tool, *)
(* the permit dropped), execute_sql and run_recipe (a permit, no deadline),*)
(* all around handle_async_result (the searcher, the rate limit of         *)
(* utils/metrics.rs, the tool, the record of the call). Permits are        *)
(* ConcurrencyLimiter's, which searches and statements each have of their  *)
(* own: a behaviour has calls of one kind.                                 *)
(*                                                                         *)
(* Calls look at the searcher up to three times, for their deadline, for   *)
(* their permit and to run. While the first load is under way a look finds *)
(* none, and the call goes on without what it looked for: a tool may run   *)
(* without a slot, or on a slot without a deadline, when the load ends     *)
(* between two looks.                                                      *)
(*                                                                         *)
(* Time is, for each search, whether search_timeout_ms have passed since it*)
(* came in, and whether tool_rate_limit_window_secs have passed.           *)
(***************************************************************************)
EXTENDS ConcurrencyLimiter

CONSTANTS
  RateLimit    \* calls of the tool in a window, 0 for no limit

ASSUME RateAssumption == RateLimit \in Nat

VARIABLES
  kind,        \* "search", or "sql" for execute_sql and run_recipe
  limited,     \* search_timeout_ms or sql_queue_timeout_ms is not 0
  ready,       \* the handle has a searcher: its first load has ended well
  phase,       \* where each call is
  found,       \* whether the searcher was there when it came in
  late,        \* whether search_timeout_ms have passed since
  timed,       \* whether its wait for a permit has a time limit
  answer,      \* what it was answered, until it has dropped its permit
  recorded,    \* the answers record_metrics and the trace were given for it
  allowed      \* the calls the rate limiter let through in its window

limiter == <<status, slots, places, placed, waiters>>
setting == <<kind, limited>>
calls == <<phase, found, late, timed, answer, recorded>>
allVars == <<limiter, setting, ready, calls, allowed>>

Phases == {"idle", "start", "permit", "handle", "tool", "drop"}
\* No searcher, the rate limit and a timeout of the tool are errors; "refused" is
\* the error of a call that got no permit.
Answers == {"none", "ok", "error", "refused", "gone"}

ToolsInit ==
  /\ Init
  /\ kind \in {"search", "sql"} /\ limited \in BOOLEAN /\ ready \in BOOLEAN
  /\ found = [r \in Requests |-> FALSE]
  /\ phase = [r \in Requests |-> "idle"]
  /\ late = [r \in Requests |-> FALSE]
  /\ timed = [r \in Requests |-> FALSE]
  /\ answer = [r \in Requests |-> "none"]
  /\ recorded = [r \in Requests |-> <<>>]
  /\ allowed = 0

\* The call is bound by search_timeout_ms, which it read at its first look.
Bound(r) == kind = "search" /\ limited /\ found[r]

\* The call is answered: what it found and its timers are needed no more.
StopTimers(r) ==
  /\ found' = [found EXCEPT ![r] = FALSE]
  /\ late' = [late EXCEPT ![r] = FALSE] /\ timed' = [timed EXCEPT ![r] = FALSE]
Goto(r, p) == phase' = [phase EXCEPT ![r] = p]
Reply(r, a) == answer' = [answer EXCEPT ![r] = a]

\* record_tool_call_with_request_id, record_metrics and log_tool_call: the
\* three are called together on every way out of handle_async_result.
Record(r, a) == recorded' = [recorded EXCEPT ![r] = Append(@, a)]

-----------------------------------------------------------------------------
(* Time and clients.                                                       *)

\* The first load ends well. No reload takes the searcher away again
\* (SearchHandle!FailureKeepsServing).
SearcherReady ==
  /\ ~ready
  /\ ready' = TRUE
  /\ UNCHANGED <<limiter, setting, calls, allowed>>

\* search_timeout_ms have passed since the search came in, be it bound by them or not.
Elapse(r) ==
  /\ kind = "search" /\ limited /\ phase[r] \notin {"idle", "drop"} /\ ~late[r]
  /\ late' = [late EXCEPT ![r] = TRUE]
  /\ UNCHANGED <<limiter, setting, ready, phase, found, timed, answer, recorded, allowed>>

\* A window of the rate limiter ends; the next call begins another.
PassWindow ==
  /\ allowed > 0
  /\ allowed' = 0
  /\ UNCHANGED <<limiter, setting, ready, calls>>

\* The client goes away and its call is dropped where it stands, the permit
\* with it.
ClientGone(r) ==
  /\ \/ phase[r] = "permit" /\ status[r] = "waiting" /\ GiveUp(r)
     \/ phase[r] \in {"permit", "handle", "tool"} /\ status[r] = "running" /\ ReleaseSlot(r)
     \/ phase[r] \in {"start", "handle", "tool"} /\ status[r] = "out" /\ UNCHANGED limiter
  /\ Goto(r, "drop") /\ Reply(r, "gone") /\ StopTimers(r)
  /\ UNCHANGED <<setting, ready, recorded, allowed>>

-----------------------------------------------------------------------------
(* handle_bounded_search_result and execute_sql up to the permit.          *)

\* A call comes in. A search looks for its deadline: none without a searcher.
Arrive(r) ==
  /\ phase[r] = "idle"
  /\ found' = [found EXCEPT ![r] = ready]
  /\ Goto(r, "start")
  /\ UNCHANGED <<limiter, setting, ready, late, timed, answer, recorded, allowed>>

\* The look for the permit finds the searcher: the call goes for a slot, with
\* sql_queue_timeout, or with remaining_timeout: None, a wait without limit,
\* both without a deadline and when it has passed already.
RemainingTimeout(r) ==
  /\ phase[r] = "start" /\ ready
  /\ timed' = [timed EXCEPT ![r] = IF kind = "sql" THEN limited ELSE Bound(r) /\ ~late[r]]
  /\ Goto(r, "permit")
  /\ UNCHANGED <<limiter, setting, ready, found, late, answer, recorded, allowed>>

\* It finds none: Ok(None), and the call goes on without a slot.
WithoutPermit(r) ==
  /\ phase[r] = "start" /\ ~ready
  /\ Goto(r, "handle")
  /\ UNCHANGED <<limiter, setting, ready, found, late, timed, answer, recorded, allowed>>

\* acquire, up to the wait.
Acquire(r) ==
  /\ phase[r] = "permit"
  /\ TakeSlot(r) \/ MissSlot(r) \/ TakePlace(r) \/ AwaitSlot(r)
  /\ UNCHANGED <<setting, ready, calls, allowed>>

\* permit_from_result: no permit, for a full queue or a wait that timed out (a
\* search's by its deadline, a statement's sql_queue_timeout_ms after it began),
\* and the error is the answer. It is neither recorded nor traced.
Refuse(r) ==
  /\ phase[r] = "permit"
  /\ TurnAway(r) \/ (timed[r] /\ (kind = "sql" \/ late[r]) /\ GiveUp(r))
  /\ Goto(r, "drop") /\ Reply(r, "refused") /\ StopTimers(r)
  /\ UNCHANGED <<setting, ready, recorded, allowed>>

HavePermit(r) ==
  /\ phase[r] = "permit" /\ status[r] = "running"
  /\ timed' = [timed EXCEPT ![r] = FALSE]
  /\ Goto(r, "handle")
  /\ UNCHANGED <<limiter, setting, ready, found, late, answer, recorded, allowed>>

-----------------------------------------------------------------------------
(* handle_async_result.                                                    *)

Answer(r, a) ==
  /\ Goto(r, "drop") /\ Reply(r, a) /\ Record(r, a) /\ StopTimers(r)
  /\ UNCHANGED <<limiter, setting, ready>>

\* The last look finds no searcher: loading, or failed.
NoSearcher(r) == phase[r] = "handle" /\ ~ready /\ Answer(r, "error") /\ UNCHANGED allowed

\* Mutant: the count is compared after the call is let through.
AllowOneMore == RateLimit = 0 \/ allowed <= RateLimit

\* ToolRateLimiter::allow. A limit of 0 is none.
Allow == RateLimit = 0 \/ allowed < RateLimit

\* Mutant: a refused call leaves no record.
RateLimitedQuietly(r) ==
  /\ phase[r] = "handle" /\ ready /\ ~Allow
  /\ Goto(r, "drop") /\ Reply(r, "error") /\ StopTimers(r)
  /\ UNCHANGED <<limiter, setting, ready, recorded, allowed>>

RateLimited(r) == phase[r] = "handle" /\ ready /\ ~Allow /\ Answer(r, "error") /\ UNCHANGED allowed

\* Mutant: the deadline is only looked at while the tool runs.
StartLate(r) ==
  /\ phase[r] = "handle" /\ ready /\ Allow
  /\ allowed' = (IF RateLimit = 0 THEN 0 ELSE allowed + 1)
  /\ Goto(r, "tool")
  /\ UNCHANGED <<limiter, setting, ready, found, late, timed, answer, recorded>>

\* The call is let through; it starts unless its deadline has passed by now.
StartTool(r) ==
  /\ phase[r] = "handle" /\ ready /\ Allow
  /\ allowed' = (IF RateLimit = 0 THEN 0 ELSE allowed + 1)
  /\ IF Bound(r) /\ late[r]
       THEN Answer(r, "error")
       ELSE /\ Goto(r, "tool")
            /\ UNCHANGED <<limiter, setting, ready, found, late, timed, answer, recorded>>

\* The tool ends, well or badly.
FinishTool(r) ==
  /\ phase[r] = "tool"
  /\ \E a \in {"ok", "error"} : Answer(r, a)
  /\ UNCHANGED allowed

\* Mutant: the running tool is not bounded by the deadline.
NeverTimesOut(r) == FALSE /\ UNCHANGED allVars

\* tokio::time::timeout around the tool.
ToolTimesOut(r) ==
  /\ phase[r] = "tool" /\ Bound(r) /\ late[r]
  /\ Answer(r, "error")
  /\ UNCHANGED allowed

\* drop(permit), after the answer is there: the slot, then the place in the queue,
\* and the call is over. Another may come in its stead.
DropPermit(r) ==
  \/ /\ phase[r] = "drop" /\ status[r] = "running"
     /\ ReleaseSlot(r)
     /\ UNCHANGED <<setting, ready, calls, allowed>>
  \/ /\ phase[r] = "drop" /\ status[r] \in {"ending", "out"}
     /\ IF status[r] = "ending" THEN ReleasePlace(r) ELSE UNCHANGED limiter
     /\ Goto(r, "idle") /\ Reply(r, "none")
     /\ recorded' = [recorded EXCEPT ![r] = <<>>]
     /\ UNCHANGED <<setting, ready, found, late, timed, allowed>>

\* What the server does by itself once a call is in.
ServerStep(r) ==
  \/ RemainingTimeout(r) \/ WithoutPermit(r) \/ Acquire(r) \/ Refuse(r) \/ HavePermit(r)
  \/ NoSearcher(r) \/ RateLimited(r) \/ StartTool(r) \/ ToolTimesOut(r) \/ DropPermit(r)

CallStep(r) ==
  Arrive(r) \/ Elapse(r) \/ ClientGone(r) \/ ServerStep(r) \/ FinishTool(r)

ToolsNext ==
  SearcherReady \/ PassWindow \/ \E r \in Requests : CallStep(r)

ToolsSpec == ToolsInit /\ [][ToolsNext]_allVars

\* The server's steps are scheduled and its timers fire; a tool may never end.
Progress(r) == ServerStep(r) \/ Elapse(r)
ToolsFairness == \A r \in Requests : WF_allVars(Progress(r))

-----------------------------------------------------------------------------
(* Properties.                                                             *)

\* Every variable has its type.
ToolsTypeOK ==
  /\ TypeOK
  /\ kind \in {"search", "sql"} /\ limited \in BOOLEAN /\ ready \in BOOLEAN
  /\ found \in [Requests -> BOOLEAN]
  /\ phase \in [Requests -> Phases] /\ late \in [Requests -> BOOLEAN]
  /\ timed \in [Requests -> BOOLEAN] /\ answer \in [Requests -> Answers]
  /\ recorded \in [Requests -> Seq(Answers)]
  /\ allowed \in 0 .. RateLimit

\* Calls that come once the searcher is there never run more tools at once than
\* there are slots, and each holds its slot until its answer is there, whatever
\* timeouts, refusals and clients that go away do to the calls around it. (A call
\* from before that may run on top of them, without a slot.)
RunsHoldSlots ==
  /\ \A r \in Requests : found[r] /\ phase[r] \in {"handle", "tool"} => status[r] = "running"
  /\ \A r \in Requests : status[r] = "running" => phase[r] \in {"permit", "handle", "tool", "drop"}
  /\ Cardinality({r \in Requests : phase[r] = "tool" /\ found[r]}) <= MaxSlots

\* The metrics and the trace see a call that got past its permit exactly once, with
\* the answer the client got, and none that did not.
RecordedAsAnswered ==
  \A r \in Requests :
    recorded[r] = (IF answer[r] \in {"none", "refused", "gone"}
                     THEN <<>> ELSE <<answer[r]>>)

\* With search_timeout_ms, the tool of a search that came once the searcher was
\* there is never started past the deadline, however long it waited for its slot,
\* without a limit even. (A search from before that has no deadline.)
StartsInTime ==
  [][\A r \in Requests :
       kind = "search" /\ limited /\ found[r] /\ phase[r] = "handle" /\ phase'[r] = "tool" => ~late[r]]_allVars

\* A wait for a slot with a time limit ends though no tool ever does.
TimedWaitsEnd == \A r \in Requests : []<>~(phase[r] = "permit" /\ timed[r])

\* Every call is answered if the tools end that no deadline ends: also the search
\* that was late when it began to wait and so waits without a limit, for slots
\* that others hold no longer than to their deadlines.
EveryCallEnds ==
  (\A r \in Requests : []<>(phase[r] = "tool" => Bound(r)))
    => \A r \in Requests : []<>(phase[r] = "idle")
=============================================================================
