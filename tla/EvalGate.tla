------------------------------ MODULE EvalGate ------------------------------
(***************************************************************************)
(* The gate of an eval suite (src/src/cli/eval_cmd.rs, eval_cmd/gate.rs,   *)
(* telemetry.rs, reporting.rs). Runs of the suite, of several processes,   *)
(* append one row for each assertion to the suite's telemetry file, which  *)
(* no lock guards, and may cut the file to its last rows; the suite file   *)
(* may be edited meanwhile. The gate reads the file and allows or blocks   *)
(* by the rows of the latest run.                                          *)
(* A suite has the same Cases in each version, with one assertion each.    *)
(* Clocks of the runs differ by at least the millisecond of a run_id.      *)
(***************************************************************************)
EXTENDS Integers, Sequences, FiniteSets, SequencesExt

CONSTANTS
  Runs,        \* processes that run the suite with --telemetry
  Cases,       \* case ids
  Selections,  \* sets of them that runs are asked for
  Versions,    \* contents of the suite file, by their hash
  Ungated,     \* those of them without a gate
  Threshold,   \* assertions that must pass for the gate's threshold
  Retention,   \* --telemetry-retention, or None
  MaxEdits,    \* edits of the suite file
  MaxStamps,   \* runs that get as far as telemetry
  MaxCrashes,  \* runs that die
  None, Newline, Torn

\* A row of the telemetry file, for one assertion.
Rows ==
  [case : Cases, version : Versions, runId : Nat, status : {"pass", "fail"},
   caseCount : Nat, suiteCaseCount : Nat, assertionCount : Nat]

ASSUME GateAssumption ==
  /\ IsFiniteSet(Cases) /\ Cases # {} /\ Selections \subseteq (SUBSET Cases) \ {{}}
  /\ None \notin Versions /\ Threshold \in Nat
  /\ Newline \notin Rows /\ Torn \notin Rows /\ Newline # Torn

VARIABLES
  suite,       \* the suite file's version, or None when it is not there
  edits, crashes,
  clock,
  file,        \* telemetry: rows, newlines and Torn (a part of a row)
  run,         \* each run: where it is, what it loaded and found
  reports,     \* what the runs found
  last         \* the report of the last run that wrote alone, and still decides

evalVars == <<suite, edits, crashes, clock, file, run, reports, last>>

Fresh == [pc |-> "idle", version |-> None, cases |-> {}, passed |-> {}, id |-> 0,
          rows |-> <<>>, kept |-> <<>>, alone |-> TRUE]

\* eval_telemetry_row, for the cases of a run in their order.
RowsFor(version, cases, passed, at) ==
  LET ordered == SetToSeq(cases)
  IN  [i \in DOMAIN ordered |->
        [case |-> ordered[i], version |-> version, runId |-> at, status |-> IF ordered[i] \in passed THEN "pass" ELSE "fail",
         caseCount |-> Cardinality(cases), suiteCaseCount |-> Cardinality(Cases),
         assertionCount |-> Cardinality(cases)]]

\* What a run found.
Report(id, version, cases, passed) == [id |-> id, version |-> version, cases |-> cases, passed |-> passed]
Found(r) == Report(run[r].id, run[r].version, run[r].cases, run[r].passed)

\* The file holds an earlier run.
EvalInit ==
  /\ suite \in Versions \ Ungated
  /\ edits = 0 /\ clock = 1 /\ crashes = 0
  /\ \E passed \in {{}, Cases} :
       /\ reports = {Report(0, suite, Cases, passed)}
       /\ file = [i \in 1 .. 2 * Cardinality(Cases) |->
                   IF i % 2 = 0 THEN Newline ELSE RowsFor(suite, Cases, passed, 0)[(i + 1) \div 2]]
  /\ run = [r \in Runs |-> Fresh]
  /\ last = None

Writing == {r \in Runs : run[r].pc \notin {"idle", "loaded"}}

\* The suite is edited, deleted or put back.
Edit ==
  /\ edits < MaxEdits
  /\ edits' = edits + 1
  /\ suite' \in (Versions \cup {None}) \ {suite}
  /\ last' = None
  /\ UNCHANGED <<crashes, clock, file, run, reports>>

\* execute_bridge_eval, execute_agent_eval_from_args: the suite is read once,
\* with its hash, and the cases are chosen by --case or are all of them.
Load(r) ==
  /\ run[r].pc = "idle"
  /\ suite # None
  /\ clock <= MaxStamps
  /\ \E chosen \in Selections :
       run' = [run EXCEPT ![r].pc = "loaded", ![r].version = suite, ![r].cases = chosen]
  /\ UNCHANGED <<suite, edits, crashes, clock, file, reports, last>>

\* The cases are evaluated, the report is built and write_eval_telemetry
\* stamps the run.
Evaluate(r) ==
  /\ run[r].pc = "loaded"
  /\ clock <= MaxStamps
  /\ \E passed \in SUBSET run[r].cases :
       /\ run' = [q \in Runs |->
         IF q = r
           THEN [run[r] EXCEPT !.pc = "row", !.passed = passed, !.id = clock, !.alone = Writing = {},
                   !.rows = RowsFor(run[r].version, run[r].cases, passed, clock)]
           ELSE [run[q] EXCEPT !.alone = q \notin Writing]]
       /\ reports' = reports \cup {Report(clock, run[r].version, run[r].cases, passed)}
  /\ clock' = clock + 1
  /\ last' = None
  /\ UNCHANGED <<suite, edits, crashes, file>>

\* write_telemetry_row: the row and its newline are two appends.
WriteRow(r) ==
  /\ run[r].pc = "row"
  /\ file' = Append(file, Head(run[r].rows))
  /\ run' = [run EXCEPT ![r].pc = "newline", ![r].rows = Tail(@)]
  /\ UNCHANGED <<suite, edits, crashes, clock, reports, last>>

Finished(r) == last' = IF run[r].alone /\ Writing = {r} THEN Found(r) ELSE None

WriteNewline(r) ==
  /\ run[r].pc = "newline"
  /\ file' = Append(file, Newline)
  /\ IF run[r].rows # <<>> \/ Retention # None
       THEN /\ run' = [run EXCEPT ![r].pc = IF run[r].rows # <<>> THEN "row" ELSE "retain"]
            /\ UNCHANGED last
       ELSE run' = [run EXCEPT ![r] = Fresh] /\ Finished(r)
  /\ UNCHANGED <<suite, edits, crashes, clock, reports>>

\* The lines of the file; a line is the tokens between two newlines.
LinesOf(f) ==
  LET take(lines, x) == IF x = Newline THEN Append(lines, <<>>)
                        ELSE Append(Front(lines), Append(Last(lines), x))
  IN  SelectSeq(FoldLeft(take, <<<<>>>>, f), LAMBDA line : line # <<>>)

\* apply_telemetry_retention: the file is read ...
ReadForRetention(r) ==
  /\ run[r].pc = "retain"
  /\ LET rows == LinesOf(file)
     IN  IF Len(rows) <= Retention
           THEN run' = [run EXCEPT ![r] = Fresh] /\ Finished(r)
           ELSE /\ run' = [run EXCEPT ![r].pc = "truncate",
                     ![r].kept = FlattenSeq([i \in 1 .. Retention |-> Append(rows[Len(rows) - Retention + i], Newline)])]
                /\ UNCHANGED last
  /\ UNCHANGED <<suite, edits, crashes, clock, file, reports>>

\* ... and fs::write opens it anew, empty ...
Truncate(r) ==
  /\ run[r].pc = "truncate"
  /\ file' = <<>>
  /\ run' = [run EXCEPT ![r].pc = "rewrite"]
  /\ UNCHANGED <<suite, edits, crashes, clock, reports, last>>

\* ... and writes the kept rows from its start on, over what others appended
\* in between. Where those rows end, a part of another row may be left.
Rewrite(r) ==
  /\ run[r].pc = "rewrite"
  /\ LET rest == SubSeq(file, Len(run[r].kept) + 1, Len(file))
     IN  \E torn \in {<<>>, <<Torn>>} :
           /\ torn # <<>> => file # <<>>
           /\ file' = run[r].kept \o torn \o rest
  /\ run' = [run EXCEPT ![r] = Fresh]
  /\ Finished(r)
  /\ UNCHANGED <<suite, edits, crashes, clock, reports>>

\* A run dies while it writes.
Crash(r) ==
  /\ r \in Writing /\ crashes < MaxCrashes
  /\ crashes' = crashes + 1
  /\ run' = [run EXCEPT ![r] = Fresh]
  /\ UNCHANGED <<suite, edits, clock, file, reports, last>>

EvalNext ==
  \/ Edit
  \/ \E r \in Runs :
       \/ Load(r) \/ Evaluate(r) \/ WriteRow(r) \/ WriteNewline(r)
       \/ ReadForRetention(r) \/ Truncate(r) \/ Rewrite(r) \/ Crash(r)

EvalSpec == EvalInit /\ [][EvalNext]_evalVars

-----------------------------------------------------------------------------
(* The gate: what it answers for the file as it is.                        *)

\* read_telemetry_rows_for_suite: empty lines are skipped, and one line that is
\* not a row, or more than one, fails the whole.
Readable(f) ==
  \A i \in DOMAIN f : f[i] # Newline => f[i] # Torn /\ (i < Len(f) => f[i + 1] = Newline)

\* The places of the rows.
RowsOf(f) == {i \in DOMAIN f : f[i] # Newline}

\* latest_telemetry_rows: those of the run stamped last.
LatestRows(f) == {i \in RowsOf(f) : \A j \in RowsOf(f) : f[j].runId <= f[i].runId}

\* Mutant: rows that retention cut off are not missed.
IncompleteByCases(rows) ==
  LET first == file[Min(rows)] IN first.version # suite \/ first.caseCount # first.suiteCaseCount

\* latest_run_incomplete_message.
Incomplete(rows) ==
  LET first == file[Min(rows)]
  IN  \/ first.version # suite
      \/ first.caseCount # first.suiteCaseCount
      \/ first.assertionCount # Cardinality(rows)

\* build_eval_gate_report, gate_config_status_from_suite_path and
\* gate_allowed_message.
Gate ==
  IF ~Readable(file) THEN "error"
  ELSE LET rows == LatestRows(file)
           pass == Cardinality({i \in rows : file[i].status = "pass"})
       IN  CASE rows = {} \/ suite = None -> "blocked"
             [] rows # {} /\ suite # None /\ suite \in Ungated -> "unconfigured"
             [] OTHER -> IF ~Incomplete(rows) /\ pass * Cardinality(Cases) >= Threshold * Cardinality(rows)
                           THEN "allowed" ELSE "blocked"

-----------------------------------------------------------------------------
(* Properties.                                                             *)

\* A gate that allows speaks for a run that really took place: some run of the
\* whole suite, as it reads now, passed the threshold. Runs that interleave
\* their rows, runs of a few cases and of older versions never add up to one
\* that did not; nor does retention that cuts or overwrites rows of others, with
\* two runs at a time: the rewrites of three can leave a row twice.
AllowedMeansRun ==
  Gate = "allowed" =>
    \E p \in reports :
      p.version = suite /\ p.cases = Cases /\ Cardinality(p.passed) >= Threshold

\* When the file can be read, the gate follows the last run, if it ran the
\* whole suite as it reads now and no other run wrote at the same time,
\* whatever runs before it left.
LastRunDecides ==
  last # None /\ last.version = suite /\ suite \notin Ungated /\ Readable(file) =>
    Gate = IF last.cases = Cases /\ Cardinality(last.passed) >= Threshold
             /\ (Retention = None \/ Retention >= Cardinality(Cases))
             THEN "allowed" ELSE "blocked"

\* The gate (gate.rs) and the rows that runs leave it (telemetry.rs): it allows
\* nothing that no run earned, and the last undisturbed run decides.
GateSound == AllowedMeansRun /\ LastRunDecides
=============================================================================
