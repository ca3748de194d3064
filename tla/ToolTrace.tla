------------------------------ MODULE ToolTrace ------------------------------
(***************************************************************************)
(* The trace of tool calls, src/src/utils/tool_trace.rs: one JSONL file    *)
(* that the threads of several processes append to under an exclusive lock *)
(* and that is emptied when it would grow past DBT_NOVA_TRACE_MAX_BYTES.   *)
(*                                                                         *)
(* A line is the sequence of the rows written on it: a process that dies in*)
(* the middle of a row leaves a line without its end, and the next row is  *)
(* appended to that line.                                                  *)
(***************************************************************************)
EXTENDS Integers, Sequences, FiniteSets, SequencesExt

CONSTANTS
  Writers,   \* threads that record tool calls
  Procs,     \* their processes
  MaxBytes,  \* trace_max_bytes; 0 for no limit
  RowBytes,  \* the sizes of rows
  MaxCalls   \* bound: calls of a writer

VARIABLES
  file,      \* the lines: [rows, size, torn]
  nextIndex, \* TOOL_CALL_INDEX of each process, -1 uninitialised
  home,      \* the process of each writer
  seed,      \* the row count a writer is about to initialise the index with
  row,       \* the row each writer has built
  step,      \* where it is
  since      \* the rows appended as a whole since the file was last emptied

vars == <<file, nextIndex, home, seed, row, step, since>>

NoRow == [by |-> 0, n |-> 0, index |-> 0, size |-> 0]
Line(r, torn) == [rows |-> <<r>>, size |-> r.size, torn |-> torn]

\* The length of the file. The size of a line counts its rows whole: where a row
\* was cut is left open.
Bytes(f) ==
  LET sum[n \in 0 .. Len(f)] == IF n = 0 THEN 0 ELSE sum[n - 1] + f[n].size
  IN  sum[Len(f)]

\* A line parses if exactly one row was written on it, to its end.
Parses(l) == Len(l.rows) = 1 /\ ~l.torn

\* A row numbered by its position.
Numbered(rows, r) == Append(rows, [r EXCEPT !.index = Len(rows)])

\* Mutant: reading stops at the first line that does not parse.
ReadUntilTorn(f) ==
  LET read[n \in 0 .. Len(f)] ==
        IF n = 0 THEN <<>>
        ELSE IF Parses(f[n]) /\ Len(read[n - 1]) = n - 1 THEN Numbered(read[n - 1], f[n].rows[1])
        ELSE read[n - 1]
  IN  read[Len(f)]

\* read_tool_trace_file: the rows in file order, numbered by their position;
\* lines that do not parse become warnings. An oversized file is not read.
ReadRows(f) ==
  LET read[n \in 0 .. Len(f)] ==
        IF n = 0 THEN <<>>
        ELSE IF Parses(f[n]) THEN Numbered(read[n - 1], f[n].rows[1])
        ELSE read[n - 1]
  IN  read[Len(f)]

ExistingRowCount(f) ==
  IF MaxBytes > 0 /\ Bytes(f) > MaxBytes THEN 0 ELSE Len(ReadRows(f))

Init ==
  /\ file = <<>>
  /\ nextIndex = [p \in Procs |-> -1]
  /\ home \in [Writers -> Procs]
  /\ seed = [w \in Writers |-> 0]
  /\ row = [w \in Writers |-> NoRow]
  /\ step = [w \in Writers |-> "idle"]
  /\ since = <<>>

Goto(w, s) == step' = [step EXCEPT ![w] = s]
Calls(w) == row[w].n

\* build_tool_trace_row: the row and its index, from the counter if it is
\* initialised.
NewRow(w, size) == [by |-> w, n |-> Calls(w) + 1, index |-> nextIndex[home[w]], size |-> size]

TakeIndex(w) ==
  /\ step[w] = "idle" /\ Calls(w) < MaxCalls
  /\ nextIndex[home[w]] # -1
  /\ \E size \in RowBytes : row' = [row EXCEPT ![w] = NewRow(w, size)]
  /\ nextIndex' = [nextIndex EXCEPT ![home[w]] = @ + 1]
  /\ Goto(w, "append")
  /\ UNCHANGED <<file, home, seed, since>>

\* next_tool_call_index: otherwise the rows of the file are counted ...
CountRows(w) ==
  /\ step[w] = "idle" /\ Calls(w) < MaxCalls
  /\ nextIndex[home[w]] = -1
  /\ seed' = [seed EXCEPT ![w] = ExistingRowCount(file)]
  /\ Goto(w, "seed")
  /\ UNCHANGED <<file, nextIndex, home, row, since>>

\* Mutant: the counter is stored without looking at it again.
StoreSeed(w) ==
  /\ step[w] = "seed"
  /\ nextIndex' = [nextIndex EXCEPT ![home[w]] = seed[w]]
  /\ Goto(w, "idle")
  /\ UNCHANGED <<file, home, seed, row, since>>

\* ... and the first to compare and exchange initialises the counter.
Seed(w) ==
  /\ step[w] = "seed"
  /\ nextIndex' = [nextIndex EXCEPT ![home[w]] = IF @ = -1 THEN seed[w] ELSE @]
  /\ Goto(w, "idle")
  /\ UNCHANGED <<file, home, seed, row, since>>

\* Mutant: the file is emptied only when it has outgrown its limit.
FullAlready(f, r) == MaxBytes > 0 /\ Bytes(f) > MaxBytes

\* prepare_trace_file_for_append: the row would make the file too large.
Full(f, r) == MaxBytes > 0 /\ Bytes(f) + r.size > MaxBytes

\* A row that alone is too large is skipped.
Skip(w) ==
  /\ step[w] = "append"
  /\ MaxBytes > 0 /\ row[w].size > MaxBytes
  /\ Goto(w, "idle")
  /\ UNCHANGED <<file, nextIndex, home, seed, row, since>>

\* A row put at the end of the file: on a line of its own, or on the line a
\* dead process left without an end.
Put(f, r, torn) ==
  IF f # <<>> /\ Last(f).torn
    THEN [f EXCEPT ![Len(f)] = [rows |-> Append(@.rows, r), size |-> @.size + r.size, torn |-> torn]]
    ELSE Append(f, Line(r, torn))

\* append_serialized_trace_row_locked, all of it under the lock.
AppendRow(w) ==
  /\ step[w] = "append"
  /\ ~(MaxBytes > 0 /\ row[w].size > MaxBytes)
  /\ LET f == IF Full(file, row[w]) THEN <<>> ELSE file
         s == IF Full(file, row[w]) THEN <<>> ELSE since
     IN  /\ file' = Put(f, row[w], FALSE)
         /\ since' = IF f # <<>> /\ Last(f).torn THEN s ELSE Append(s, row[w])
  /\ Goto(w, "idle")
  /\ UNCHANGED <<nextIndex, home, seed, row>>

\* The process of the writer dies, after emptying the file or in the middle of
\* the row; its other threads die with it and it starts anew.
Die(w) ==
  /\ step[w] = "append"
  /\ ~(MaxBytes > 0 /\ row[w].size > MaxBytes)
  /\ \/ /\ Full(file, row[w])
        /\ file' = <<>> /\ since' = <<>>
     \/ LET f == IF Full(file, row[w]) THEN <<>> ELSE file
            s == IF Full(file, row[w]) THEN <<>> ELSE since
        IN  file' = Put(f, row[w], TRUE) /\ since' = s
  /\ nextIndex' = [nextIndex EXCEPT ![home[w]] = -1]
  /\ step' = [v \in Writers |-> IF home[v] = home[w] THEN "idle" ELSE step[v]]
  /\ UNCHANGED <<home, seed, row>>

Finished ==
  /\ \A w \in Writers : step[w] = "idle" /\ Calls(w) = MaxCalls
  /\ UNCHANGED vars

Next ==
  \/ Finished
  \/ \E w \in Writers :
       TakeIndex(w) \/ CountRows(w) \/ Seed(w) \/ Skip(w) \/ AppendRow(w) \/ Die(w)

Spec == Init /\ [][Next]_vars

-----------------------------------------------------------------------------
(* Properties.                                                             *)

\* The file never outgrows its limit, whoever appends and dies.
FileBounded == MaxBytes > 0 => Bytes(file) <= MaxBytes

\* Reading gives exactly the rows that were appended as a whole since the file
\* was last emptied, in their order; a torn row costs itself and the row that
\* is appended to its line, no other.
ReadsWhatWasWritten ==
  LET rows == ReadRows(file)
  IN  /\ Len(rows) = Len(since)
      /\ \A i \in DOMAIN rows : [rows[i] EXCEPT !.index = 0] = [since[i] EXCEPT !.index = 0]

\* Two calls of one process never get the same index while it lives, however
\* its threads race to initialise the counter: the counter only grows.
IndexGrows ==
  [][\A p \in Procs :
       nextIndex[p] # -1 /\ nextIndex'[p] # -1 => nextIndex'[p] >= nextIndex[p]]_vars
=============================================================================
