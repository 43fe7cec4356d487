------------------------------ MODULE LinxTrace ------------------------------
(***************************************************************************)
(* The rows of a LinxTrace file (trace/src/linxtrace/mod.rs).  A row is    *)
(* one micro-operation, "uop<n>", here the number n.  The writer gets the  *)
(* stage events of a run and the number of its commits; it knows a commit  *)
(* only by its position and finds its row through the order in which the   *)
(* rows first appear in the events.                                        *)
(*                                                                         *)
(* The run is the part of an engine that decides this order: the cycle     *)
(* engine shows fetched micro-operations at F0, in fetch order and before  *)
(* everything older, and retires in order; the functional engine numbers   *)
(* the rows of its events by cycle, four to an instruction.  Only the rows *)
(* of the events are kept.                                                 *)
(***************************************************************************)
EXTENDS Integers, Sequences, SequencesExt

CONSTANTS
  MaxRows,        \* micro-operations per run
  MaxEvents       \* bound on the events of a run of the cycle engine

VARIABLES
  engine,         \* "func" or "cycle"
  fetched,        \* micro-operations fetched, or instructions executed
  retired,        \* commits
  events,         \* the row of each stage event
  stopped         \* the functional engine met a bundle it cannot decode

traceVars == <<engine, fetched, retired, events, stopped>>

\* row_ids with rows added up to target_rows, each named by its position.
Filled(row_ids, target_rows) ==
  [k \in 1 .. IF Len(row_ids) > target_rows THEN Len(row_ids) ELSE target_rows |->
     IF k <= Len(row_ids) THEN row_ids[k] ELSE k - 1]

\* Rows in the order of their first event, then as many more as commits need.
collect_row_ids(rows, commit_count) ==
  LET seen == FoldLeft(LAMBDA ids, row : IF Contains(ids, row) THEN ids ELSE Append(ids, row), <<>>, rows)
  IN Filled(seen, IF commit_count > 1 THEN commit_count ELSE 1)

\* The rows of the records the writer emits: OP_DEF, OCC, RETIRE and the final
\* BLOCK_EVT.  A run without events gets two on row 0; one without commits retires
\* its first row.
OpDefs == collect_row_ids(events, retired)
Occs == IF events = <<>> THEN <<0, 0>> ELSE events

\* Mutant: rows are found from one on.
Retires_OffByOne ==
  LET row_ids == OpDefs
  IN IF retired = 0 THEN <<row_ids[1]>>
     ELSE [i \in 1 .. retired |-> IF i + 1 <= Len(row_ids) THEN row_ids[i + 1] ELSE Last(row_ids)]

Retires ==
  LET row_ids == OpDefs
  IN IF retired = 0 THEN <<row_ids[1]>>
     ELSE [i \in 1 .. retired |-> IF i <= Len(row_ids) THEN row_ids[i] ELSE Last(row_ids)]

BlockEvt == IF retired = 0 THEN Head(OpDefs) ELSE Last(OpDefs)

-----------------------------------------------------------------------------
TraceInit ==
  /\ engine \in {"func", "cycle"}
  /\ fetched = 0 /\ retired = 0 /\ events = <<>> /\ stopped = FALSE

\* A cycle of the cycle engine: n micro-operations appear, an older one may show in
\* a later stage, and k of those in flight retire.  One older event stands for all
\* of a cycle: each names a row that has appeared before.
EmitCycle(n, k) ==
  \E older \in {<<>>} \cup {<<row>> : row \in retired .. fetched - 1} :
    /\ engine = "cycle"
    /\ fetched + n <= MaxRows /\ Len(events) + n + Len(older) <= MaxEvents
    /\ n > 0 \/ older # <<>>
    /\ retired + k <= fetched
    /\ events' = events \o [i \in 1 .. n |-> fetched + i - 1] \o older
    /\ fetched' = fetched + n
    /\ retired' = retired + k
    /\ UNCHANGED <<engine, stopped>>

\* An instruction of the functional engine: fetch, decode, execute and retire in
\* four cycles.  A bundle that does not decode is committed as a fault.
ExecuteStep ==
  /\ engine = "func" /\ ~stopped /\ fetched < MaxRows
  /\ events' = events \o [i \in 1 .. 4 |-> 4 * fetched + i - 1]
  /\ fetched' = fetched + 1 /\ retired' = retired + 1
  /\ UNCHANGED <<engine, stopped>>

DecodeMiss ==
  /\ engine = "func" /\ ~stopped
  /\ events' = Append(events, fetched)
  /\ retired' = retired + 1
  /\ stopped' = TRUE
  /\ UNCHANGED <<engine, fetched>>

TraceNext ==
  \/ \E n, k \in 0 .. 2 : EmitCycle(n, k)
  \/ ExecuteStep
  \/ DecodeMiss

-----------------------------------------------------------------------------
\* Properties, of the file written after any prefix of a run.

\* The records of a file fit together: every row an OCC, RETIRE or BLOCK_EVT record
\* names has exactly one OP_DEF, and in a trace of the cycle engine the RETIRE record
\* of a commit names the row of the micro-operation that committed, though the
\* writer only counts.
RecordsFit ==
  LET defs == OpDefs
  IN /\ \A i, j \in DOMAIN defs : defs[i] = defs[j] => i = j
     /\ ToSet(Occs) \cup ToSet(Retires) \cup {BlockEvt} \subseteq ToSet(defs)
     /\ engine = "cycle" => \A i \in 1 .. retired : Retires[i] = i - 1
=============================================================================
