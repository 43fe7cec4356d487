------------------------------- MODULE MCCosim -------------------------------
(***************************************************************************)
(* The tools that read an engine's output on small runs: lx-cosim on every *)
(* pair of streams of up to MaxCommits commits, lx-trace on every run of a *)
(* few cycles.                                                             *)
(***************************************************************************)
EXTENDS Cosim, LinxTrace

CONSTANTS MaxCommits

VARIABLE tool     \* "lx-cosim" or "lx-trace"

\* Records that differ in the first field, in the last, in two in the middle, and
\* in one that is not compared.
Base == [f \in ToSet(FIELDS) \cup {"wb_data"} |-> 0]
MCRecords ==
  {Base, [Base EXCEPT !.pc = 1], [Base EXCEPT !.next_pc = 1],
   [Base EXCEPT !.len = 1, !.trap_valid = 1], [Base EXCEPT !.wb_data = 1]}
MCStreams == BoundedSeq(MCRecords, MaxCommits)

MCInit ==
  /\ tool \in {"lx-cosim", "lx-trace"}
  /\ Init /\ TraceInit
  /\ tool = "lx-cosim" => engine = "func"
  /\ tool = "lx-trace" => expected = <<>> /\ actual = <<>>

MCNext ==
  \/ tool = "lx-cosim" /\ Next /\ UNCHANGED <<traceVars, tool>>
  \/ tool = "lx-trace" /\ TraceNext /\ UNCHANGED <<vars, tool>>

MCSpec == MCInit /\ [][MCNext]_<<vars, traceVars, tool>>
=============================================================================
