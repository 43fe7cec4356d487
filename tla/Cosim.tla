-------------------------------- MODULE Cosim --------------------------------
(***************************************************************************)
(* The comparison of two commit streams (cosim/src/compare/mod.rs), which  *)
(* lx-cosim runs on a reference stream and the commits of an engine.       *)
(*                                                                         *)
(* A commit record is a function from field names to values.  Only the     *)
(* fields of FIELDS are compared, in this order; a record has others (the  *)
(* values written back, the addresses and data of memory accesses).        *)
(* Each step is one iteration of the loop.                                 *)
(***************************************************************************)
EXTENDS Integers, Sequences

CONSTANTS
  Records,        \* commit records
  Streams         \* the streams that may be compared

FIELDS == <<"pc", "insn", "len", "wb_valid", "mem_valid", "trap_valid", "next_pc">>

ASSUME CosimAssumption == Streams \subseteq Seq(Records)

VARIABLES
  expected,       \* the reference
  actual,         \* the commits of the engine
  idx,            \* commits compared so far
  report          \* CosimReport, not ended while the loop runs

vars == <<expected, actual, idx, report>>

\* The number of commits both streams have.
count == IF Len(expected) < Len(actual) THEN Len(expected) ELSE Len(actual)

\* A report of n matched commits; the field of one without a mismatch is "none".
Running == [ended |-> FALSE, matched_commits |-> 0, index |-> 0, field |-> "none"]
mismatch(n, field) == [ended |-> TRUE, matched_commits |-> n, index |-> n, field |-> field]
Matched(n) == mismatch(n, "none")

Agree(lhs, rhs, k) == lhs[FIELDS[k]] = rhs[FIELDS[k]]

\* Mutant: the last field is not compared.
CompareCommit_NoNextPc ==
  LET lhs == expected[idx + 1]
      rhs == actual[idx + 1]
  IN /\ ~report.ended /\ idx < count
     /\ \/ /\ \A k \in 1 .. Len(FIELDS) - 1 : Agree(lhs, rhs, k)
           /\ idx' = idx + 1
           /\ UNCHANGED report
        \/ \E k \in 1 .. Len(FIELDS) - 1 :
             /\ ~Agree(lhs, rhs, k)
             /\ \A j \in 1 .. k - 1 : Agree(lhs, rhs, j)
             /\ report' = mismatch(idx, FIELDS[k])
             /\ UNCHANGED idx
     /\ UNCHANGED <<expected, actual>>

\* One iteration: the first field that differs ends the comparison.
CompareCommit ==
  LET lhs == expected[idx + 1]
      rhs == actual[idx + 1]
  IN /\ ~report.ended /\ idx < count
     /\ \/ /\ \A k \in DOMAIN FIELDS : Agree(lhs, rhs, k)
           /\ idx' = idx + 1
           /\ UNCHANGED report
        \/ \E k \in DOMAIN FIELDS :
             /\ ~Agree(lhs, rhs, k)
             /\ \A j \in 1 .. k - 1 : Agree(lhs, rhs, j)
             /\ report' = mismatch(idx, FIELDS[k])
             /\ UNCHANGED idx
     /\ UNCHANGED <<expected, actual>>

\* After the loop the lengths are compared.
CompareLengths ==
  /\ ~report.ended /\ idx = count
  /\ report' = IF Len(expected) # Len(actual) THEN mismatch(count, "commit_count") ELSE Matched(count)
  /\ UNCHANGED <<expected, actual, idx>>

\* The verdict of lx-cosim.
require_cosim_match == report.ended /\ report.field = "none"

Init ==
  /\ expected \in Streams /\ actual \in Streams
  /\ idx = 0
  /\ report = Running

Next == CompareCommit \/ CompareLengths

Spec == Init /\ [][Next]_vars

-----------------------------------------------------------------------------
\* Properties.

\* Commit n of both streams is there and agrees in every compared field.
Same(n) ==
  /\ n <= Len(expected) /\ n <= Len(actual)
  /\ \A k \in DOMAIN FIELDS : Agree(expected[n], actual[n], k)

\* The report names the first divergence of the two streams: everything before
\* matched_commits agrees, and behind it either both streams end (a match) or one
\* ends before the other, or the next two commits disagree in the field named and
\* in none that is compared before it.
FirstDivergence ==
  report.ended =>
    LET n == report.matched_commits
    IN /\ n \in 0 .. Len(expected)
       /\ \A i \in 1 .. n : Same(i)
       /\ IF report.field = "none" THEN Len(expected) = n /\ Len(actual) = n
          ELSE /\ report.index = n /\ ~Same(n + 1)
               /\ IF report.field = "commit_count"
                  THEN Len(expected) # Len(actual) /\ (Len(expected) = n \/ Len(actual) = n)
                  ELSE \E k \in DOMAIN FIELDS :
                         /\ FIELDS[k] = report.field
                         /\ n < Len(expected) /\ n < Len(actual)
                         /\ ~Agree(expected[n + 1], actual[n + 1], k)
                         /\ \A j \in 1 .. k - 1 : Agree(expected[n + 1], actual[n + 1], j)
=============================================================================
