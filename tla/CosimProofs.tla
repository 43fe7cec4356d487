----------------------------- MODULE CosimProofs -----------------------------
(***************************************************************************)
(* The comparison reports the first divergence of any two streams.  The    *)
(* invariant is that of the loop: the commits before idx agree.            *)
(***************************************************************************)
EXTENDS Cosim, TLAPS

\* Leaves go to SMT, with time to spare, unless they name another prover.
USE SMTT(60)

\* The loop invariant, with the shape a report has.
LoopInv ==
  /\ expected \in Seq(Records) /\ actual \in Seq(Records)
  /\ idx \in 0 .. count
  /\ \A i \in 1 .. idx : Same(i)
  /\ report.ended => report.matched_commits = idx
  /\ FirstDivergence

\* The bound of the loop is the length of the shorter stream.
LEMMA CountFacts ==
  ASSUME expected \in Seq(Records), actual \in Seq(Records)
  PROVE  /\ count \in Nat /\ count <= Len(expected) /\ count <= Len(actual)
         /\ count = Len(expected) \/ count = Len(actual)
  BY DEF count

\* The compared fields, and no other, are named by their positions.
LEMMA FieldNames ==
  ASSUME NEW k \in DOMAIN FIELDS
  PROVE  FIELDS[k] \notin {"commit_count", "none"}
  <1>1. k \in 1 .. 7
    BY DEF FIELDS
  <1> QED
    BY <1>1, \A i \in 1 .. 7 : i \in {1, 2, 3, 4, 5, 6, 7} DEF FIELDS

\* What a report of n matched commits says.
LEMMA ReportFacts ==
  ASSUME NEW n, NEW field
  PROVE  /\ mismatch(n, field).ended
         /\ mismatch(n, field).matched_commits = n
         /\ mismatch(n, field).index = n /\ mismatch(n, field).field = field
  BY DEF mismatch

\* Before the first iteration nothing has been compared.
LEMMA LoopStarts == Init => LoopInv
  <1> SUFFICES ASSUME Init PROVE LoopInv
    OBVIOUS
  <1>1. expected \in Seq(Records) /\ actual \in Seq(Records)
    BY CosimAssumption DEF Init
  <1> QED
    BY <1>1, CountFacts DEF Init, LoopInv, FirstDivergence, Running

\* An iteration that finds no difference extends what agrees by one commit.
LEMMA AgreeingCommit ==
  ASSUME LoopInv, ~report.ended, idx < count,
         \A k \in DOMAIN FIELDS : Agree(expected[idx + 1], actual[idx + 1], k)
  PROVE  idx + 1 \in 0 .. count /\ \A i \in 1 .. idx + 1 : Same(i)
  <1>1. idx + 1 \in 0 .. count
    BY CountFacts DEF LoopInv
  <1>2. Same(idx + 1)
    BY <1>1, CountFacts DEF LoopInv, Same
  <1> QED
    BY <1>1, <1>2 DEF LoopInv

\* Every step of the comparison keeps the loop invariant.
LEMMA LoopKept == LoopInv /\ [Next]_vars => LoopInv'
  <1> SUFFICES ASSUME LoopInv, [Next]_vars PROVE LoopInv'
    OBVIOUS
  <1> USE CountFacts
  <1>1. CASE UNCHANGED vars
    BY <1>1 DEF vars, LoopInv, FirstDivergence, Same, Agree, count
  <1>2. CASE CompareCommit
    <2>0. ~report.ended /\ idx < count /\ UNCHANGED <<expected, actual>>
      BY <1>2 DEF CompareCommit
    <2>1. CASE /\ idx' = idx + 1 /\ UNCHANGED report
               /\ \A k \in DOMAIN FIELDS : Agree(expected[idx + 1], actual[idx + 1], k)
      <3>1. idx + 1 \in 0 .. count /\ \A i \in 1 .. idx + 1 : Same(i)
        BY <2>0, <2>1, AgreeingCommit
      <3> QED
        BY <2>0, <2>1, <3>1 DEF LoopInv, FirstDivergence, Same, Agree, count
    <2>2. CASE /\ UNCHANGED idx
               /\ \E k \in DOMAIN FIELDS :
                    /\ ~Agree(expected[idx + 1], actual[idx + 1], k)
                    /\ \A j \in 1 .. k - 1 : Agree(expected[idx + 1], actual[idx + 1], j)
                    /\ report' = mismatch(idx, FIELDS[k])
      <3>1. PICK k \in DOMAIN FIELDS :
              /\ ~Agree(expected[idx + 1], actual[idx + 1], k)
              /\ \A j \in 1 .. k - 1 : Agree(expected[idx + 1], actual[idx + 1], j)
              /\ report' = mismatch(idx, FIELDS[k])
        BY <2>2
      <3>2. FIELDS[k] \notin {"commit_count", "none"}
        BY FieldNames
      <3>3. /\ report'.matched_commits = idx
            /\ report'.index = idx /\ report'.ended /\ report'.field = FIELDS[k]
        BY <3>1, <3>2, ReportFacts
      <3>4. ~Same(idx + 1)
        BY <3>1 DEF Same
      <3>5. FirstDivergence'
        <4>1. idx \in 0 .. Len(expected) /\ idx < Len(expected) /\ idx < Len(actual)
          BY <2>0 DEF LoopInv
        <4>2. \A i \in 1 .. idx : Same(i)
          BY DEF LoopInv
        <4> QED
          BY <2>0, <2>2, <3>1, <3>2, <3>3, <3>4, <4>1, <4>2 DEF FirstDivergence, Same
      <3> QED
        BY <2>0, <2>2, <3>3, <3>5 DEF LoopInv, Same, Agree, count
    <2> QED
      BY <1>2, <2>1, <2>2 DEF CompareCommit
  <1>3. CASE CompareLengths
    <2>1. ~report.ended /\ idx = count /\ UNCHANGED <<expected, actual, idx>>
      BY <1>3 DEF CompareLengths
    <2>2. CASE Len(expected) # Len(actual)
      <3>1. report' = mismatch(idx, "commit_count")
        BY <1>3, <2>1, <2>2 DEF CompareLengths
      <3>2. /\ report'.matched_commits = idx
            /\ report'.index = idx /\ report'.ended /\ report'.field = "commit_count"
        BY <3>1, ReportFacts
      <3>3. ~Same(idx + 1)
        BY <2>1, <2>2 DEF Same, LoopInv, count
      <3>4. FirstDivergence'
        BY <2>1, <2>2, <3>2, <3>3 DEF LoopInv, FirstDivergence, Same, Agree
      <3> QED
        BY <2>1, <3>2, <3>4 DEF LoopInv, Same, Agree, count
    <2>3. CASE Len(expected) = Len(actual)
      <3>1. report' = Matched(idx)
        BY <1>3, <2>1, <2>3 DEF CompareLengths
      <3>2. /\ report'.matched_commits = idx
            /\ report'.field = "none" /\ report'.ended
        BY <3>1, ReportFacts DEF Matched
      <3> QED
        BY <2>1, <2>3, <3>2 DEF LoopInv, FirstDivergence, Same, Agree, count
    <2> QED
      BY <2>2, <2>3
  <1> QED
    BY <1>1, <1>2, <1>3 DEF Next

\* For all streams of all records: the report of compare_commit_streams names the
\* first divergence, and there is none when it names none.
THEOREM ReportsFirstDivergence == Spec => []FirstDivergence
  <1>1. LoopInv => FirstDivergence
    BY DEF LoopInv
  <1> QED
    BY <1>1, LoopStarts, LoopKept, PTL DEF Spec

\* The verdict of lx-cosim: it accepts only streams of the same length that agree in
\* every compared field of every commit.
Accepted == require_cosim_match => Len(expected) = Len(actual) /\ \A i \in 1 .. Len(expected) : Same(i)

\* lx-cosim accepts nothing else, for all streams.
THEOREM AcceptsOnlyMatches == Spec => []Accepted
  <1>1. LoopInv => Accepted
    BY DEF LoopInv, Accepted, require_cosim_match, FirstDivergence
  <1> QED
    BY <1>1, LoopStarts, LoopKept, PTL DEF Spec
=============================================================================
