------------------------ MODULE IssueQueueInvariant -------------------------
(***************************************************************************)
(* The steps of the issue queues, and of the back end behind them, keep    *)
(* the invariant of the issue queues.                                      *)
(***************************************************************************)
EXTENDS IssueQueueView, TLAPS

\* Leaves go to Zenon, with time to spare, unless they name another prover.
USE ZenonT(60)

-----------------------------------------------------------------------------
(* Facts about sequences.                                                  *)

\* Taking the head off a queue of distinct uops takes that uop out of it.
LEMMA RangeTail ==
  ASSUME NEW S, NEW q \in Seq(S), q # <<>>, Distinct(q)
  PROVE  /\ Head(q) \in S /\ Head(q) \in RangeOf(q)
         /\ Distinct(Tail(q)) /\ Tail(q) \in Seq(S)
         /\ \A s : s \in RangeOf(Tail(q)) <=> s \in RangeOf(q) /\ s # Head(q)
<1>1. /\ Len(q) \in Nat /\ Len(q) > 0 /\ DOMAIN q = 1 .. Len(q) /\ Head(q) = q[1]
      /\ Tail(q) \in Seq(S) /\ DOMAIN Tail(q) = 1 .. Len(q) - 1
      /\ \A k \in 1 .. Len(q) - 1 : Tail(q)[k] = q[k + 1]
  BY SMTT(60)
<1>2. Head(q) \in S /\ Head(q) \in RangeOf(q)
  BY <1>1, SMTT(60) DEF RangeOf
<1>3. Distinct(Tail(q))
  BY <1>1, SMTT(60) DEF Distinct
<1>4. ASSUME NEW s, s \in RangeOf(Tail(q)) PROVE s \in RangeOf(q) /\ s # Head(q)
  <2>1. PICK k \in 1 .. Len(q) - 1 : s = q[k + 1]
    BY <1>1, <1>4 DEF RangeOf
  <2>2. k + 1 \in DOMAIN q /\ k + 1 # 1 /\ 1 \in DOMAIN q
    BY <1>1, SMTT(60)
  <2>3. QED
    BY <1>1, <2>1, <2>2 DEF RangeOf, Distinct
<1>5. ASSUME NEW s, s \in RangeOf(q), s # Head(q) PROVE s \in RangeOf(Tail(q))
  <2>1. PICK k \in 1 .. Len(q) : s = q[k]
    BY <1>1, <1>5 DEF RangeOf
  <2>2. k - 1 \in 1 .. Len(q) - 1 /\ (k - 1) + 1 = k
    BY <1>1, <1>5, <2>1, SMTT(60)
  <2>3. Tail(q)[k - 1] = s /\ k - 1 \in DOMAIN Tail(q)
    BY <1>1, <2>1, <2>2
  <2>4. QED
    BY <2>3 DEF RangeOf
<1>6. QED
  BY <1>1, <1>2, <1>3, <1>4, <1>5

\* Appending a uop to a queue adds that uop to it.
LEMMA RangeAppend ==
  ASSUME NEW S, NEW q \in Seq(S), NEW e \in S
  PROVE  /\ \A s : s \in RangeOf(Append(q, e)) <=> s \in RangeOf(q) \/ s = e
         /\ Distinct(q) /\ e \notin RangeOf(q) => Distinct(Append(q, e))
<1>1. /\ Len(q) \in Nat /\ DOMAIN q = 1 .. Len(q) /\ DOMAIN Append(q, e) = 1 .. Len(q) + 1
      /\ \A k \in 1 .. Len(q) : Append(q, e)[k] = q[k]
      /\ Append(q, e)[Len(q) + 1] = e
      /\ \A k \in 1 .. Len(q) + 1 : k \in 1 .. Len(q) \/ k = Len(q) + 1
  BY SMTT(60)
<1>2. ASSUME NEW s PROVE s \in RangeOf(Append(q, e)) <=> s \in RangeOf(q) \/ s = e
  <2>1. s \in RangeOf(Append(q, e)) <=> \E k \in 1 .. Len(q) + 1 : s = Append(q, e)[k]
    BY <1>1 DEF RangeOf
  <2>2. s \in RangeOf(q) <=> \E k \in 1 .. Len(q) : s = q[k]
    BY <1>1 DEF RangeOf
  <2>3. CASE s = e
    BY <1>1, <2>1, <2>3, SMTT(60)
  <2>4. CASE s # e
    <3>1. ASSUME NEW k \in 1 .. Len(q) + 1, s = Append(q, e)[k]
          PROVE  k \in 1 .. Len(q) /\ s = q[k]
      BY <1>1, <2>4, <3>1
    <3>2. ASSUME NEW k \in 1 .. Len(q), s = q[k]
          PROVE  k \in 1 .. Len(q) + 1 /\ s = Append(q, e)[k]
      BY <1>1, <3>2, SMTT(60)
    <3>3. QED
      BY <2>1, <2>2, <2>4, <3>1, <3>2
  <2>5. QED
    BY <2>3, <2>4
<1>3. Distinct(q) /\ e \notin RangeOf(q) => Distinct(Append(q, e))
  BY <1>1 DEF Distinct, RangeOf
<1>4. QED
  BY <1>2, <1>3

\* What a concatenation holds.
LEMMA RangeConcat ==
  ASSUME NEW S, NEW p \in Seq(S), NEW q \in Seq(S)
  PROVE  /\ p \o q \in Seq(S) /\ Len(p \o q) = Len(p) + Len(q)
         /\ \A s : s \in RangeOf(p \o q) <=> s \in RangeOf(p) \/ s \in RangeOf(q)
         /\ Distinct(p) /\ Distinct(q) /\ RangeOf(p) \cap RangeOf(q) = {} => Distinct(p \o q)
<1> DEFINE r == p \o q
<1>1. /\ r \in Seq(S) /\ Len(r) = Len(p) + Len(q)
      /\ Len(p) \in Nat /\ Len(q) \in Nat
      /\ DOMAIN p = 1 .. Len(p) /\ DOMAIN q = 1 .. Len(q) /\ DOMAIN r = 1 .. Len(r)
  BY SMTT(60)
<1>2. /\ \A k \in 1 .. Len(p) : r[k] = p[k]
      /\ \A k \in 1 .. Len(q) : r[k + Len(p)] = q[k]
      /\ \A k \in 1 .. Len(r) : k \in 1 .. Len(p) \/ (k - Len(p) \in 1 .. Len(q) /\ r[k] = q[k - Len(p)])
  BY <1>1, SMTT(60)
<1> HIDE DEF r
<1>3. ASSUME NEW s \in RangeOf(r) PROVE s \in RangeOf(p) \/ s \in RangeOf(q)
  <2>1. PICK k \in 1 .. Len(r) : s = r[k]
    BY <1>1 DEF RangeOf
  <2>2. CASE k \in 1 .. Len(p)
    BY <1>1, <1>2, <2>1, <2>2 DEF RangeOf
  <2>3. CASE k - Len(p) \in 1 .. Len(q) /\ r[k] = q[k - Len(p)]
    BY <1>1, <2>1, <2>3 DEF RangeOf
  <2> QED
    BY <1>2, <2>2, <2>3
<1>4. ASSUME NEW s \in RangeOf(p) PROVE s \in RangeOf(r)
  <2>1. PICK k \in 1 .. Len(p) : s = p[k]
    BY <1>1 DEF RangeOf
  <2>2. k \in 1 .. Len(r)
    BY <1>1, SMTT(60)
  <2> QED
    BY <1>1, <1>2, <2>1, <2>2 DEF RangeOf
<1>5. ASSUME NEW s \in RangeOf(q) PROVE s \in RangeOf(r)
  <2>1. PICK k \in 1 .. Len(q) : s = q[k]
    BY <1>1 DEF RangeOf
  <2>2. k + Len(p) \in 1 .. Len(r)
    BY <1>1, SMTT(60)
  <2> QED
    BY <1>1, <1>2, <2>1, <2>2 DEF RangeOf
<1>6. ASSUME Distinct(p), Distinct(q), RangeOf(p) \cap RangeOf(q) = {} PROVE Distinct(r)
  <2> SUFFICES ASSUME NEW j \in 1 .. Len(r), NEW k \in 1 .. Len(r), r[j] = r[k] PROVE j = k
    BY <1>1 DEF Distinct
  <2>1. \A a \in 1 .. Len(p), b \in 1 .. Len(q) : p[a] # q[b]
    BY <1>1, <1>6 DEF RangeOf
  <2>2. CASE j \in 1 .. Len(p) /\ k \in 1 .. Len(p)
    BY <1>1, <1>2, <1>6, <2>2 DEF Distinct
  <2>3. CASE j - Len(p) \in 1 .. Len(q) /\ k - Len(p) \in 1 .. Len(q)
    <3>1. r[j] = q[j - Len(p)] /\ r[k] = q[k - Len(p)]
      BY <1>1, <1>2, <2>3, SMTT(60)
    <3>2. j - Len(p) = k - Len(p)
      BY <1>1, <1>6, <2>3, <3>1 DEF Distinct
    <3> QED
      BY <1>1, <3>2, SMTT(60)
  <2>4. ASSUME NEW a \in 1 .. Len(p), NEW b \in 1 .. Len(r), b - Len(p) \in 1 .. Len(q)
        PROVE  r[a] # r[b]
    BY <1>1, <1>2, <2>1, <2>4, SMTT(60)
  <2> QED
    BY <1>2, <2>2, <2>3, <2>4
<1> QED
  BY <1>1, <1>3, <1>4, <1>5, <1>6 DEF r

\* What a piece of a sequence holds.
LEMMA RangePiece ==
  ASSUME NEW S, NEW q \in Seq(S), NEW a \in Nat, NEW b \in Nat, 1 <= a, a <= b + 1, b <= Len(q)
  PROVE  /\ SubSeq(q, a, b) \in Seq(S) /\ Len(SubSeq(q, a, b)) = b - a + 1
         /\ RangeOf(SubSeq(q, a, b)) = {q[k] : k \in a .. b}
         /\ Distinct(q) => Distinct(SubSeq(q, a, b))
<1> DEFINE r == SubSeq(q, a, b)
<1>1. /\ r \in Seq(S) /\ Len(r) = b - a + 1 /\ DOMAIN r = 1 .. Len(r)
      /\ DOMAIN q = 1 .. Len(q) /\ Len(q) \in Nat
      /\ \A k \in 1 .. Len(r) : r[k] = q[k + a - 1]
  BY SMTT(60)
<1> HIDE DEF r
<1>2. /\ \A k \in 1 .. Len(r) : k + a - 1 \in a .. b /\ k + a - 1 \in 1 .. Len(q)
      /\ \A k \in a .. b : k - a + 1 \in 1 .. Len(r) /\ r[k - a + 1] = q[k]
  <2>1. \A k \in 1 .. Len(r) : k + a - 1 \in a .. b /\ k + a - 1 \in 1 .. Len(q)
    BY <1>1, SMTT(60)
  <2>2. \A k \in a .. b : k - a + 1 \in 1 .. Len(r) /\ (k - a + 1) + a - 1 = k
    BY <1>1, SMTT(60)
  <2> QED
    BY <1>1, <2>1, <2>2
<1>3. ASSUME NEW s \in RangeOf(r) PROVE \E k \in a .. b : s = q[k]
  <2>1. PICK k \in 1 .. Len(r) : s = r[k]
    BY <1>1 DEF RangeOf
  <2> QED
    BY <1>1, <1>2, <2>1
<1>4. ASSUME NEW k \in a .. b PROVE q[k] \in RangeOf(r)
  <2>1. k - a + 1 \in DOMAIN r /\ q[k] = r[k - a + 1]
    BY <1>1, <1>2
  <2> QED
    BY <2>1 DEF RangeOf
<1>5. ASSUME Distinct(q) PROVE Distinct(r)
  <2> SUFFICES ASSUME NEW j \in 1 .. Len(r), NEW k \in 1 .. Len(r), r[j] = r[k] PROVE j = k
    BY <1>1 DEF Distinct
  <2>1. q[j + a - 1] = q[k + a - 1]
    BY <1>1
  <2>2. j + a - 1 = k + a - 1
    BY <1>1, <1>2, <1>5, <2>1 DEF Distinct
  <2> QED
    BY <1>1, <2>2, SMTT(60)
<1> QED
  BY <1>1, <1>3, <1>4, <1>5 DEF r

\* FirstOf and FromOn split a sequence.
LEMMA SplitSeq ==
  ASSUME NEW S, NEW q \in Seq(S), NEW n \in Nat, Distinct(q)
  PROVE  /\ FirstOf(q, n) \in Seq(S) /\ FromOn(q, n) \in Seq(S)
         /\ Len(FirstOf(q, n)) <= n /\ Len(FirstOf(q, n)) + Len(FromOn(q, n)) = Len(q)
         /\ Distinct(FirstOf(q, n)) /\ Distinct(FromOn(q, n))
         /\ \A s : s \in RangeOf(q) <=> s \in RangeOf(FirstOf(q, n)) \/ s \in RangeOf(FromOn(q, n))
         /\ \A s \in RangeOf(FirstOf(q, n)) : s \notin RangeOf(FromOn(q, n))
<1> DEFINE m == IF n < Len(q) THEN n ELSE Len(q)
           first == SubSeq(q, 1, m)
           from == SubSeq(q, m + 1, Len(q))
<1>1. /\ 1 \in Nat /\ 1 <= 1 /\ 1 <= m + 1 /\ m + 1 \in Nat /\ m + 1 <= Len(q) + 1 /\ Len(q) <= Len(q)
      /\ m \in Nat /\ m <= n /\ m <= Len(q) /\ Len(q) \in Nat /\ DOMAIN q = 1 .. Len(q)
  BY SMTT(60)
<1>2. FirstOf(q, n) = first
  BY DEF FirstOf
<1>3. FromOn(q, n) = from
  <2>1. CASE n < Len(q)
    BY <2>1 DEF FromOn
  <2>2. CASE ~(n < Len(q))
    <3>1. SubSeq(q, n + 1, Len(q)) = <<>> /\ SubSeq(q, Len(q) + 1, Len(q)) = <<>>
      BY <1>1, <2>2, SMTT(60)
    <3> QED
      BY <2>2, <3>1 DEF FromOn
  <2> QED
    BY <2>1, <2>2
<1> HIDE DEF m
<1>4. /\ first \in Seq(S) /\ Len(first) = m - 1 + 1 /\ (Distinct(q) => Distinct(first))
      /\ RangeOf(first) = {q[k] : k \in 1 .. m}
  BY <1>1, RangePiece, SMTT(60)
<1>5. /\ from \in Seq(S) /\ Len(from) = Len(q) - (m + 1) + 1 /\ (Distinct(q) => Distinct(from))
      /\ RangeOf(from) = {q[k] : k \in m + 1 .. Len(q)}
  <2> DEFINE a == m + 1
             b == Len(q)
  <2>1. a \in Nat /\ b \in Nat /\ 1 <= a /\ a <= b + 1 /\ b <= Len(q)
    BY <1>1
  <2> HIDE DEF a, b
  <2>2. /\ SubSeq(q, a, b) \in Seq(S) /\ Len(SubSeq(q, a, b)) = b - a + 1
        /\ RangeOf(SubSeq(q, a, b)) = {q[k] : k \in a .. b}
        /\ Distinct(q) => Distinct(SubSeq(q, a, b))
    BY <2>1, RangePiece
  <2> QED
    BY <2>2 DEF a, b
<1> HIDE DEF first, from
<1>6. \A k \in 1 .. Len(q) : k \in 1 .. m \/ k \in m + 1 .. Len(q)
  BY <1>1, SMTT(60)
<1>7. \A k \in 1 .. m : k \in 1 .. Len(q)
  BY <1>1, SMTT(60)
<1>8. \A k \in m + 1 .. Len(q) : k \in 1 .. Len(q) /\ k \notin 1 .. m
  BY <1>1, SMTT(60)
<1>9. \A s : s \in RangeOf(q) <=> s \in RangeOf(first) \/ s \in RangeOf(from)
  <2>1. \A s : s \in RangeOf(q) <=> \E k \in 1 .. Len(q) : s = q[k]
    BY <1>1 DEF RangeOf
  <2> QED
    BY <1>4, <1>5, <1>6, <1>7, <1>8, <2>1
<1>10. ASSUME NEW s \in RangeOf(first), s \in RangeOf(from) PROVE FALSE
  <2>1. PICK j \in 1 .. m : s = q[j]
    BY <1>4
  <2>2. PICK k \in m + 1 .. Len(q) : s = q[k]
    BY <1>5, <1>10
  <2>3. j = k
    BY <1>1, <1>7, <1>8, <2>1, <2>2 DEF Distinct
  <2> QED
    BY <1>8, <2>3
<1>11. Len(first) <= n /\ Len(first) + Len(from) = Len(q)
  BY <1>1, <1>4, <1>5, SMTT(60)
<1> QED
  BY <1>2, <1>3, <1>4, <1>5, <1>9, <1>10, <1>11
-----------------------------------------------------------------------------
(* What the invariant says.                                                *)

\* The producers of an entry's uop are in the ROB or past it.
LEMMA ProducersAllocated ==
  ASSUME View, IqInv, NEW s \in DOMAIN iq, NEW i \in {1, 2}, uops[s].deps[i] # None
  PROVE  /\ uops[s].deps[i] \in Seqs
         /\ uops[s].deps[i] < Len(committed) + Len(rob)
         /\ uops[s].deps[i] \in Deps(s)
         /\ uops[s].src_valid[i]
<1>1. s \in Seqs /\ s \in upstream
  BY DEF IqInv, Shapes, Entries
<1>2. Seqs \subseteq Nat /\ Len(committed) \in Nat /\ Len(rob) \in Nat /\ s < Len(committed) + Len(rob)
  BY <1>1 DEF View, StreamView, PlaceView, InRob, Waiting
<1>3. uops[s].deps[i] \in Seqs /\ uops[s].deps[i] < s /\ uops[s].src_valid[i]
  <2>1. SourceView(s, i)
    BY <1>1 DEF View, StreamView
  <2> QED
    BY <2>1 DEF SourceView
<1>4. uops[s].deps[i] \in Deps(s)
  BY DEF Deps
<1>5. uops[s].deps[i] \in Nat
  BY <1>2, <1>3
<1>6. uops[s].deps[i] < Len(committed) + Len(rob)
  BY <1>1, <1>2, <1>3, <1>5, SMTT(60)
<1> QED
  BY <1>3, <1>4, <1>6

\* What is not touched by the steps of the issue stages.
LEMMA PickedShapes ==
  ASSUME View, IqInv
  PROVE  /\ Seqs \subseteq Nat /\ IsFiniteSet(Seqs) /\ DOMAIN iq \subseteq Seqs
         /\ p1 \in Seq(Seqs) /\ i1 \in Seq(Seqs) /\ i1_stay \in Seq(Seqs)
         /\ Distinct(p1) /\ Distinct(i1) /\ Distinct(i1_stay)
         /\ \A s \in DOMAIN iq : iq[s] \in IqEntries /\ (iq[s].inflight <=> InPicked(s))
         /\ \A s \in Seqs : /\ InPicked(s) => s \in DOMAIN iq
                            /\ s \in RangeOf(p1) => s \notin RangeOf(i1) /\ s \notin RangeOf(i1_stay)
                            /\ s \in RangeOf(i1) => s \notin RangeOf(i1_stay)
         /\ Len(p1) <= ISSUE_WIDTH /\ Len(i1) + Len(i1_stay) <= ISSUE_WIDTH
         /\ Len(p1) \in Nat /\ Len(i1) \in Nat /\ Len(i1_stay) \in Nat /\ ISSUE_WIDTH \in Nat
         /\ i1_queues \subseteq PhysIqs
<1>1. /\ Seqs \subseteq Nat /\ IsFiniteSet(Seqs)
  BY DEF View, StreamView
<1>2. /\ p1 \in Seq(Seqs) /\ i1 \in Seq(Seqs) /\ i1_stay \in Seq(Seqs) /\ i1_queues \subseteq PhysIqs
      /\ DOMAIN iq \subseteq Seqs /\ \A s \in DOMAIN iq : iq[s] \in IqEntries
  BY DEF IqInv, Shapes
<1>3. Len(p1) \in Nat /\ Len(i1) \in Nat /\ Len(i1_stay) \in Nat /\ ISSUE_WIDTH \in Nat
  BY <1>2, WidthsAssumption, SMTT(60)
<1>4. PickedOnce
  BY DEF IqInv
<1> QED
  BY <1>1, <1>2, <1>3, <1>4 DEF PickedOnce

\* What P1 and I1 hold, as one sequence.
LEMMA PickedTogether ==
  ASSUME IqInv
  PROVE  /\ Picked \in Seq(Seqs) /\ Distinct(Picked)
         /\ \A s : s \in RangeOf(Picked) <=> InPicked(s)
<1>1. /\ p1 \in Seq(Seqs) /\ i1 \in Seq(Seqs) /\ i1_stay \in Seq(Seqs)
      /\ Distinct(p1) /\ Distinct(i1) /\ Distinct(i1_stay)
  BY DEF IqInv, Shapes, PickedOnce
<1>2. \A s \in RangeOf(p1) \cup RangeOf(i1) : s \in Seqs
  BY <1>1, SMTT(60) DEF RangeOf
<1>3. RangeOf(p1) \cap RangeOf(i1) = {}
  BY <1>2 DEF IqInv, PickedOnce
<1>4. /\ p1 \o i1 \in Seq(Seqs) /\ Distinct(p1 \o i1)
      /\ \A s : s \in RangeOf(p1 \o i1) <=> s \in RangeOf(p1) \/ s \in RangeOf(i1)
  BY <1>1, <1>3, RangeConcat
<1>5. RangeOf(p1 \o i1) \cap RangeOf(i1_stay) = {}
  BY <1>2, <1>4 DEF IqInv, PickedOnce
<1>6. /\ p1 \o i1 \o i1_stay \in Seq(Seqs) /\ Distinct(p1 \o i1 \o i1_stay)
      /\ \A s : s \in RangeOf(p1 \o i1 \o i1_stay) <=> s \in RangeOf(p1 \o i1) \/ s \in RangeOf(i1_stay)
  BY <1>1, <1>4, <1>5, RangeConcat
<1> QED
  BY <1>4, <1>6 DEF Picked, InPicked

\* The invariant gives IqTypeOK.
LEMMA TypesOf ==
  ASSUME IqInv
  PROVE  IqTypeOK
<1>1. qtag_wait_crossbar \subseteq QTags \X Seqs \X {1, 2}
  <2> SUFFICES ASSUME NEW w \in qtag_wait_crossbar PROVE w \in QTags \X Seqs \X {1, 2}
    OBVIOUS
  <2>1. PICK s \in DOMAIN iq, i \in {1, 2} : src_qtags[s][i] # None /\ w = <<src_qtags[s][i], s, i>>
    BY DEF IqInv, Crossbar
  <2>2. s \in Seqs /\ src_qtags \in [Seqs -> [{1, 2} -> QTags \cup {None}]]
    BY DEF IqInv, Shapes
  <2>3. src_qtags[s][i] \in QTags
    BY <2>1, <2>2
  <2> HIDE DEF QTags
  <2> QED
    BY <2>1, <2>2, <2>3
<1>2. Picked \in Seq(Seqs)
  BY PickedTogether
<1> QED
  BY <1>1, <1>2 DEF IqInv, Shapes, IqTypeOK

\* The invariant gives QTagOwners.
LEMMA OwnersOf ==
  ASSUME IqInv
  PROVE  QTagOwners
<1>1. \A s, t \in DOMAIN iq : iq[s].qtag = iq[t].qtag => s = t
  BY DEF IqInv, Entries
<1>2. DOMAIN iq \subseteq Seqs
  BY DEF IqInv, Shapes
<1> DEFINE listed == {<<src_qtags[s][i], s, i>> : s \in DOMAIN iq, i \in {1, 2}}
           untagged == {None} \X Seqs \X {1, 2}
<1>3. ASSUME NEW w PROVE w \in qtag_wait_crossbar <=> w \in listed /\ w \notin untagged
  <2>1. ASSUME NEW s \in DOMAIN iq, NEW i \in {1, 2}
        PROVE  <<src_qtags[s][i], s, i>> \in untagged <=> src_qtags[s][i] = None
    BY <1>2
  <2>2. w \in listed <=> \E s \in DOMAIN iq, i \in {1, 2} : w = <<src_qtags[s][i], s, i>>
    BY SMTT(60)
  <2>3. w \in qtag_wait_crossbar <=>
          \E s \in DOMAIN iq, i \in {1, 2} : src_qtags[s][i] # None /\ w = <<src_qtags[s][i], s, i>>
    BY DEF IqInv, Crossbar
  <2> HIDE DEF listed, untagged
  <2> QED
    BY <2>1, <2>2, <2>3
<1>4. qtag_wait_crossbar = listed \ untagged
  <2> HIDE DEF listed, untagged
  <2> QED
    BY <1>3
<1> QED
  BY <1>1, <1>4, SMTT(60) DEF QTagOwners

\* The invariant gives OneMemoryUopIssuing.
LEMMA MemoryOf ==
  ASSUME View, IqInv
  PROVE  OneMemoryUopIssuing
<1> SUFFICES ASSUME NEW a \in RangeOf(Picked) \cup RangeOf(i2) \cup RangeOf(i2_stay), Mem(a),
                    NEW b \in RangeOf(Picked) \cup RangeOf(i2) \cup RangeOf(i2_stay), Mem(b)
             PROVE  a = b
  BY DEF OneMemoryUopIssuing, AtMostOne
<1>1. /\ Picked \in Seq(Seqs) /\ i2 \in Seq(Seqs) /\ i2_stay \in Seq(Seqs)
      /\ \A s : s \in RangeOf(Picked) <=> InPicked(s)
  BY PickedTogether DEF View, PlaceView
<1>2. a \in Seqs /\ b \in Seqs
  BY <1>1, SMTT(60) DEF RangeOf
<1>3. uops[a].load_store_id = lsid_issue_ptr /\ uops[b].load_store_id = lsid_issue_ptr
  BY <1>1, <1>2 DEF IqInv, MemTurn
<1>4. uops[a].load_store_id = uops[b].load_store_id
  BY <1>3
<1> QED
  BY <1>2, <1>4 DEF View, StreamView

\* The invariant gives NoLostWakeup.
LEMMA WakeupsOf ==
  ASSUME View, IqInv
  PROVE  NoLostWakeup
<1> SUFFICES ASSUME Updated, NEW s \in DOMAIN iq, NEW i \in {1, 2},
                    uops[s].src_valid[i], iq[s].src[i] = "wait",
                    uops[s].src_queue_kinds[i] # None => src_qtags[s][i] # None
             PROVE  ~DataReady(uops[s].deps[i])
  BY DEF NoLostWakeup
<1> DEFINE t == data_ready_visible[uops[s].deps[i]]
<1>1. uops[s].deps[i] # None
  BY DEF IqInv, Woken
<1>2. uops[s].deps[i] \in Seqs
  BY <1>1, ProducersAllocated
<1>3. t \in OptCycle /\ cycle \in Nat
  BY <1>2 DEF View, TagView
<1>4. t # None => (step \notin {"tag", "publish"} => t > cycle)
  BY DEF IqInv, WaitsAhead, Listens
<1>5. step \notin {"tag", "publish"}
  BY DEF Updated
<1> HIDE DEF t
<1>6. t # None => ~(t <= cycle)
  BY <1>3, <1>4, <1>5, SMTT(60) DEF OptCycle
<1> USE DEF t
<1> QED
  BY <1>6 DEF DataReady, Reached
-----------------------------------------------------------------------------
(* The steps.                                                              *)

\* So are all that Deps lists.
LEMMA DepsAllocated ==
  ASSUME View, IqInv, NEW s \in DOMAIN iq, NEW p \in Deps(s)
  PROVE  /\ p \in Seqs
         /\ p < Len(committed) + Len(rob)
         /\ \E i \in {1, 2} : p = uops[s].deps[i] /\ p # None
<1>1. PICK i \in {1, 2} : p = uops[s].deps[i] /\ p # None
  BY DEF Deps
<1> QED
  BY <1>1, ProducersAllocated

\* The steps of the back end leave the issue queues alone; this is what they
\* have to respect to keep the invariant.
LEMMA IqKept ==
  ASSUME View, IqInv, UNCHANGED iqVars, UNCHANGED <<uops, cycle>>,
         \A s \in DOMAIN iq : s \in upstream',
         \A p \in Seqs : PastIssue(p) /\ p < Len(committed) + Len(rob) => PastIssue(p)',
         \A p \in Seqs : p < Len(committed) + Len(rob) =>
                           /\ p < Len(committed)' + Len(rob)'
                           /\ p \in upstream' => p \in upstream,
         \A p \in Seqs : data_ready_visible'[p] # data_ready_visible[p] =>
                           data_ready_visible'[p] = None \/ data_ready_visible'[p] = cycle + 1,
         step' \in {"tag", "publish"} \/ step \notin {"tag", "publish"},
         step' # "i1" => i1_stay = <<>>,
         Updated' => Updated /\ UNCHANGED visible_cycles /\ ready_table \subseteq ready_table',
         MemTurn', ReadyRetired'
  PROVE  IqInv'
<1>1. /\ iq' = iq /\ p1' = p1 /\ i1' = i1 /\ i1_stay' = i1_stay /\ i1_queues' = i1_queues
      /\ dst_qtag' = dst_qtag /\ src_qtags' = src_qtags /\ qtag_wait_crossbar' = qtag_wait_crossbar
      /\ enqueue_ports_used' = enqueue_ports_used /\ uops' = uops /\ cycle' = cycle
  BY DEF iqVars, qtagVars, i1Vars
<1>2. Seqs' = Seqs /\ \A s : InPicked(s)' <=> InPicked(s)
  BY <1>1 DEF Seqs, InPicked, RangeOf
<1>3. Shapes'
  BY <1>1, <1>2 DEF IqInv, Shapes
<1>4. Entries'
  BY <1>1 DEF IqInv, Entries
<1>5. PickedOnce'
  BY <1>1, <1>2 DEF IqInv, PickedOnce, RangeOf
<1>6. Woken'
  <2> SUFFICES ASSUME NEW s \in DOMAIN iq
               PROVE  /\ \A i \in {1, 2} :
                           /\ iq[s].src[i] = "wait" => uops[s].deps[i] # None
                           /\ iq[s].src[i] = "spec" => uops[s].deps[i] # None /\ uops[uops[s].deps[i]].is_load
                           /\ iq[s].src[i] # "wait" /\ uops[s].deps[i] # None => PastIssue(uops[s].deps[i])'
                      /\ iq[s].inflight => \A p \in Deps(s) : PastIssue(p)'
    BY <1>1 DEF Woken, PastIssue, Deps, Waiting
  <2>1. \A i \in {1, 2} : uops[s].deps[i] # None =>
          uops[s].deps[i] \in Seqs /\ uops[s].deps[i] < Len(committed) + Len(rob)
    BY ProducersAllocated
  <2>2. \A p \in Deps(s) : p \in Seqs /\ p < Len(committed) + Len(rob)
    BY DepsAllocated
  <2>3. /\ \A i \in {1, 2} :
             /\ iq[s].src[i] = "wait" => uops[s].deps[i] # None
             /\ iq[s].src[i] = "spec" => uops[s].deps[i] # None /\ uops[uops[s].deps[i]].is_load
             /\ iq[s].src[i] # "wait" /\ uops[s].deps[i] # None => PastIssue(uops[s].deps[i])
        /\ iq[s].inflight => \A p \in Deps(s) : PastIssue(p)
    BY DEF IqInv, Woken
  <2> QED
    BY <2>1, <2>2, <2>3
<1>7. TagOnce'
  BY <1>1, <1>2 DEF IqInv, TagOnce
<1>8. Crossbar'
  BY <1>1 DEF IqInv, Crossbar
<1>9. WaitsAhead'
  <2> SUFFICES ASSUME NEW s \in DOMAIN iq, NEW i \in {1, 2}, Listens(s, i), iq[s].src[i] = "wait",
                      data_ready_visible'[uops[s].deps[i]] # None
               PROVE  /\ data_ready_visible'[uops[s].deps[i]] >= cycle
                      /\ step' \notin {"tag", "publish"} => data_ready_visible'[uops[s].deps[i]] > cycle
    BY <1>1 DEF WaitsAhead, Listens
  <2> DEFINE p == uops[s].deps[i]
  <2>1. p \in Seqs
    BY ProducersAllocated DEF IqInv, Woken
  <2>2. data_ready_visible[p] # None =>
          data_ready_visible[p] >= cycle /\ (step \notin {"tag", "publish"} => data_ready_visible[p] > cycle)
    BY DEF IqInv, WaitsAhead
  <2>3. CASE data_ready_visible'[p] = data_ready_visible[p]
    BY <2>2, <2>3
  <2>4. CASE data_ready_visible'[p] = cycle + 1
    BY <2>4, SMTT(60) DEF View, TagView
  <2> HIDE DEF p
  <2>5. \/ data_ready_visible'[p] = data_ready_visible[p]
        \/ data_ready_visible'[p] = None
        \/ data_ready_visible'[p] = cycle + 1
    BY <2>1
  <2> QED
    BY <2>3, <2>4, <2>5 DEF p
<1>10. ReadyIsBacked'
  <2>1. SUFFICES ASSUME Updated' PROVE ReadyIsBacked'
    BY DEF ReadyIsBacked
  <2>2. Updated /\ UNCHANGED visible_cycles /\ ready_table \subseteq ready_table'
    BY <2>1
  <2> QED
    BY <1>1, <2>2 DEF IqInv, ReadyIsBacked, DataReady, PickReady, visible_cycles,
                                  source_logical_ready
<1> QED
  BY <1>3, <1>4, <1>5, <1>6, <1>7, <1>8, <1>9, <1>10 DEF IqInv

\* Nothing of what IqKept asks about changes.
LEMMA IqUndisturbed ==
  ASSUME View, IqInv, UNCHANGED iqVars, UNCHANGED <<uops, cycle>>,
         UNCHANGED <<upstream, i2, i2_stay, lsid_issue_ptr>>,
         \A p \in Seqs : data_ready_visible'[p] # data_ready_visible[p] =>
                           data_ready_visible'[p] = None \/ data_ready_visible'[p] = cycle + 1,
         step' \in {"tag", "publish"} \/ step \notin {"tag", "publish"},
         step' # "i1" => i1_stay = <<>>,
         Updated' => Updated /\ UNCHANGED visible_cycles /\ ready_table \subseteq ready_table',
         Len(committed)' + Len(rob)' = Len(committed) + Len(rob),
         ReadyRetired'
  PROVE  IqInv'
<1>1. \A s : Waiting(s)' <=> Waiting(s)
  BY DEF Waiting, RangeOf
<1>2. \A s : PastIssue(s)' <=> PastIssue(s)
  BY <1>1 DEF PastIssue
<1>3. MemTurn'
  BY DEF IqInv, MemTurn, InPicked, RangeOf, Mem, Seqs, iqVars, i1Vars
<1>4. \A s \in DOMAIN iq : s \in upstream'
  BY DEF IqInv, Entries
<1> QED
  BY <1>2, <1>3, <1>4, IqKept

\* The steps of the back end before I2.
LEMMA IqTag ==
  ASSUME View, IqInv, UNCHANGED iqVars, At("tag", "publish"), TagStageCycles
  PROVE  IqInv'
<1>1. /\ UNCHANGED <<uops, cycle, upstream, i2, i2_stay, lsid_issue_ptr, ready_table>>
      /\ committed' = committed /\ rob' = rob /\ step = "tag" /\ step' = "publish"
  BY DEF At, TagStageCycles, backendVars, i2Vars, commitVars, lsuVars, lsidVars
<1>2. \A p \in Seqs : data_ready_visible'[p] # data_ready_visible[p] => data_ready_visible'[p] = cycle + 1
  BY DEF TagStageCycles
<1>3. step' \in {"tag", "publish"} /\ ~Updated'
  BY <1>1 DEF Updated
<1>4. i1_stay = <<>>
  BY <1>1 DEF IqInv, PickedOnce
<1>5. ReadyRetired'
  BY <1>1 DEF IqInv, ReadyRetired, Seqs
<1>6. Len(committed)' + Len(rob)' = Len(committed) + Len(rob)
  BY <1>1
<1> QED
  BY <1>1, <1>2, <1>3, <1>4, <1>5, <1>6, IqUndisturbed

\* Steps of the back end that neither set a tag nor move a uop to I2 or E1.
LEMMA IqQuiet ==
  ASSUME View, IqInv, UNCHANGED iqVars,
         \/ At("publish", "publish") /\ \E s \in Seqs : RaiseTrap(s)
         \/ At("scb", "retire") /\ AdvanceScb
         \/ RetireEnd("execute")
         \/ At("l1d", "liq") /\ AdvanceL1d
         \/ At("liq", "i1") /\ AdvanceLiq
  PROVE  IqInv'
<1>1. /\ UNCHANGED <<uops, cycle, upstream, i2, i2_stay, lsid_issue_ptr, ready_table, visible_cycles>>
      /\ committed' = committed /\ rob' = rob
  BY DEF At, RaiseTrap, AdvanceScb, RetireEnd, AdvanceL1d, AdvanceLiq, uopVars, i2Vars,
                    commitVars, lsuVars, lsidVars, L1dLoadHit, L1dStoreDrain, L1dWait
<1>2. /\ step' \in {"tag", "publish"} \/ step \notin {"tag", "publish"}
      /\ step # "i1" /\ (Updated' => Updated)
  BY DEF At, RetireEnd, Updated
<1>3. i1_stay = <<>>
  BY <1>2 DEF IqInv, PickedOnce
<1>4. data_ready_visible' = data_ready_visible
  BY <1>1 DEF visible_cycles
<1>5. ReadyRetired'
  BY <1>1 DEF IqInv, ReadyRetired, Seqs
<1>6. Len(committed)' + Len(rob)' = Len(committed) + Len(rob)
  BY <1>1
<1> QED
  BY <1>1, <1>2, <1>3, <1>4, <1>5, <1>6, IqUndisturbed

\* advance_execute moves uops that the issue queues have let go.
LEMMA IqExecute ==
  ASSUME View, IqInv, UNCHANGED iqVars, At("execute", "l1d"), AdvanceExecute
  PROVE  IqInv'
<1>1. /\ UNCHANGED <<uops, cycle, upstream, i2, i2_stay, lsid_issue_ptr, ready_table>>
      /\ committed' = committed /\ rob' = rob /\ step = "execute" /\ step' = "l1d"
  BY DEF At, AdvanceExecute, i2Vars, commitVars, lsidVars
<1>2. \A p \in Seqs : data_ready_visible'[p] # data_ready_visible[p] => data_ready_visible'[p] = None
  BY DEF AdvanceExecute, ResetMissed
<1>3. step \notin {"tag", "publish"} /\ ~Updated'
  BY <1>1 DEF Updated
<1>4. i1_stay = <<>>
  BY <1>1 DEF IqInv, PickedOnce
<1>5. ReadyRetired'
  BY <1>1 DEF IqInv, ReadyRetired, Seqs
<1>6. Len(committed)' + Len(rob)' = Len(committed) + Len(rob)
  BY <1>1
<1> QED
  BY <1>1, <1>2, <1>3, <1>4, <1>5, <1>6, IqUndisturbed

\* retire_ready takes a uop that has left the issue queues, and may mark its
\* tag ready.
LEMMA IqRetire ==
  ASSUME View, IqInv, UNCHANGED iqVars, At("retire", "retire"), RetireOne
  PROVE  IqInv'
<1>1. /\ UNCHANGED <<uops, cycle, upstream, i2, i2_stay, lsid_issue_ptr, visible_cycles>>
      /\ rob # <<>> /\ rob' = Tail(rob) /\ step = "retire" /\ step' = "retire"
      /\ ready_table' = ready_table \/ ready_table' = ready_table \cup {Head(rob)}
  BY DEF At, RetireOne, MayRetire, uopVars, i2Vars, lsidVars
<1>2. \E e : committed' = Append(committed, e)
  BY DEF RetireOne
<1>3. /\ rob \in Seq(Seqs) /\ Len(committed) \in Nat /\ DOMAIN committed = 1 .. Len(committed)
      /\ rob[1] = Len(committed) + 1 - 1
  BY <1>1, SMTT(60) DEF View, CommitTypeOK, CommitInOrder
<1>4. Len(committed') = Len(committed) + 1
  BY <1>2, SMTT(60) DEF View, CommitTypeOK
<1>5. Len(rob') = Len(rob) - 1 /\ Len(rob) \in Nat /\ Head(rob) = Len(committed) /\ Head(rob) \in Seqs
  BY <1>1, <1>3, SMTT(60)
<1>6. Len(committed)' + Len(rob)' = Len(committed) + Len(rob)
  BY <1>3, <1>4, <1>5, SMTT(60)
<1>7. ReadyRetired'
  <2> SUFFICES ASSUME NEW p \in ready_table' PROVE p \in Seqs /\ p < Len(committed')
    BY <1>1 DEF ReadyRetired, Seqs
  <2>1. CASE p = Head(rob)
    BY <1>3, <1>4, <1>5, <2>1, SMTT(60)
  <2>2. CASE p \in ready_table
    <3>1. p \in Seqs /\ p < Len(committed)
      BY <2>2 DEF IqInv, ReadyRetired
    <3>2. p \in Nat
      BY <3>1 DEF View, StreamView
    <3> QED
      BY <1>3, <1>4, <3>1, <3>2, SMTT(60)
  <2> QED
    BY <1>1, <2>1, <2>2
<1>8. /\ step \notin {"tag", "publish"} /\ (Updated' => Updated)
      /\ i1_stay = <<>>
  BY <1>1 DEF Updated, IqInv, PickedOnce
<1>9. data_ready_visible' = data_ready_visible /\ ready_table \subseteq ready_table'
  BY <1>1 DEF visible_cycles
<1> QED
  BY <1>1, <1>6, <1>7, <1>8, <1>9, IqUndisturbed

\* dispatch_to_iq_and_bypass allocates a ROB entry: no uop listens to it yet.
LEMMA IqAllocate ==
  ASSUME View, IqInv, UNCHANGED iqVars, At("dispatch", "dispatch"), Allocate
  PROVE  IqInv'
<1> DEFINE n == Len(committed) + Len(rob)
<1>1. /\ UNCHANGED <<uops, cycle, i2, i2_stay, lsid_issue_ptr, ready_table, visible_cycles>>
      /\ committed' = committed /\ rob' = Append(rob, n) /\ upstream' = upstream \cup {n}
      /\ step = "dispatch" /\ step' = "dispatch"
  BY DEF At, Allocate, uopVars, i2Vars, lsuVars, lsidVars
<1>2. rob \in Seq(Seqs) /\ Len(committed) \in Nat /\ n \in Seqs /\ Seqs \subseteq Nat
  BY DEF View, CommitTypeOK, PlaceView, StreamView, Allocate
<1>3. Len(rob') = Len(rob) + 1 /\ Len(rob) \in Nat
  BY <1>1, <1>2, SMTT(60)
<1>4. \A p \in Seqs : p < n => p # n /\ p < Len(committed)' + Len(rob)'
  BY <1>1, <1>2, <1>3, SMTT(60)
<1> HIDE DEF n
<1>5. \A p \in Seqs : p < n => (Waiting(p)' <=> Waiting(p)) /\ (p \in upstream' => p \in upstream)
  BY <1>1, <1>4 DEF Waiting, RangeOf
<1>6. \A p \in Seqs : PastIssue(p) /\ p < n => PastIssue(p)'
  BY <1>1, <1>5 DEF PastIssue
<1>7. MemTurn'
  BY <1>1 DEF IqInv, MemTurn, InPicked, RangeOf, Mem, Seqs, iqVars, i1Vars
<1>8. ReadyRetired'
  BY <1>1 DEF IqInv, ReadyRetired, Seqs
<1>9. step \notin {"tag", "publish"} /\ ~Updated' /\ i1_stay = <<>>
  BY <1>1 DEF Updated, IqInv, PickedOnce
<1>10. \A s \in DOMAIN iq : s \in upstream'
  BY <1>1 DEF IqInv, Entries
<1>11. data_ready_visible' = data_ready_visible
  BY <1>1 DEF visible_cycles
<1> QED
  BY <1>1, <1>4, <1>5, <1>6, <1>7, <1>8, <1>9, <1>10, <1>11, IqKept DEF n

\* The D2 bypass sends a uop past the issue queues.
LEMMA IqBypass ==
  ASSUME View, IqInv, UNCHANGED iqVars, At("dispatch", "dispatch"), NEW b \in Seqs, Bypass(b)
  PROVE  IqInv'
<1>1. /\ UNCHANGED <<uops, cycle, i2, i2_stay, lsid_issue_ptr, ready_table>>
      /\ committed' = committed /\ rob' = rob /\ uops[b].bypass_d2
      /\ upstream' = upstream \/ upstream' = upstream \ {b}
      /\ step = "dispatch" /\ step' = "dispatch"
  BY DEF At, Bypass, commitVars, i2Vars, lsidVars
<1>2. data_ready_visible \in [Seqs -> OptCycle]
  BY DEF View, TagView
<1>3. \A p \in Seqs : data_ready_visible'[p] # data_ready_visible[p] => data_ready_visible'[p] = cycle + 1
  BY <1>2 DEF Bypass, GetOrInsert
<1>4. \A p \in Seqs : PastIssue(p) => PastIssue(p)'
  BY <1>1 DEF PastIssue, Waiting, RangeOf
<1>5. \A s \in DOMAIN iq : s \in upstream'
  BY <1>1 DEF IqInv, Entries
<1>6. \A p \in Seqs : p \in upstream' => p \in upstream
  BY <1>1
<1>7. MemTurn'
  BY <1>1 DEF IqInv, MemTurn, InPicked, RangeOf, Mem, Seqs, iqVars, i1Vars
<1>8. ReadyRetired'
  BY <1>1 DEF IqInv, ReadyRetired, Seqs
<1>9. step \notin {"tag", "publish"} /\ ~Updated' /\ i1_stay = <<>>
  BY <1>1 DEF Updated, IqInv, PickedOnce
<1> QED
  BY <1>1, <1>3, <1>4, <1>5, <1>6, <1>7, <1>8, <1>9, IqKept

\* I2: the turn in memory order passes on with the uop that leaves.
LEMMA IqI2Issue ==
  ASSUME View, IqInv, UNCHANGED iqVars, At("i2", "i2"), I2Issue
  PROVE  IqInv'
<1> DEFINE h == Head(i2)
<1>1. /\ UNCHANGED <<uops, cycle, upstream, i2_stay, ready_table, visible_cycles>>
      /\ committed' = committed /\ rob' = rob /\ i2 # <<>> /\ i2' = Tail(i2)
      /\ lsid_issue_ptr' = IF Mem(h) THEN lsid_issue_ptr + 1 ELSE lsid_issue_ptr
      /\ step = "i2" /\ step' = "i2"
  BY DEF At, I2Issue, uopVars, commitVars
<1>2. /\ h \in Seqs /\ h \in RangeOf(i2)
      /\ \A s : s \in RangeOf(Tail(i2)) <=> s \in RangeOf(i2) /\ s # h
  BY <1>1, RangeTail DEF View, PlaceView
<1>3. RangeOf(i2)' = RangeOf(Tail(i2)) /\ RangeOf(i2_stay)' = RangeOf(i2_stay)
  BY <1>1 DEF RangeOf
<1> HIDE DEF h
<1>4. \A p \in Seqs : Waiting(p)' => Waiting(p)
  BY <1>1, <1>2, <1>3 DEF Waiting
<1>5. \A p \in Seqs : PastIssue(p) => PastIssue(p)'
  BY <1>1, <1>4 DEF PastIssue
<1>6. \A s \in Seqs : InPicked(s)' => s \in upstream
  BY DEF InPicked, RangeOf, iqVars, i1Vars, IqInv, PickedOnce, Entries
<1>7. \A s \in Seqs : InPicked(s)' => InPicked(s)
  BY DEF InPicked, RangeOf, iqVars, i1Vars
<1>8. MemTurn'
  <2> SUFFICES ASSUME NEW s \in Seqs, Mem(s),
                      InPicked(s)' \/ s \in RangeOf(i2)' \/ s \in RangeOf(i2_stay)'
               PROVE  uops[s].load_store_id = lsid_issue_ptr'
    BY <1>1 DEF MemTurn, Mem, Seqs
  <2>1. s # h
    <3>1. s \in upstream \/ s \in RangeOf(i2_stay) \/ s # h
      BY <1>2, <1>3, <1>6
    <3> QED
      BY <1>2, <3>1 DEF View, PlaceView
  <2>2. uops[s].load_store_id = lsid_issue_ptr
    BY <1>2, <1>3, <1>7 DEF IqInv, MemTurn
  <2>3. Mem(h) => uops[h].load_store_id = lsid_issue_ptr
    BY <1>2 DEF IqInv, MemTurn
  <2>4. ~Mem(h)
    BY <1>2, <2>1, <2>2, <2>3 DEF View, StreamView
  <2> QED
    BY <1>1, <2>2, <2>4
<1>9. ReadyRetired'
  BY <1>1 DEF IqInv, ReadyRetired, Seqs
<1>10. step \notin {"tag", "publish"} /\ ~Updated' /\ i1_stay = <<>>
  BY <1>1 DEF Updated, IqInv, PickedOnce
<1>11. \A s \in DOMAIN iq : s \in upstream'
  BY <1>1 DEF IqInv, Entries
<1>12. data_ready_visible' = data_ready_visible
  BY <1>1 DEF visible_cycles
<1> QED
  BY <1>1, <1>5, <1>8, <1>9, <1>10, <1>11, <1>12, IqKept

\* advance_i2 keeps a uop back, or is done.
LEMMA IqI2Turn ==
  ASSUME View, IqInv, UNCHANGED iqVars,
         \/ At("i2", "i2") /\ I2Stay
         \/ At("i2", "pick") /\ I2End
  PROVE  IqInv'
<1>1. /\ UNCHANGED <<uops, cycle, upstream, ready_table, visible_cycles, lsid_issue_ptr>>
      /\ committed' = committed /\ rob' = rob
      /\ step = "i2" /\ step' \in {"i2", "pick"}
  BY DEF At, I2Stay, I2End, uopVars, commitVars, lsuVars, lsidVars
<1>2. \A s \in Seqs : s \in RangeOf(i2)' \/ s \in RangeOf(i2_stay)' => s \in RangeOf(i2) \/ s \in RangeOf(i2_stay)
  <2>1. CASE I2Stay
    <3>1. i2 \in Seq(Seqs) /\ i2_stay \in Seq(Seqs) /\ Distinct(i2)
      BY DEF View, PlaceView
    <3>2. i2 # <<>> /\ i2' = Tail(i2) /\ i2_stay' = Append(i2_stay, Head(i2))
      BY <2>1 DEF I2Stay
    <3>3. /\ Head(i2) \in Seqs /\ Head(i2) \in RangeOf(i2)
          /\ \A s : s \in RangeOf(Tail(i2)) <=> s \in RangeOf(i2) /\ s # Head(i2)
      BY <3>1, <3>2, RangeTail
    <3>4. \A s : s \in RangeOf(Append(i2_stay, Head(i2))) <=> s \in RangeOf(i2_stay) \/ s = Head(i2)
      BY <3>1, <3>3, RangeAppend
    <3>5. RangeOf(i2)' = RangeOf(Tail(i2)) /\ RangeOf(i2_stay)' = RangeOf(Append(i2_stay, Head(i2)))
      BY <3>2 DEF RangeOf
    <3> QED
      BY <3>3, <3>4, <3>5
  <2>2. CASE I2End
    <3>1. i2' = i2_stay /\ i2_stay' = <<>>
      BY <2>2 DEF I2End
    <3>2. RangeOf(i2)' = RangeOf(i2_stay) /\ RangeOf(i2_stay)' = {}
      BY <3>1, SMTT(60) DEF RangeOf
    <3> QED
      BY <3>2
  <2> QED
    BY <2>1, <2>2
<1>3. \A p \in Seqs : PastIssue(p) => PastIssue(p)'
  BY <1>1, <1>2 DEF PastIssue, Waiting
<1>4. MemTurn'
  <2>1. \A s \in Seqs : InPicked(s)' => InPicked(s)
    BY DEF InPicked, RangeOf, iqVars, i1Vars
  <2> QED
    BY <1>1, <1>2, <2>1 DEF IqInv, MemTurn, Mem, Seqs
<1>5. ReadyRetired'
  BY <1>1 DEF IqInv, ReadyRetired, Seqs
<1>6. step \notin {"tag", "publish"} /\ ~Updated' /\ i1_stay = <<>>
  BY <1>1 DEF Updated, IqInv, PickedOnce
<1>7. \A s \in DOMAIN iq : s \in upstream'
  BY <1>1 DEF IqInv, Entries
<1>8. data_ready_visible' = data_ready_visible
  BY <1>1 DEF visible_cycles
<1> QED
  BY <1>1, <1>3, <1>4, <1>5, <1>6, <1>7, <1>8, IqKept

\* A producer that announces its result has it, or has promised it.
LEMMA Announced ==
  ASSUME View, NEW p \in Seqs
  PROVE  /\ producer_publishes_nonspec_wakeup(p) => DataReady(p)
         /\ producer_publishes_spec_wakeup(p) => uops[p].is_load /\ PickReady(p)
         /\ uops[p].is_load /\ DataReady(p) => PickReady(p)
         /\ ~uops[p].is_load => (DataReady(p) <=> PickReady(p))
         /\ DataReady(p) \/ PickReady(p) => PastIssue(p) /\ p < Len(committed) + Len(rob)
<1> DEFINE pick == pick_wakeup_visible[p]
           data == data_ready_visible[p]
           c1 == e1_cycle[p]
           c4 == e4_cycle[p]
           cw == w1_cycle[p]
<1>1. /\ cycle \in Nat /\ pick \in OptCycle /\ data \in OptCycle
      /\ c1 \in OptCycle /\ c4 \in OptCycle /\ cw \in OptCycle
      /\ uops[p].is_load \in BOOLEAN
  BY DEF View, TagView, StreamView
<1>2. uops[p].is_load =>
        /\ pick # None => c1 # None
        /\ data # None => c4 # None
        /\ c1 # None => pick = c1 + 1 /\ c1 > 0
        /\ c4 # None => data = c4 + 1 /\ c1 # None /\ c1 <= c4
  BY DEF View, TagView
<1>3. ~uops[p].is_load => pick = data /\ (cw # None => data = cw + 1 /\ cw > 0)
  BY DEF View, TagView
<1>4. pick # None => p < Len(committed) + Len(rob) /\ PastIssue(p)
  BY DEF View, TagView, PastIssue
<1>5. /\ DataReady(p) <=> data # None /\ data <= cycle
      /\ PickReady(p) <=> pick # None /\ pick <= cycle
      /\ producer_publishes_nonspec_wakeup(p) <=>
           \/ uops[p].is_load /\ c4 = LastCycle
           \/ ~uops[p].is_load /\ cw = LastCycle
           \/ data = cycle
      /\ producer_publishes_spec_wakeup(p) <=> uops[p].is_load /\ (c1 = LastCycle \/ pick = cycle)
  BY DEF DataReady, PickReady, Reached, producer_publishes_nonspec_wakeup,
               producer_publishes_spec_wakeup
<1>6. LastCycle \in Nat /\ ((LastCycle = 0 /\ cycle = 0) \/ LastCycle + 1 = cycle)
  BY <1>1, SMTT(60) DEF LastCycle
<1>7. None \notin Nat
  BY NoneAssumption, SMTT(60)
<1> HIDE DEF pick, data, c1, c4, cw
<1>8. producer_publishes_nonspec_wakeup(p) => DataReady(p)
  <2>1. CASE uops[p].is_load
    BY <1>1, <1>2, <1>5, <1>6, <1>7, <2>1, SMTT(60) DEF OptCycle
  <2>2. CASE ~uops[p].is_load
    BY <1>1, <1>3, <1>5, <1>6, <1>7, <2>2, SMTT(60) DEF OptCycle
  <2> QED
    BY <2>1, <2>2
<1>9. producer_publishes_spec_wakeup(p) => uops[p].is_load /\ PickReady(p)
  BY <1>1, <1>2, <1>5, <1>6, <1>7, SMTT(60) DEF OptCycle
<1>10. uops[p].is_load /\ DataReady(p) => PickReady(p)
  BY <1>1, <1>2, <1>5, <1>7, SMTT(60) DEF OptCycle
<1>11. ~uops[p].is_load => (DataReady(p) <=> PickReady(p))
  BY <1>3, <1>5
<1>12. DataReady(p) \/ PickReady(p) => PastIssue(p) /\ p < Len(committed) + Len(rob)
  BY <1>4, <1>5, <1>10, <1>11
<1> QED
  BY <1>8, <1>9, <1>10, <1>11, <1>12

\* A source that is ready in the ready table has a producer that has retired.
LEMMA LogicalReady ==
  ASSUME View, IqInv, NEW s \in Seqs, NEW i \in {1, 2}, source_logical_ready(s, i)
  PROVE  uops[s].deps[i] # None => PastIssue(uops[s].deps[i])
<1> DEFINE p == uops[s].src_logical_tags[i]
<1>1. p \in Seqs /\ p < Len(committed)
  BY DEF IqInv, ReadyRetired, source_logical_ready
<1>2. Seqs \subseteq Nat /\ Len(committed) \in Nat /\ SourceView(s, i)
  BY DEF View, StreamView, PlaceView
<1>3. p # None
  BY <1>1, <1>2, NoneAssumption, SMTT(60)
<1>4. uops[s].deps[i] = p
  BY <1>2, <1>3 DEF SourceView
<1>5. ~(Len(committed) <= p)
  <2>1. p \in Nat
    BY <1>1, <1>2
  <2> QED
    BY <1>1, <1>2, <2>1, SMTT(60)
<1>6. ~Waiting(p)
  BY <1>1, <1>5 DEF View, PlaceView, InRob
<1> QED
  BY <1>4, <1>6 DEF PastIssue

\* The state update_iq_entries_for_cycle gives a source.
NewState(s, i) == publish_wake_into_entry_source(s, i, update_iq_entry_source_state(s, i))

\* What update_iq_entry_source_state and the wake-ups make of one source.
LEMMA SourceUpdate ==
  ASSUME View, IqInv, step = "publish", NEW s \in DOMAIN iq, NEW i \in {1, 2}
  PROVE  /\ NewState(s, i) \in SourceStates
         /\ uops[s].deps[i] # None => uops[s].deps[i] \in Seqs
         /\ uops[s].deps[i] = None => NewState(s, i) = "nonspec"
         /\ uops[s].deps[i] # None /\ ~source_logical_ready(s, i) /\ NewState(s, i) = "nonspec" =>
              DataReady(uops[s].deps[i])
         /\ NewState(s, i) = "spec" => uops[uops[s].deps[i]].is_load /\ PickReady(uops[s].deps[i])
         /\ NewState(s, i) # "wait" /\ uops[s].deps[i] # None => PastIssue(uops[s].deps[i])
         /\ Listens(s, i) /\ NewState(s, i) = "wait" => ~DataReady(uops[s].deps[i])
<1> DEFINE p == uops[s].deps[i]
           new == NewState(s, i)
           old == iq[s].src[i]
           upd == update_iq_entry_source_state(s, i)
<1>1. s \in Seqs /\ old \in SourceStates
  BY DEF IqInv, Shapes, IqEntries
<1>2. /\ old = "wait" => p # None
      /\ old = "spec" => p # None /\ uops[p].is_load
  BY DEF IqInv, Woken
<1>3. p # None => p \in Seqs /\ uops[s].src_valid[i]
  BY ProducersAllocated
<1>4. p # None =>
        /\ producer_publishes_nonspec_wakeup(p) => DataReady(p)
        /\ producer_publishes_spec_wakeup(p) => uops[p].is_load /\ PickReady(p)
        /\ DataReady(p) \/ PickReady(p) => PastIssue(p)
  BY <1>3, Announced
<1>5. source_logical_ready(s, i) /\ p # None => PastIssue(p)
  BY <1>1, LogicalReady
<1>6. /\ upd \in SourceStates
      /\ p = None => upd = "nonspec"
      /\ source_logical_ready(s, i) => upd = "nonspec"
      /\ p # None /\ ~source_logical_ready(s, i) /\ upd = "nonspec" => DataReady(p)
      /\ upd = "spec" => uops[p].is_load /\ PickReady(p)
      /\ upd # "wait" /\ p # None => PastIssue(p)
  BY <1>1, <1>2, <1>4, <1>5 DEF update_iq_entry_source_state, SourceStates
<1> HIDE DEF upd
<1>7. /\ iq_source_matches_wake_event(s, i) => p # None
      /\ ~iq_source_matches_wake_event(s, i) => new = upd
      /\ iq_source_matches_wake_event(s, i) =>
           \/ producer_publishes_nonspec_wakeup(p) /\ new = "nonspec"
           \/ ~producer_publishes_nonspec_wakeup(p) /\ producer_publishes_spec_wakeup(p)
              /\ new = "spec"
           \/ ~producer_publishes_nonspec_wakeup(p) /\ new = upd
  BY DEF NewState, publish_wake_into_entry_source, upd, iq_source_matches_wake_event
<1>8. /\ new \in SourceStates
      /\ p = None => new = "nonspec"
      /\ p # None /\ ~source_logical_ready(s, i) /\ new = "nonspec" => DataReady(p)
      /\ new = "spec" => uops[p].is_load /\ PickReady(p)
      /\ new # "wait" /\ p # None => PastIssue(p)
  BY <1>4, <1>6, <1>7 DEF SourceStates
<1>9. ASSUME Listens(s, i), new = "wait" PROVE ~DataReady(p)
  <2>1. p # None /\ p \in Seqs
    BY <1>3, <1>8, <1>9
  <2>2. upd = "wait" /\ ~source_logical_ready(s, i)
    BY <1>6, <1>7, <1>9
  <2>3. SUFFICES ASSUME DataReady(p) PROVE FALSE
    OBVIOUS
  <2>4. old = "wait"
    <3>1. CASE old = "nonspec"
      BY <2>1, <2>2, <2>3, <3>1 DEF update_iq_entry_source_state, upd
    <3>2. CASE old = "spec"
      <4>1. uops[p].is_load /\ PickReady(p)
        BY <1>2, <2>1, <2>3, <3>2, Announced
      <4> QED
        BY <2>1, <2>2, <3>2, <4>1 DEF update_iq_entry_source_state, upd
    <3> QED
      BY <1>1, <3>1, <3>2 DEF SourceStates
  <2>5. data_ready_visible[p] # None /\ data_ready_visible[p] <= cycle /\ data_ready_visible[p] >= cycle
    BY <1>9, <2>3, <2>4 DEF IqInv, WaitsAhead, DataReady, Reached
  <2>6. data_ready_visible[p] = cycle
    <3>1. cycle \in Nat /\ data_ready_visible[p] \in Nat
      BY <2>1, <2>5 DEF View, TagView, OptCycle
    <3> QED
      BY <2>5, <3>1, SMTT(60)
  <2>7. producer_publishes_nonspec_wakeup(p)
    BY <2>6 DEF producer_publishes_nonspec_wakeup
  <2>8. iq_source_matches_wake_event(s, i)
    <3>1. uops[s].src_valid[i] /\ (uops[s].src_queue_kinds[i] # None => src_qtags[s][i] # None)
      BY <1>9 DEF Listens
    <3>2. ASSUME uops[s].src_queue_kinds[i] # None
          PROVE  /\ uops[s].src_queue_kinds[i] = uops[p].dst_queue_kind
                 /\ uops[s].src_logical_tags[i] = p
                 /\ src_qtags[s][i] # None
                 /\ src_qtags[s][i] = dst_qtag[p]
                 /\ <<dst_qtag[p], s, i>> \in qtag_wait_crossbar
      <4>1. /\ src_qtags[s][i] # None /\ uops[s].src_logical_tags[i] # None
            /\ src_qtags[s][i] = dst_qtag[uops[s].src_logical_tags[i]]
        BY <3>1, <3>2 DEF IqInv, TagOnce
      <4>2. SourceView(s, i)
        BY <1>1 DEF View, StreamView
      <4>3. uops[s].src_logical_tags[i] = p /\ uops[s].src_queue_kinds[i] = uops[p].dst_queue_kind
        BY <4>1, <4>2 DEF SourceView
      <4>4. <<src_qtags[s][i], s, i>> \in qtag_wait_crossbar
        BY <4>1 DEF IqInv, Crossbar
      <4> QED
        BY <4>1, <4>3, <4>4
    <3> QED
      BY <2>1, <3>1, <3>2 DEF iq_source_matches_wake_event
  <2> QED
    BY <1>7, <1>9, <2>7, <2>8
<1> QED
  BY <1>3, <1>8, <1>9

\* update_iq_entries_for_cycle keeps the invariant.
LEMMA IqUpdate ==
  ASSUME View, IqInv, At("publish", "scb"), UpdateIqEntries
  PROVE  IqInv'
<1>1. /\ p1' = p1 /\ i1' = i1 /\ i1_stay' = i1_stay /\ i1_queues' = i1_queues
      /\ dst_qtag' = dst_qtag /\ src_qtags' = src_qtags /\ qtag_wait_crossbar' = qtag_wait_crossbar
      /\ enqueue_ports_used' = enqueue_ports_used /\ uops' = uops /\ cycle' = cycle
      /\ committed' = committed /\ rob' = rob /\ ready_table' = ready_table
      /\ upstream' = upstream /\ i2' = i2 /\ i2_stay' = i2_stay /\ lsid_issue_ptr' = lsid_issue_ptr
      /\ data_ready_visible' = data_ready_visible /\ pick_wakeup_visible' = pick_wakeup_visible
      /\ step = "publish" /\ step' = "scb"
  BY DEF UpdateIqEntries, At, qtagVars, i1Vars, uopVars, visible_cycles, backendVars, commitVars, i2Vars,
         lsuVars, lsidVars
<1>2. /\ Seqs' = Seqs /\ \A s : InPicked(s)' <=> InPicked(s)
      /\ \A s \in Seqs : PastIssue(s)' <=> PastIssue(s)
      /\ \A s \in Seqs : Mem(s)' <=> Mem(s)
      /\ \A s : Deps(s)' = Deps(s)
  BY <1>1 DEF Seqs, InPicked, RangeOf, PastIssue, Waiting, Mem, Deps
<1>3. /\ DOMAIN iq' = DOMAIN iq
      /\ \A s \in DOMAIN iq : iq'[s] = [iq[s] EXCEPT !.src = [i \in {1, 2} |-> NewState(s, i)]]
  BY DEF UpdateIqEntries, NewState
<1>4. \A s \in DOMAIN iq : iq[s] \in IqEntries
  BY DEF IqInv, Shapes
<1>5. \A s \in DOMAIN iq, i \in {1, 2} : NewState(s, i) \in SourceStates
  BY <1>1, SourceUpdate
<1>6. \A s \in DOMAIN iq :
        /\ iq'[s] \in IqEntries /\ iq'[s].qtag = iq[s].qtag /\ iq'[s].inflight = iq[s].inflight
        /\ \A i \in {1, 2} : iq'[s].src[i] = NewState(s, i)
  <2> TAKE s \in DOMAIN iq
  <2>1. [i \in {1, 2} |-> NewState(s, i)] \in [{1, 2} -> SourceStates]
    BY <1>5
  <2> QED
    BY <1>3, <1>4, <2>1, SMTT(60) DEF IqEntries
<1>7. Shapes'
  BY <1>1, <1>2, <1>3, <1>6 DEF IqInv, Shapes, IqEntries, QTags, PhysIqs, SourceStates
<1>8. Entries'
  BY <1>1, <1>3, <1>6 DEF IqInv, Entries
<1>9. PickedOnce'
  <2>1. i1_stay = <<>>
    BY <1>1 DEF IqInv, PickedOnce
  <2> QED
    BY <1>1, <1>2, <1>3, <1>6, <2>1, SMTT(60) DEF IqInv, PickedOnce, RangeOf
<1>10. MemTurn'
  BY <1>1, <1>2 DEF IqInv, MemTurn, RangeOf
<1>11. \A s \in DOMAIN iq, i \in {1, 2} :
         /\ uops[s].deps[i] # None => uops[s].deps[i] \in Seqs
         /\ uops[s].deps[i] = None => NewState(s, i) = "nonspec"
         /\ uops[s].deps[i] # None /\ ~source_logical_ready(s, i) /\ NewState(s, i) = "nonspec" =>
              DataReady(uops[s].deps[i])
         /\ NewState(s, i) = "spec" => uops[uops[s].deps[i]].is_load /\ PickReady(uops[s].deps[i])
         /\ NewState(s, i) # "wait" /\ uops[s].deps[i] # None => PastIssue(uops[s].deps[i])
         /\ Listens(s, i) /\ NewState(s, i) = "wait" => ~DataReady(uops[s].deps[i])
  BY <1>1, SourceUpdate
<1>12. Woken'
  <2>1. ASSUME NEW s \in DOMAIN iq, NEW i \in {1, 2}
        PROVE  /\ iq'[s].src[i] = "wait" => uops'[s].deps[i] # None
               /\ iq'[s].src[i] = "spec" => uops'[s].deps[i] # None /\ uops'[uops'[s].deps[i]].is_load
               /\ iq'[s].src[i] # "wait" /\ uops'[s].deps[i] # None => PastIssue(uops[s].deps[i])'
    <3>1. iq'[s].src[i] = NewState(s, i) /\ uops' = uops
      BY <1>1, <1>6
    <3>2. uops[s].deps[i] # None /\ PastIssue(uops[s].deps[i]) => PastIssue(uops[s].deps[i])'
      BY <1>1, <1>2, <1>11
    <3> QED
      BY <1>11, <3>1, <3>2
  <2>2. ASSUME NEW s \in DOMAIN iq, iq'[s].inflight, NEW p \in Deps(s)' PROVE PastIssue(p)'
    <3>1. iq[s].inflight /\ p \in Deps(s)
      BY <1>2, <1>6, <2>2
    <3>2. p \in Seqs /\ PastIssue(p)
      BY <3>1, DepsAllocated DEF IqInv, Woken
    <3> QED
      BY <1>2, <3>2
  <2> QED
    BY <1>3, <2>1, <2>2 DEF Woken
<1>13. TagOnce'
  BY <1>1, <1>2, <1>3 DEF IqInv, TagOnce
<1>14. Crossbar'
  BY <1>1, <1>3 DEF IqInv, Crossbar
<1>15. WaitsAhead'
  <2> SUFFICES ASSUME NEW s \in DOMAIN iq, NEW i \in {1, 2}, Listens(s, i), NewState(s, i) = "wait",
                      data_ready_visible[uops[s].deps[i]] # None
               PROVE  /\ data_ready_visible[uops[s].deps[i]] >= cycle
                      /\ data_ready_visible[uops[s].deps[i]] > cycle
    BY <1>1, <1>3, <1>6 DEF WaitsAhead, Listens
  <2>1. uops[s].deps[i] \in Seqs /\ ~(data_ready_visible[uops[s].deps[i]] <= cycle)
    BY <1>11 DEF DataReady, Reached
  <2>2. cycle \in Nat /\ data_ready_visible[uops[s].deps[i]] \in Nat
    BY <2>1 DEF View, TagView, OptCycle
  <2> QED
    BY <2>1, <2>2, SMTT(60)
<1>16. ReadyRetired'
  BY <1>1, <1>2 DEF IqInv, ReadyRetired
<1>17. ReadyIsBacked'
  <2>1. \A s, i : (source_logical_ready(s, i))' <=> source_logical_ready(s, i)
    BY <1>1 DEF source_logical_ready
  <2>2. \A p : DataReady(p)' = DataReady(p) /\ PickReady(p)' = PickReady(p)
    BY <1>1 DEF DataReady, PickReady, Reached
  <2> QED
    BY <1>1, <1>3, <1>6, <1>11, <2>1, <2>2 DEF ReadyIsBacked
<1> QED
  BY <1>7, <1>8, <1>9, <1>10, <1>12, <1>13, <1>14, <1>15, <1>16, <1>17 DEF IqInv

\* A step that only moves uops between the queues, P1 and I1 keeps the
\* invariant when it puts no uop there that was not picked or ready.
LEMMA IqRepick ==
  ASSUME View, IqInv, UNCHANGED <<backendVars, uopVars, qtagVars, enqueue_ports_used, cycle>>,
         DOMAIN iq' = DOMAIN iq,
         \A s \in DOMAIN iq : /\ iq'[s] \in IqEntries
                              /\ iq'[s].qtag = iq[s].qtag /\ iq'[s].src = iq[s].src,
         p1' \in Seq(Seqs), i1' \in Seq(Seqs), i1_stay' \in Seq(Seqs), i1_queues' \subseteq PhysIqs,
         PickedOnce',
         \A s \in Seqs : InPicked(s)' => InPicked(s) \/ s \in ready_iq_entries,
         step \notin {"tag", "publish"}, ~Updated'
  PROVE  IqInv'
<1>1. /\ dst_qtag' = dst_qtag /\ src_qtags' = src_qtags /\ qtag_wait_crossbar' = qtag_wait_crossbar
      /\ enqueue_ports_used' = enqueue_ports_used /\ uops' = uops /\ cycle' = cycle
      /\ committed' = committed /\ rob' = rob /\ ready_table' = ready_table
      /\ upstream' = upstream /\ i2' = i2 /\ i2_stay' = i2_stay /\ lsid_issue_ptr' = lsid_issue_ptr
      /\ data_ready_visible' = data_ready_visible
  BY DEF qtagVars, uopVars, visible_cycles, backendVars, commitVars, i2Vars, lsuVars, lsidVars
<1>2. /\ Seqs' = Seqs
      /\ \A s : PastIssue(s)' <=> PastIssue(s)
      /\ \A s : Mem(s)' <=> Mem(s)
      /\ \A s : Deps(s)' = Deps(s)
  BY <1>1 DEF Seqs, PastIssue, Waiting, RangeOf, Mem, Deps
<1>3. Shapes'
  BY <1>1, <1>2 DEF IqInv, Shapes, QTags, PhysIqs
<1>4. Entries'
  BY <1>1 DEF IqInv, Entries
<1>5. MemTurn'
  <2> SUFFICES ASSUME NEW s \in Seqs, Mem(s), \/ InPicked(s)' \/ s \in RangeOf(i2) \/ s \in RangeOf(i2_stay)
               PROVE  uops[s].load_store_id = lsid_issue_ptr
    BY <1>1, <1>2 DEF MemTurn, RangeOf
  <2>1. CASE InPicked(s) \/ s \in RangeOf(i2) \/ s \in RangeOf(i2_stay)
    BY <2>1 DEF IqInv, MemTurn
  <2>2. CASE s \in ready_iq_entries
    BY <2>2 DEF ready_iq_entries, iq_entry_ready, lsid_issue_ready
  <2> QED
    BY <2>1, <2>2
<1>6. Woken'
  <2>1. ASSUME NEW s \in DOMAIN iq, NEW i \in {1, 2}
        PROVE  /\ iq'[s].src[i] = "wait" => uops'[s].deps[i] # None
               /\ iq'[s].src[i] = "spec" => uops'[s].deps[i] # None /\ uops'[uops'[s].deps[i]].is_load
               /\ iq'[s].src[i] # "wait" /\ uops'[s].deps[i] # None => PastIssue(uops[s].deps[i])'
    <3>1. iq'[s].src = iq[s].src /\ uops' = uops
      BY <1>1
    <3> QED
      BY <1>2, <3>1 DEF IqInv, Woken
  <2>2. ASSUME NEW s \in DOMAIN iq, iq'[s].inflight, NEW p \in Deps(s)' PROVE PastIssue(p)'
    <3>1. InPicked(s)' /\ s \in Seqs /\ p \in Deps(s)
      BY <1>2, <2>2 DEF PickedOnce, IqInv, Shapes
    <3>2. CASE InPicked(s)
      BY <1>2, <3>1, <3>2 DEF IqInv, PickedOnce, Woken
    <3>3. CASE s \in ready_iq_entries
      <4>1. PICK i \in {1, 2} : p = uops[s].deps[i] /\ p # None
        BY <3>1, DepsAllocated
      <4>2. uops[s].src_valid[i]
        BY <4>1, ProducersAllocated
      <4>3. iq[s].src[i] # "wait"
        BY <3>3, <4>2 DEF ready_iq_entries, iq_entry_ready
      <4>4. PastIssue(p)
        BY <4>1, <4>3 DEF IqInv, Woken
      <4> QED
        BY <1>2, <4>4
    <3> QED
      BY <3>1, <3>2, <3>3
  <2> QED
    BY <2>1, <2>2 DEF Woken
<1>7. TagOnce'
  BY <1>1, <1>2 DEF IqInv, TagOnce
<1>8. Crossbar'
  BY <1>1 DEF IqInv, Crossbar
<1>9. WaitsAhead'
  <2> SUFFICES ASSUME NEW s \in DOMAIN iq, NEW i \in {1, 2}, Listens(s, i), iq[s].src[i] = "wait",
                      data_ready_visible[uops[s].deps[i]] # None
               PROVE  /\ data_ready_visible[uops[s].deps[i]] >= cycle
                      /\ data_ready_visible[uops[s].deps[i]] > cycle
    BY <1>1 DEF WaitsAhead, Listens
  <2> QED
    BY DEF IqInv, WaitsAhead
<1>10. ReadyRetired'
  BY <1>1, <1>2 DEF IqInv, ReadyRetired
<1>11. ReadyIsBacked'
  BY DEF ReadyIsBacked
<1> QED
  BY <1>3, <1>4, <1>5, <1>6, <1>7, <1>8, <1>9, <1>10, <1>11 DEF IqInv

\* advance_i1_to_i2 keeps a uop for the next cycle.
LEMMA IqI1Stay ==
  ASSUME View, IqInv, At("i1", "i1"), I1Stay
  PROVE  IqInv'
<1>1. /\ Seqs \subseteq Nat /\ p1 \in Seq(Seqs) /\ i1 \in Seq(Seqs) /\ i1_stay \in Seq(Seqs)
      /\ Distinct(p1) /\ Distinct(i1) /\ Distinct(i1_stay)
      /\ \A s \in Seqs : /\ InPicked(s) => s \in DOMAIN iq
                         /\ s \in RangeOf(p1) => s \notin RangeOf(i1) /\ s \notin RangeOf(i1_stay)
                         /\ s \in RangeOf(i1) => s \notin RangeOf(i1_stay)
      /\ Len(p1) <= ISSUE_WIDTH /\ Len(i1) + Len(i1_stay) <= ISSUE_WIDTH
      /\ Len(p1) \in Nat /\ Len(i1) \in Nat /\ Len(i1_stay) \in Nat /\ ISSUE_WIDTH \in Nat
      /\ i1_queues \subseteq PhysIqs
  BY PickedShapes
<1>2. \A s \in DOMAIN iq : iq[s] \in IqEntries /\ (iq[s].inflight <=> InPicked(s))
  BY PickedShapes
<1>3. /\ i1 # <<>> /\ i1' = Tail(i1) /\ i1_stay' = Append(i1_stay, Head(i1)) /\ p1' = p1
      /\ iq' = iq /\ i1_queues' = i1_queues /\ uops' = uops
  BY DEF I1Stay, uopVars
<1>4. /\ Head(i1) \in Seqs /\ Head(i1) \in RangeOf(i1)
      /\ Distinct(Tail(i1)) /\ Tail(i1) \in Seq(Seqs)
      /\ \A s : s \in RangeOf(Tail(i1)) <=> s \in RangeOf(i1) /\ s # Head(i1)
  BY <1>1, <1>3, RangeTail
<1>5. /\ \A s : s \in RangeOf(Append(i1_stay, Head(i1))) <=> s \in RangeOf(i1_stay) \/ s = Head(i1)
      /\ Distinct(Append(i1_stay, Head(i1)))
  BY <1>1, <1>4, RangeAppend
<1>6. /\ Append(i1_stay, Head(i1)) \in Seq(Seqs)
      /\ Len(Tail(i1)) + Len(Append(i1_stay, Head(i1))) = Len(i1) + Len(i1_stay)
  BY <1>1, <1>3, <1>4, SMTT(60)
<1>7. /\ \A s : s \in RangeOf(i1)' <=> s \in RangeOf(i1) /\ s # Head(i1)
      /\ \A s : s \in RangeOf(i1_stay)' <=> s \in RangeOf(i1_stay) \/ s = Head(i1)
      /\ \A s : s \in RangeOf(p1)' <=> s \in RangeOf(p1)
      /\ Seqs' = Seqs
  BY <1>3, <1>4, <1>5 DEF RangeOf, Seqs
<1>8. \A s : InPicked(s)' <=> InPicked(s)
  BY <1>4, <1>7 DEF InPicked
<1>9. PickedOnce'
  <2>1. Distinct(p1)' /\ Distinct(i1)' /\ Distinct(i1_stay)'
    BY <1>1, <1>3, <1>4, <1>5 DEF Distinct
  <2>2. step' = "i1" /\ Len(p1)' <= ISSUE_WIDTH /\ Len(i1)' + Len(i1_stay)' <= ISSUE_WIDTH
    BY <1>1, <1>3, <1>6 DEF At
  <2>3. \A s \in Seqs : /\ InPicked(s)' => s \in DOMAIN iq'
                        /\ s \in RangeOf(p1)' => s \notin RangeOf(i1)' /\ s \notin RangeOf(i1_stay)'
                        /\ s \in RangeOf(i1)' => s \notin RangeOf(i1_stay)'
    BY <1>1, <1>3, <1>4, <1>7, <1>8
  <2>4. \A s \in DOMAIN iq' : iq'[s].inflight <=> InPicked(s)'
    BY <1>2, <1>3, <1>8
  <2> QED
    BY <1>7, <2>1, <2>2, <2>3, <2>4 DEF PickedOnce
<1>10. /\ step \notin {"tag", "publish"} /\ ~Updated'
       /\ UNCHANGED <<backendVars, uopVars, qtagVars, enqueue_ports_used, cycle>>
  BY DEF I1Stay, At, Updated
<1> QED
  BY <1>1, <1>2, <1>3, <1>4, <1>6, <1>8, <1>9, <1>10, IqRepick

\* advance_i1_to_i2 puts the uops it keeps back into I1.
LEMMA IqI1End ==
  ASSUME View, IqInv, At("i1", "arbitrate"), I1End
  PROVE  IqInv'
<1>1. /\ p1 \in Seq(Seqs) /\ i1 \in Seq(Seqs) /\ i1_stay \in Seq(Seqs)
      /\ Distinct(p1) /\ Distinct(i1) /\ Distinct(i1_stay)
      /\ \A s \in Seqs : /\ InPicked(s) => s \in DOMAIN iq
                         /\ s \in RangeOf(p1) => s \notin RangeOf(i1) /\ s \notin RangeOf(i1_stay)
      /\ Len(p1) <= ISSUE_WIDTH /\ Len(i1) + Len(i1_stay) <= ISSUE_WIDTH
      /\ Len(i1_stay) \in Nat /\ ISSUE_WIDTH \in Nat
  BY PickedShapes
<1>2. \A s \in DOMAIN iq : iq[s] \in IqEntries /\ (iq[s].inflight <=> InPicked(s))
  BY PickedShapes
<1>3. /\ i1 = <<>> /\ i1' = i1_stay /\ i1_stay' = <<>> /\ p1' = p1
      /\ iq' = iq /\ i1_queues' = {} /\ uops' = uops
  BY DEF I1End, uopVars
<1>4. /\ \A s : s \notin RangeOf(<<>>)
      /\ <<>> \in Seq(Seqs) /\ Len(<<>>) = 0
  BY SMTT(60) DEF RangeOf
<1>5. Distinct(<<>>)
  BY SMTT(60) DEF Distinct
<1>6. /\ \A s : s \in RangeOf(i1)' <=> s \in RangeOf(i1_stay)
      /\ \A s : s \notin RangeOf(i1)
      /\ \A s : s \notin RangeOf(i1_stay)'
      /\ \A s : s \in RangeOf(p1)' <=> s \in RangeOf(p1)
      /\ Seqs' = Seqs
  <2>1. RangeOf(i1_stay') = RangeOf(<<>>) /\ RangeOf(i1) = RangeOf(<<>>) /\ RangeOf(i1') = RangeOf(i1_stay)
    BY <1>3
  <2> QED
    BY <1>3, <1>4, <2>1 DEF RangeOf, Seqs
<1>7. \A s : InPicked(s)' <=> InPicked(s)
  BY <1>6 DEF InPicked
<1>8. PickedOnce'
  <2>1. Distinct(p1)' /\ Distinct(i1)' /\ Distinct(i1_stay)'
    <3>1. Distinct(p1') /\ Distinct(i1') /\ Distinct(i1_stay')
      BY <1>1, <1>3, <1>5
    <3> QED
      BY <3>1 DEF Distinct
  <2>2. i1_stay' = <<>> /\ Len(p1)' <= ISSUE_WIDTH /\ Len(i1)' + Len(i1_stay)' <= ISSUE_WIDTH
    BY <1>1, <1>3, SMTT(60)
  <2>3. \A s \in Seqs : /\ InPicked(s)' => s \in DOMAIN iq'
                        /\ s \in RangeOf(p1)' => s \notin RangeOf(i1)' /\ s \notin RangeOf(i1_stay)'
                        /\ s \in RangeOf(i1)' => s \notin RangeOf(i1_stay)'
    BY <1>1, <1>3, <1>6, <1>7
  <2>4. \A s \in DOMAIN iq' : iq'[s].inflight <=> InPicked(s)'
    BY <1>2, <1>3, <1>7
  <2> QED
    BY <1>6, <2>1, <2>2, <2>3, <2>4 DEF PickedOnce
<1>9. /\ step \notin {"tag", "publish"} /\ ~Updated'
      /\ UNCHANGED <<backendVars, uopVars, qtagVars, enqueue_ports_used, cycle>>
  BY DEF I1End, At, Updated
<1>10. i1_queues' \subseteq PhysIqs
  BY <1>3
<1>11. p1' \in Seq(Seqs) /\ i1' \in Seq(Seqs) /\ i1_stay' \in Seq(Seqs)
  BY <1>1, <1>3, <1>4
<1> QED
  BY <1>2, <1>3, <1>7, <1>8, <1>9, <1>10, <1>11, IqRepick

\* The entries after some of them were marked, or unmarked, as inflight.
LEMMA Marked ==
  ASSUME NEW S, NEW v \in BOOLEAN, iq' = SetInflight(S, v), \A s \in DOMAIN iq : iq[s] \in IqEntries
  PROVE  /\ DOMAIN iq' = DOMAIN iq
         /\ \A s \in DOMAIN iq : /\ iq'[s] \in IqEntries
                                 /\ iq'[s].qtag = iq[s].qtag /\ iq'[s].src = iq[s].src
                                 /\ iq'[s].inflight = IF s \in S THEN v ELSE iq[s].inflight
<1>1. DOMAIN iq' = DOMAIN iq
  BY DEF SetInflight
<1>2. ASSUME NEW s \in DOMAIN iq
      PROVE  /\ iq'[s] \in IqEntries
             /\ iq'[s].qtag = iq[s].qtag /\ iq'[s].src = iq[s].src
             /\ iq'[s].inflight = IF s \in S THEN v ELSE iq[s].inflight
  <2>1. iq'[s] = IF s \in S THEN [iq[s] EXCEPT !.inflight = v] ELSE iq[s]
    BY DEF SetInflight
  <2>2. iq[s] \in IqEntries
    OBVIOUS
  <2> QED
    BY <2>1, <2>2 DEF IqEntries
<1> QED
  BY <1>1, <1>2

\* arbitrate_i1 and advance_p1_to_i1 keep the invariant.
LEMMA IqArbitrate ==
  ASSUME View, IqInv, At("arbitrate", "i2"), ArbitrateI1, Admits
  PROVE  IqInv'
<1> DEFINE room == ISSUE_WIDTH - Len(i1)
           first == FirstOf(admitted_i1, room)
           rest == FromOn(admitted_i1, room)
<1>1. /\ Seqs \subseteq Nat /\ IsFiniteSet(Seqs) /\ p1 \in Seq(Seqs) /\ i1 \in Seq(Seqs)
      /\ Distinct(p1) /\ Distinct(i1)
      /\ \A s \in Seqs : /\ InPicked(s) => s \in DOMAIN iq
                         /\ s \in RangeOf(p1) => s \notin RangeOf(i1) /\ s \notin RangeOf(i1_stay)
      /\ Len(p1) <= ISSUE_WIDTH /\ Len(i1) + Len(i1_stay) <= ISSUE_WIDTH
      /\ Len(p1) \in Nat /\ Len(i1) \in Nat /\ Len(i1_stay) \in Nat /\ ISSUE_WIDTH \in Nat
      /\ i1_queues \subseteq PhysIqs /\ DOMAIN iq \subseteq Seqs
  BY PickedShapes
<1>2. \A s \in DOMAIN iq : iq[s] \in IqEntries /\ (iq[s].inflight <=> InPicked(s))
  BY PickedShapes
<1>3. i1_stay = <<>> /\ step = "arbitrate" /\ step' = "i2"
  BY DEF IqInv, PickedOnce, At
<1>4. /\ i1' = i1 \o first /\ p1' = rest /\ i1_stay' = i1_stay /\ i1_queues' = i1_queues /\ uops' = uops
      /\ iq' = SetInflight(RangeOf(p1) \ RangeOf(admitted_i1), FALSE)
  BY DEF ArbitrateI1, uopVars
<1>5. /\ admitted_i1 \in Seq(Seqs) /\ Distinct(admitted_i1)
      /\ \A s \in RangeOf(admitted_i1) : s \in RangeOf(p1)
      /\ Len(admitted_i1) <= Len(p1)
  BY DEF Admits
<1>7. room \in Nat /\ Len(i1) + room = ISSUE_WIDTH
  BY <1>1, SMTT(60)
<1> HIDE DEF room
<1>8. /\ first \in Seq(Seqs) /\ rest \in Seq(Seqs)
      /\ Len(first) <= room /\ Len(first) + Len(rest) = Len(admitted_i1)
      /\ Distinct(first) /\ Distinct(rest)
      /\ \A s : s \in RangeOf(admitted_i1) <=> s \in RangeOf(first) \/ s \in RangeOf(rest)
      /\ \A s \in RangeOf(first) : s \notin RangeOf(rest)
  BY <1>5, <1>7, SplitSeq
<1> HIDE DEF first, rest
<1>9. /\ i1 \o first \in Seq(Seqs) /\ Len(i1 \o first) = Len(i1) + Len(first)
      /\ \A s : s \in RangeOf(i1 \o first) <=> s \in RangeOf(i1) \/ s \in RangeOf(first)
      /\ Distinct(i1 \o first)
  <2>1. \A s : s \in RangeOf(i1) => s \in Seqs
    BY <1>1, SMTT(60) DEF RangeOf
  <2>2. RangeOf(i1) \cap RangeOf(first) = {}
    BY <1>1, <1>5, <1>8, <2>1
  <2> QED
    BY <1>1, <1>8, <2>2, RangeConcat
<1>10. /\ \A s : s \in RangeOf(i1)' <=> s \in RangeOf(i1) \/ s \in RangeOf(first)
       /\ \A s : s \in RangeOf(p1)' <=> s \in RangeOf(rest)
       /\ \A s : s \in RangeOf(i1_stay)' <=> s \in RangeOf(i1_stay)
       /\ Seqs' = Seqs
  <2>1. RangeOf(i1') = RangeOf(i1 \o first) /\ RangeOf(p1') = RangeOf(rest)
    BY <1>4
  <2> QED
    BY <1>4, <1>9, <2>1 DEF RangeOf, Seqs
<1>11. \A s : s \notin RangeOf(i1_stay)
  BY <1>3, SMTT(60) DEF RangeOf
<1>12. \A s : InPicked(s)' <=> s \in RangeOf(i1) \/ s \in RangeOf(admitted_i1)
  BY <1>8, <1>10, <1>11 DEF InPicked
<1>13. \A s : InPicked(s)' <=> InPicked(s) /\ s \notin RangeOf(p1) \ RangeOf(admitted_i1)
  <2>1. \A s : s \in RangeOf(i1) => s \in Seqs
    BY <1>1, SMTT(60) DEF RangeOf
  <2> QED
    BY <1>1, <1>5, <1>11, <1>12, <2>1 DEF InPicked
<1>14. /\ DOMAIN iq' = DOMAIN iq
       /\ \A s \in DOMAIN iq :
            /\ iq'[s] \in IqEntries
            /\ iq'[s].qtag = iq[s].qtag /\ iq'[s].src = iq[s].src
            /\ iq'[s].inflight = IF s \in RangeOf(p1) \ RangeOf(admitted_i1) THEN FALSE ELSE iq[s].inflight
  <2>1. FALSE \in BOOLEAN
    OBVIOUS
  <2> QED
    BY <1>2, <1>4, <2>1, Marked
<1>15. PickedOnce'
  <2>1. Distinct(p1)' /\ Distinct(i1)' /\ Distinct(i1_stay)'
    <3>1. Distinct(i1_stay)
      BY PickedShapes
    <3>2. Distinct(p1') /\ Distinct(i1') /\ Distinct(i1_stay')
      BY <1>4, <1>8, <1>9, <3>1
    <3> QED
      BY <3>2 DEF Distinct
  <2>2. i1_stay' = <<>> /\ Len(p1)' <= ISSUE_WIDTH /\ Len(i1)' + Len(i1_stay)' <= ISSUE_WIDTH
    <3>1. Len(first) \in Nat /\ Len(rest) \in Nat /\ Len(<<>>) = 0
      BY <1>8, SMTT(60)
    <3>2. Len(rest) <= ISSUE_WIDTH
      BY <1>1, <1>5, <1>8, <3>1, SMTT(60)
    <3>3. Len(i1) + Len(first) + 0 <= ISSUE_WIDTH
      BY <1>1, <1>7, <1>8, <3>1, SMTT(60)
    <3> QED
      BY <1>3, <1>4, <1>9, <3>1, <3>2, <3>3
  <2>3. \A s \in Seqs : /\ InPicked(s)' => s \in DOMAIN iq'
                        /\ s \in RangeOf(p1)' => s \notin RangeOf(i1)' /\ s \notin RangeOf(i1_stay)'
                        /\ s \in RangeOf(i1)' => s \notin RangeOf(i1_stay)'
    BY <1>1, <1>5, <1>8, <1>10, <1>11, <1>13, <1>14
  <2>4. \A s \in DOMAIN iq' : iq'[s].inflight <=> InPicked(s)'
    BY <1>2, <1>13, <1>14
  <2> QED
    BY <1>10, <2>1, <2>2, <2>3, <2>4 DEF PickedOnce
<1>16. /\ step \notin {"tag", "publish"} /\ ~Updated'
       /\ UNCHANGED <<backendVars, uopVars, qtagVars, enqueue_ports_used, cycle>>
  BY DEF ArbitrateI1, At, Updated
<1>17. /\ p1' \in Seq(Seqs) /\ i1' \in Seq(Seqs) /\ i1_stay' \in Seq(Seqs) /\ i1_queues' \subseteq PhysIqs
  BY <1>1, <1>4, <1>8, <1>9, PickedShapes
<1> QED
  BY <1>13, <1>14, <1>15, <1>16, <1>17, IqRepick

\* pick_from_iq keeps the invariant.
LEMMA IqPick ==
  ASSUME View, IqInv, At("pick", "dispatch"), PickFromIq, Ordered(ready_iq_winners)
  PROVE  IqInv'
<1> DEFINE room == ISSUE_WIDTH - Len(p1)
           W == ready_iq_winners
           picked == FirstOf(Oldest(W), room)
<1>1. /\ Seqs \subseteq Nat /\ IsFiniteSet(Seqs) /\ p1 \in Seq(Seqs) /\ i1 \in Seq(Seqs) /\ i1_stay \in Seq(Seqs)
      /\ Distinct(p1) /\ Distinct(i1) /\ Distinct(i1_stay)
      /\ \A s \in Seqs : /\ InPicked(s) => s \in DOMAIN iq
                         /\ s \in RangeOf(p1) => s \notin RangeOf(i1) /\ s \notin RangeOf(i1_stay)
                         /\ s \in RangeOf(i1) => s \notin RangeOf(i1_stay)
      /\ Len(p1) <= ISSUE_WIDTH /\ Len(i1) + Len(i1_stay) <= ISSUE_WIDTH
      /\ Len(p1) \in Nat /\ ISSUE_WIDTH \in Nat
      /\ i1_queues \subseteq PhysIqs /\ DOMAIN iq \subseteq Seqs
  BY PickedShapes
<1>2. \A s \in DOMAIN iq : iq[s] \in IqEntries /\ (iq[s].inflight <=> InPicked(s))
  BY PickedShapes
<1>3. i1_stay = <<>> /\ step = "pick" /\ step' = "dispatch"
  BY DEF IqInv, PickedOnce, At
<1>4. /\ p1' = p1 \o picked /\ i1' = i1 /\ i1_stay' = i1_stay /\ i1_queues' = i1_queues /\ uops' = uops
      /\ iq' = SetInflight(RangeOf(picked), TRUE)
  BY DEF PickFromIq, uopVars, i1Vars
<1>5. /\ W \subseteq ready_iq_entries /\ W \subseteq DOMAIN iq
      /\ \A s \in W : ~iq[s].inflight
  <2>1. W \subseteq ready_iq_entries /\ ready_iq_entries \subseteq DOMAIN iq
    BY DEF ready_iq_winners, ready_iq_entries
  <2>2. \A s \in ready_iq_entries : ~iq[s].inflight
    BY DEF ready_iq_entries
  <2> QED
    BY <2>1, <2>2
<1>6. room \in Nat /\ Len(p1) + room = ISSUE_WIDTH
  BY <1>1, SMTT(60)
<1> HIDE DEF room, W
<1>7. /\ Oldest(W) \in Seq(W) /\ Distinct(Oldest(W)) /\ \A s : s \in RangeOf(Oldest(W)) <=> s \in W
  BY DEF Ordered, W
<1>8. Oldest(W) \in Seq(Seqs)
  BY <1>1, <1>5, <1>7, SMTT(60)
<1>9. /\ picked \in Seq(Seqs) /\ Len(picked) <= room /\ Distinct(picked)
      /\ \A s \in RangeOf(picked) : s \in W
  BY <1>6, <1>7, <1>8, SplitSeq
<1> HIDE DEF picked
<1>10. \A s \in RangeOf(picked) : s \in DOMAIN iq /\ s \in Seqs /\ ~InPicked(s)
  BY <1>1, <1>2, <1>5, <1>9
<1>11. /\ p1 \o picked \in Seq(Seqs) /\ Len(p1 \o picked) = Len(p1) + Len(picked)
       /\ \A s : s \in RangeOf(p1 \o picked) <=> s \in RangeOf(p1) \/ s \in RangeOf(picked)
       /\ Distinct(p1 \o picked)
  <2>1. RangeOf(p1) \cap RangeOf(picked) = {}
    BY <1>10 DEF InPicked
  <2> QED
    BY <1>1, <1>9, <2>1, RangeConcat
<1>12. /\ \A s : s \in RangeOf(p1)' <=> s \in RangeOf(p1) \/ s \in RangeOf(picked)
       /\ \A s : s \in RangeOf(i1)' <=> s \in RangeOf(i1)
       /\ \A s : s \in RangeOf(i1_stay)' <=> s \in RangeOf(i1_stay)
       /\ Seqs' = Seqs
  <2>1. RangeOf(p1') = RangeOf(p1 \o picked)
    BY <1>4
  <2> QED
    BY <1>4, <1>11, <2>1 DEF RangeOf, Seqs
<1>13. \A s : InPicked(s)' <=> InPicked(s) \/ s \in RangeOf(picked)
  BY <1>12 DEF InPicked
<1>14. /\ DOMAIN iq' = DOMAIN iq
       /\ \A s \in DOMAIN iq :
            /\ iq'[s] \in IqEntries
            /\ iq'[s].qtag = iq[s].qtag /\ iq'[s].src = iq[s].src
            /\ iq'[s].inflight = IF s \in RangeOf(picked) THEN TRUE ELSE iq[s].inflight
  <2>1. TRUE \in BOOLEAN
    OBVIOUS
  <2> QED
    BY <1>2, <1>4, <2>1, Marked
<1>15. PickedOnce'
  <2>1. Distinct(p1)' /\ Distinct(i1)' /\ Distinct(i1_stay)'
    <3>1. Distinct(p1') /\ Distinct(i1') /\ Distinct(i1_stay')
      BY <1>1, <1>4, <1>11
    <3> QED
      BY <3>1 DEF Distinct
  <2>2. i1_stay' = <<>> /\ Len(p1)' <= ISSUE_WIDTH /\ Len(i1)' + Len(i1_stay)' <= ISSUE_WIDTH
    <3>1. Len(picked) \in Nat
      BY <1>9, SMTT(60)
    <3>2. Len(p1) + Len(picked) <= ISSUE_WIDTH
      BY <1>1, <1>6, <1>9, <3>1, SMTT(60)
    <3> QED
      BY <1>1, <1>3, <1>4, <1>11, <3>2
  <2>3. \A s \in Seqs : /\ InPicked(s)' => s \in DOMAIN iq'
                        /\ s \in RangeOf(p1)' => s \notin RangeOf(i1)' /\ s \notin RangeOf(i1_stay)'
                        /\ s \in RangeOf(i1)' => s \notin RangeOf(i1_stay)'
    BY <1>1, <1>10, <1>12, <1>13, <1>14 DEF InPicked
  <2>4. \A s \in DOMAIN iq' : iq'[s].inflight <=> InPicked(s)'
    BY <1>2, <1>13, <1>14
  <2> QED
    BY <1>12, <2>1, <2>2, <2>3, <2>4 DEF PickedOnce
<1>16. /\ step \notin {"tag", "publish"} /\ ~Updated'
       /\ UNCHANGED <<backendVars, uopVars, qtagVars, enqueue_ports_used, cycle>>
  BY DEF PickFromIq, At, Updated
<1>17. /\ p1' \in Seq(Seqs) /\ i1' \in Seq(Seqs) /\ i1_stay' \in Seq(Seqs) /\ i1_queues' \subseteq PhysIqs
  BY <1>1, <1>4, <1>11
<1>18. \A s \in Seqs : InPicked(s)' => InPicked(s) \/ s \in ready_iq_entries
  BY <1>5, <1>9, <1>13
<1> QED
  BY <1>14, <1>15, <1>16, <1>17, <1>18, IqRepick

\* advance_i1_to_i2 hands a uop to I2 and frees its entry.
LEMMA IqI1Move ==
  ASSUME View, IqInv, At("i1", "i1"), I1Move
  PROVE  IqInv'
<1> DEFINE m == Head(i1)
<1>1. /\ p1 \in Seq(Seqs) /\ i1 \in Seq(Seqs) /\ i1_stay \in Seq(Seqs)
      /\ Distinct(p1) /\ Distinct(i1) /\ Distinct(i1_stay)
      /\ \A s \in Seqs : /\ InPicked(s) => s \in DOMAIN iq
                         /\ s \in RangeOf(p1) => s \notin RangeOf(i1) /\ s \notin RangeOf(i1_stay)
                         /\ s \in RangeOf(i1) => s \notin RangeOf(i1_stay)
      /\ Len(p1) <= ISSUE_WIDTH /\ Len(i1) + Len(i1_stay) <= ISSUE_WIDTH
      /\ Len(i1) \in Nat /\ Len(i1_stay) \in Nat /\ ISSUE_WIDTH \in Nat
      /\ i1_queues \subseteq PhysIqs /\ DOMAIN iq \subseteq Seqs
  BY PickedShapes
<1>2. \A s \in DOMAIN iq : iq[s] \in IqEntries /\ (iq[s].inflight <=> InPicked(s))
  BY PickedShapes
<1>3. /\ i1 # <<>> /\ i1' = Tail(i1) /\ i1_stay' = i1_stay /\ p1' = p1
      /\ iq' = Without(iq, {m}) /\ i1_queues' = i1_queues \cup {phys_iq(m)}
      /\ i2' = Append(i2, m) /\ i2_stay' = i2_stay /\ upstream' = upstream \ {m}
      /\ qtag_wait_crossbar' = {w \in qtag_wait_crossbar : w[2] # m}
      /\ dst_qtag' = dst_qtag /\ src_qtags' = src_qtags /\ enqueue_ports_used' = enqueue_ports_used
      /\ uops' = uops /\ cycle' = cycle /\ committed' = committed /\ rob' = rob
      /\ ready_table' = ready_table /\ lsid_issue_ptr' = lsid_issue_ptr
      /\ data_ready_visible' = data_ready_visible /\ step = "i1" /\ step' = "i1"
  BY DEF I1Move, At, uopVars, visible_cycles, commitVars, lsuVars, lsidVars
<1>4. /\ m \in Seqs /\ m \in RangeOf(i1)
      /\ Distinct(Tail(i1)) /\ Tail(i1) \in Seq(Seqs)
      /\ \A s : s \in RangeOf(Tail(i1)) <=> s \in RangeOf(i1) /\ s # m
  BY <1>1, <1>3, RangeTail
<1>5. InPicked(m) /\ m \in DOMAIN iq /\ m \in upstream /\ iq[m] \in IqEntries
  BY <1>1, <1>2, <1>4 DEF InPicked, IqInv, Entries
<1>6. i2 \in Seq(Seqs) /\ Len(Tail(i1)) + 1 = Len(i1)
  <2>1. i2 \in Seq(Seqs)
    BY DEF View, PlaceView
  <2> QED
    BY <1>1, <1>3, <2>1, SMTT(60)
<1>7. \A s : s \in RangeOf(Append(i2, m)) <=> s \in RangeOf(i2) \/ s = m
  BY <1>4, <1>6, RangeAppend
<1> HIDE DEF m
<1>8. /\ \A s : s \in RangeOf(i1)' <=> s \in RangeOf(i1) /\ s # m
      /\ \A s : s \in RangeOf(i2)' <=> s \in RangeOf(i2) \/ s = m
      /\ \A s : s \in RangeOf(p1)' <=> s \in RangeOf(p1)
      /\ \A s : s \in RangeOf(i1_stay)' <=> s \in RangeOf(i1_stay)
      /\ \A s : s \in RangeOf(i2_stay)' <=> s \in RangeOf(i2_stay)
      /\ Seqs' = Seqs
  <2>1. RangeOf(i1') = RangeOf(Tail(i1)) /\ RangeOf(i2') = RangeOf(Append(i2, m))
    BY <1>3
  <2> QED
    BY <1>3, <1>4, <1>7, <2>1 DEF RangeOf, Seqs
<1>9. /\ \A s : InPicked(s)' <=> InPicked(s) /\ s # m
      /\ \A s : Waiting(s)' <=> Waiting(s)
      /\ \A s : PastIssue(s)' <=> PastIssue(s)
      /\ \A s : Mem(s)' <=> Mem(s)
      /\ \A s : Deps(s)' = Deps(s)
  <2>1. m \notin RangeOf(p1) /\ m \notin RangeOf(i1_stay)
    BY <1>1, <1>4
  <2>2. \A s : InPicked(s)' <=> InPicked(s) /\ s # m
    BY <1>8, <2>1 DEF InPicked
  <2>3. \A s : Waiting(s)' <=> Waiting(s)
    BY <1>3, <1>5, <1>8 DEF Waiting
  <2> QED
    BY <1>3, <2>2, <2>3 DEF PastIssue, Mem, Deps
<1>10. /\ \A s : s \in DOMAIN iq' <=> s \in DOMAIN iq /\ s # m
       /\ \A s \in DOMAIN iq' : iq'[s] = iq[s]
  BY <1>3 DEF Without
<1>11. Shapes'
  <2>1. phys_iq(m) \in PhysIqs
    BY <1>5 DEF phys_iq, IqEntries, QTags
  <2>2. i1_queues' \subseteq PhysIqs
    BY <1>1, <1>3, <2>1
  <2>3. i1' \in Seq(Seqs)
    BY <1>3, <1>4
  <2> QED
    BY <1>3, <1>8, <1>10, <2>2, <2>3 DEF IqInv, Shapes, IqEntries, QTags, PhysIqs
<1>12. Entries'
  BY <1>3, <1>10 DEF IqInv, Entries
<1>13. PickedOnce'
  <2>1. Distinct(p1)' /\ Distinct(i1)' /\ Distinct(i1_stay)'
    BY <1>1, <1>3, <1>4 DEF Distinct
  <2>2. step' = "i1" /\ Len(p1)' <= ISSUE_WIDTH /\ Len(i1)' + Len(i1_stay)' <= ISSUE_WIDTH
    <3>1. Len(Tail(i1)) + Len(i1_stay) <= ISSUE_WIDTH
      BY <1>1, <1>4, <1>6, SMTT(60)
    <3> QED
      BY <1>1, <1>3, <3>1
  <2>3. \A s \in Seqs : /\ InPicked(s)' => s \in DOMAIN iq'
                        /\ s \in RangeOf(p1)' => s \notin RangeOf(i1)' /\ s \notin RangeOf(i1_stay)'
                        /\ s \in RangeOf(i1)' => s \notin RangeOf(i1_stay)'
    BY <1>1, <1>8, <1>9, <1>10
  <2>4. \A s \in DOMAIN iq' : iq'[s].inflight <=> InPicked(s)'
    BY <1>2, <1>9, <1>10
  <2> QED
    BY <1>8, <2>1, <2>2, <2>3, <2>4 DEF PickedOnce
<1>14. MemTurn'
  BY <1>3, <1>5, <1>8, <1>9 DEF IqInv, MemTurn
<1>15. Woken'
  BY <1>3, <1>9, <1>10 DEF IqInv, Woken
<1>16. TagOnce'
  BY <1>3, <1>8, <1>10 DEF IqInv, TagOnce
<1>17. Crossbar'
  <2> SUFFICES ASSUME NEW w
               PROVE  w \in qtag_wait_crossbar' <=>
                        \E s \in DOMAIN iq', i \in {1, 2} :
                          src_qtags[s][i] # None /\ w = <<src_qtags[s][i], s, i>>
    BY <1>3 DEF Crossbar
  <2>1. w \in qtag_wait_crossbar' <=> w \in qtag_wait_crossbar /\ w[2] # m
    BY <1>3
  <2>2. w \in qtag_wait_crossbar <=>
          \E s \in DOMAIN iq, i \in {1, 2} : src_qtags[s][i] # None /\ w = <<src_qtags[s][i], s, i>>
    BY DEF IqInv, Crossbar
  <2>3. ASSUME NEW s, NEW i, w = <<src_qtags[s][i], s, i>> PROVE w[2] = s
    BY <2>3
  <2> QED
    BY <1>10, <2>1, <2>2, <2>3
<1>18. WaitsAhead'
  <2>1. ASSUME NEW s \in DOMAIN iq', NEW i \in {1, 2}, Listens(s, i)', iq'[s].src[i] = "wait",
               data_ready_visible'[uops'[s].deps[i]] # None
        PROVE  /\ data_ready_visible'[uops'[s].deps[i]] >= cycle'
               /\ data_ready_visible'[uops'[s].deps[i]] > cycle'
    <3>1. s \in DOMAIN iq /\ iq[s].src[i] = "wait" /\ Listens(s, i)
      BY <1>3, <1>10, <2>1 DEF Listens
    <3> QED
      BY <1>3, <2>1, <3>1 DEF IqInv, WaitsAhead
  <2> QED
    BY <2>1 DEF WaitsAhead
<1>19. ReadyRetired'
  BY <1>3, <1>8 DEF IqInv, ReadyRetired
<1>20. ReadyIsBacked'
  BY <1>3 DEF ReadyIsBacked, Updated
<1> QED
  BY <1>11, <1>12, <1>13, <1>14, <1>15, <1>16, <1>17, <1>18, <1>19, <1>20 DEF IqInv

\* The next cycle begins, or the engine stops.
LEMMA IqNextCycle ==
  ASSUME View, IqInv, NextCycle, enqueue_ports_used' = NoPortsUsed, UNCHANGED <<iq, qtagVars, p1, i1Vars>>
  PROVE  IqInv'
<1>1. /\ iq' = iq /\ p1' = p1 /\ i1' = i1 /\ i1_stay' = i1_stay /\ i1_queues' = i1_queues
      /\ dst_qtag' = dst_qtag /\ src_qtags' = src_qtags /\ qtag_wait_crossbar' = qtag_wait_crossbar
      /\ uops' = uops /\ committed' = committed /\ rob' = rob /\ ready_table' = ready_table
      /\ upstream' = upstream /\ i2' = i2 /\ i2_stay' = i2_stay /\ lsid_issue_ptr' = lsid_issue_ptr
      /\ data_ready_visible' = data_ready_visible
  BY DEF NextCycle, qtagVars, i1Vars, uopVars, visible_cycles, backendVars, commitVars, i2Vars,
         lsuVars, lsidVars
<1>2. /\ step = "dispatch" /\ cycle \in Nat
      /\ \/ step' = "tag" /\ cycle' = cycle + 1
         \/ step' = "exit" /\ cycle' = cycle
  BY DEF NextCycle, View, TagView
<1>3. /\ Seqs' = Seqs /\ \A s : InPicked(s)' <=> InPicked(s)
      /\ \A s : PastIssue(s)' <=> PastIssue(s)
      /\ \A s : Mem(s)' <=> Mem(s)
      /\ \A s : Deps(s)' = Deps(s)
  BY <1>1 DEF Seqs, InPicked, RangeOf, PastIssue, Waiting, Mem, Deps
<1>4. Shapes'
  <2>1. enqueue_ports_used' \in [PhysIqs -> 0 .. IQ_ENQUEUE_PORTS]
    BY IqAssumption, SMTT(60) DEF NoPortsUsed
  <2> QED
    BY <1>1, <1>3, <2>1 DEF IqInv, Shapes, IqEntries, QTags, PhysIqs
<1>5. Entries'
  BY <1>1 DEF IqInv, Entries
<1>6. PickedOnce'
  <2>1. i1_stay = <<>>
    BY <1>2 DEF IqInv, PickedOnce
  <2> QED
    BY <1>1, <1>3, <2>1 DEF IqInv, PickedOnce, RangeOf
<1>7. MemTurn'
  BY <1>1, <1>3 DEF IqInv, MemTurn, RangeOf
<1>8. Woken'
  BY <1>1, <1>3 DEF IqInv, Woken
<1>9. TagOnce'
  BY <1>1, <1>3 DEF IqInv, TagOnce
<1>10. Crossbar'
  BY <1>1 DEF IqInv, Crossbar
<1>11. WaitsAhead'
  <2> SUFFICES ASSUME NEW s \in DOMAIN iq, NEW i \in {1, 2}, Listens(s, i), iq[s].src[i] = "wait",
                      data_ready_visible[uops[s].deps[i]] # None
               PROVE  /\ data_ready_visible[uops[s].deps[i]] >= cycle'
                      /\ step' \notin {"tag", "publish"} => data_ready_visible[uops[s].deps[i]] > cycle'
    BY <1>1 DEF WaitsAhead, Listens
  <2>1. data_ready_visible[uops[s].deps[i]] > cycle
    BY <1>2 DEF IqInv, WaitsAhead
  <2>2. uops[s].deps[i] \in Seqs
    BY ProducersAllocated DEF IqInv, Woken
  <2>3. data_ready_visible[uops[s].deps[i]] \in Nat
    BY <2>2 DEF View, TagView, OptCycle
  <2> QED
    BY <1>2, <2>1, <2>3, SMTT(60)
<1>12. ReadyRetired'
  BY <1>1, <1>3 DEF IqInv, ReadyRetired
<1>13. ReadyIsBacked'
  BY <1>2 DEF ReadyIsBacked, Updated
<1> QED
  BY <1>4, <1>5, <1>6, <1>7, <1>8, <1>9, <1>10, <1>11, <1>12, <1>13 DEF IqInv

\* What seed_iq_entry_source_state writes into a new entry.
LEMMA SourceSeed ==
  ASSUME View, IqInv, NEW s \in Seqs, NEW i \in {1, 2}
  PROVE  LET p == uops[s].deps[i]
             seed == seed_iq_entry_source_state(s, i)
         IN /\ seed \in SourceStates
            /\ p = None => seed = "nonspec"
            /\ seed = "spec" => uops[p].is_load
            /\ seed # "wait" /\ p # None => PastIssue(p)
            /\ seed = "wait" => p \in Seqs /\ ~DataReady(p)
<1> DEFINE p == uops[s].deps[i]
           seed == seed_iq_entry_source_state(s, i)
<1>1. p # None => p \in Seqs
  <2>1. SourceView(s, i)
    BY DEF View, StreamView
  <2> QED
    BY <2>1 DEF SourceView
<1>2. p # None => /\ ~uops[p].is_load => (DataReady(p) <=> PickReady(p))
                  /\ DataReady(p) \/ PickReady(p) => PastIssue(p)
  BY <1>1, Announced
<1>3. source_logical_ready(s, i) /\ p # None => PastIssue(p)
  BY LogicalReady
<1>4. \/ seed = "nonspec" /\ (p = None \/ source_logical_ready(s, i) \/ DataReady(p))
      \/ seed = "spec" /\ p # None /\ PickReady(p) /\ ~DataReady(p)
      \/ seed = "wait" /\ p # None /\ ~DataReady(p)
  BY DEF seed_iq_entry_source_state
<1> HIDE DEF seed, p
<1>5. /\ seed \in SourceStates
      /\ p = None => seed = "nonspec"
      /\ seed = "spec" => uops[p].is_load
      /\ seed # "wait" /\ p # None => PastIssue(p)
      /\ seed = "wait" => p \in Seqs /\ ~DataReady(p)
  BY <1>1, <1>2, <1>3, <1>4 DEF SourceStates
<1> QED
  BY <1>5 DEF seed, p

\* The queue tags annotate_qtag_sources gives the sources of a new entry.
LEMMA SourceTags ==
  ASSUME View, IqInv, NEW s \in Seqs
  PROVE  /\ annotate_qtag_sources(s) \in [{1, 2} -> QTags \cup {None}]
         /\ \A i \in {1, 2} : annotate_qtag_sources(s)[i] # None =>
              /\ uops[s].src_logical_tags[i] # None
              /\ uops[s].src_logical_tags[i] # s
              /\ annotate_qtag_sources(s)[i] = dst_qtag[uops[s].src_logical_tags[i]]
<1>1. ASSUME NEW i \in {1, 2}, uops[s].src_logical_tags[i] # None
      PROVE  uops[s].src_logical_tags[i] \in Seqs /\ uops[s].src_logical_tags[i] # s
  <2>1. SourceView(s, i) /\ Seqs \subseteq Nat
    BY DEF View, StreamView
  <2>2. uops[s].deps[i] = uops[s].src_logical_tags[i] /\ uops[s].src_logical_tags[i] \in Seqs
        /\ uops[s].deps[i] < s
    BY <1>1, <2>1 DEF SourceView
  <2>3. s \in Nat /\ uops[s].deps[i] \in Nat
    BY <2>1, <2>2
  <2> QED
    BY <2>2, <2>3, SMTT(60)
<1>2. \A i \in {1, 2} : annotate_qtag_sources(s)[i] =
        IF uops[s].src_logical_tags[i] = None \/ uops[s].src_logical_tags[i] \in ready_table THEN None
        ELSE dst_qtag[uops[s].src_logical_tags[i]]
  BY DEF annotate_qtag_sources
<1>3. dst_qtag \in [Seqs -> QTags \cup {None}]
  BY DEF IqInv, Shapes
<1>4. \A i \in {1, 2} : annotate_qtag_sources(s)[i] \in QTags \cup {None}
  BY <1>1, <1>2, <1>3
<1>5. annotate_qtag_sources(s) \in [{1, 2} -> QTags \cup {None}]
  BY <1>4 DEF annotate_qtag_sources
<1> QED
  BY <1>1, <1>2, <1>5

\* dispatch_to_iq_and_bypass puts a uop into an issue queue.
LEMMA IqDispatch ==
  ASSUME View, IqInv, At("dispatch", "dispatch"), NEW s \in Seqs, Dispatch(s),
         Routes(s) # {} => RoomFound(route_phys_iq(s))
  PROVE  IqInv'
<1> DEFINE q == route_phys_iq(s)
           tag == allocate_qtag(q)
           tags == annotate_qtag_sources(s)
           seed(i) == seed_iq_entry_source_state(s, i)
           entry == [qtag |-> tag, inflight |-> FALSE, src |-> [i \in {1, 2} |-> seed(i)]]
<1>1. s \in upstream /\ s \notin DOMAIN iq /\ ~uops[s].bypass_d2 /\ Enqueue(s)
  BY DEF Dispatch
<1>2. /\ Routes(s) # {}
      /\ enqueue_ports_used' = [enqueue_ports_used EXCEPT ![q] = @ + 1]
      /\ dst_qtag' = [dst_qtag EXCEPT ![s] = tag]
      /\ src_qtags' = [src_qtags EXCEPT ![s] = tags]
      /\ qtag_wait_crossbar' = qtag_wait_crossbar \cup
           {<<tags[i], s, i>> : i \in {j \in {1, 2} : tags[j] # None}}
      /\ iq' = [t \in DOMAIN iq \cup {s} |-> IF t # s THEN iq[t] ELSE entry]
      /\ UNCHANGED <<uopVars, backendVars, p1, i1Vars>>
  BY <1>1 DEF Enqueue
<1>3. /\ p1' = p1 /\ i1' = i1 /\ i1_stay' = i1_stay /\ i1_queues' = i1_queues
      /\ uops' = uops /\ committed' = committed /\ rob' = rob /\ ready_table' = ready_table
      /\ upstream' = upstream /\ i2' = i2 /\ i2_stay' = i2_stay /\ lsid_issue_ptr' = lsid_issue_ptr
      /\ data_ready_visible' = data_ready_visible /\ cycle' = cycle
      /\ step = "dispatch" /\ step' = "dispatch"
  BY <1>2 DEF At, i1Vars, uopVars, visible_cycles, backendVars, commitVars, i2Vars, lsuVars, lsidVars
<1>4. /\ Seqs' = Seqs /\ \A t : InPicked(t)' <=> InPicked(t)
      /\ \A t : PastIssue(t)' <=> PastIssue(t)
      /\ \A t : Mem(t)' <=> Mem(t)
      /\ \A t : Deps(t)' = Deps(t)
  BY <1>3 DEF Seqs, InPicked, RangeOf, PastIssue, Waiting, Mem, Deps
<1>5. q \in PhysIqs /\ enqueue_ports_used[q] < IQ_ENQUEUE_PORTS
  BY <1>2 DEF RoomFound
<1>6. Seqs \subseteq Nat /\ IsFiniteSet(Seqs)
  BY DEF View, StreamView
<1> HIDE DEF q
<1>7. tag \in QTags /\ \A t \in DOMAIN iq : iq[t].qtag # tag
  BY <1>2 DEF RoomFound, q
<1>8. /\ tags \in [{1, 2} -> QTags \cup {None}]
      /\ \A i \in {1, 2} : tags[i] # None =>
           /\ uops[s].src_logical_tags[i] # None /\ uops[s].src_logical_tags[i] # s
           /\ tags[i] = dst_qtag[uops[s].src_logical_tags[i]]
  BY SourceTags
<1>9. \A i \in {1, 2} :
        /\ seed(i) \in SourceStates
        /\ uops[s].deps[i] = None => seed(i) = "nonspec"
        /\ seed(i) = "spec" => uops[uops[s].deps[i]].is_load
        /\ seed(i) # "wait" /\ uops[s].deps[i] # None => PastIssue(uops[s].deps[i])
        /\ seed(i) = "wait" => uops[s].deps[i] \in Seqs /\ ~DataReady(uops[s].deps[i])
  BY SourceSeed
<1> HIDE DEF tag, tags, seed
<1>10. /\ entry \in IqEntries /\ entry.qtag = tag /\ entry.inflight = FALSE
       /\ \A i \in {1, 2} : entry.src[i] = seed(i)
  <2>1. [i \in {1, 2} |-> seed(i)] \in [{1, 2} -> SourceStates]
    BY <1>9
  <2> QED
    BY <1>7, <2>1 DEF IqEntries
<1> HIDE DEF entry
<1>11. /\ DOMAIN iq' = DOMAIN iq \cup {s}
       /\ \A t \in DOMAIN iq : iq'[t] = iq[t]
       /\ iq'[s] = entry
  BY <1>1, <1>2
<1>12. /\ DOMAIN iq \subseteq Seqs /\ \A t \in DOMAIN iq : iq[t] \in IqEntries
       /\ dst_qtag \in [Seqs -> QTags \cup {None}]
       /\ src_qtags \in [Seqs -> [{1, 2} -> QTags \cup {None}]]
       /\ enqueue_ports_used \in [PhysIqs -> 0 .. IQ_ENQUEUE_PORTS]
       /\ p1 \in Seq(Seqs) /\ i1 \in Seq(Seqs) /\ i1_stay \in Seq(Seqs)
       /\ i1_queues \subseteq PhysIqs
  BY DEF IqInv, Shapes
<1>13. /\ dst_qtag' \in [Seqs -> QTags \cup {None}] /\ dst_qtag'[s] = tag
       /\ \A t \in Seqs : t # s => dst_qtag'[t] = dst_qtag[t]
       /\ src_qtags' \in [Seqs -> [{1, 2} -> QTags \cup {None}]] /\ src_qtags'[s] = tags
       /\ \A t \in Seqs : t # s => src_qtags'[t] = src_qtags[t]
  BY <1>2, <1>7, <1>8, <1>12
<1>14. Shapes'
  <2>1. enqueue_ports_used' \in [PhysIqs -> 0 .. IQ_ENQUEUE_PORTS]
    <3>1. enqueue_ports_used[q] + 1 \in 0 .. IQ_ENQUEUE_PORTS
      BY <1>5, <1>12, IqAssumption, SMTT(60)
    <3> QED
      BY <1>2, <1>5, <1>12, <3>1
  <2>2. DOMAIN iq' \subseteq Seqs /\ \A t \in DOMAIN iq' : iq'[t] \in IqEntries
    BY <1>10, <1>11, <1>12
  <2> QED
    BY <1>3, <1>4, <1>12, <1>13, <2>1, <2>2 DEF Shapes, IqEntries, QTags, PhysIqs
<1>15. Entries'
  <2>1. \A t \in DOMAIN iq' : t \in upstream' /\ ~uops'[t].bypass_d2
    BY <1>1, <1>3, <1>11 DEF IqInv, Entries
  <2>2. \A t, u \in DOMAIN iq' : iq'[t].qtag = iq'[u].qtag => t = u
    BY <1>7, <1>10, <1>11 DEF IqInv, Entries
  <2> QED
    BY <2>1, <2>2 DEF Entries
<1>16. PickedOnce'
  <2>1. ~InPicked(s)
    BY <1>1 DEF IqInv, PickedOnce
  <2>2. \A t \in DOMAIN iq' : iq'[t].inflight <=> InPicked(t)'
    BY <1>4, <1>10, <1>11, <2>1 DEF IqInv, PickedOnce
  <2>3. \A t \in Seqs' : InPicked(t)' => t \in DOMAIN iq'
    BY <1>4, <1>11 DEF IqInv, PickedOnce
  <2>4. /\ Distinct(p1') /\ Distinct(i1') /\ Distinct(i1_stay')
        /\ \A t \in Seqs' :
             /\ t \in RangeOf(p1') => t \notin RangeOf(i1') /\ t \notin RangeOf(i1_stay')
             /\ t \in RangeOf(i1') => t \notin RangeOf(i1_stay')
        /\ step' # "i1" => i1_stay' = <<>>
        /\ Len(p1') <= ISSUE_WIDTH /\ Len(i1') + Len(i1_stay') <= ISSUE_WIDTH
    BY <1>3, <1>4 DEF IqInv, PickedOnce
  <2> QED
    BY <2>2, <2>3, <2>4 DEF PickedOnce, Distinct, RangeOf
<1>17. MemTurn'
  BY <1>3, <1>4 DEF IqInv, MemTurn, RangeOf
<1>18. Woken'
  <2>1. ASSUME NEW t \in DOMAIN iq', NEW i \in {1, 2}
        PROVE  /\ iq'[t].src[i] = "wait" => uops[t].deps[i] # None
               /\ iq'[t].src[i] = "spec" => uops[t].deps[i] # None /\ uops[uops[t].deps[i]].is_load
               /\ iq'[t].src[i] # "wait" /\ uops[t].deps[i] # None => PastIssue(uops[t].deps[i])
    <3>1. CASE t = s
      <4>1. iq'[t].src[i] = seed(i)
        BY <1>10, <1>11, <3>1
      <4> QED
        BY <1>9, <3>1, <4>1
    <3>2. CASE t # s
      <4>1. t \in DOMAIN iq /\ iq'[t] = iq[t]
        BY <1>11, <3>2
      <4> QED
        BY <4>1 DEF IqInv, Woken
    <3> QED
      BY <3>1, <3>2
  <2>2. ASSUME NEW t \in DOMAIN iq', iq'[t].inflight, NEW p \in Deps(t) PROVE PastIssue(p)
    <3>1. t \in DOMAIN iq /\ iq[t].inflight
      BY <1>10, <1>11, <2>2
    <3> QED
      BY <3>1 DEF IqInv, Woken
  <2> QED
    BY <1>3, <1>4, <2>1, <2>2 DEF Woken
<1>19. TagOnce'
  <2>1. s < Len(committed) + Len(rob)
    BY <1>1 DEF View, PlaceView, Waiting, InRob
  <2>2. ASSUME NEW p \in Seqs, dst_qtag'[p] # None
        PROVE  p < Len(committed) + Len(rob) /\ (p \in upstream => p \in DOMAIN iq')
    <3>1. CASE p = s
      BY <1>11, <2>1, <3>1
    <3>2. CASE p # s
      BY <1>11, <1>13, <2>2, <3>2 DEF IqInv, TagOnce
    <3> QED
      BY <3>1, <3>2
  <2>3. ASSUME NEW t \in DOMAIN iq', NEW i \in {1, 2}, src_qtags'[t][i] # None
        PROVE  /\ uops[t].src_logical_tags[i] # None
               /\ src_qtags'[t][i] = dst_qtag'[uops[t].src_logical_tags[i]]
    <3> DEFINE p == uops[t].src_logical_tags[i]
    <3>1. t \in Seqs
      BY <1>11, <1>12
    <3>2. p # None => p \in Seqs
      <4>1. SourceView(t, i)
        BY <3>1 DEF View, StreamView
      <4> QED
        BY <4>1 DEF SourceView
    <3>3. CASE t = s
      BY <1>8, <1>13, <2>3, <3>2, <3>3
    <3>4. CASE t # s
      <4>1. t \in DOMAIN iq /\ src_qtags'[t] = src_qtags[t]
        BY <1>11, <1>13, <3>1, <3>4
      <4>2. p # None /\ src_qtags'[t][i] = dst_qtag[p]
        BY <2>3, <4>1 DEF IqInv, TagOnce
      <4>3. p # s
        BY <1>1, <2>3, <4>2 DEF IqInv, TagOnce
      <4> QED
        BY <1>13, <3>2, <4>2, <4>3
    <3> QED
      BY <3>3, <3>4
  <2> QED
    BY <1>3, <1>4, <2>2, <2>3 DEF TagOnce
<1>20. Crossbar'
  <2> SUFFICES ASSUME NEW w
               PROVE  w \in qtag_wait_crossbar' <=>
                        \E t \in DOMAIN iq', i \in {1, 2} :
                          src_qtags'[t][i] # None /\ w = <<src_qtags'[t][i], t, i>>
    BY DEF Crossbar
  <2>1. w \in qtag_wait_crossbar' <=>
          w \in qtag_wait_crossbar \/ \E i \in {1, 2} : tags[i] # None /\ w = <<tags[i], s, i>>
    BY <1>2
  <2>2. w \in qtag_wait_crossbar <=>
          \E t \in DOMAIN iq, i \in {1, 2} : src_qtags[t][i] # None /\ w = <<src_qtags[t][i], t, i>>
    BY DEF IqInv, Crossbar
  <2>3. \A t \in DOMAIN iq : src_qtags'[t] = src_qtags[t]
    BY <1>1, <1>12, <1>13
  <2> QED
    BY <1>11, <1>13, <2>1, <2>2, <2>3
<1>21. WaitsAhead'
  <2>1. ASSUME NEW t \in DOMAIN iq', NEW i \in {1, 2}, Listens(t, i)', iq'[t].src[i] = "wait",
               data_ready_visible[uops[t].deps[i]] # None
        PROVE  /\ data_ready_visible[uops[t].deps[i]] >= cycle
               /\ data_ready_visible[uops[t].deps[i]] > cycle
    <3>1. CASE t = s
      <4>1. uops[t].deps[i] \in Seqs /\ ~DataReady(uops[t].deps[i])
        BY <1>9, <1>10, <1>11, <2>1, <3>1
      <4>2. ~(data_ready_visible[uops[t].deps[i]] <= cycle)
        BY <2>1, <4>1 DEF DataReady, Reached
      <4>3. data_ready_visible[uops[t].deps[i]] \in Nat /\ cycle \in Nat
        BY <2>1, <4>1 DEF View, TagView, OptCycle
      <4> QED
        BY <4>2, <4>3, SMTT(60)
    <3>2. CASE t # s
      <4>1. t \in DOMAIN iq /\ iq[t].src[i] = "wait" /\ src_qtags'[t] = src_qtags[t]
        BY <1>11, <1>12, <1>13, <2>1, <3>2
      <4>2. Listens(t, i)
        BY <1>3, <2>1, <4>1 DEF Listens
      <4> QED
        BY <1>3, <2>1, <4>1, <4>2 DEF IqInv, WaitsAhead
    <3> QED
      BY <3>1, <3>2
  <2> QED
    BY <1>3, <2>1 DEF WaitsAhead
<1>22. ReadyRetired'
  BY <1>3, <1>4 DEF IqInv, ReadyRetired
<1>23. ReadyIsBacked'
  BY <1>3 DEF ReadyIsBacked, Updated
<1> QED
  BY <1>14, <1>15, <1>16, <1>17, <1>18, <1>19, <1>20, <1>21, <1>22, <1>23 DEF IqInv

\* The issue queues start empty.
LEMMA IqStart ==
  ASSUME IqInit
  PROVE  IqInv
<1>1. /\ iq = <<>> /\ dst_qtag = [s \in Seqs |-> None]
      /\ src_qtags = [s \in Seqs |-> [i \in {1, 2} |-> None]]
      /\ qtag_wait_crossbar = {}
      /\ p1 = <<>> /\ i1 = <<>> /\ i1_stay = <<>> /\ i1_queues = {}
      /\ enqueue_ports_used = NoPortsUsed
      /\ ready_table = {} /\ i2 = <<>> /\ i2_stay = <<>>
  BY DEF IqInit, IqInitVars, Init, BackendInit
<1>2. /\ \A s : s \notin RangeOf(<<>>)
      /\ <<>> \in Seq(Seqs) /\ Len(<<>>) = 0 /\ DOMAIN <<>> = {}
  BY SMTT(60) DEF RangeOf
<1>3. Distinct(<<>>)
  BY SMTT(60) DEF Distinct
<1>4. \A s : s \notin DOMAIN iq
  BY <1>1, <1>2
<1>5. \A s : ~InPicked(s)
  BY <1>1, <1>2 DEF InPicked
<1>6. Shapes
  <2>1. enqueue_ports_used \in [PhysIqs -> 0 .. IQ_ENQUEUE_PORTS]
    BY <1>1, IqAssumption, SMTT(60) DEF NoPortsUsed
  <2>2. dst_qtag \in [Seqs -> QTags \cup {None}]
    BY <1>1
  <2>3. src_qtags \in [Seqs -> [{1, 2} -> QTags \cup {None}]]
    BY <1>1
  <2>4. i1_queues \subseteq PhysIqs
    BY <1>1
  <2> QED
    BY <1>1, <1>2, <1>4, <2>1, <2>2, <2>3, <2>4 DEF Shapes
<1>7. Entries /\ Woken /\ WaitsAhead /\ ReadyIsBacked
  BY <1>4 DEF Entries, Woken, WaitsAhead, ReadyIsBacked
<1>8. PickedOnce
  <2>1. Len(p1) <= ISSUE_WIDTH /\ Len(i1) + Len(i1_stay) <= ISSUE_WIDTH
    BY <1>1, <1>2, WidthsAssumption, SMTT(60)
  <2> QED
    BY <1>1, <1>2, <1>3, <1>4, <1>5, <2>1 DEF PickedOnce
<1>9. MemTurn
  BY <1>1, <1>2, <1>5 DEF MemTurn
<1>10. TagOnce
  BY <1>1, <1>4 DEF TagOnce
<1>11. Crossbar
  BY <1>1, <1>4 DEF Crossbar
<1>12. ReadyRetired
  BY <1>1 DEF ReadyRetired
<1> QED
  BY <1>6, <1>7, <1>8, <1>9, <1>10, <1>11, <1>12 DEF IqInv

\* Nothing happens.
LEMMA IqStutter ==
  ASSUME View, IqInv, UNCHANGED <<vars, iqVars>>
  PROVE  IqInv'
<1>1. /\ UNCHANGED iqVars /\ UNCHANGED <<uops, cycle>>
      /\ UNCHANGED <<upstream, i2, i2_stay, lsid_issue_ptr>>
      /\ UNCHANGED visible_cycles /\ step' = step
      /\ committed' = committed /\ rob' = rob /\ ready_table' = ready_table
  BY DEF vars, loopVars, backendVars, commitVars, i2Vars, lsuVars, lsidVars, uopVars
<1>2. data_ready_visible' = data_ready_visible
  BY <1>1 DEF visible_cycles
<1>3. ReadyRetired'
  BY <1>1 DEF IqInv, ReadyRetired, Seqs
<1>4. step' # "i1" => i1_stay = <<>>
  BY <1>1 DEF IqInv, PickedOnce
<1>5. Updated' => Updated /\ UNCHANGED visible_cycles /\ ready_table \subseteq ready_table'
  BY <1>1 DEF Updated
<1>6. Len(committed)' + Len(rob)' = Len(committed) + Len(rob)
  BY <1>1
<1>7. \A p \in Seqs : data_ready_visible'[p] # data_ready_visible[p] =>
        data_ready_visible'[p] = None \/ data_ready_visible'[p] = cycle + 1
  BY <1>2
<1>8. step' \in {"tag", "publish"} \/ step \notin {"tag", "publish"}
  BY <1>1
<1> QED
  BY <1>1, <1>3, <1>4, <1>5, <1>6, <1>7, <1>8, IqUndisturbed
=============================================================================
