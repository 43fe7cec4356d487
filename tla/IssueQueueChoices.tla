------------------------- MODULE IssueQueueChoices --------------------------
(***************************************************************************)
(* The choices that the issue queues make: what arbitrate_i1 admits, the   *)
(* order in which pick_from_iq takes the ready entries, and the queue and  *)
(* the tag that dispatch finds for an entry.  These count finite sets, and *)
(* arbitrate_i1 is a recursive function over the attempts.                 *)
(***************************************************************************)
EXTENDS IssueQueueView, TLAPS

\* Leaves go to Zenon, with time to spare, unless they name another prover.
USE ZenonT(60)

-----------------------------------------------------------------------------
(* The choices of the issue queues.                                        *)

INSTANCE FiniteSetTheorems

\* A sequence over a set is one over every larger set.
LEMMA WiderSeq ==
  ASSUME NEW S, NEW T, S \subseteq T, NEW q \in Seq(S)
  PROVE  q \in Seq(T) /\ RangeOf(q) \subseteq S
  BY SMTT(60) DEF RangeOf

\* Appending a uop to a queue adds that uop to it.
LEMMA AppendOnce ==
  ASSUME NEW S, NEW q \in Seq(S), NEW e \in S
  PROVE  /\ \A s : s \in RangeOf(Append(q, e)) <=> s \in RangeOf(q) \/ s = e
         /\ Distinct(q) /\ e \notin RangeOf(q) => Distinct(Append(q, e))
<1>1. /\ Len(q) \in Nat /\ DOMAIN q = 1 .. Len(q) /\ DOMAIN Append(q, e) = 1 .. Len(q) + 1
      /\ \A k \in 1 .. Len(q) : Append(q, e)[k] = q[k]
      /\ Append(q, e)[Len(q) + 1] = e
      /\ \A k \in 1 .. Len(q) + 1 : k \in 1 .. Len(q) \/ k = Len(q) + 1
  BY SMTT(60)
<1>2. ASSUME NEW s PROVE s \in RangeOf(Append(q, e)) <=> s \in RangeOf(q) \/ s = e
  <2>1. s \in RangeOf(Append(q, e)) <=> \E k \in 1 .. Len(q) + 1 : s = Append(q, e)[k]
    BY <1>1 DEF RangeOf
  <2>2. s \in RangeOf(q) <=> \E k \in 1 .. Len(q) : s = q[k]
    BY <1>1 DEF RangeOf
  <2>3. CASE s = e
    BY <1>1, <2>1, <2>3, SMTT(60)
  <2>4. CASE s # e
    <3>1. ASSUME NEW k \in 1 .. Len(q) + 1, s = Append(q, e)[k]
          PROVE  k \in 1 .. Len(q) /\ s = q[k]
      BY <1>1, <2>4, <3>1
    <3>2. ASSUME NEW k \in 1 .. Len(q), s = q[k]
          PROVE  k \in 1 .. Len(q) + 1 /\ s = Append(q, e)[k]
      BY <1>1, <3>2, SMTT(60)
    <3>3. QED
      BY <2>1, <2>2, <2>4, <3>1, <3>2
  <2>5. QED
    BY <2>3, <2>4
<1>3. Distinct(q) /\ e \notin RangeOf(q) => Distinct(Append(q, e))
  BY <1>1 DEF Distinct, RangeOf
<1>4. QED
  BY <1>2, <1>3

\* A set of naturals that is not empty has a least member.
LEMMA Least ==
  ASSUME NEW T, T \subseteq Nat, T # {}
  PROVE  \E x \in T : \A y \in T : x <= y
<1> DEFINE R == OpToRel(<, Nat)
<1>1. IsWellFoundedOn(R, Nat)
  BY NatLessThanWellFounded
<1>2. \A x, y \in Nat : <<y, x>> \in R <=> y < x
  BY DEF OpToRel
<1> HIDE DEF R
<1>3. PICK x \in T : \A y \in T : ~ (<<y, x>> \in R)
  BY <1>1, WFMin
<1>4. \A y \in T : x <= y
  <2> SUFFICES ASSUME NEW y \in T PROVE x <= y
    OBVIOUS
  <2>1. x \in Nat /\ y \in Nat
    OBVIOUS
  <2>2. ~(y < x)
    BY <1>2, <1>3, <2>1
  <2> QED
    BY <2>1, <2>2, SMTT(60)
<1> QED
  BY <1>4

\* Min picks it.
LEMMA MinIsLeast ==
  ASSUME NEW T, T \subseteq Nat, T # {}
  PROVE  Min(T) \in T /\ \A y \in T : Min(T) <= y
BY Least DEF Min

\* Induction up to n, for a set.
LEMMA UpTo ==
  ASSUME NEW n \in Nat, NEW T, 0 \in T, \A k \in 0 .. n - 1 : k \in T => k + 1 \in T
  PROVE  \A k \in 0 .. n : k \in T
<1> DEFINE F == (0 .. n) \ T
<1>1. SUFFICES F = {}
  OBVIOUS
<1>2. SUFFICES ASSUME F # {} PROVE FALSE
  OBVIOUS
<1>3. F \subseteq Nat
  BY SMTT(60)
<1>4. PICK k \in F : \A j \in F : k <= j
  <2> HIDE DEF F
  <2> QED
    BY <1>2, <1>3, Least
<1>5. k # 0 /\ k \in 0 .. n /\ k \notin T
  OBVIOUS
<1>6. k - 1 \in 0 .. n - 1 /\ k - 1 \notin F
  BY <1>4, <1>5, SMTT(60)
<1>7. k - 1 \in T
  BY <1>6, SMTT(60)
<1> QED
  BY <1>5, <1>6, <1>7, SMTT(60)

\* The members of a finite set of naturals, from the oldest on.
LEMMA OldestOrders ==
  ASSUME NEW S, S \subseteq Nat, IsFiniteSet(S)
  PROVE  /\ Oldest(S) \in Seq(S) /\ Len(Oldest(S)) = Cardinality(S)
         /\ Distinct(Oldest(S))
         /\ \A s : s \in RangeOf(Oldest(S)) <=> s \in S
<1> DEFINE n == Cardinality(S)
           Below(s) == {t \in S : t < s}
           rank == [s \in S |-> Cardinality(Below(s))]
<1>1. n \in Nat
  BY FS_CardinalityType
<1>2. \A s \in S : IsFiniteSet(Below(s)) /\ Cardinality(Below(s)) \in Nat /\ Cardinality(Below(s)) < n
  <2> TAKE s \in S
  <2>1. Below(s) \subseteq S /\ Below(s) # S
    BY SMTT(60)
  <2>2. /\ IsFiniteSet(Below(s)) /\ Cardinality(Below(s)) <= Cardinality(S)
        /\ Cardinality(S) # Cardinality(Below(s))
    BY <2>1, FS_Subset
  <2> QED
    BY <1>1, <2>2, FS_CardinalityType, SMTT(60)
<1>3. \A s, t \in S : s < t => Cardinality(Below(s)) < Cardinality(Below(t))
  <2> SUFFICES ASSUME NEW s \in S, NEW t \in S, s < t
               PROVE  Cardinality(Below(s)) < Cardinality(Below(t))
    OBVIOUS
  <2>1. \A u \in S : u < s => u < t
    BY SMTT(60)
  <2>2. ~(s < s)
    BY SMTT(60)
  <2>3. Below(s) \subseteq Below(t) /\ s \in Below(t) /\ s \notin Below(s)
    BY <2>1, <2>2
  <2>4. /\ Cardinality(Below(s)) <= Cardinality(Below(t))
        /\ Cardinality(Below(t)) # Cardinality(Below(s))
    BY <1>2, <2>3, FS_Subset
  <2> QED
    BY <1>2, <2>4, SMTT(60)
<1> HIDE DEF Below
<1>4. rank \in [S -> 0 .. n - 1]
  BY <1>1, <1>2, SMTT(60)
<1>5. \A s, t \in S : rank[s] = rank[t] => s = t
  <2> SUFFICES ASSUME NEW s \in S, NEW t \in S, s # t PROVE rank[s] # rank[t]
    OBVIOUS
  <2>1. s < t \/ t < s
    BY SMTT(60)
  <2> QED
    BY <1>2, <1>3, <2>1, SMTT(60)
<1>6. rank \in Injection(S, 0 .. n - 1)
  BY <1>4, <1>5 DEF Injection, IsInjective
<1>7. IsFiniteSet(0 .. n - 1) /\ Cardinality(0 .. n - 1) = n
  <2> HIDE DEF n
  <2>1. /\ IsFiniteSet(0 .. n - 1)
        /\ Cardinality(0 .. n - 1) = IF 0 > n - 1 THEN 0 ELSE n - 1 - 0 + 1
    BY <1>1, FS_Interval, SMTT(60)
  <2> QED
    BY <1>1, <2>1, SMTT(60)
<1>8. rank \in Surjection(S, 0 .. n - 1)
  BY <1>6, <1>7, FS_Injection
<1>9. \A k \in 0 .. n - 1 : \E s \in S : rank[s] = k
  BY <1>8 DEF Surjection
<1>10. Oldest(S) = [k \in 1 .. n |-> CHOOSE s \in S : Cardinality(Below(s)) = k - 1]
  BY DEF Oldest, Below
<1>11. \A k \in 1 .. n : Oldest(S)[k] \in S /\ rank[Oldest(S)[k]] = k - 1
  <2> TAKE k \in 1 .. n
  <2>1. k - 1 \in 0 .. n - 1
    BY <1>1, SMTT(60)
  <2>2. \E s \in S : Cardinality(Below(s)) = k - 1
    BY <1>9, <2>1
  <2>3. Oldest(S)[k] = CHOOSE s \in S : Cardinality(Below(s)) = k - 1
    BY <1>10
  <2> QED
    BY <2>2, <2>3
<1>12. DOMAIN Oldest(S) = 1 .. n /\ Oldest(S) = [k \in 1 .. n |-> Oldest(S)[k]]
  BY <1>10
<1> HIDE DEF rank
<1>13. Oldest(S) \in Seq(S) /\ Len(Oldest(S)) = n
  BY <1>1, <1>11, <1>12, SMTT(60)
<1>14. Distinct(Oldest(S))
  <2> SUFFICES ASSUME NEW j \in 1 .. n, NEW k \in 1 .. n, Oldest(S)[j] = Oldest(S)[k]
               PROVE  j = k
    BY <1>12 DEF Distinct
  <2>1. j - 1 = k - 1
    BY <1>11
  <2> QED
    BY <1>1, <2>1, SMTT(60)
<1>15. ASSUME NEW s \in S PROVE s \in RangeOf(Oldest(S))
  <2>1. rank[s] \in 0 .. n - 1
    BY <1>4
  <2>2. rank[s] + 1 \in 1 .. n
    BY <1>1, <2>1, SMTT(60)
  <2>3. rank[Oldest(S)[rank[s] + 1]] = rank[s]
    BY <1>1, <1>11, <2>1, <2>2, SMTT(60)
  <2>4. Oldest(S)[rank[s] + 1] = s
    BY <1>5, <1>11, <2>2, <2>3
  <2> QED
    BY <1>12, <2>2, <2>4 DEF RangeOf
<1>16. \A s \in RangeOf(Oldest(S)) : s \in S
  BY <1>11, <1>12 DEF RangeOf
<1> QED
  BY <1>13, <1>14, <1>15, <1>16

\* The functions that start with b and go on with h.
Runs(n, X, b, h) ==
  {f \in [0 .. n -> X] : f[0] = b /\ \A k \in 1 .. n : f[k] = h[k][f[k - 1]]}

\* A recursion over 1 .. n has a solution.
LEMMA Recursion ==
  ASSUME NEW n \in Nat, NEW X, NEW b \in X, NEW h \in [1 .. n -> [X -> X]]
  PROVE  Runs(n, X, b, h) # {}
<1> DEFINE Solves(f, m) == f[0] = b /\ \A k \in 1 .. m : f[k] = h[k][f[k - 1]]
           T == {m \in 0 .. n : \E f \in [0 .. m -> X] : Solves(f, m)}
<1>1. 0 \in T
  <2> DEFINE f == [k \in 0 .. 0 |-> b]
  <2>1. 0 \in 0 .. n /\ f \in [0 .. 0 -> X] /\ f[0] = b /\ 1 .. 0 = {}
    BY SMTT(60)
  <2> HIDE DEF f
  <2> QED
    BY <2>1
<1>2. ASSUME NEW m \in 0 .. n - 1, m \in T PROVE m + 1 \in T
  <2>1. PICK f \in [0 .. m -> X] : Solves(f, m)
    BY <1>2
  <2> DEFINE v == h[m + 1][f[m]]
             g == [k \in 0 .. m + 1 |-> IF k = m + 1 THEN v ELSE f[k]]
  <2>2. v \in X
    <3>1. m + 1 \in 1 .. n /\ m \in 0 .. m
      BY SMTT(60)
    <3> QED
      BY <3>1
  <2>3. g \in [0 .. m + 1 -> X]
    <3> HIDE DEF v
    <3> QED
      BY <2>2, SMTT(60)
  <2>4. g[0] = b
    BY <2>1, SMTT(60)
  <2>5. ASSUME NEW k \in 1 .. m + 1 PROVE g[k] = h[k][g[k - 1]]
    <3>1. g[k - 1] = f[k - 1]
      BY SMTT(60)
    <3>2. CASE k = m + 1
      BY <3>1, <3>2, SMTT(60)
    <3>3. CASE k # m + 1
      <4>1. k \in 1 .. m /\ g[k] = f[k]
        BY <3>3, SMTT(60)
      <4> QED
        BY <2>1, <3>1, <4>1
    <3> QED
      BY <3>2, <3>3
  <2> HIDE DEF g
  <2>6. Solves(g, m + 1)
    BY <2>4, <2>5
  <2>7. m + 1 \in 0 .. n
    BY SMTT(60)
  <2> QED
    BY <2>3, <2>6, <2>7
<1>3. \A k \in 0 .. n : k \in T
  <2> HIDE DEF T
  <2> QED
    BY <1>1, <1>2, UpTo
<1>4. n \in T
  BY <1>3, SMTT(60)
<1> QED
  BY <1>4 DEF Runs

\* A uop needs two read ports at most.
LEMMA PortsNeeded ==
  ASSUME NEW s
  PROVE  read_ports_needed(s) \in Nat
<1>1. IsFiniteSet(1 .. 2)
  <2>1. 1 \in Int /\ 2 \in Int
    BY SMTT(60)
  <2> QED
    BY <2>1, FS_Interval
<1>2. {i \in {1, 2} : source_needs_rf_read(s, i)} \subseteq 1 .. 2
  BY SMTT(60)
<1> QED
  BY <1>1, <1>2, FS_Subset, FS_CardinalityType DEF read_ports_needed

\* arbitrate_i1 admits attempts of P1, each one once.
LEMMA AdmittedOnce ==
  ASSUME p1 \in Seq(Seqs), Seqs \subseteq Nat, IsFiniteSet(Seqs)
  PROVE  /\ admitted_i1 \in Seq(Seqs) /\ Distinct(admitted_i1)
         /\ \A s \in RangeOf(admitted_i1) : s \in RangeOf(p1)
         /\ Len(admitted_i1) <= Cardinality(RangeOf(p1))
<1> DEFINE n == Len(attempts)
           P == RangeOf(p1)
           a == arbitrate_i1
<1>1. P \subseteq Seqs /\ P \subseteq Nat /\ IsFiniteSet(P)
  <2>1. P \subseteq Seqs
    BY SMTT(60) DEF RangeOf
  <2> QED
    BY <2>1, FS_Subset
<1> HIDE DEF P
<1>2. /\ attempts \in Seq(P) /\ n = Cardinality(P) /\ Distinct(attempts)
  BY <1>1, OldestOrders DEF attempts, P
<1>3. n \in Nat /\ DOMAIN attempts = 1 .. n /\ \A k \in 1 .. n : attempts[k] \in P
  BY <1>2, SMTT(60)
<1> DEFINE Queues == {phys_iq(s) : s \in P}
           X == [admitted : Seq(P), queues : SUBSET Queues, ports : Nat]
           h == [k \in 1 .. n |-> [x \in X |-> Admit(x, attempts[k])]]
<1>4. NoneAdmitted \in X
  BY SMTT(60) DEF NoneAdmitted
<1>5. ASSUME NEW x \in X, NEW s \in P
      PROVE  /\ Admit(x, s) \in X
             /\ \/ Admit(x, s) = x
                \/ Admit(x, s).admitted = Append(x.admitted, s)
  <2>1. /\ x.admitted \in Seq(P) /\ x.queues \subseteq Queues /\ x.ports \in Nat
        /\ phys_iq(s) \in Queues /\ read_ports_needed(s) \in Nat
    BY PortsNeeded
  <2> HIDE DEF Queues
  <2>2. Append(x.admitted, s) \in Seq(P)
    BY <2>1, SMTT(60)
  <2> QED
    BY <2>1, <2>2, SMTT(60) DEF Admit
<1>6. h \in [1 .. n -> [X -> X]]
  <2> HIDE DEF X, n
  <2> QED
    BY <1>3, <1>5
<1> HIDE DEF X
<1>7. PICK f \in [0 .. n -> X] : f[0] = NoneAdmitted /\ \A k \in 1 .. n : f[k] = h[k][f[k - 1]]
  <2>1. n \in Nat
    BY <1>3
  <2> HIDE DEF n, h
  <2>2. Runs(n, X, NoneAdmitted, h) # {}
    BY <1>4, <1>6, <2>1, Recursion
  <2> QED
    BY <2>2 DEF Runs
<1> HIDE DEF n
<1>8. \A k \in 1 .. n : f[k] = Admit(f[k - 1], attempts[k])
  <2> TAKE k \in 1 .. n
  <2>1. k - 1 \in 0 .. n
    BY <1>3, SMTT(60)
  <2>2. f[k - 1] \in X
    BY <2>1
  <2> QED
    BY <1>7, <2>2
<1>9. f = [k \in 0 .. n |-> IF k = 0 THEN NoneAdmitted ELSE Admit(f[k - 1], attempts[k])]
  <2>1. \A k \in 0 .. n : k # 0 => k \in 1 .. n
    BY <1>3, SMTT(60)
  <2>2. \A k \in 0 .. n : f[k] = IF k = 0 THEN NoneAdmitted ELSE Admit(f[k - 1], attempts[k])
    BY <1>7, <1>8, <2>1
  <2> QED
    BY <2>2
<1>10. a = [k \in 0 .. n |-> IF k = 0 THEN NoneAdmitted ELSE Admit(a[k - 1], attempts[k])]
  BY <1>9 DEF arbitrate_i1, n
<1> HIDE DEF a
<1>11. a[0] = NoneAdmitted /\ \A k \in 1 .. n : a[k] = Admit(a[k - 1], attempts[k])
  <2>1. \A k \in 1 .. n : k \in 0 .. n /\ k # 0
    BY <1>3, SMTT(60)
  <2>2. 0 \in 0 .. n
    BY <1>3, SMTT(60)
  <2> QED
    BY <1>10, <2>1, <2>2
<1> DEFINE Good(k) == /\ a[k] \in X /\ Distinct(a[k].admitted) /\ Len(a[k].admitted) <= k
                      /\ \A s \in RangeOf(a[k].admitted) : \E j \in 1 .. k : s = attempts[j]
           T == {k \in 0 .. n : Good(k)}
<1>12. 0 \in T
  <2>1. a[0].admitted = <<>>
    BY <1>11, SMTT(60) DEF NoneAdmitted
  <2>2. 0 \in 0 .. n /\ a[0] \in X
    BY <1>3, <1>4, <1>11, SMTT(60)
  <2>3. Distinct(<<>>) /\ Len(<<>>) <= 0 /\ RangeOf(<<>>) = {}
    BY SMTT(60) DEF Distinct, RangeOf
  <2> QED
    BY <2>1, <2>2, <2>3
<1>13. ASSUME NEW k \in 0 .. n - 1, k \in T PROVE k + 1 \in T
  <2> DEFINE q == a[k].admitted
             s == attempts[k + 1]
  <2>1. k \in Nat /\ k + 1 \in 1 .. n /\ k + 1 \in 0 .. n /\ (k + 1) - 1 = k
    BY <1>3, SMTT(60)
  <2>2. a[k] \in X /\ Distinct(q) /\ Len(q) <= k /\ \A t \in RangeOf(q) : \E j \in 1 .. k : t = attempts[j]
    BY <1>13
  <2>3. a[k + 1] = Admit(a[k], s) /\ s \in P
    BY <1>3, <1>11, <2>1
  <2>4. a[k + 1] \in X /\ (a[k + 1] = a[k] \/ a[k + 1].admitted = Append(q, s))
    BY <1>5, <2>2, <2>3
  <2>5. q \in Seq(P)
    BY <2>2 DEF X
  <2>6. s \notin RangeOf(q)
    <3>1. \A j \in 1 .. k : j \in 1 .. n /\ j # k + 1
      BY <1>3, <2>1, SMTT(60)
    <3> QED
      BY <1>2, <1>3, <2>1, <2>2, <3>1 DEF Distinct
  <2>7. /\ Distinct(Append(q, s)) /\ Len(Append(q, s)) = Len(q) + 1 /\ Len(q) \in Nat
        /\ \A t : t \in RangeOf(Append(q, s)) <=> t \in RangeOf(q) \/ t = s
    <3> HIDE DEF q, s
    <3>1. Len(Append(q, s)) = Len(q) + 1 /\ Len(q) \in Nat
      BY <2>3, <2>5, SMTT(60)
    <3> QED
      BY <2>2, <2>3, <2>5, <2>6, <3>1, AppendOnce
  <2>8. \A j \in 1 .. k : j \in 1 .. k + 1
    BY <2>1, SMTT(60)
  <2>9. k + 1 \in 1 .. k + 1
    BY <2>1, SMTT(60)
  <2>10. CASE a[k + 1] = a[k]
    <3>1. Len(q) <= k + 1
      BY <2>1, <2>2, <2>7, SMTT(60)
    <3> QED
      BY <2>1, <2>2, <2>4, <2>8, <2>10, <3>1
  <2>11. CASE a[k + 1].admitted = Append(q, s)
    <3>1. Len(a[k + 1].admitted) <= k + 1
      BY <2>1, <2>2, <2>7, <2>11, SMTT(60)
    <3> QED
      BY <2>1, <2>2, <2>4, <2>7, <2>8, <2>9, <2>11, <3>1
  <2> QED
    BY <2>4, <2>10, <2>11
<1>14. Good(n)
  <2>1. \A k \in 0 .. n : k \in T
    <3> HIDE DEF T
    <3> QED
      BY <1>3, <1>12, <1>13, UpTo
  <2>2. n \in 0 .. n
    BY <1>3, SMTT(60)
  <2> QED
    BY <2>1, <2>2
<1>15. admitted_i1 = a[n].admitted
  BY DEF admitted_i1, a, n
<1>16. admitted_i1 \in Seq(P)
  BY <1>14, <1>15 DEF X
<1>17. admitted_i1 \in Seq(Seqs) /\ RangeOf(admitted_i1) \subseteq P
  BY <1>1, <1>16, WiderSeq
<1> QED
  BY <1>2, <1>14, <1>15, <1>17 DEF P, n

\* So what arbitrate_i1 admits fits where P1 was.
LEMMA AdmitsFromP1 ==
  ASSUME View, IqInv
  PROVE  Admits
<1>1. Seqs \subseteq Nat /\ IsFiniteSet(Seqs) /\ p1 \in Seq(Seqs) /\ Len(p1) \in Nat
  <2>1. Seqs \subseteq Nat /\ IsFiniteSet(Seqs) /\ p1 \in Seq(Seqs)
    BY DEF View, StreamView, IqInv, Shapes
  <2> QED
    BY <2>1, SMTT(60)
<1>2. /\ admitted_i1 \in Seq(Seqs) /\ Distinct(admitted_i1)
      /\ \A s \in RangeOf(admitted_i1) : s \in RangeOf(p1)
      /\ Len(admitted_i1) <= Cardinality(RangeOf(p1))
  BY <1>1, AdmittedOnce
<1>3. Cardinality(RangeOf(p1)) <= Len(p1) /\ Cardinality(RangeOf(p1)) \in Nat
  <2>1. /\ IsFiniteSet(1 .. Len(p1)) /\ Cardinality(1 .. Len(p1)) = Len(p1)
    <3>1. 1 \in Int /\ Len(p1) \in Int /\ (IF 1 > Len(p1) THEN 0 ELSE Len(p1) - 1 + 1) = Len(p1)
      BY <1>1, SMTT(60)
    <3> QED
      BY <3>1, FS_Interval
  <2>2. /\ p1 = [k \in 1 .. Len(p1) |-> p1[k]] /\ DOMAIN p1 = 1 .. Len(p1)
    BY <1>1, SMTT(60)
  <2>3. RangeOf(p1) = {p1[k] : k \in 1 .. Len(p1)}
    BY <2>2 DEF RangeOf
  <2>4. p1 \in Surjection(1 .. Len(p1), RangeOf(p1))
    <3>1. p1 \in [1 .. Len(p1) -> RangeOf(p1)] /\ \A t \in RangeOf(p1) : \E k \in 1 .. Len(p1) : p1[k] = t
      BY <2>2, <2>3
    <3> QED
      BY <3>1 DEF Surjection
  <2>5. IsFiniteSet(RangeOf(p1)) /\ Cardinality(RangeOf(p1)) <= Cardinality(1 .. Len(p1))
    BY <2>1, <2>4, FS_Surjection
  <2> QED
    BY <2>1, <2>5, FS_CardinalityType
<1>4. Len(admitted_i1) <= Len(p1)
  <2>1. Len(admitted_i1) \in Nat
    BY <1>2, SMTT(60)
  <2> QED
    BY <1>1, <1>2, <1>3, <2>1, SMTT(60)
<1> QED
  BY <1>2, <1>4 DEF Admits

\* The entries that are ready are put in the order of their age.
LEMMA WinnersOrdered ==
  ASSUME View, IqInv
  PROVE  Ordered(ready_iq_winners)
<1>1. Seqs \subseteq Nat /\ IsFiniteSet(Seqs) /\ DOMAIN iq \subseteq Seqs
  BY DEF View, StreamView, IqInv, Shapes
<1>2. ready_iq_winners \subseteq DOMAIN iq
  BY DEF ready_iq_winners, ready_iq_entries
<1>3. ready_iq_winners \subseteq Seqs /\ ready_iq_winners \subseteq Nat
  BY <1>1, <1>2
<1>4. IsFiniteSet(ready_iq_winners)
  BY <1>1, <1>3, FS_Subset
<1> QED
  BY <1>3, <1>4, OldestOrders DEF Ordered

\* route_phys_iq answers a queue with an enqueue port and room left.
LEMMA RouteTaken ==
  ASSUME NEW s, Routes(s) # {}
  PROVE  /\ route_phys_iq(s) \in PhysIqs
         /\ enqueue_ports_used[route_phys_iq(s)] < IQ_ENQUEUE_PORTS
         /\ Cardinality(Occupants(route_phys_iq(s))) < IQ_CAPACITY
<1> DEFINE c == issue_queue_candidates(s)
<1>1. c \in Seq(PhysIqs)
  <2>1. \/ c = <<"AluIq0", "SharedIq1">> \/ c = <<"BruIq">> \/ c = <<"AguIq0", "AguIq1">>
        \/ c = <<"StdIq0", "StdIq1">> \/ c = <<"CmdIq">> \/ c = <<"SharedIq1">>
    <3> DEFINE g == uops[s].commit.group
    <3>1. CASE g = "ALU"
      BY <3>1 DEF issue_queue_candidates
    <3>2. CASE g = "BRU"
      BY <3>2 DEF issue_queue_candidates
    <3>3. CASE g = "LDA"
      BY <3>3 DEF issue_queue_candidates
    <3>4. CASE g = "STA"
      BY <3>4 DEF issue_queue_candidates
    <3>5. CASE g \in {"CMD", "BBD"}
      BY <3>5 DEF issue_queue_candidates
    <3>6. CASE g \notin {"ALU", "BRU", "LDA", "STA", "CMD", "BBD"}
      BY <3>6 DEF issue_queue_candidates
    <3> QED
      BY <3>1, <3>2, <3>3, <3>4, <3>5, <3>6
  <2>2. \A a, b \in PhysIqs : <<a>> \in Seq(PhysIqs) /\ <<a, b>> \in Seq(PhysIqs)
    BY SMTT(60)
  <2>3. {"AluIq0", "SharedIq1", "BruIq", "AguIq0", "AguIq1", "StdIq0", "StdIq1", "CmdIq"} \subseteq PhysIqs
    BY DEF PhysIqs
  <2> QED
    BY <2>1, <2>2, <2>3
<1>2. DOMAIN c \subseteq Nat /\ \A k \in DOMAIN c : c[k] \in PhysIqs
  BY <1>1, SMTT(60)
<1>3. \A k : k \in Routes(s) <=>
        /\ k \in DOMAIN c /\ enqueue_ports_used[c[k]] < IQ_ENQUEUE_PORTS
        /\ Cardinality(Occupants(c[k])) < IQ_CAPACITY
  BY DEF Routes
<1>4. Routes(s) \subseteq Nat
  BY <1>2, <1>3
<1>5. Min(Routes(s)) \in Routes(s)
  BY <1>4, MinIsLeast
<1> QED
  BY <1>2, <1>3, <1>5 DEF route_phys_iq

\* A queue with room has a free queue tag, and allocate_qtag finds it.
LEMMA FreeTag ==
  ASSUME IqInv, IsFiniteSet(Seqs), NEW q \in PhysIqs, Cardinality(Occupants(q)) < IQ_CAPACITY
  PROVE  /\ allocate_qtag(q) \in QTags
         /\ \A t \in DOMAIN iq : iq[t].qtag # allocate_qtag(q)
<1> DEFINE N == 0 .. IQ_CAPACITY - 1
           F == {n \in N : \A t \in DOMAIN iq : iq[t].qtag # <<q, n>>}
           f == [n \in N |-> CHOOSE t \in DOMAIN iq : iq[t].qtag = <<q, n>>]
<1>1. IsFiniteSet(Occupants(q)) /\ Cardinality(Occupants(q)) \in Nat
  <2>1. Occupants(q) \subseteq Seqs
    BY DEF Occupants, IqInv, Shapes
  <2> QED
    BY <2>1, FS_Subset, FS_CardinalityType
<1>2. Cardinality(N) = IQ_CAPACITY /\ IQ_CAPACITY \in Nat
  <2>1. /\ 0 \in Int /\ IQ_CAPACITY - 1 \in Int /\ IQ_CAPACITY \in Nat
        /\ (IF 0 > IQ_CAPACITY - 1 THEN 0 ELSE IQ_CAPACITY - 1 - 0 + 1) = IQ_CAPACITY
    BY IqAssumption, SMTT(60)
  <2> QED
    BY <2>1, FS_Interval
<1>3. F # {}
  <2> SUFFICES ASSUME F = {} PROVE FALSE
    OBVIOUS
  <2>1. \A n \in N : \E t \in DOMAIN iq : iq[t].qtag = <<q, n>>
    OBVIOUS
  <2>2. \A n \in N : f[n] \in DOMAIN iq /\ iq[f[n]].qtag = <<q, n>>
    BY <2>1
  <2> HIDE DEF f
  <2>3. \A n \in N : f[n] \in Occupants(q)
    <3> TAKE n \in N
    <3>1. <<q, n>>[1] = q
      OBVIOUS
    <3> QED
      BY <2>2, <3>1 DEF Occupants, phys_iq
  <2>4. \A m, n \in N : f[m] = f[n] => m = n
    <3> TAKE m, n \in N
    <3>1. <<q, m>> = <<q, n>> => m = n
      OBVIOUS
    <3> QED
      BY <2>2, <3>1
  <2>5. f \in Injection(N, Occupants(q))
    <3>1. f \in [N -> Occupants(q)]
      BY <2>3 DEF f
    <3> QED
      BY <2>4, <3>1 DEF Injection, IsInjective
  <2>6. Cardinality(N) <= Cardinality(Occupants(q))
    BY <1>1, <2>5, FS_Injection
  <2> QED
    BY <1>1, <1>2, <2>6, SMTT(60)
<1>4. F \subseteq Nat
  BY SMTT(60)
<1>5. allocate_qtag(q) = <<q, Min(F)>>
  BY DEF allocate_qtag
<1>6. \A n \in F : n \in N /\ \A t \in DOMAIN iq : iq[t].qtag # <<q, n>>
  OBVIOUS
<1> HIDE DEF F
<1>7. Min(F) \in N /\ \A t \in DOMAIN iq : iq[t].qtag # <<q, Min(F)>>
  <2>1. Min(F) \in F
    BY <1>3, <1>4, MinIsLeast
  <2> QED
    BY <1>6, <2>1
<1>8. <<q, Min(F)>> \in QTags
  BY <1>7 DEF QTags
<1> QED
  BY <1>5, <1>7, <1>8

\* The queue that route_phys_iq finds takes the entry.
LEMMA RouteHasRoom ==
  ASSUME View, IqInv, NEW s, Routes(s) # {}
  PROVE  RoomFound(route_phys_iq(s))
<1>1. IsFiniteSet(Seqs)
  BY DEF View, StreamView
<1>2. /\ route_phys_iq(s) \in PhysIqs
      /\ enqueue_ports_used[route_phys_iq(s)] < IQ_ENQUEUE_PORTS
      /\ Cardinality(Occupants(route_phys_iq(s))) < IQ_CAPACITY
  BY RouteTaken
<1> QED
  BY <1>1, <1>2, FreeTag DEF RoomFound

\* A sequence that repeats nothing is as long as its range is large.
LEMMA DistinctCount ==
  ASSUME NEW S, NEW q \in Seq(S), Distinct(q)
  PROVE  Cardinality(RangeOf(q)) = Len(q)
<1>1. Len(q) \in Nat /\ DOMAIN q = 1 .. Len(q)
  BY SMTT(60)
<1>2. q \in Bijection(1 .. Len(q), RangeOf(q))
  BY <1>1, SMTT(60) DEF Bijection, Injection, Surjection, IsInjective, RangeOf, Distinct
<1>3. ExistsBijection(1 .. Len(q), RangeOf(q))
  BY <1>2 DEF ExistsBijection
<1> QED
  BY <1>1, <1>3, FS_CountingElements
=============================================================================
