-------------------------- MODULE BackendInvariant ---------------------------
(***************************************************************************)
(* The steps of Backend keep its types, commit in stream order and access  *)
(* the cache in program order, whatever the order in which the uops run    *)
(* and whichever loads miss.  They keep a uop in one place of the pipeline *)
(* only, lose none on the way, and keep the LSU's owner queues in          *)
(* agreement with the stages.                                              *)
(*                                                                         *)
(* MemoryOrder is not inductive.  That the access in the L1D is the one    *)
(* lsid_cache_ptr counts next, and that no other is, rests on where the    *)
(* loads and stores on their way to the L1D are: CachePtr bounds their     *)
(* load_store_ids from below, IssuePtr from above, and LoadsApart and      *)
(* StoresApart keep a uop from being in two places at once.                *)
(*                                                                         *)
(* BackendProofs puts the parts together and states the theorems.          *)
(***************************************************************************)
EXTENDS BackendView, TLAPS

\* Leaves go to Zenon, with time to spare, unless they name another prover.
USE ZenonT(60)

-----------------------------------------------------------------------------
(* Facts about the uops of a stream.                                       *)

\* build_uops counts: there are finitely many uops, and load_store_ids grow
\* along the stream from one memory access to the next.  TypeOK implies it
\* (StreamNumbered in BackendProofs); the steps only use it.
Numbered ==
  /\ Cardinality(Seqs) \in Nat
  /\ \A s \in Seqs : uops[s].load_store_id \in Nat /\ uops[s].load_ordinal \in Nat
  /\ \A s, t \in Seqs : Mem(s) /\ s < t => uops[s].load_store_id < uops[t].load_store_id

\* The uops are those build_uops makes of one commit stream, numbered
\* from 0 without gaps.
LEMMA StreamShape ==
  ASSUME TypeOK, Numbered
  PROVE  /\ Stream \in CommitStreams /\ IsCommitStream(Stream)
         /\ DOMAIN Stream = Seqs
         /\ IsFiniteSet(Seqs) /\ Cardinality(Seqs) \in Nat
         /\ Seqs = 0 .. Cardinality(Seqs) - 1
         /\ Seqs \subseteq Nat
         /\ \A s \in Seqs : uops[s] = build_uops(Stream)[s]
<1>1. Stream \in CommitStreams /\ uops = build_uops(Stream)
  BY DEF TypeOK, UopsTypeOK
<1>2. IsCommitStream(Stream)
  BY <1>1, StreamsAssumption
<1>3. DOMAIN Stream = Seqs
  BY DEF Stream, Seqs
<1>4. IsFiniteSet(Seqs) /\ Seqs = 0 .. Cardinality(Seqs) - 1
  BY <1>2, <1>3 DEF IsCommitStream
<1>5. Cardinality(Seqs) \in Nat
  BY DEF Numbered
<1>6. QED
  BY <1>1, <1>2, <1>3, <1>4, <1>5, SMTT(60)

\* What build_uops writes into a uop: never both a load and a store, its
\* load_store_id counts the memory accesses before it, and no access takes
\* the D2 bypass.
LEMMA UopFields ==
  ASSUME TypeOK, Numbered, NEW s \in Seqs
  PROVE  /\ uops[s].is_load \in BOOLEAN /\ uops[s].is_store \in BOOLEAN
         /\ ~(uops[s].is_load /\ uops[s].is_store)
         /\ uops[s].load_store_id = Cardinality(MemsBefore(Stream, s))
         /\ uops[s].load_store_id \in Nat
         /\ uops[s].load_ordinal \in Nat
         /\ Mem(s) => ~uops[s].bypass_d2
         /\ Mem(s) <=> Stream[s].mem # "none"
<1>1. /\ IsCommitStream(Stream) /\ DOMAIN Stream = Seqs /\ uops[s] = build_uops(Stream)[s]
  BY StreamShape
<1>2. uops[s].load_store_id \in Nat /\ uops[s].load_ordinal \in Nat
  BY DEF Numbered
<1>3. /\ uops[s].is_load = (Stream[s].mem = "load")
      /\ uops[s].is_store = (Stream[s].mem = "store")
      /\ uops[s].bypass_d2 = d2_bypass(Stream[s])
      /\ uops[s].load_store_id = Cardinality(MemsBefore(Stream, s))
  BY <1>1, SMTT(60) DEF build_uops
<1>4. Stream[s].mem \in {"none", "load", "store"} /\ (Stream[s].mem # "none" => ~d2_bypass(Stream[s]))
  BY <1>1 DEF IsCommitStream
<1>5. QED
  BY <1>2, <1>3, <1>4 DEF Mem

\* No two memory accesses share a load_store_id.
LEMMA LsidInjective ==
  ASSUME TypeOK, Numbered, NEW s \in Seqs, NEW t \in Seqs, Mem(s), Mem(t),
         uops[s].load_store_id = uops[t].load_store_id
  PROVE  s = t
<1>1. s \in Int /\ t \in Int
  BY StreamShape, SMTT(60)
<1>2. uops[s].load_store_id \in Nat
  BY UopFields
<1>3. ~(s < t) /\ ~(t < s)
  BY <1>2, SMTT(60) DEF Numbered
<1>4. QED
  BY <1>1, <1>3, SMTT(60)
-----------------------------------------------------------------------------
(* A sequence keeps its type when an element is appended, as retire_ready
   and advance_frontend do. *)
LEMMA AppendKeepsType ==
  ASSUME NEW S, NEW q \in Seq(S), NEW e \in S
  PROVE  Append(q, e) \in Seq(S)
  BY SMTT(60)

(* The entries that a round of misses adds to liq, as advance_execute makes
   them: the set-of-records form and the record form agree. *)
LEMMA RefillEntry ==
  ASSUME NEW M, NEW c, NEW x \in [seq : M, refill_ready_cycle : {c}]
  PROVE  /\ x.seq \in M /\ x.refill_ready_cycle = c
         /\ x = [seq |-> x.seq, refill_ready_cycle |-> c]
  OBVIOUS

(* A sequence over a set is one over any larger set. *)
LEMMA WiderSeq ==
  ASSUME NEW S, NEW T, NEW q \in Seq(S), S \subseteq T
  PROVE  q \in Seq(T)
  BY SMTT(60)
-----------------------------------------------------------------------------
(* Type correctness.                                                       *)

\* CycleEngine::run starts with values of the right types.
LEMMA TypeInit == Init => TypeOK
<1> SUFFICES ASSUME Init PROVE TypeOK
  OBVIOUS
<1>1. PICK c \in CommitStreams : uops = build_uops(c)
  BY DEF Init, UopsInit
<1>2. IsCommitStream(c)
  BY <1>1, StreamsAssumption
<1>3. Stream = c /\ Seqs = DOMAIN c
  BY <1>1, <1>2 DEF Stream, Seqs, build_uops, IsCommitStream
<1>4. UopsTypeOK
  BY <1>1, <1>3 DEF Init, UopsInit, UopsTypeOK, OptCycle
<1>5. LoopTypeOK /\ CommitTypeOK /\ StageTypeOK /\ LsuTypeOK
  BY SMTT(60) DEF Init, BackendInit, LoopTypeOK, CommitTypeOK, StageTypeOK, LsuTypeOK, Steps
<1>6. QED
  BY <1>4, <1>5 DEF TypeOK

\* Every stage of the loop keeps the types.
LEMMA TypeNext == TypeOK /\ Numbered /\ [Next]_vars => TypeOK'
<1> SUFFICES ASSUME TypeOK, Numbered PROVE [Next]_vars => TypeOK'
  OBVIOUS
<1>0. SUFFICES ASSUME [Next]_vars PROVE TypeOK'
  OBVIOUS
<1>a. uops' = uops /\ Stream' = Stream /\ Seqs' = Seqs
  <2>1. uops' = uops
    BY <1>0 DEF Next, vars, uopVars, backendVars, TagStageCycles, RaiseTrap, AdvanceScb, RetireOne,
           RetireEnd, AdvanceExecute, AdvanceL1d, AdvanceLiq, FeedI2, I2Issue, I2Stay, I2End,
           Allocate, Bypass, NextCycle, Exited
  <2>2. QED
    BY <2>1 DEF Stream, Seqs
<1>b. \A s \in Seqs : s \in Nat
  BY StreamShape
<1>c. UopsTypeOK /\ LoopTypeOK /\ CommitTypeOK /\ StageTypeOK /\ LsuTypeOK
  BY DEF TypeOK
<1>d. cycle \in Nat /\ cycle + 1 \in Nat
  BY <1>c, SMTT(60) DEF LoopTypeOK
<1>e. restart_cycle \in Nat
  BY <1>d, WidthsAssumption, SMTT(60) DEF restart_cycle
<1> USE <1>a, <1>b, <1>c, <1>d
<1> USE DEF At, uopVars, backendVars, loopVars, commitVars, stageVars, i2Vars, loadVars,
            storeVars, lsidVars, lsuVars, stage_cycles, visible_cycles, miss_state
<1>1. CASE At("tag", "publish") /\ TagStageCycles
  <2>1. UopsTypeOK'
    BY <1>1 DEF UopsTypeOK, OptCycle, TagStageCycles
  <2>2. LoopTypeOK'
    BY <1>1 DEF LoopTypeOK, Steps, TagStageCycles
  <2>3. CommitTypeOK'
    BY <1>1 DEF CommitTypeOK, TagStageCycles
  <2>4. StageTypeOK'
    BY <1>1 DEF StageTypeOK, TagStageCycles
  <2>5. LsuTypeOK'
    BY <1>1 DEF LsuTypeOK, L1dKinds, Refill, TagStageCycles
  <2>6. QED
    BY <2>1, <2>2, <2>3, <2>4, <2>5 DEF TypeOK
<1>2. CASE At("publish", "publish") /\ \E s \in Seqs : RaiseTrap(s)
  <2>1. UopsTypeOK'
    BY <1>2 DEF UopsTypeOK, OptCycle, RaiseTrap
  <2>2. LoopTypeOK'
    BY <1>2 DEF LoopTypeOK, Steps, RaiseTrap
  <2>3. CommitTypeOK'
    BY <1>2, SMTT(60) DEF CommitTypeOK, RaiseTrap
  <2>4. StageTypeOK'
    BY <1>2 DEF StageTypeOK, RaiseTrap
  <2>5. LsuTypeOK'
    BY <1>2 DEF LsuTypeOK, L1dKinds, Refill, RaiseTrap
  <2>6. QED
    BY <2>1, <2>2, <2>3, <2>4, <2>5 DEF TypeOK
<1>3. CASE At("publish", "retire") /\ AdvanceScb
  <2>1. UopsTypeOK'
    BY <1>3 DEF UopsTypeOK, OptCycle, AdvanceScb
  <2>2. LoopTypeOK'
    BY <1>3 DEF LoopTypeOK, Steps, AdvanceScb
  <2>3. CommitTypeOK'
    BY <1>3 DEF CommitTypeOK, AdvanceScb
  <2>4. StageTypeOK'
    BY <1>3 DEF StageTypeOK, AdvanceScb
  <2>5. LsuTypeOK'
    <3>1. CASE UNCHANGED <<scb, l1d>>
      BY <1>3, <3>1 DEF LsuTypeOK, AdvanceScb, Refill
    <3>2. ASSUME NEW x \in scb, scb' = scb \ {x},
                 l1d' = [seq |-> x.seq, kind |-> "StoreDrain", ready_cycle |-> cycle + 1]
          PROVE  LsuTypeOK'
      <4>1. x.seq \in Seqs
        BY DEF LsuTypeOK
      <4>2. l1d' \in [seq : Seqs, kind : L1dKinds, ready_cycle : Nat]
        BY <3>2, <4>1 DEF L1dKinds
      <4>3. QED
        BY <1>3, <3>2, <4>2 DEF LsuTypeOK, AdvanceScb, Refill
    <3>3. QED
      BY <1>3, <3>1, <3>2 DEF AdvanceScb
  <2>6. QED
    BY <2>1, <2>2, <2>3, <2>4, <2>5 DEF TypeOK
<1>4. CASE At("retire", "retire") /\ RetireOne
  <2>0. rob # <<>> /\ Head(rob) \in Seqs /\ Tail(rob) \in Seq(Seqs)
    BY <1>4, SMTT(60) DEF CommitTypeOK, RetireOne, MayRetire
  <2>1. UopsTypeOK'
    BY <1>4 DEF UopsTypeOK, OptCycle, RetireOne, MayRetire, TrapOf
  <2>2. LoopTypeOK'
    BY <1>4 DEF LoopTypeOK, Steps, RetireOne, MayRetire, TrapOf
  <2>3. CommitTypeOK'
    <3>1. TrapOf(Head(rob)) \in TrapCauses \cup {None}
      BY DEF CommitTypeOK, TrapOf
    <3>2. [seq |-> Head(rob), cycle |-> cycle, trap |-> TrapOf(Head(rob))]
            \in [seq : Seqs, cycle : Nat, trap : TrapCauses \cup {None}]
      BY <2>0, <3>1
    <3>3. committed \in Seq([seq : Seqs, cycle : Nat, trap : TrapCauses \cup {None}])
      BY <1>c DEF CommitTypeOK
    <3>4. committed' = Append(committed, [seq |-> Head(rob), cycle |-> cycle,
                                          trap |-> TrapOf(Head(rob))])
      BY <1>4 DEF RetireOne
    <3>5. committed' \in Seq([seq : Seqs, cycle : Nat, trap : TrapCauses \cup {None}])
      BY <3>2, <3>3, <3>4, AppendKeepsType
    <3>6. QED
      BY <1>4, <2>0, <3>5, SMTT(60) DEF CommitTypeOK, RetireOne
  <2>4. StageTypeOK'
    BY <1>4 DEF StageTypeOK, RetireOne, MayRetire, TrapOf
  <2>5. LsuTypeOK'
    BY <1>4, <2>0, SMTT(60) DEF LsuTypeOK, L1dKinds, Refill, RetireOne
  <2>6. QED
    BY <2>1, <2>2, <2>3, <2>4, <2>5 DEF TypeOK
<1>5. CASE RetireEnd("execute")
  <2>1. UopsTypeOK'
    BY <1>5 DEF UopsTypeOK, OptCycle, RetireEnd
  <2>2. LoopTypeOK'
    BY <1>5 DEF LoopTypeOK, Steps, RetireEnd
  <2>3. CommitTypeOK'
    BY <1>5 DEF CommitTypeOK, RetireEnd
  <2>4. StageTypeOK'
    BY <1>5 DEF StageTypeOK, RetireEnd
  <2>5. LsuTypeOK'
    BY <1>5 DEF LsuTypeOK, L1dKinds, Refill, RetireEnd
  <2>6. QED
    BY <2>1, <2>2, <2>3, <2>4, <2>5 DEF TypeOK
<1>6. CASE At("execute", "l1d") /\ AdvanceExecute
  <2>1. UopsTypeOK'
    BY <1>6, <1>e DEF UopsTypeOK, OptCycle, AdvanceExecute, ResetMissed
  <2>2. LoopTypeOK'
    BY <1>6 DEF LoopTypeOK, Steps, AdvanceExecute, Missed, Hit, StayE4, StayE3, StayE2, Into, Left, Loads, ResetMissed,
           restart_cycle
  <2>3. CommitTypeOK'
    BY <1>6 DEF CommitTypeOK, AdvanceExecute, Missed, Hit, StayE4, StayE3, StayE2, Into, Left, Loads, ResetMissed,
           restart_cycle
  <2>4. StageTypeOK'
    BY <1>6 DEF StageTypeOK, AdvanceExecute, Missed, Hit, StayE4, StayE3, StayE2, Into, Left, Loads, ResetMissed,
           restart_cycle
  <2>5. LsuTypeOK'
    <3>1. Missed \subseteq Seqs /\ Hit \subseteq Seqs
      BY DEF StageTypeOK, Missed, Hit
    <3>2. l1d' \in [seq : Seqs, kind : L1dKinds, ready_cycle : Nat] \cup {None}
      BY <1>6, <3>1 DEF LsuTypeOK, AdvanceExecute, L1dKinds
    <3>3. [seq : Missed, refill_ready_cycle : {restart_cycle}] \subseteq Refill
      BY <1>e, <3>1 DEF Refill
    <3>4. liq' \subseteq Refill /\ mdb' \subseteq Refill /\ Refill' = Refill
      BY <1>6, <3>3 DEF LsuTypeOK, AdvanceExecute, Refill
    <3>5. QED
      BY <1>6, <3>2, <3>4 DEF LsuTypeOK, AdvanceExecute, L1dKinds
  <2>6. QED
    BY <2>1, <2>2, <2>3, <2>4, <2>5 DEF TypeOK
<1>7. CASE At("l1d", "liq") /\ AdvanceL1d
  <2>1. UopsTypeOK'
    BY <1>7 DEF UopsTypeOK, OptCycle, AdvanceL1d, L1dLoadHit, L1dStoreDrain, L1dWait, L1dReady
  <2>2. LoopTypeOK'
    BY <1>7 DEF LoopTypeOK, Steps, AdvanceL1d, L1dLoadHit, L1dStoreDrain, L1dWait, L1dReady
  <2>3. CommitTypeOK'
    BY <1>7 DEF CommitTypeOK, AdvanceL1d, L1dLoadHit, L1dStoreDrain, L1dWait, L1dReady
  <2>4. StageTypeOK'
    BY <1>7 DEF StageTypeOK, LsuTypeOK, AdvanceL1d, L1dLoadHit, L1dStoreDrain, L1dWait, L1dReady
  <2>5. LsuTypeOK'
    BY <1>7, SMTT(60) DEF LsuTypeOK, L1dKinds, Refill, AdvanceL1d, L1dLoadHit, L1dStoreDrain, L1dWait, L1dReady
  <2>6. QED
    BY <2>1, <2>2, <2>3, <2>4, <2>5 DEF TypeOK
<1>8. CASE At("liq", "feed") /\ AdvanceLiq
  <2>1. UopsTypeOK'
    BY <1>8 DEF UopsTypeOK, OptCycle, AdvanceLiq, LiqRestart, Refillable, Entry
  <2>2. LoopTypeOK'
    BY <1>8 DEF LoopTypeOK, Steps, AdvanceLiq, LiqRestart, Refillable, Entry
  <2>3. CommitTypeOK'
    BY <1>8 DEF CommitTypeOK, AdvanceLiq, LiqRestart, Refillable, Entry
  <2>4. StageTypeOK'
    <3>1. \A x \in Refillable : x.seq \in Seqs
      BY DEF Refillable, LsuTypeOK, Refill
    <3>2. QED
      BY <1>8, <3>1 DEF StageTypeOK, AdvanceLiq, LiqRestart
  <2>5. LsuTypeOK'
    BY <1>8, SMTT(60) DEF LsuTypeOK, L1dKinds, Refill, AdvanceLiq, LiqRestart, Refillable, Entry
  <2>6. QED
    BY <2>1, <2>2, <2>3, <2>4, <2>5 DEF TypeOK
<1>9. CASE At("feed", "feed") /\ \E s \in Seqs : FeedI2(s)
  <2>1. UopsTypeOK'
    BY <1>9 DEF UopsTypeOK, OptCycle, FeedI2
  <2>2. LoopTypeOK'
    BY <1>9 DEF LoopTypeOK, Steps, FeedI2
  <2>3. CommitTypeOK'
    BY <1>9 DEF CommitTypeOK, FeedI2
  <2>4. StageTypeOK'
    BY <1>9, SMTT(60) DEF StageTypeOK, FeedI2
  <2>5. LsuTypeOK'
    BY <1>9 DEF LsuTypeOK, L1dKinds, Refill, FeedI2
  <2>6. QED
    BY <2>1, <2>2, <2>3, <2>4, <2>5 DEF TypeOK
<1>10. CASE At("feed", "i2") /\ UNCHANGED <<backendVars, uopVars>>
  BY <1>10 DEF TypeOK, UopsTypeOK, OptCycle, LoopTypeOK, Steps, CommitTypeOK, StageTypeOK, LsuTypeOK, L1dKinds, Refill
<1>11. CASE At("i2", "i2") /\ I2Issue
  <2>1. UopsTypeOK'
    BY <1>11 DEF UopsTypeOK, OptCycle, I2Issue
  <2>2. LoopTypeOK'
    BY <1>11 DEF LoopTypeOK, Steps, I2Issue
  <2>3. CommitTypeOK'
    BY <1>11 DEF CommitTypeOK, I2Issue
  <2>4. StageTypeOK'
    BY <1>11, SMTT(60) DEF StageTypeOK, I2Issue
  <2>5. LsuTypeOK'
    <3>1. Head(i2) \in Seqs
      BY <1>11, SMTT(60) DEF StageTypeOK, I2Issue
    <3>2. QED
      BY <1>11, <3>1, SMTT(60) DEF LsuTypeOK, L1dKinds, Refill, I2Issue
  <2>6. QED
    BY <2>1, <2>2, <2>3, <2>4, <2>5 DEF TypeOK
<1>12. CASE At("i2", "i2") /\ I2Stay
  <2>1. UopsTypeOK'
    BY <1>12 DEF UopsTypeOK, OptCycle, I2Stay
  <2>2. LoopTypeOK'
    BY <1>12 DEF LoopTypeOK, Steps, I2Stay
  <2>3. CommitTypeOK'
    BY <1>12 DEF CommitTypeOK, I2Stay
  <2>4. StageTypeOK'
    BY <1>12, SMTT(60) DEF StageTypeOK, I2Stay
  <2>5. LsuTypeOK'
    BY <1>12 DEF LsuTypeOK, L1dKinds, Refill, I2Stay
  <2>6. QED
    BY <2>1, <2>2, <2>3, <2>4, <2>5 DEF TypeOK
<1>13. CASE At("i2", "dispatch") /\ I2End
  <2>1. UopsTypeOK'
    BY <1>13 DEF UopsTypeOK, OptCycle, I2End
  <2>2. LoopTypeOK'
    BY <1>13 DEF LoopTypeOK, Steps, I2End
  <2>3. CommitTypeOK'
    BY <1>13 DEF CommitTypeOK, I2End
  <2>4. StageTypeOK'
    BY <1>13 DEF StageTypeOK, I2End
  <2>5. LsuTypeOK'
    BY <1>13 DEF LsuTypeOK, L1dKinds, Refill, I2End
  <2>6. QED
    BY <2>1, <2>2, <2>3, <2>4, <2>5 DEF TypeOK
<1>14. CASE At("dispatch", "dispatch") /\ Allocate
  <2>1. UopsTypeOK'
    BY <1>14 DEF UopsTypeOK, OptCycle, Allocate
  <2>2. LoopTypeOK'
    BY <1>14 DEF LoopTypeOK, Steps, Allocate
  <2>3. CommitTypeOK'
    BY <1>14, SMTT(60) DEF CommitTypeOK, Allocate
  <2>4. StageTypeOK'
    BY <1>14 DEF StageTypeOK, Allocate
  <2>5. LsuTypeOK'
    BY <1>14 DEF LsuTypeOK, L1dKinds, Refill, Allocate
  <2>6. QED
    BY <2>1, <2>2, <2>3, <2>4, <2>5 DEF TypeOK
<1>15. CASE At("dispatch", "dispatch") /\ \E s \in Seqs : Bypass(s)
  <2>1. UopsTypeOK'
    BY <1>15, SMTT(60) DEF UopsTypeOK, OptCycle, Bypass, GetOrInsert
  <2>2. LoopTypeOK'
    BY <1>15 DEF LoopTypeOK, Steps, Bypass, GetOrInsert
  <2>3. CommitTypeOK'
    BY <1>15 DEF CommitTypeOK, Bypass, GetOrInsert
  <2>4. StageTypeOK'
    BY <1>15 DEF StageTypeOK, Bypass, GetOrInsert
  <2>5. LsuTypeOK'
    BY <1>15 DEF LsuTypeOK, L1dKinds, Refill, Bypass, GetOrInsert
  <2>6. QED
    BY <2>1, <2>2, <2>3, <2>4, <2>5 DEF TypeOK
<1>16. CASE NextCycle
  <2>1. UopsTypeOK'
    BY <1>16 DEF UopsTypeOK, OptCycle, NextCycle
  <2>2. LoopTypeOK'
    BY <1>16 DEF LoopTypeOK, Steps, NextCycle
  <2>3. CommitTypeOK'
    BY <1>16 DEF CommitTypeOK, NextCycle
  <2>4. StageTypeOK'
    BY <1>16 DEF StageTypeOK, NextCycle
  <2>5. LsuTypeOK'
    BY <1>16 DEF LsuTypeOK, L1dKinds, Refill, NextCycle
  <2>6. QED
    BY <2>1, <2>2, <2>3, <2>4, <2>5 DEF TypeOK
<1>17. CASE Exited \/ UNCHANGED vars
  BY <1>17 DEF vars, TypeOK, UopsTypeOK, OptCycle, LoopTypeOK, Steps, CommitTypeOK, StageTypeOK, LsuTypeOK, L1dKinds, Refill, Exited
<1> HIDE DEF At, uopVars, backendVars, loopVars, commitVars, stageVars, i2Vars, loadVars,
             storeVars, lsidVars, lsuVars, stage_cycles, visible_cycles, miss_state
<1>18. QED
  BY <1>1, <1>2, <1>3, <1>4, <1>5, <1>6, <1>7, <1>8, <1>9, <1>10, <1>11, <1>12, <1>13,
     <1>14, <1>15, <1>16, <1>17, <1>0 DEF Next

-----------------------------------------------------------------------------
(* Commits happen in stream order.                                         *)

\* Every stage keeps the commits followed by the ROB a prefix of the
\* stream: only advance_frontend extends the ROB, and retire_ready moves its head.
LEMMA CommitStep == TypeOK /\ Numbered /\ CommitInOrder /\ [Next]_vars => CommitInOrder'
<1> SUFFICES ASSUME TypeOK, Numbered, CommitInOrder, [Next]_vars PROVE CommitInOrder'
  OBVIOUS
<1>1. /\ rob \in Seq(Seqs)
      /\ committed \in Seq([seq : Seqs, cycle : Nat, trap : TrapCauses \cup {None}])
  BY DEF TypeOK, CommitTypeOK
<1>2. CASE RetireOne
  <2> DEFINE entry == [seq |-> Head(rob), cycle |-> cycle, trap |-> TrapOf(Head(rob))]
  <2>0. /\ rob # <<>> /\ rob' = Tail(rob)
        /\ committed' = Append(committed, entry)
    BY <1>2 DEF RetireOne, MayRetire
  <2>a. entry.seq = Head(rob)
    OBVIOUS
  <2> HIDE DEF entry
  <2>1. /\ rob # <<>> /\ rob' = Tail(rob)
        /\ \E r : r.seq = Head(rob) /\ committed' = Append(committed, r)
    BY <2>0, <2>a
  <2>2. Len(rob) > 0 /\ Head(rob) = rob[1] /\ Head(rob) = Len(committed)
    BY <1>1, <2>1, SMTT(60) DEF CommitInOrder
  <2>3. Len(rob') = Len(rob) - 1 /\ \A k \in 1 .. Len(rob') : rob'[k] = rob[k + 1]
    BY <1>1, <2>1, <2>2, SMTT(60)
  <2>4. PICK r : r.seq = Len(committed) /\ committed' = Append(committed, r)
    BY <2>1, <2>2
  <2>5. /\ Len(committed') = Len(committed) + 1
        /\ \A k \in 1 .. Len(committed) : committed'[k] = committed[k]
        /\ committed'[Len(committed) + 1].seq = Len(committed)
    <3> DEFINE T == [seq : Seqs, cycle : Nat, trap : TrapCauses \cup {None}] \cup {r}
    <3>1. committed \in Seq(T) /\ r \in T
      BY <1>1, WiderSeq
    <3> HIDE DEF T
    <3>2. QED
      BY <2>4, <3>1, SMTT(60)
  <2>6. Len(committed) \in Nat /\ Len(rob) \in Nat
    BY <1>1, SMTT(60)
  <2>7. \A k \in 1 .. Len(rob') : rob'[k] = Len(committed') + k - 1
    <3>1. \A k \in 1 .. Len(rob') : k \in Int /\ k + 1 \in 1 .. Len(rob)
      BY <2>3, <2>6, SMTT(60)
    <3>2. \A k \in 1 .. Len(rob') : rob'[k] = Len(committed) + (k + 1) - 1
      BY <2>3, <3>1 DEF CommitInOrder
    <3>3. \A k \in Int : Len(committed) + (k + 1) - 1 = Len(committed') + k - 1
      BY <2>5, <2>6, SMTT(60)
    <3> QED
      BY <3>1, <3>2, <3>3
  <2>8. \A k \in 1 .. Len(committed') : committed'[k].seq = k - 1
    <3>1. \A k \in 1 .. Len(committed) : committed'[k].seq = k - 1
      BY <2>5 DEF CommitInOrder
    <3>2. \A k \in 1 .. Len(committed') : k \in 1 .. Len(committed) \/ k = Len(committed) + 1
      BY <2>5, <2>6, SMTT(60)
    <3>3. (Len(committed) + 1) - 1 = Len(committed)
      BY <2>6, SMTT(60)
    <3>4. QED
      BY <2>5, <3>1, <3>2, <3>3
  <2>9. QED
    BY <2>7, <2>8 DEF CommitInOrder
<1>3. CASE Allocate
  <2>1. /\ rob' = Append(rob, Len(committed) + Len(rob))
        /\ committed' = committed
    BY <1>3 DEF Allocate
  <2>2. /\ Len(rob') = Len(rob) + 1
        /\ \A k \in 1 .. Len(rob) : rob'[k] = rob[k]
        /\ rob'[Len(rob) + 1] = Len(committed) + Len(rob)
    <3> DEFINE r == Len(committed) + Len(rob)
               T == Seqs \cup {r}
    <3>1. rob \in Seq(T) /\ r \in T /\ rob' = Append(rob, r)
      BY <1>1, <2>1, WiderSeq
    <3> HIDE DEF r, T
    <3>2. Len(rob') = Len(rob) + 1 /\ (\A k \in 1 .. Len(rob) : rob'[k] = rob[k]) /\ rob'[Len(rob) + 1] = r
      BY <3>1, SMTT(60)
    <3>3. QED
      BY <3>2 DEF r
  <2>3. Len(committed) \in Nat /\ Len(rob) \in Nat
    BY <1>1, SMTT(60)
  <2>4. ASSUME NEW k \in 1 .. Len(rob')
        PROVE  rob'[k] = Len(committed') + k - 1
    <3>1. k \in 1 .. Len(rob) \/ k = Len(rob) + 1
      BY <2>2, <2>3, SMTT(60)
    <3>2. CASE k \in 1 .. Len(rob)
      BY <2>1, <2>2, <3>2 DEF CommitInOrder
    <3>3. CASE k = Len(rob) + 1
      BY <2>1, <2>2, <2>3, <3>3, SMTT(60)
    <3>4. QED
      BY <3>1, <3>2, <3>3
  <2>5. QED
    BY <2>1, <2>4 DEF CommitInOrder
<1>4. CASE UNCHANGED <<rob, committed>>
  BY <1>4 DEF CommitInOrder
<1>5. QED
  BY <1>2, <1>3, <1>4 DEF Next, vars, backendVars, commitVars, TagStageCycles, RaiseTrap,
     AdvanceScb, RetireEnd, AdvanceExecute, AdvanceL1d, AdvanceLiq, FeedI2, I2Issue, I2Stay,
     I2End, Bypass, NextCycle, Exited

-----------------------------------------------------------------------------
(* Memory accesses.                                                        *)


lsid(s) == uops[s].load_store_id

PipeKinds ==
  /\ \A s \in e2 \cup e3 \cup e4 : uops[s].is_load
  /\ \A x \in liq : uops[x.seq].is_load
  /\ \A x \in scb : uops[x.seq].is_store /\ x.seq < Len(committed)
  /\ l1d # None /\ l1d.kind = "LoadHit" => uops[l1d.seq].is_load
  /\ l1d # None /\ l1d.kind = "StoreDrain" => uops[l1d.seq].is_store /\ l1d.seq < Len(committed)

InBack(s) ==
  \/ s \in e1 \cup e2 \cup e3 \cup e4 \cup w1 \cup w2
  \/ done_cycle[s] # None
  \/ \E x \in liq : x.seq = s
  \/ \E x \in scb : x.seq = s
  \/ l1d # None /\ l1d.seq = s

\* Everything past I2 was issued: its load_store_id is below the pointer.
IssuePtr ==
  /\ lsid_cache_ptr <= lsid_issue_ptr
  /\ \A s \in Seqs : Mem(s) /\ InBack(s) => lsid(s) < lsid_issue_ptr

CachePtr ==
  /\ l1d # None => lsid(l1d.seq) = lsid_cache_ptr
  /\ \A s \in e1 \cup e2 \cup e3 \cup e4 : uops[s].is_load => lsid(s) >= lsid_cache_ptr
  /\ \A x \in liq : lsid(x.seq) >= lsid_cache_ptr
  /\ \A s \in Seqs : uops[s].is_load /\ (s \in w1 \cup w2 \/ done_cycle[s] # None)
                       => lsid(s) < lsid_cache_ptr

LoadsApart ==
  /\ \A s \in e1 : uops[s].is_load => s \notin e2 \cup e3 \cup e4
  /\ \A s \in e2 : s \notin e3 \cup e4
  /\ \A s \in e3 : s \notin e4
  /\ \A x \in liq : x.seq \notin e1 \cup e2 \cup e3 \cup e4
  /\ \A x, y \in liq : x.seq = y.seq => x = y
  /\ l1d # None /\ l1d.kind = "LoadHit" =>
       /\ l1d.seq \notin e1 \cup e2 \cup e3 \cup e4
       /\ \A x \in liq : x.seq # l1d.seq

StoresApart ==
  /\ \A x, y \in scb : x.seq = y.seq => x = y
  /\ l1d # None /\ l1d.kind = "StoreDrain" => \A x \in scb : x.seq # l1d.seq

W2Done == step \in {"publish", "retire", "execute"} => \A s \in w2 : done_cycle[s] # None

\* A store that has left the SCB and the L1D.
StorePerformed(s) ==
  /\ s < Len(committed)
  /\ \A x \in scb : x.seq # s
  /\ ~(l1d # None /\ l1d.kind = "StoreDrain" /\ l1d.seq = s)

PerformedBelow ==
  \A s \in Seqs : lsid(s) < lsid_cache_ptr =>
    /\ uops[s].is_load => s \in w1 \cup w2 \/ done_cycle[s] # None
    /\ uops[s].is_store => StorePerformed(s)

StoresBelow ==
  \A s \in Seqs : uops[s].is_store /\ StorePerformed(s) => lsid(s) < lsid_cache_ptr

MemInv ==
  /\ PipeKinds /\ IssuePtr /\ CachePtr /\ LoadsApart /\ StoresApart
  /\ W2Done /\ PerformedBelow /\ StoresBelow
-----------------------------------------------------------------------------
memVars == <<uops, done_cycle, committed, stageVars, l1d, scb, liq, lsid_issue_ptr, lsid_cache_ptr>>

\* The two LSID pointers and the number of commits are naturals.
LEMMA Pointers ==
  ASSUME TypeOK, Numbered
  PROVE  lsid_cache_ptr \in Nat /\ lsid_issue_ptr \in Nat /\ Len(committed) \in Nat
<1>1. lsid_cache_ptr \in Nat /\ lsid_issue_ptr \in Nat
  BY DEF TypeOK, LsuTypeOK
<1>2. Len(committed) \in Nat
  BY SMTT(60) DEF TypeOK, CommitTypeOK
<1>3. QED
  BY <1>1, <1>2

\* So are sequence numbers and load_store_ids.
LEMMA UopNumbers ==
  ASSUME TypeOK, Numbered
  PROVE  \A s \in Seqs : lsid(s) \in Nat /\ s \in Nat
BY UopFields, StreamShape DEF lsid

\* LsidInjective, in the form the steps below use.
LEMMA LsidUnique ==
  ASSUME TypeOK, Numbered, NEW s \in Seqs, NEW t \in Seqs, Mem(s), Mem(t), s # t
  PROVE  lsid(s) # lsid(t)
BY LsidInjective DEF lsid

\* What the proof of a step needs to know of the uops.
LEMMA UopFacts ==
  ASSUME TypeOK, Numbered
  PROVE  /\ \A s \in Seqs : /\ uops[s].is_load \in BOOLEAN /\ uops[s].is_store \in BOOLEAN
                            /\ ~(uops[s].is_load /\ uops[s].is_store)
                            /\ lsid(s) \in Nat /\ s \in Nat
                            /\ Mem(s) => ~uops[s].bypass_d2
         /\ \A s, t \in Seqs : Mem(s) /\ Mem(t) /\ lsid(s) = lsid(t) => s = t
         /\ lsid_cache_ptr \in Nat /\ lsid_issue_ptr \in Nat /\ Len(committed) \in Nat
         /\ e1 \subseteq Seqs /\ e2 \subseteq Seqs /\ e3 \subseteq Seqs /\ e4 \subseteq Seqs
         /\ w1 \subseteq Seqs /\ w2 \subseteq Seqs
         /\ \A x \in liq : x.seq \in Seqs
         /\ \A x \in scb : x.seq \in Seqs
         /\ l1d # None => l1d.seq \in Seqs /\ l1d.kind \in {"LoadHit", "StoreDrain"}
         /\ done_cycle \in [Seqs -> OptCycle]
<1>1. \A s \in Seqs : /\ uops[s].is_load \in BOOLEAN /\ uops[s].is_store \in BOOLEAN
                      /\ ~(uops[s].is_load /\ uops[s].is_store)
                      /\ lsid(s) \in Nat /\ s \in Nat
                      /\ Mem(s) => ~uops[s].bypass_d2
  BY UopFields, StreamShape DEF lsid
<1>2. \A s, t \in Seqs : Mem(s) /\ Mem(t) /\ lsid(s) = lsid(t) => s = t
  BY LsidInjective DEF lsid
<1>3. /\ lsid_cache_ptr \in Nat /\ lsid_issue_ptr \in Nat
      /\ \A x \in liq : x.seq \in Seqs
      /\ \A x \in scb : x.seq \in Seqs
      /\ l1d # None => l1d.seq \in Seqs /\ l1d.kind \in {"LoadHit", "StoreDrain"}
  BY DEF TypeOK, LsuTypeOK, L1dKinds, Refill
<1>4. /\ e1 \subseteq Seqs /\ e2 \subseteq Seqs /\ e3 \subseteq Seqs /\ e4 \subseteq Seqs
      /\ w1 \subseteq Seqs /\ w2 \subseteq Seqs
      /\ done_cycle \in [Seqs -> OptCycle]
  BY DEF TypeOK, StageTypeOK, UopsTypeOK
<1>5. Len(committed) \in Nat
  BY SMTT(60) DEF TypeOK, CommitTypeOK
<1>6. QED
  BY <1>1, <1>2, <1>3, <1>4, <1>5

\* MemInv holds of the empty pipeline CycleEngine::run starts with.
LEMMA MemInit == Init /\ Numbered => MemInv
<1> SUFFICES ASSUME Init, Numbered PROVE MemInv
  OBVIOUS
<1>1. TypeOK
  BY TypeInit
<1>2. \A s \in Seqs : lsid(s) \in Nat /\ s \in Nat
  BY <1>1, UopFacts
<1>3. QED
  BY <1>2, SMTT(60) DEF Init, BackendInit, UopsInit, MemInv, PipeKinds, InBack, IssuePtr, CachePtr,
         LoadsApart, StoresApart, W2Done, PerformedBelow, StoresBelow, StorePerformed

\* A stage that leaves the memory pipeline alone keeps MemInv.
LEMMA MemUnchanged ==
  ASSUME MemInv, UNCHANGED memVars, W2Done'
  PROVE  MemInv'
<1> USE DEF memVars, stageVars
<1>1. PipeKinds' /\ IssuePtr' /\ CachePtr'
  BY DEF MemInv, PipeKinds, IssuePtr, InBack, CachePtr, lsid, Mem, Seqs
<1>2. LoadsApart' /\ StoresApart'
  BY DEF MemInv, LoadsApart, StoresApart
<1>3. PerformedBelow' /\ StoresBelow'
  BY DEF MemInv, PerformedBelow, StoresBelow, StorePerformed, lsid, Seqs
<1>4. QED
  BY <1>1, <1>2, <1>3 DEF MemInv

\* tag_stage_cycles, which completes the uops in W2, keeps MemInv.
LEMMA MemTag ==
  ASSUME TypeOK, Numbered, MemInv, At("tag", "publish"), TagStageCycles
  PROVE  MemInv'
<1>0. /\ UNCHANGED <<uops, committed, stageVars, l1d, scb, liq, lsid_issue_ptr, lsid_cache_ptr>>
      /\ \A s \in Seqs : done_cycle'[s] # None => done_cycle[s] # None \/ s \in w2
      /\ \A s \in Seqs : done_cycle[s] # None \/ s \in w2 => done_cycle'[s] # None
      /\ step' = "publish"
  <2>1. cycle \in Nat /\ cycle # None
    BY NoneAssumption, SMTT(60) DEF TypeOK, LoopTypeOK
  <2>2. QED
    BY <2>1 DEF At, TagStageCycles, FirstIn, backendVars, commitVars, lsuVars, loadVars, storeVars,
           lsidVars
<1>1. PipeKinds' /\ LoadsApart' /\ StoresApart'
  BY <1>0 DEF MemInv, PipeKinds, LoadsApart, StoresApart, stageVars
<1>2. W2Done'
  BY <1>0, UopFacts DEF W2Done, stageVars
<1>3. IssuePtr' /\ CachePtr'
  BY <1>0 DEF MemInv, IssuePtr, InBack, CachePtr, lsid, Mem, Seqs, stageVars
<1>4. PerformedBelow' /\ StoresBelow'
  BY <1>0 DEF MemInv, PerformedBelow, StoresBelow, StorePerformed, lsid, Seqs, stageVars
<1>5. QED
  BY <1>1, <1>2, <1>3, <1>4 DEF MemInv

\* advance_scb, which moves a committed store into the L1D, keeps MemInv.
LEMMA MemScb ==
  ASSUME TypeOK, Numbered, MemInv, At("publish", "retire"), AdvanceScb
  PROVE  MemInv'
<1>0. /\ UNCHANGED <<uops, done_cycle, committed, stageVars, liq, lsid_issue_ptr, lsid_cache_ptr>>
      /\ step = "publish" /\ step' = "retire"
  BY DEF At, AdvanceScb, uopVars, stage_cycles, commitVars, lsidVars
<1>1. W2Done'
  BY <1>0 DEF MemInv, W2Done, stageVars
<1>2. CASE UNCHANGED <<scb, l1d>>
  BY <1>0, <1>1, <1>2, MemUnchanged DEF memVars
<1>3. ASSUME NEW x \in scb, l1d = None, lsid_cache_ready(x.seq), scb' = scb \ {x},
             l1d' = [seq |-> x.seq, kind |-> "StoreDrain", ready_cycle |-> cycle + 1]
      PROVE  MemInv'
  <2>1. /\ l1d' # None /\ l1d'.seq = x.seq /\ l1d'.kind = "StoreDrain"
        /\ x.seq \in Seqs /\ uops[x.seq].is_store /\ x.seq < Len(committed)
        /\ lsid(x.seq) = lsid_cache_ptr
        /\ \A y \in scb' : y.seq # x.seq /\ y \in scb
    <3>1. x.seq \in Seqs /\ uops[x.seq].is_store /\ x.seq < Len(committed)
      BY UopFacts DEF MemInv, PipeKinds
    <3>2. lsid(x.seq) = lsid_cache_ptr
      BY <1>3, <3>1 DEF lsid_cache_ready, Mem, lsid
    <3>3. \A y \in scb' : y.seq # x.seq /\ y \in scb
      BY <1>3 DEF MemInv, StoresApart
    <3>4. l1d' \in [seq : Nat, kind : {"LoadHit", "StoreDrain"}, ready_cycle : Nat]
      BY <1>3, <3>1, StreamShape, SMTT(60) DEF TypeOK, LoopTypeOK
    <3>5. QED
      BY <1>3, <3>1, <3>2, <3>3, <3>4, NoneNotL1d
  <2>2. PipeKinds' /\ LoadsApart' /\ StoresApart'
    BY <1>0, <1>3, <2>1 DEF MemInv, PipeKinds, LoadsApart, StoresApart, stageVars
  <2>3. IssuePtr'
    BY <1>0, <1>3, <2>1 DEF MemInv, IssuePtr, InBack, lsid, Mem, Seqs, stageVars
  <2>4. CachePtr'
    BY <1>0, <2>1 DEF MemInv, CachePtr, lsid, Seqs, stageVars
  <2>5. \A s : StorePerformed(s)' <=> StorePerformed(s)
    BY <1>0, <1>3, <2>1 DEF StorePerformed
  <2>6. PerformedBelow' /\ StoresBelow'
    BY <1>0, <2>5 DEF MemInv, PerformedBelow, StoresBelow, lsid, Seqs, stageVars
  <2>7. QED
    BY <1>1, <2>2, <2>3, <2>4, <2>6 DEF MemInv
<1>4. QED
  BY <1>2, <1>3 DEF AdvanceScb, can_accept_l1d

\* A commit by retire_ready, which hands a store to the SCB, keeps MemInv.
LEMMA MemRetire ==
  ASSUME TypeOK, Numbered, MemInv, CommitInOrder, At("retire", "retire"), RetireOne
  PROVE  MemInv'
<1>0. /\ UNCHANGED <<uops, done_cycle, stageVars, l1d, liq, lsid_issue_ptr, lsid_cache_ptr>>
      /\ step = "retire" /\ step' = "retire"
  BY DEF At, RetireOne, uopVars, stage_cycles, loadVars, lsidVars
<1>1. /\ Head(rob) = Len(committed) /\ Head(rob) \in Seqs
      /\ done_cycle[Head(rob)] # None
      /\ Len(committed') = Len(committed) + 1
  <2>1. rob \in Seq(Seqs) /\ rob # <<>>
    BY DEF RetireOne, MayRetire, TypeOK, CommitTypeOK
  <2>2. Head(rob) = rob[1] /\ Head(rob) \in Seqs /\ Len(rob) > 0
    BY <2>1, SMTT(60)
  <2>3. committed \in Seq([seq : Seqs, cycle : Nat, trap : TrapCauses \cup {None}])
    BY DEF TypeOK, CommitTypeOK
  <2>4. committed' \in Seq([seq : Seqs, cycle : Nat, trap : TrapCauses \cup {None}])
    BY TypeNext, <1>0 DEF TypeOK, CommitTypeOK, Next, Seqs
  <2>5. Len(committed') = Len(committed) + 1
    BY <2>3, SMTT(60) DEF RetireOne
  <2>6. Head(rob) = Len(committed)
    BY <2>1, <2>2, <2>3, SMTT(60) DEF CommitInOrder
  <2>7. QED
    BY <2>2, <2>5, <2>6 DEF RetireOne, MayRetire
<1> DEFINE h == Len(committed)
<1>2. /\ ~uops[h].is_store => scb' = scb
      /\ uops[h].is_store => scb' = scb \cup {[seq |-> h, enqueue_cycle |-> cycle]}
  BY <1>1 DEF RetireOne, storeVars
<1>3. PipeKinds'
  BY <1>0, <1>1, <1>2, UopFacts, SMTT(60) DEF MemInv, PipeKinds, stageVars
<1>4. IssuePtr'
  BY <1>0, <1>1, <1>2, SMTT(60) DEF MemInv, IssuePtr, InBack, lsid, Mem, Seqs, stageVars
<1>5. CachePtr' /\ LoadsApart' /\ W2Done'
  BY <1>0 DEF MemInv, CachePtr, LoadsApart, W2Done, lsid, Seqs, stageVars
<1>6. StoresApart'
  BY <1>0, <1>1, <1>2, UopFacts, SMTT(60) DEF MemInv, PipeKinds, StoresApart
<1>7. \A s \in Seqs : uops[s].is_store => (StorePerformed(s)' <=> StorePerformed(s))
  <2> SUFFICES ASSUME NEW s \in Seqs, uops[s].is_store
               PROVE  StorePerformed(s)' <=> StorePerformed(s)
    OBVIOUS
  <2>1. s \in Nat /\ h \in Nat /\ Len(committed') = h + 1
    BY <1>1, UopFacts
  <2>2. CASE s = h
    <3>1. \E x \in scb' : x.seq = s
      <4>1. [seq |-> h, enqueue_cycle |-> cycle] \in scb'
        BY <1>2, <2>2
      <4>2. QED
        BY <4>1, <2>2
    <3>2. QED
      BY <2>1, <2>2, <3>1, SMTT(60) DEF StorePerformed
  <2>3. CASE s # h
    <3>1. s < Len(committed') <=> s < Len(committed)
      BY <2>1, <2>3, SMTT(60)
    <3>2. (\A x \in scb' : x.seq # s) <=> (\A x \in scb : x.seq # s)
      BY <1>2, <2>3, UopFacts, SMTT(60)
    <3>3. QED
      BY <1>0, <3>1, <3>2 DEF StorePerformed
  <2>4. QED
    BY <2>2, <2>3
<1>8. PerformedBelow' /\ StoresBelow'
  BY <1>0, <1>7 DEF MemInv, PerformedBelow, StoresBelow, lsid, Seqs, stageVars
<1>9. QED
  BY <1>3, <1>4, <1>5, <1>6, <1>8 DEF MemInv

\* advance_execute, where a load hits the L1D or joins the LIQ, keeps MemInv.
LEMMA MemExecute ==
  ASSUME TypeOK, Numbered, MemInv, At("execute", "l1d"), AdvanceExecute
  PROVE  MemInv'
<1>0. /\ UNCHANGED <<uops, committed, scb, lsid_issue_ptr, lsid_cache_ptr>>
      /\ step = "execute" /\ step' = "l1d"
  BY DEF At, AdvanceExecute, commitVars, storeVars, lsidVars
<1>1. /\ Missed \subseteq e4 /\ Hit \subseteq e4 /\ Missed \cap Hit = {}
      /\ \A s \in Hit : l1d = None /\ lsid(s) = lsid_cache_ptr
  BY DEF Missed, Hit, can_accept_l1d, lsid_cache_ready, lsid, Mem, MemInv, PipeKinds
<1>2. /\ w2' = w1 /\ w1' = e1 \ Loads(e1)
      /\ StayE4 = e4 \ (Missed \cup Hit)
      /\ \/ StayE4 = {} /\ e4' = e3 /\ StayE3 = {}
         \/ StayE4 # {} /\ e4' = StayE4 /\ StayE3 = e3
      /\ \/ StayE3 = {} /\ e3' = e2 /\ StayE2 = {}
         \/ StayE3 # {} /\ e3' = StayE3 /\ StayE2 = e2
      /\ \/ StayE2 = {} /\ e2' = Loads(e1) /\ e1' = {}
         \/ StayE2 # {} /\ e2' = StayE2 /\ e1' = Loads(e1)
  BY DEF AdvanceExecute, Into, Left, StayE4, StayE3, StayE2
<1>3. /\ \A x \in liq' : x \in liq \/ x.seq \in Missed
      /\ \A x \in liq' : x \in liq \/ x = [seq |-> x.seq, refill_ready_cycle |-> restart_cycle]
  <2> DEFINE R == [seq : Missed, refill_ready_cycle : {restart_cycle}]
  <2>2. liq' = liq \cup R
    BY DEF AdvanceExecute
  <2>3. \A x \in R :
          /\ x.seq \in Missed /\ x.refill_ready_cycle = restart_cycle
          /\ x = [seq |-> x.seq, refill_ready_cycle |-> restart_cycle]
    BY RefillEntry
  <2> HIDE DEF R
  <2>4. QED
    BY <2>2, <2>3
<1>4. \/ l1d' = l1d /\ Hit = {}
      \/ l1d' # None /\ l1d'.kind = "LoadHit" /\ l1d'.seq \in Hit
  <2>1. CASE Hit = {}
    BY <2>1 DEF AdvanceExecute
  <2>2. CASE Hit # {}
    <3>1. PICK s \in Hit : l1d' = [seq |-> s, kind |-> "LoadHit", ready_cycle |-> cycle + 1]
      BY <2>2 DEF AdvanceExecute
    <3>2. l1d' \in [seq : Nat, kind : {"LoadHit", "StoreDrain"}, ready_cycle : Nat]
      BY <3>1, <1>1, UopFacts, SMTT(60) DEF TypeOK, LoopTypeOK
    <3>3. QED
      BY <3>1, <3>2, NoneNotL1d
  <2>3. QED
    BY <2>1, <2>2
<1>5. \A s \in Seqs : /\ s \in Missed => done_cycle'[s] = None
                      /\ s \notin Missed => done_cycle'[s] = done_cycle[s]
  BY DEF AdvanceExecute, ResetMissed
<1>6. PipeKinds'
  BY <1>0, <1>1, <1>2, <1>3, <1>4 DEF MemInv, PipeKinds, Loads
<1>7. IssuePtr'
  <2>1. ASSUME NEW s \in Seqs, InBack(s)' PROVE InBack(s)
    BY <1>0, <1>1, <1>2, <1>3, <1>4, <1>5, <2>1 DEF InBack, Loads
  <2>2. QED
    BY <1>0, <2>1 DEF MemInv, IssuePtr, lsid, Mem, Seqs
<1>8. CachePtr'
  <2>1. /\ l1d' # None => lsid(l1d'.seq) = lsid_cache_ptr
        /\ \A x \in liq' : lsid(x.seq) >= lsid_cache_ptr
    BY <1>1, <1>3, <1>4 DEF MemInv, CachePtr, PipeKinds
  <2>2. \A s \in e1' \cup e2' \cup e3' \cup e4' : uops[s].is_load => lsid(s) >= lsid_cache_ptr
    BY <1>2 DEF MemInv, CachePtr, Loads
  <2>3. \A s \in Seqs : uops[s].is_load /\ (s \in w1' \cup w2' \/ done_cycle'[s] # None)
                          => lsid(s) < lsid_cache_ptr
    BY <1>2, <1>5 DEF MemInv, CachePtr, Loads
  <2>4. QED
    BY <1>0, <2>1, <2>2, <2>3 DEF CachePtr, lsid, Seqs
<1>9. LoadsApart'
  <2>1. /\ \A s \in e1' : uops[s].is_load => s \notin e2' \cup e3' \cup e4'
        /\ \A s \in e2' : s \notin e3' \cup e4'
        /\ \A s \in e3' : s \notin e4'
    BY <1>2 DEF MemInv, LoadsApart, Loads
  <2>2. \A x \in liq' : x.seq \notin e1' \cup e2' \cup e3' \cup e4'
    BY <1>1, <1>2, <1>3 DEF MemInv, LoadsApart, PipeKinds, Loads
  <2>3. \A x, y \in liq' : x.seq = y.seq => x = y
    BY <1>1, <1>3 DEF MemInv, LoadsApart
  <2>4. l1d' # None /\ l1d'.kind = "LoadHit" =>
          /\ l1d'.seq \notin e1' \cup e2' \cup e3' \cup e4'
          /\ \A x \in liq' : x.seq # l1d'.seq
    BY <1>1, <1>2, <1>3, <1>4 DEF MemInv, LoadsApart, PipeKinds, Loads
  <2>5. QED
    BY <1>0, <2>1, <2>2, <2>3, <2>4 DEF LoadsApart
<1>10. StoresApart'
  BY <1>0, <1>4 DEF MemInv, StoresApart
<1>11. W2Done'
  BY <1>0 DEF W2Done
<1>12. \A s : StorePerformed(s)' <=> StorePerformed(s)
  BY <1>0, <1>1, <1>4 DEF StorePerformed
<1>13. PerformedBelow'
  <2>1. ASSUME NEW s \in Seqs, uops[s].is_load, lsid(s) < lsid_cache_ptr
        PROVE  s \in w1' \cup w2' \/ done_cycle'[s] # None
    <3>1. s \in w1 \/ done_cycle[s] # None
      BY <1>0, <2>1 DEF MemInv, PerformedBelow, W2Done
    <3>2. s \notin Missed
      BY <1>1, <2>1, UopFacts, SMTT(60) DEF MemInv, CachePtr
    <3>3. QED
      BY <1>2, <1>5, <3>1, <3>2
  <2>2. QED
    BY <1>0, <1>12, <2>1 DEF MemInv, PerformedBelow, lsid, Seqs
<1>14. StoresBelow'
  BY <1>0, <1>12 DEF MemInv, StoresBelow, lsid, Seqs
<1>15. QED
  BY <1>6, <1>7, <1>8, <1>9, <1>10, <1>11, <1>13, <1>14 DEF MemInv

\* advance_l1d, which finishes the access in the L1D and moves
\* lsid_cache_ptr on, keeps MemInv.
LEMMA MemL1d ==
  ASSUME TypeOK, Numbered, MemInv, At("l1d", "liq"), AdvanceL1d
  PROVE  MemInv'
<1>0. /\ UNCHANGED <<uops, done_cycle, committed, e1, e2, e3, e4, w2, scb, liq, lsid_issue_ptr>>
      /\ step' = "liq"
  BY DEF At, AdvanceL1d, uopVars, stage_cycles, commitVars, storeVars
<1>1. W2Done'
  BY <1>0 DEF W2Done
<1>2. CASE L1dWait
  BY <1>0, <1>1, <1>2, MemUnchanged DEF memVars, stageVars, L1dWait
<1>3. CASE L1dLoadHit \/ L1dStoreDrain
  <2> DEFINE a == l1d.seq
  <2>1. /\ l1d # None /\ l1d' = None /\ lsid_cache_ptr' = lsid_cache_ptr + 1
        /\ a \in Seqs /\ Mem(a) /\ lsid(a) = lsid_cache_ptr
        /\ \/ l1d.kind = "LoadHit" /\ uops[a].is_load /\ w1' = w1 \cup {a}
           \/ l1d.kind = "StoreDrain" /\ uops[a].is_store /\ w1' = w1 /\ a < Len(committed)
    BY <1>3, UopFacts DEF L1dLoadHit, L1dStoreDrain, L1dReady, MemInv, PipeKinds, CachePtr, Mem
  <2>2. \A s \in Seqs : Mem(s) /\ s # a => lsid(s) # lsid_cache_ptr
    BY <2>1, LsidUnique
  <2>3. PipeKinds' /\ LoadsApart' /\ StoresApart'
    BY <1>0, <2>1 DEF MemInv, PipeKinds, LoadsApart, StoresApart
  <2>4. IssuePtr'
    <3>1. InBack(a)
      BY <2>1 DEF InBack
    <3>2. lsid_cache_ptr' <= lsid_issue_ptr'
      <4>1. lsid_cache_ptr < lsid_issue_ptr
        BY <2>1, <3>1 DEF MemInv, IssuePtr
      <4>2. QED
        BY <1>0, <2>1, <4>1, Pointers, SMTT(60)
    <3>3. \A s \in Seqs : InBack(s)' => InBack(s)
      BY <1>0, <2>1 DEF InBack
    <3>4. QED
      BY <1>0, <3>2, <3>3 DEF MemInv, IssuePtr, lsid, Mem, Seqs
  <2>5. CachePtr'
    <3>1. \A s \in e1 \cup e2 \cup e3 \cup e4 : uops[s].is_load => s # a
      BY <2>1, UopFacts DEF MemInv, LoadsApart
    <3>2. \A x \in liq : x.seq # a
      BY <2>1, UopFacts DEF MemInv, LoadsApart, PipeKinds
    <3>a. \A s \in Seqs : Mem(s) /\ s # a /\ lsid(s) >= lsid_cache_ptr
                            => lsid(s) >= lsid_cache_ptr'
      BY <2>1, <2>2, UopNumbers, Pointers, SMTT(60)
    <3>3. \A s \in e1 \cup e2 \cup e3 \cup e4 : uops[s].is_load => lsid(s) >= lsid_cache_ptr'
      <4>1. \A s \in e1 \cup e2 \cup e3 \cup e4 : s \in Seqs
        BY UopFacts
      <4>2. QED
        BY <3>1, <3>a, <4>1 DEF MemInv, CachePtr, Mem
    <3>4. \A x \in liq : lsid(x.seq) >= lsid_cache_ptr'
      <4>1. \A x \in liq : x.seq \in Seqs
        BY UopFacts
      <4>2. QED
        BY <3>2, <3>a, <4>1 DEF MemInv, CachePtr, PipeKinds, Mem
    <3>5. \A s \in Seqs : uops[s].is_load /\ (s \in w1' \cup w2 \/ done_cycle[s] # None)
                            => lsid(s) < lsid_cache_ptr'
      <4>1. \A s \in Seqs : uops[s].is_load /\ (s \in w1' \cup w2 \/ done_cycle[s] # None)
                               => s = a \/ lsid(s) < lsid_cache_ptr
        BY <2>1 DEF MemInv, CachePtr
      <4>2. QED
        BY <2>1, <4>1, UopNumbers, Pointers, SMTT(60)
    <3>6. QED
      BY <1>0, <2>1, <3>3, <3>4, <3>5 DEF CachePtr, lsid, Seqs
  <2>6. \A s \in Seqs : uops[s].is_store =>
          (StorePerformed(s)' <=> StorePerformed(s) \/ s = a)
    BY <1>0, <2>1, UopFacts DEF StorePerformed, MemInv, StoresApart
  <2>7. PerformedBelow'
    <3>1. \A s \in Seqs : Mem(s) /\ lsid(s) < lsid_cache_ptr' => s = a \/ lsid(s) < lsid_cache_ptr
      BY <2>1, <2>2, UopNumbers, Pointers, SMTT(60)
    <3>2. \A s \in Seqs : uops[s].is_load /\ lsid(s) < lsid_cache_ptr' =>
            s \in w1' \cup w2 \/ done_cycle[s] # None
      <4>1. uops[a].is_load => a \in w1'
        BY <2>1, UopFacts
      <4>2. w1 \subseteq w1'
        BY <2>1
      <4>3. QED
        BY <3>1, <4>1, <4>2 DEF MemInv, PerformedBelow, Mem
    <3>3. \A s \in Seqs : uops[s].is_store /\ lsid(s) < lsid_cache_ptr' => StorePerformed(s)'
      BY <2>6, <3>1 DEF MemInv, PerformedBelow, Mem
    <3>4. QED
      BY <1>0, <3>2, <3>3 DEF PerformedBelow, lsid, Seqs
  <2>8. StoresBelow'
    <3>1. \A s \in Seqs : uops[s].is_store /\ StorePerformed(s)' => lsid(s) < lsid_cache_ptr'
      <4>1. \A s \in Seqs : uops[s].is_store /\ StorePerformed(s)' =>
              s = a \/ lsid(s) < lsid_cache_ptr
        BY <2>6 DEF MemInv, StoresBelow
      <4>2. QED
        BY <2>1, <4>1, UopNumbers, Pointers, SMTT(60)
    <3>2. QED
      BY <1>0, <3>1 DEF StoresBelow, lsid, Seqs
  <2>9. QED
    BY <1>1, <2>3, <2>4, <2>5, <2>7, <2>8 DEF MemInv
<1>4. QED
  BY <1>2, <1>3 DEF AdvanceL1d

\* advance_liq, which sends a refilled load down the pipeline again, keeps
\* MemInv.
LEMMA MemLiq ==
  ASSUME TypeOK, Numbered, MemInv, At("liq", "feed"), AdvanceLiq
  PROVE  MemInv'
<1>0. /\ UNCHANGED <<uops, done_cycle, committed, e2, e3, e4, w1, w2, l1d, scb, lsid_issue_ptr,
                     lsid_cache_ptr>>
      /\ step' = "feed"
  BY DEF At, AdvanceLiq, stage_cycles, commitVars, storeVars, lsidVars
<1>1. W2Done'
  BY <1>0 DEF W2Done
<1>2. CASE UNCHANGED <<liq, e1>>
  BY <1>0, <1>1, <1>2, MemUnchanged DEF memVars, stageVars
<1>3. ASSUME NEW x \in liq, liq' = liq \ {x}, e1' = e1 \cup {x.seq}
      PROVE  MemInv'
  <2>1. \A y \in liq' : y \in liq /\ y.seq # x.seq
    BY <1>3 DEF MemInv, LoadsApart
  <2>2. uops[x.seq].is_load /\ lsid(x.seq) >= lsid_cache_ptr
    BY DEF MemInv, PipeKinds, CachePtr
  <2>3. PipeKinds' /\ CachePtr'
    <3>1. PipeKinds'
      BY <1>0, <1>3, <2>1 DEF MemInv, PipeKinds
    <3>2. CachePtr'
      BY <1>0, <1>3, <2>1, <2>2 DEF MemInv, CachePtr, lsid, Seqs
    <3>3. QED
      BY <3>1, <3>2
  <2>4. IssuePtr'
    BY <1>0, <1>3, <2>1 DEF MemInv, IssuePtr, InBack, lsid, Mem, Seqs
  <2>5. LoadsApart' /\ StoresApart'
    BY <1>0, <1>3, <2>1, <2>2, SMTT(60) DEF MemInv, LoadsApart, StoresApart, PipeKinds
  <2>6. PerformedBelow' /\ StoresBelow'
    BY <1>0 DEF MemInv, PerformedBelow, StoresBelow, StorePerformed, lsid, Seqs
  <2>7. QED
    BY <1>1, <2>3, <2>4, <2>5, <2>6 DEF MemInv
<1>4. QED
  BY <1>2, <1>3 DEF AdvanceLiq, LiqRestart, Refillable

\* The I2 stage's issue of a uop to E1, which moves lsid_issue_ptr on,
\* keeps MemInv.
LEMMA MemIssue ==
  ASSUME TypeOK, Numbered, MemInv, At("i2", "i2"), I2Issue
  PROVE  MemInv'
<1> DEFINE h == Head(i2)
<1>0. /\ UNCHANGED <<uops, done_cycle, committed, e2, e3, e4, w1, w2, l1d, scb, liq, lsid_cache_ptr>>
      /\ step' = "i2"
      /\ h \in Seqs
      /\ e1' = e1 \cup {h}
      /\ Mem(h) => lsid(h) = lsid_issue_ptr /\ lsid_issue_ptr' = lsid_issue_ptr + 1
      /\ ~Mem(h) => lsid_issue_ptr' = lsid_issue_ptr
  <2>1. h \in Seqs
    BY SMTT(60) DEF TypeOK, StageTypeOK, I2Issue
  <2>2. /\ UNCHANGED <<uops, done_cycle, committed, e2, e3, e4, w1, w2, l1d, scb, liq, lsid_cache_ptr>>
        /\ step' = "i2"
        /\ e1' = e1 \cup {h}
    BY DEF At, I2Issue, uopVars, stage_cycles, commitVars
  <2>3. Mem(h) => lsid(h) = lsid_issue_ptr
    BY DEF I2Issue, I2Goes, i2_issue_eligible, lsid_issue_ready, lsid
  <2>4. lsid_issue_ptr' = IF Mem(h) THEN lsid_issue_ptr + 1 ELSE lsid_issue_ptr
    BY DEF I2Issue
  <2>5. QED
    BY <2>1, <2>2, <2>3, <2>4
<1>1. Mem(h) => ~InBack(h)
  BY <1>0, Pointers, SMTT(60) DEF MemInv, IssuePtr
<1>2. W2Done' /\ StoresApart'
  BY <1>0 DEF MemInv, W2Done, StoresApart
<1>3. PipeKinds'
  BY <1>0 DEF MemInv, PipeKinds
<1>4. IssuePtr'
  <2>1. lsid_issue_ptr' \in Nat /\ lsid_issue_ptr' >= lsid_issue_ptr
    BY <1>0, Pointers, SMTT(60)
  <2>2. \A s \in Seqs : InBack(s)' => InBack(s) \/ s = h
    BY <1>0 DEF InBack
  <2>3. \A s \in Seqs : Mem(s) /\ InBack(s)' => lsid(s) < lsid_issue_ptr'
    <3>1. \A s \in Seqs : Mem(s) /\ InBack(s)' =>
            (s = h /\ lsid(s) = lsid_issue_ptr) \/ lsid(s) < lsid_issue_ptr
      BY <1>0, <2>2 DEF MemInv, IssuePtr
    <3>2. QED
      BY <1>0, <2>1, <3>1, UopNumbers, Pointers, SMTT(60)
  <2>4. lsid_cache_ptr' <= lsid_issue_ptr'
    BY <1>0, <2>1, Pointers, SMTT(60) DEF MemInv, IssuePtr
  <2>5. QED
    BY <1>0, <2>3, <2>4 DEF IssuePtr, lsid, Mem, Seqs
<1>5. CachePtr'
  <2>1. uops[h].is_load => lsid(h) >= lsid_cache_ptr
    <3>1. lsid_cache_ptr <= lsid_issue_ptr
      BY DEF MemInv, IssuePtr
    <3>2. uops[h].is_load => lsid(h) = lsid_issue_ptr
      BY <1>0 DEF Mem
    <3>3. QED
      BY <3>1, <3>2, Pointers
  <2>2. QED
    BY <1>0, <2>1 DEF MemInv, CachePtr, lsid, Seqs
<1>6. LoadsApart'
  <2>1. uops[h].is_load => ~InBack(h)
    BY <1>1 DEF Mem
  <2>2. QED
    BY <1>0, <2>1 DEF MemInv, LoadsApart, PipeKinds, InBack
<1>7. PerformedBelow' /\ StoresBelow'
  BY <1>0 DEF MemInv, PerformedBelow, StoresBelow, StorePerformed, lsid, Seqs
<1>8. QED
  BY <1>2, <1>3, <1>4, <1>5, <1>6, <1>7 DEF MemInv

\* The D2 bypass, which no load or store takes, keeps MemInv.
LEMMA MemBypass ==
  ASSUME TypeOK, Numbered, MemInv, At("dispatch", "dispatch"), NEW b \in Seqs, Bypass(b)
  PROVE  MemInv'
<1>0. /\ UNCHANGED <<uops, done_cycle, committed, e1, e2, e3, e4, w1, l1d, scb, liq, lsid_issue_ptr,
                     lsid_cache_ptr>>
      /\ step' = "dispatch"
      /\ w2' \in {w2, w2 \cup {b}}
      /\ ~Mem(b)
  BY UopFacts DEF At, Bypass, stage_cycles, commitVars, loadVars, storeVars, lsidVars
<1>1. PipeKinds' /\ LoadsApart' /\ StoresApart' /\ W2Done'
  BY <1>0 DEF MemInv, PipeKinds, LoadsApart, StoresApart, W2Done
<1>2. IssuePtr' /\ CachePtr'
  BY <1>0 DEF MemInv, IssuePtr, InBack, CachePtr, lsid, Mem, Seqs
<1>3. PerformedBelow' /\ StoresBelow'
  BY <1>0 DEF MemInv, PerformedBelow, StoresBelow, StorePerformed, lsid, Seqs
<1>4. QED
  BY <1>1, <1>2, <1>3 DEF MemInv

\* Every step of the engine keeps MemInv.
LEMMA MemStep == TypeOK /\ Numbered /\ CommitInOrder /\ MemInv /\ [Next]_vars => MemInv'
<1> SUFFICES ASSUME TypeOK, Numbered, CommitInOrder, MemInv, [Next]_vars PROVE MemInv'
  OBVIOUS
<1>1. CASE \/ RetireEnd("execute")
           \/ At("publish", "publish") /\ \E s \in Seqs : RaiseTrap(s)
           \/ At("feed", "feed") /\ \E s \in Seqs : FeedI2(s)
           \/ At("feed", "i2") /\ UNCHANGED <<backendVars, uopVars>>
           \/ At("i2", "i2") /\ I2Stay
           \/ At("i2", "dispatch") /\ I2End
           \/ At("dispatch", "dispatch") /\ Allocate
           \/ NextCycle
           \/ Exited
           \/ UNCHANGED vars
  <2>1. UNCHANGED memVars
    BY <1>1 DEF RetireEnd, RaiseTrap, FeedI2, I2Stay, I2End, Allocate, NextCycle, Exited, memVars,
           vars, uopVars, backendVars, commitVars, stageVars, loadVars, storeVars, lsidVars,
           lsuVars, stage_cycles
  <2>2. W2Done'
    BY <1>1, <2>1 DEF At, MemInv, W2Done, memVars, stageVars, vars, loopVars, RetireEnd, NextCycle, Exited
  <2>3. QED
    BY <2>1, <2>2, MemUnchanged
<1>2. QED
  BY <1>1, MemTag, MemScb, MemRetire, MemExecute, MemL1d, MemLiq, MemIssue, MemBypass DEF Next

-----------------------------------------------------------------------------

\* MemInv says enough: the accesses made are those below lsid_cache_ptr.
LEMMA MemInvGivesOrder ==
  ASSUME TypeOK, Numbered, CommitInOrder, MemInv
  PROVE  MemoryOrder
<1>1. \A s \in Seqs : s \in Retired <=> s < Len(committed)
  <2>1. committed \in Seq([seq : Seqs, cycle : Nat, trap : TrapCauses \cup {None}])
    BY DEF TypeOK, CommitTypeOK
  <2>2. DOMAIN committed = 1 .. Len(committed) /\ Len(committed) \in Nat
    BY <2>1, SMTT(60)
  <2>3. \A s \in Seqs : s \in Retired <=> \E k \in 1 .. Len(committed) : committed[k].seq = s
    BY <2>2 DEF Retired, SeqsOf, RangeOf
  <2>4. \A s \in Seqs : s \in Retired <=> \E k \in 1 .. Len(committed) : k - 1 = s
    BY <2>3 DEF CommitInOrder
  <2>5. ASSUME NEW s \in Seqs, s < Len(committed)
        PROVE  \E k \in 1 .. Len(committed) : k - 1 = s
    <3>1. s \in Nat
      BY UopFacts
    <3>2. s + 1 \in 1 .. Len(committed) /\ (s + 1) - 1 = s
      BY <2>2, <2>5, <3>1, SMTT(60)
    <3>3. QED
      BY <3>2
  <2>6. ASSUME NEW s \in Seqs, NEW k \in 1 .. Len(committed), k - 1 = s
        PROVE  s < Len(committed)
    BY <2>2, <2>6, SMTT(60)
  <2>7. QED
    BY <2>4, <2>5, <2>6
<1>2. \A s \in Seqs : uops[s].is_store =>
        (StorePerformed(s) <=> s \in Retired \ (SeqsOf(scb) \cup InL1d("StoreDrain")))
  BY <1>1 DEF StorePerformed, SeqsOf, InL1d
<1>3. ASSUME NEW s \in Seqs, Mem(s)
      PROVE  s \in Performed <=> uops[s].load_store_id < lsid_cache_ptr
  <2>1. CASE uops[s].is_load
    BY <2>1, UopFacts DEF Performed, MemInv, CachePtr, PerformedBelow, lsid
  <2>2. CASE uops[s].is_store
    BY <1>2, <2>2, UopFacts DEF Performed, MemInv, StoresBelow, PerformedBelow, lsid
  <2>3. QED
    BY <1>3, <2>1, <2>2 DEF Mem
<1>4. l1d # None => Mem(l1d.seq) /\ uops[l1d.seq].load_store_id = lsid_cache_ptr
  BY UopFacts DEF MemInv, PipeKinds, CachePtr, Mem, lsid
<1>5. QED
  BY <1>3, <1>4 DEF MemoryOrder

\* A step of the engine is a step of InOrderMemory or leaves what it sees
\* unchanged.
LEMMA AbstractStep ==
  ASSUME TypeOK, Numbered, CommitInOrder, MemInv, [Next]_vars
  PROVE  [Abstract!Next]_<<uops, Len(committed), lsid_cache_ptr>>
<1>1. CASE At("retire", "retire") /\ RetireOne
  <2>1. /\ UNCHANGED <<uops, lsid_cache_ptr>>
    BY <1>1 DEF RetireOne, uopVars, lsidVars
  <2>2. rob \in Seq(Seqs) /\ rob # <<>>
    BY <1>1 DEF RetireOne, MayRetire, TypeOK, CommitTypeOK
  <2>3. Head(rob) = rob[1] /\ Head(rob) \in Seqs /\ Len(rob) > 0
    BY <2>2, SMTT(60)
  <2>4. committed \in Seq([seq : Seqs, cycle : Nat, trap : TrapCauses \cup {None}])
    BY DEF TypeOK, CommitTypeOK
  <2>5. Len(committed') = Len(committed) + 1
    BY <1>1, <2>4, SMTT(60) DEF RetireOne
  <2>6. Head(rob) = Len(committed)
    BY <2>2, <2>3, <2>4, SMTT(60) DEF CommitInOrder
  <2>7. uops[Len(committed)].is_load => uops[Len(committed)].load_store_id < lsid_cache_ptr
    BY <1>1, <2>3, <2>6 DEF RetireOne, MayRetire, MemInv, CachePtr, lsid
  <2>8. Abstract!Commit
    BY <2>1, <2>3, <2>5, <2>6, <2>7 DEF Abstract!Commit, Seqs
  <2>9. QED
    BY <2>8 DEF Abstract!Next
<1>2. CASE At("l1d", "liq") /\ AdvanceL1d /\ ~L1dWait
  <2>1. /\ UNCHANGED <<uops, committed>> /\ l1d # None
        /\ lsid_cache_ptr' = lsid_cache_ptr + 1
    BY <1>2 DEF AdvanceL1d, L1dLoadHit, L1dStoreDrain, L1dReady, uopVars, commitVars
  <2>2. /\ l1d.seq \in Seqs /\ Mem(l1d.seq)
        /\ lsid(l1d.seq) = lsid_cache_ptr
        /\ uops[l1d.seq].is_store => l1d.seq < Len(committed)
    BY <2>1, UopFacts DEF MemInv, PipeKinds, CachePtr, Mem
  <2>3. Abstract!Perform
    BY <2>1, <2>2 DEF Abstract!Perform, Mem, lsid, Seqs
  <2>4. QED
    BY <2>3 DEF Abstract!Next
<1>3. CASE UNCHANGED <<uops, committed, lsid_cache_ptr>>
  BY <1>3
<1>4. QED
  BY <1>1, <1>2, <1>3 DEF Next, vars, uopVars, backendVars, commitVars, lsidVars, lsuVars,
     TagStageCycles, RaiseTrap, AdvanceScb, RetireEnd, AdvanceExecute, AdvanceL1d, L1dWait,
     AdvanceLiq, FeedI2, I2Issue, I2Stay, I2End, Allocate, Bypass, NextCycle, Exited
-----------------------------------------------------------------------------
(* Widths.                                                                 *)

\* StageWidths is not inductive: LiqRestart does not ask for room in E1.  It
\* needs none, since advance_execute leaves at most a load behind in E1; and
\* FeedI2 counts I2 alone, which is all there is outside advance_i2.
StepShape ==
  /\ step \in {"l1d", "liq"} => \A s \in e1 : uops[s].is_load
  /\ step # "i2" => i2_stay = <<>>

WidthInv == StageWidths /\ StepShape

widthVars == <<uops, e1, e2, e3, e4, w1, w2, i2, i2_stay, rob>>

-----------------------------------------------------------------------------
(* Places.                                                                 *)

L1dLoad(s) == l1d # None /\ l1d.kind = "LoadHit" /\ l1d.seq = s
InLiq(s) == \E x \in liq : x.seq = s

\* From E1 up to W1.
Executing(s) == s \in e1 \/ s \in e2 \/ s \in e3 \/ s \in e4 \/ s \in w1 \/ L1dLoad(s) \/ InLiq(s)

WaitingApart ==
  \A s \in Seqs :
    /\ s \in upstream => s \notin RangeOf(i2) /\ s \notin RangeOf(i2_stay)
    /\ s \in RangeOf(i2) => s \notin RangeOf(i2_stay)
    /\ Waiting(s) => ~Executing(s) /\ s \notin w2

ExecutingApart ==
  \A s \in Seqs :
    /\ s \in e1 => s \notin e2 /\ s \notin e3 /\ s \notin e4 /\ s \notin w1 /\ ~L1dLoad(s) /\ ~InLiq(s)
    /\ s \in e2 => s \notin e3 /\ s \notin e4 /\ s \notin w1 /\ ~L1dLoad(s) /\ ~InLiq(s)
    /\ s \in e3 => s \notin e4 /\ s \notin w1 /\ ~L1dLoad(s) /\ ~InLiq(s)
    /\ s \in e4 => s \notin w1 /\ ~L1dLoad(s) /\ ~InLiq(s)
    /\ s \in w1 => ~L1dLoad(s) /\ ~InLiq(s)
    /\ L1dLoad(s) => ~InLiq(s)
    /\ Executing(s) => s \notin w2

\* A uop on its way to W2 is in the ROB and not done: retire_ready cannot
\* take it.  W2 and the finished uops were all allocated.
Held ==
  \A s \in Seqs :
    /\ Waiting(s) \/ Executing(s) => InRob(s) /\ done_cycle[s] = None
    /\ s \in w2 \/ done_cycle[s] # None => s < Len(committed) + Len(rob)

Covered ==
  \A s \in Seqs : InRob(s) => Waiting(s) \/ Executing(s) \/ s \in w2 \/ done_cycle[s] # None

PlaceInv == WaitingApart /\ ExecutingApart /\ Held /\ Covered /\ Distinct(i2) /\ Distinct(i2_stay)

placeVars == <<uops, done_cycle, rob, committed, upstream, i2, i2_stay, stageVars, liq>>

\* Taking the head off a queue of distinct uops takes that uop out of it.
LEMMA RangeTail ==
  ASSUME NEW S, NEW q \in Seq(S), q # <<>>, Distinct(q)
  PROVE  /\ Head(q) \in S /\ Head(q) \in RangeOf(q)
         /\ Distinct(Tail(q)) /\ Tail(q) \in Seq(S)
         /\ \A s : s \in RangeOf(Tail(q)) <=> s \in RangeOf(q) /\ s # Head(q)
<1>1. /\ Len(q) \in Nat /\ Len(q) > 0 /\ DOMAIN q = 1 .. Len(q) /\ Head(q) = q[1]
      /\ Tail(q) \in Seq(S) /\ DOMAIN Tail(q) = 1 .. Len(q) - 1
      /\ \A k \in 1 .. Len(q) - 1 : Tail(q)[k] = q[k + 1]
  BY SMTT(60)
<1>2. Head(q) \in S /\ Head(q) \in RangeOf(q)
  BY <1>1, SMTT(60) DEF RangeOf
<1>3. Distinct(Tail(q))
  BY <1>1, SMTT(60) DEF Distinct
<1>4. ASSUME NEW s, s \in RangeOf(Tail(q)) PROVE s \in RangeOf(q) /\ s # Head(q)
  <2>1. PICK k \in 1 .. Len(q) - 1 : s = q[k + 1]
    BY <1>1, <1>4 DEF RangeOf
  <2>2. k + 1 \in DOMAIN q /\ k + 1 # 1 /\ 1 \in DOMAIN q
    BY <1>1, SMTT(60)
  <2>3. QED
    BY <1>1, <2>1, <2>2 DEF RangeOf, Distinct
<1>5. ASSUME NEW s, s \in RangeOf(q), s # Head(q) PROVE s \in RangeOf(Tail(q))
  <2>1. PICK k \in 1 .. Len(q) : s = q[k]
    BY <1>1, <1>5 DEF RangeOf
  <2>2. k - 1 \in 1 .. Len(q) - 1 /\ (k - 1) + 1 = k
    BY <1>1, <1>5, <2>1, SMTT(60)
  <2>3. Tail(q)[k - 1] = s /\ k - 1 \in DOMAIN Tail(q)
    BY <1>1, <2>1, <2>2
  <2>4. QED
    BY <2>3 DEF RangeOf
<1>6. QED
  BY <1>1, <1>2, <1>3, <1>4, <1>5

\* Appending a uop to a queue adds that uop to it.
LEMMA RangeAppend ==
  ASSUME NEW S, NEW q \in Seq(S), NEW e \in S
  PROVE  /\ \A s : s \in RangeOf(Append(q, e)) <=> s \in RangeOf(q) \/ s = e
         /\ Distinct(q) /\ e \notin RangeOf(q) => Distinct(Append(q, e))
<1>1. /\ Len(q) \in Nat /\ DOMAIN q = 1 .. Len(q) /\ DOMAIN Append(q, e) = 1 .. Len(q) + 1
      /\ \A k \in 1 .. Len(q) : Append(q, e)[k] = q[k]
      /\ Append(q, e)[Len(q) + 1] = e
      /\ \A k \in 1 .. Len(q) + 1 : k \in 1 .. Len(q) \/ k = Len(q) + 1
  BY SMTT(60)
<1>2. ASSUME NEW s PROVE s \in RangeOf(Append(q, e)) <=> s \in RangeOf(q) \/ s = e
  <2>1. s \in RangeOf(Append(q, e)) <=> \E k \in 1 .. Len(q) + 1 : s = Append(q, e)[k]
    BY <1>1 DEF RangeOf
  <2>2. s \in RangeOf(q) <=> \E k \in 1 .. Len(q) : s = q[k]
    BY <1>1 DEF RangeOf
  <2>3. CASE s = e
    BY <1>1, <2>1, <2>3, SMTT(60)
  <2>4. CASE s # e
    <3>1. ASSUME NEW k \in 1 .. Len(q) + 1, s = Append(q, e)[k]
          PROVE  k \in 1 .. Len(q) /\ s = q[k]
      BY <1>1, <2>4, <3>1
    <3>2. ASSUME NEW k \in 1 .. Len(q), s = q[k]
          PROVE  k \in 1 .. Len(q) + 1 /\ s = Append(q, e)[k]
      BY <1>1, <3>2, SMTT(60)
    <3>3. QED
      BY <2>1, <2>2, <2>4, <3>1, <3>2
  <2>5. QED
    BY <2>3, <2>4
<1>3. Distinct(q) /\ e \notin RangeOf(q) => Distinct(Append(q, e))
  BY <1>1 DEF Distinct, RangeOf
<1>4. QED
  BY <1>2, <1>3

\* The ROB holds the uops from the next one to commit on.
LEMMA RobHolds ==
  ASSUME TypeOK, Numbered, CommitInOrder
  PROVE  /\ Len(rob) \in Nat /\ Len(committed) \in Nat
         /\ \A s \in Seqs : s \in RangeOf(rob) <=> InRob(s)
         /\ RangeOf(rob) \subseteq Seqs
<1>1. /\ rob \in Seq(Seqs) /\ Len(rob) \in Nat /\ Len(committed) \in Nat /\ DOMAIN rob = 1 .. Len(rob)
  BY SMTT(60) DEF TypeOK, CommitTypeOK
<1>2. \A s \in Seqs : s \in Nat
  BY StreamShape
<1>3. ASSUME NEW s \in Seqs, s \in RangeOf(rob) PROVE InRob(s)
  <2>1. PICK k \in 1 .. Len(rob) : s = rob[k]
    BY <1>1, <1>3 DEF RangeOf
  <2>2. s = Len(committed) + k - 1
    BY <2>1 DEF CommitInOrder
  <2>3. QED
    BY <1>1, <2>2, SMTT(60) DEF InRob
<1>4. ASSUME NEW s \in Seqs, InRob(s) PROVE s \in RangeOf(rob)
  <2> DEFINE k == s - Len(committed) + 1
  <2>1. k \in 1 .. Len(rob) /\ Len(committed) + k - 1 = s
    BY <1>1, <1>2, <1>4, SMTT(60) DEF InRob
  <2>2. rob[k] = s /\ k \in DOMAIN rob
    BY <1>1, <2>1 DEF CommitInOrder
  <2>3. QED
    BY <2>2 DEF RangeOf
<1>5. RangeOf(rob) \subseteq Seqs
  BY <1>1, SMTT(60) DEF RangeOf
<1>6. QED
  BY <1>1, <1>3, <1>4, <1>5

\* In the empty pipeline nothing is anywhere.
LEMMA PlaceInit == Init /\ Numbered => PlaceInv
<1> SUFFICES ASSUME Init, Numbered PROVE PlaceInv
  OBVIOUS
<1>1. \A s \in Seqs : s \in Nat
  BY TypeInit, StreamShape
<1>2. /\ rob = <<>> /\ committed = <<>> /\ RangeOf(i2) = {} /\ RangeOf(i2_stay) = {}
      /\ upstream = {} /\ e1 = {} /\ e2 = {} /\ e3 = {} /\ e4 = {} /\ w1 = {} /\ w2 = {}
      /\ l1d = None /\ liq = {} /\ \A s \in Seqs : done_cycle[s] = None
      /\ Len(rob) = 0 /\ Len(committed) = 0
  BY SMTT(60) DEF Init, BackendInit, UopsInit, RangeOf
<1>3. \A s \in Seqs : ~Waiting(s) /\ ~Executing(s) /\ ~InRob(s)
  BY <1>1, <1>2, SMTT(60) DEF Waiting, Executing, L1dLoad, InLiq, InRob
<1>4. Distinct(i2) /\ Distinct(i2_stay)
  BY SMTT(60) DEF Init, BackendInit, Distinct
<1>5. QED
  BY <1>2, <1>3, <1>4 DEF PlaceInv, WaitingApart, ExecutingApart, Held, Covered, Waiting, Executing

\* A step that moves no uop keeps the places.
LEMMA PlaceUnchanged ==
  ASSUME PlaceInv, UNCHANGED placeVars, \A s : L1dLoad(s)' <=> L1dLoad(s)
  PROVE  PlaceInv'
<1>1. \A s : /\ Waiting(s)' <=> Waiting(s)
             /\ Executing(s)' <=> Executing(s)
             /\ InRob(s)' <=> InRob(s)
             /\ InLiq(s)' <=> InLiq(s)
  BY DEF placeVars, stageVars, Waiting, Executing, InRob, InLiq, RangeOf
<1>2. /\ RangeOf(i2)' = RangeOf(i2) /\ RangeOf(i2_stay)' = RangeOf(i2_stay)
      /\ Distinct(i2)' /\ Distinct(i2_stay)'
  BY DEF placeVars, PlaceInv, RangeOf
<1>3. WaitingApart' /\ Held' /\ Covered'
  BY <1>1, <1>2 DEF placeVars, stageVars, PlaceInv, WaitingApart, Held, Covered, Seqs
<1>4. ExecutingApart'
  BY <1>1 DEF placeVars, stageVars, PlaceInv, ExecutingApart, Seqs
<1>5. QED
  BY <1>2, <1>3, <1>4 DEF PlaceInv

\* tag_stage_cycles marks the uops in W2 done, and no others.
LEMMA PlaceTag ==
  ASSUME TypeOK, Numbered, PlaceInv, At("tag", "publish"), TagStageCycles
  PROVE  PlaceInv'
<1>0. /\ UNCHANGED <<uops, rob, committed, upstream, i2, i2_stay, stageVars, liq, l1d>>
      /\ \A s \in Seqs : done_cycle'[s] # None <=> done_cycle[s] # None \/ s \in w2
  <2>1. cycle \in Nat /\ cycle # None
    BY NoneAssumption, SMTT(60) DEF TypeOK, LoopTypeOK
  <2>2. QED
    BY <2>1 DEF At, TagStageCycles, FirstIn, backendVars, commitVars, lsuVars, loadVars, i2Vars
<1>1. \A s : /\ Waiting(s)' <=> Waiting(s)
             /\ Executing(s)' <=> Executing(s)
             /\ InRob(s)' <=> InRob(s)
             /\ InLiq(s)' <=> InLiq(s)
             /\ L1dLoad(s)' <=> L1dLoad(s)
  BY <1>0 DEF stageVars, Waiting, Executing, InRob, InLiq, RangeOf, L1dLoad
<1>2. /\ RangeOf(i2)' = RangeOf(i2) /\ RangeOf(i2_stay)' = RangeOf(i2_stay)
      /\ Distinct(i2)' /\ Distinct(i2_stay)'
  BY <1>0 DEF PlaceInv, RangeOf
<1>3. WaitingApart' /\ Held' /\ Covered'
  BY <1>0, <1>1, <1>2 DEF stageVars, PlaceInv, WaitingApart, ExecutingApart, Held, Covered, Seqs
<1>4. ExecutingApart'
  BY <1>0, <1>1 DEF stageVars, PlaceInv, ExecutingApart, Seqs
<1>5. QED
  BY <1>2, <1>3, <1>4 DEF PlaceInv

\* retire_ready takes a done uop, which is in no place any more.
LEMMA PlaceRetire ==
  ASSUME TypeOK, Numbered, PlaceInv, CommitInOrder, At("retire", "retire"), RetireOne
  PROVE  PlaceInv'
<1>0. UNCHANGED <<uops, done_cycle, upstream, i2, i2_stay, stageVars, liq, l1d>>
  BY DEF At, RetireOne, uopVars, stage_cycles, loadVars, i2Vars
<1>1. /\ Len(rob') = Len(rob) - 1 /\ Len(committed') = Len(committed) + 1
      /\ Len(rob) \in Nat /\ Len(committed) \in Nat
      /\ Len(committed) \in Seqs /\ done_cycle[Len(committed)] # None
  <2>1. rob \in Seq(Seqs) /\ rob # <<>> /\ rob' = Tail(rob) /\ done_cycle[Head(rob)] # None
    BY DEF RetireOne, MayRetire, TypeOK, CommitTypeOK
  <2>2. /\ Head(rob) = rob[1] /\ Head(rob) \in Seqs /\ Len(rob) > 0 /\ Len(rob') = Len(rob) - 1
        /\ Len(rob) \in Nat
    BY <2>1, SMTT(60)
  <2>3. /\ committed \in Seq([seq : Seqs, cycle : Nat, trap : TrapCauses \cup {None}])
        /\ Len(committed) \in Nat
    BY SMTT(60) DEF TypeOK, CommitTypeOK
  <2>4. Len(committed') = Len(committed) + 1
    BY <2>3, SMTT(60) DEF RetireOne
  <2>5. Head(rob) = Len(committed)
    BY <2>2, <2>3, SMTT(60) DEF CommitInOrder
  <2>6. QED
    BY <2>1, <2>2, <2>3, <2>4, <2>5
<1>2. \A s : /\ Waiting(s)' <=> Waiting(s)
             /\ Executing(s)' <=> Executing(s)
             /\ InLiq(s)' <=> InLiq(s)
             /\ L1dLoad(s)' <=> L1dLoad(s)
  BY <1>0 DEF stageVars, Waiting, Executing, InLiq, RangeOf, L1dLoad
<1>3. \A s \in Seqs : InRob(s)' <=> InRob(s) /\ s # Len(committed)
  BY <1>1, StreamShape, SMTT(60) DEF InRob
<1>4. /\ RangeOf(i2)' = RangeOf(i2) /\ RangeOf(i2_stay)' = RangeOf(i2_stay)
      /\ Distinct(i2)' /\ Distinct(i2_stay)'
  BY <1>0 DEF PlaceInv, RangeOf
<1>5. WaitingApart' /\ ExecutingApart'
  BY <1>0, <1>2, <1>4 DEF stageVars, PlaceInv, WaitingApart, ExecutingApart, Seqs
<1>6. Held' /\ Covered'
  BY <1>0, <1>1, <1>2, <1>3, SMTT(60) DEF stageVars, PlaceInv, Held, Covered, Seqs
<1>7. QED
  BY <1>4, <1>5, <1>6 DEF PlaceInv

\* advance_execute moves the stages on: what hits goes to the L1D, what
\* misses to the LIQ, and W2 takes W1.
LEMMA ExecuteMoves ==
  ASSUME TypeOK, Numbered, WidthInv, MemInv, AdvanceExecute
  PROVE  /\ Missed \subseteq e4 /\ Hit \subseteq e4 /\ Missed \cap Hit = {}
         /\ \A s \in Hit : l1d = None
         /\ \A s \in e4 : uops[s].is_load
         /\ w2' = w1 /\ w1' = e1 \ Loads(e1)
         /\ StayE4 = e4 \ (Missed \cup Hit)
         /\ \/ StayE4 = {} /\ e4' = e3 /\ StayE3 = {}
            \/ StayE4 # {} /\ e4' = StayE4 /\ StayE3 = e3
         /\ \/ StayE3 = {} /\ e3' = e2 /\ StayE2 = {}
            \/ StayE3 # {} /\ e3' = StayE3 /\ StayE2 = e2
         /\ \/ StayE2 = {} /\ e2' = Loads(e1) /\ e1' = {}
            \/ StayE2 # {} /\ e2' = StayE2 /\ e1' = Loads(e1)
         /\ \A s : InLiq(s)' <=> InLiq(s) \/ s \in Missed
         /\ \A s : L1dLoad(s)' <=> L1dLoad(s) \/ s \in Hit
<1>1. /\ Missed \subseteq e4 /\ Hit \subseteq e4 /\ Missed \cap Hit = {}
      /\ \A s \in Hit : l1d = None
      /\ \A s \in e4 : uops[s].is_load
  BY DEF Missed, Hit, can_accept_l1d, MemInv, PipeKinds
<1>2. /\ w2' = w1 /\ w1' = e1 \ Loads(e1)
      /\ StayE4 = e4 \ (Missed \cup Hit)
      /\ \/ StayE4 = {} /\ e4' = e3 /\ StayE3 = {}
         \/ StayE4 # {} /\ e4' = StayE4 /\ StayE3 = e3
      /\ \/ StayE3 = {} /\ e3' = e2 /\ StayE2 = {}
         \/ StayE3 # {} /\ e3' = StayE3 /\ StayE2 = e2
      /\ \/ StayE2 = {} /\ e2' = Loads(e1) /\ e1' = {}
         \/ StayE2 # {} /\ e2' = StayE2 /\ e1' = Loads(e1)
  BY DEF AdvanceExecute, Into, Left, StayE4, StayE3, StayE2
<1>3. \A s : InLiq(s)' <=> InLiq(s) \/ s \in Missed
  <2> DEFINE R == [seq : Missed, refill_ready_cycle : {restart_cycle}]
  <2>1. liq' = liq \cup R
    BY DEF AdvanceExecute
  <2>2. \A x \in R : x.seq \in Missed
    BY RefillEntry
  <2>3. \A s \in Missed : \E x \in R : x.seq = s
    <3> SUFFICES ASSUME NEW s \in Missed PROVE \E x \in R : x.seq = s
      OBVIOUS
    <3> DEFINE x == [seq |-> s, refill_ready_cycle |-> restart_cycle]
    <3>1. x \in R /\ x.seq = s
      OBVIOUS
    <3> HIDE DEF x, R
    <3>2. QED
      BY <3>1
  <2> HIDE DEF R
  <2>4. QED
    BY <2>1, <2>2, <2>3 DEF InLiq
<1>4. \A s : L1dLoad(s)' <=> L1dLoad(s) \/ s \in Hit
  <2>1. CASE Hit = {}
    BY <2>1 DEF AdvanceExecute, L1dLoad
  <2>2. CASE Hit # {}
    <3>1. PICK h \in Hit : l1d' = [seq |-> h, kind |-> "LoadHit", ready_cycle |-> cycle + 1]
      BY <2>2 DEF AdvanceExecute
    <3>2. l1d' \in [seq : Nat, kind : {"LoadHit", "StoreDrain"}, ready_cycle : Nat]
      BY <3>1, <1>1, UopFacts, SMTT(60) DEF TypeOK, LoopTypeOK
    <3>3. Hit = {h}
      BY <1>1, <3>1 DEF WidthInv, StageWidths, AtMostOne
    <3>4. l1d = None
      BY <1>1, <3>1
    <3>5. QED
      BY <3>1, <3>2, <3>3, <3>4, NoneNotL1d DEF L1dLoad
  <2>3. QED
    BY <2>1, <2>2
<1>5. QED
  BY <1>1, <1>2, <1>3, <1>4

\* So every uop that was executing still is, or is in W2, and the uops
\* that leave W2 are done.
LEMMA PlaceExecute ==
  ASSUME TypeOK, Numbered, PlaceInv, WidthInv, MemInv, At("execute", "l1d"), AdvanceExecute
  PROVE  PlaceInv'
<1>0. /\ UNCHANGED <<uops, rob, committed, upstream, i2, i2_stay>>
      /\ step = "execute"
  BY DEF At, AdvanceExecute, commitVars, i2Vars
<1>1. /\ Missed \subseteq e4 /\ Hit \subseteq e4 /\ Missed \cap Hit = {}
      /\ \A s \in e4 : uops[s].is_load
  BY ExecuteMoves
<1>2. /\ w2' = w1 /\ w1' = e1 \ Loads(e1)
      /\ StayE4 = e4 \ (Missed \cup Hit)
      /\ \/ StayE4 = {} /\ e4' = e3 /\ StayE3 = {}
         \/ StayE4 # {} /\ e4' = StayE4 /\ StayE3 = e3
      /\ \/ StayE3 = {} /\ e3' = e2 /\ StayE2 = {}
         \/ StayE3 # {} /\ e3' = StayE3 /\ StayE2 = e2
      /\ \/ StayE2 = {} /\ e2' = Loads(e1) /\ e1' = {}
         \/ StayE2 # {} /\ e2' = StayE2 /\ e1' = Loads(e1)
  BY ExecuteMoves
<1>3. \A s : InLiq(s)' <=> InLiq(s) \/ s \in Missed
  BY ExecuteMoves
<1>4. \A s : L1dLoad(s)' <=> L1dLoad(s) \/ s \in Hit
  BY ExecuteMoves
<1>5. \A s \in Seqs : /\ s \in Missed => done_cycle'[s] = None
                      /\ s \notin Missed => done_cycle'[s] = done_cycle[s]
  BY DEF AdvanceExecute, ResetMissed
<1>6. /\ \A s : Waiting(s)' <=> Waiting(s)
      /\ \A s : InRob(s)' <=> InRob(s)
      /\ RangeOf(i2)' = RangeOf(i2) /\ RangeOf(i2_stay)' = RangeOf(i2_stay)
      /\ Distinct(i2)' /\ Distinct(i2_stay)'
  BY <1>0 DEF Waiting, InRob, RangeOf, PlaceInv
<1>7. \A s \in Seqs : Executing(s)' \/ s \in w2' <=> Executing(s)
  BY <1>0, <1>1, <1>2, <1>3, <1>4 DEF Executing, Loads
<1>8. \A s \in w2 : done_cycle[s] # None
  BY <1>0 DEF MemInv, W2Done
<1>9. WaitingApart'
  BY <1>0, <1>6, <1>7 DEF PlaceInv, WaitingApart, Seqs
<1>10. ExecutingApart'
  <2>1. ASSUME NEW s \in Seqs
        PROVE  /\ s \in e1' => s \notin e2' /\ s \notin e3' /\ s \notin e4' /\ s \notin w1'
               /\ s \in e2' => s \notin e3' /\ s \notin e4' /\ s \notin w1'
               /\ s \in e3' => s \notin e4' /\ s \notin w1'
               /\ s \in e4' => s \notin w1'
    BY <1>1, <1>2 DEF PlaceInv, ExecutingApart, Loads
  <2>2. ASSUME NEW s \in Seqs, InLiq(s)'
        PROVE  s \notin e1' /\ s \notin e2' /\ s \notin e3' /\ s \notin e4' /\ s \notin w1' /\ ~L1dLoad(s)'
    BY <1>1, <1>2, <1>3, <1>4, <2>2 DEF PlaceInv, ExecutingApart, Loads
  <2>3. ASSUME NEW s \in Seqs, L1dLoad(s)'
        PROVE  s \notin e1' /\ s \notin e2' /\ s \notin e3' /\ s \notin e4' /\ s \notin w1'
    BY <1>1, <1>2, <1>4, <2>3 DEF PlaceInv, ExecutingApart, Loads
  <2>4. ASSUME NEW s \in Seqs, s \in w2' PROVE ~Executing(s)'
    BY <1>1, <1>2, <1>3, <1>4, <2>4 DEF PlaceInv, ExecutingApart, Executing, Loads
  <2>5. QED
    BY <1>0, <2>1, <2>2, <2>3, <2>4 DEF ExecutingApart, Seqs
<1>11. Held' /\ Covered'
  <2>1. ASSUME NEW s \in Seqs PROVE (Waiting(s) \/ Executing(s) => InRob(s) /\ done_cycle'[s] = None)
    BY <1>5 DEF PlaceInv, Held
  <2>2. ASSUME NEW s \in Seqs, s \in w2' \/ done_cycle'[s] # None
        PROVE  s < Len(committed) + Len(rob)
    <3>1. CASE s \in w2'
      BY <1>2, <3>1 DEF PlaceInv, Held, Executing, InRob
    <3>2. CASE done_cycle'[s] # None
      BY <1>5, <3>2 DEF PlaceInv, Held
    <3>3. QED
      BY <2>2, <3>1, <3>2
  <2>3. ASSUME NEW s \in Seqs, InRob(s)
        PROVE  Waiting(s) \/ Executing(s) \/ done_cycle'[s] # None
    <3>1. Waiting(s) \/ Executing(s) \/ done_cycle[s] # None
      BY <1>8, <2>3 DEF PlaceInv, Covered
    <3>2. s \in Missed => Executing(s)
      BY <1>1 DEF Executing
    <3>3. QED
      BY <1>5, <3>1, <3>2
  <2>4. Held'
    BY <1>0, <1>6, <1>7, <2>1, <2>2 DEF Held, Seqs
  <2>5. Covered'
    BY <1>0, <1>6, <1>7, <2>3 DEF Covered, Seqs
  <2>6. QED
    BY <2>4, <2>5
<1>12. QED
  BY <1>6, <1>9, <1>10, <1>11 DEF PlaceInv

\* advance_l1d moves a load from the L1D to W1.
LEMMA PlaceL1d ==
  ASSUME TypeOK, Numbered, PlaceInv, At("l1d", "liq"), AdvanceL1d
  PROVE  PlaceInv'
<1>0. UNCHANGED <<uops, done_cycle, rob, committed, upstream, i2, i2_stay, e1, e2, e3, e4, w2, liq>>
  BY DEF At, AdvanceL1d, uopVars, stage_cycles, commitVars, i2Vars
<1>1. CASE L1dWait \/ L1dStoreDrain
  <2>1. w1' = w1 /\ \A s : L1dLoad(s)' <=> L1dLoad(s)
    BY <1>1 DEF L1dWait, L1dStoreDrain, L1dReady, L1dLoad
  <2>2. QED
    BY <1>0, <2>1, PlaceUnchanged DEF placeVars, stageVars
<1>2. CASE L1dLoadHit
  <2>1. /\ \A s : s \in w1' <=> s \in w1 \/ L1dLoad(s)
        /\ \A s : ~L1dLoad(s)'
    BY <1>2 DEF L1dLoadHit, L1dReady, L1dLoad
  <2>2. /\ \A s : Waiting(s)' <=> Waiting(s)
        /\ \A s : Executing(s)' <=> Executing(s)
        /\ \A s : InRob(s)' <=> InRob(s)
        /\ \A s : InLiq(s)' <=> InLiq(s)
        /\ RangeOf(i2)' = RangeOf(i2) /\ RangeOf(i2_stay)' = RangeOf(i2_stay)
        /\ Distinct(i2)' /\ Distinct(i2_stay)'
    BY <1>0, <2>1 DEF Waiting, Executing, InRob, InLiq, RangeOf, PlaceInv
  <2>3. WaitingApart' /\ Held' /\ Covered'
    BY <1>0, <2>2 DEF PlaceInv, WaitingApart, Held, Covered, Seqs
  <2>4. ExecutingApart'
    BY <1>0, <2>1, <2>2 DEF PlaceInv, ExecutingApart, Seqs
  <2>5. QED
    BY <2>2, <2>3, <2>4 DEF PlaceInv
<1>3. QED
  BY <1>1, <1>2 DEF AdvanceL1d

\* advance_liq moves a load from the LIQ back to E1.
LEMMA PlaceLiq ==
  ASSUME TypeOK, Numbered, PlaceInv, MemInv, At("liq", "feed"), AdvanceLiq
  PROVE  PlaceInv'
<1>0. UNCHANGED <<uops, done_cycle, rob, committed, upstream, i2, i2_stay, e2, e3, e4, w1, w2, l1d>>
  BY DEF At, AdvanceLiq, stage_cycles, commitVars, i2Vars
<1>a. \A s : L1dLoad(s)' <=> L1dLoad(s)
  BY <1>0 DEF L1dLoad
<1>1. CASE UNCHANGED <<liq, e1>>
  BY <1>0, <1>a, <1>1, PlaceUnchanged DEF placeVars, stageVars
<1>2. ASSUME NEW x \in Refillable, LiqRestart(x) PROVE PlaceInv'
  <2> DEFINE a == x.seq
  <2>1. x \in liq /\ liq' = liq \ {x} /\ e1' = e1 \cup {a} /\ InLiq(a)
    BY <1>2 DEF Refillable, LiqRestart, InLiq
  <2>2. \A s : InLiq(s)' <=> InLiq(s) /\ s # a
    BY <2>1 DEF MemInv, LoadsApart, InLiq
  <2>3. \A s : s \in e1' <=> s \in e1 \/ s = a
    BY <2>1
  <2> HIDE DEF a
  <2>4. /\ \A s : Waiting(s)' <=> Waiting(s)
        /\ \A s : Executing(s)' <=> Executing(s)
        /\ \A s : InRob(s)' <=> InRob(s)
        /\ RangeOf(i2)' = RangeOf(i2) /\ RangeOf(i2_stay)' = RangeOf(i2_stay)
        /\ Distinct(i2)' /\ Distinct(i2_stay)'
    <3>1. \A s : Executing(s)' <=> Executing(s)
      BY <1>0, <1>a, <2>1, <2>2, <2>3 DEF Executing
    <3>2. QED
      BY <1>0, <3>1 DEF Waiting, InRob, RangeOf, PlaceInv
  <2>5. WaitingApart' /\ Held' /\ Covered'
    BY <1>0, <2>4 DEF PlaceInv, WaitingApart, Held, Covered, Seqs
  <2>6. ExecutingApart'
    BY <1>0, <1>a, <2>1, <2>2, <2>3, <2>4 DEF PlaceInv, ExecutingApart, Seqs
  <2>7. QED
    BY <2>4, <2>5, <2>6 DEF PlaceInv
<1>3. QED
  BY <1>1, <1>2 DEF AdvanceLiq

\* advance_i1_to_i2 moves a uop from the issue queues to I2.
LEMMA PlaceFeed ==
  ASSUME TypeOK, Numbered, PlaceInv, NEW s \in Seqs, FeedI2(s)
  PROVE  PlaceInv'
<1>0. /\ UNCHANGED <<uops, done_cycle, rob, committed, i2_stay, stageVars, l1d, liq>>
      /\ s \in upstream /\ upstream' = upstream \ {s} /\ i2' = Append(i2, s)
  BY DEF FeedI2, uopVars, stage_cycles, commitVars, lsuVars, loadVars
<1>1. i2 \in Seq(Seqs) /\ s \notin RangeOf(i2)
  BY <1>0 DEF TypeOK, StageTypeOK, PlaceInv, WaitingApart
<1>2. /\ \A t : t \in RangeOf(i2)' <=> t \in RangeOf(i2) \/ t = s
      /\ Distinct(i2)' /\ Distinct(i2_stay)'
  BY <1>0, <1>1, RangeAppend DEF PlaceInv
<1>3. /\ \A t : InRob(t)' <=> InRob(t)
      /\ \A t : InLiq(t)' <=> InLiq(t)
      /\ \A t : L1dLoad(t)' <=> L1dLoad(t)
      /\ RangeOf(i2_stay)' = RangeOf(i2_stay)
  BY <1>0 DEF InRob, InLiq, L1dLoad, RangeOf
<1>4. /\ \A t : Waiting(t)' <=> Waiting(t)
      /\ \A t : Executing(t)' <=> Executing(t)
  BY <1>0, <1>2, <1>3 DEF Waiting, Executing, stageVars
<1>5. WaitingApart'
  BY <1>0, <1>2, <1>3, <1>4 DEF PlaceInv, WaitingApart, stageVars, Seqs
<1>6. Held' /\ Covered'
  BY <1>0, <1>3, <1>4 DEF PlaceInv, Held, Covered, stageVars, Seqs
<1>7. ExecutingApart'
  BY <1>0, <1>3, <1>4 DEF PlaceInv, ExecutingApart, stageVars, Seqs
<1>8. QED
  BY <1>2, <1>5, <1>6, <1>7 DEF PlaceInv

\* advance_i2 moves the head of I2 to E1, or keeps it aside.
LEMMA PlaceI2 ==
  ASSUME TypeOK, Numbered, PlaceInv, I2Issue \/ I2Stay
  PROVE  PlaceInv'
<1> DEFINE h == Head(i2)
<1>0. /\ UNCHANGED <<uops, done_cycle, rob, committed, upstream, e2, e3, e4, w1, w2, l1d, liq>>
      /\ i2 # <<>> /\ i2' = Tail(i2)
      /\ \/ i2_stay' = i2_stay /\ e1' = e1 \cup {h}
         \/ i2_stay' = Append(i2_stay, h) /\ e1' = e1
  BY DEF I2Issue, I2Stay, uopVars, stage_cycles, commitVars, lsuVars, loadVars, stageVars
<1>1. i2 \in Seq(Seqs) /\ i2_stay \in Seq(Seqs)
  BY DEF TypeOK, StageTypeOK
<1>2. /\ \A s : s \in RangeOf(i2)' <=> s \in RangeOf(i2) /\ s # h
      /\ h \in RangeOf(i2) /\ h \in Seqs /\ Distinct(i2)'
  BY <1>0, <1>1, RangeTail DEF PlaceInv
<1>3. h \notin RangeOf(i2_stay) /\ h \notin upstream /\ ~Executing(h) /\ Waiting(h) /\ h \notin w2
  BY <1>2 DEF PlaceInv, WaitingApart, Waiting
<1>4. /\ \A s : InRob(s)' <=> InRob(s)
      /\ \A s : InLiq(s)' <=> InLiq(s)
      /\ \A s : L1dLoad(s)' <=> L1dLoad(s)
  BY <1>0 DEF InRob, InLiq, L1dLoad
<1> HIDE DEF h
<1>5. CASE i2_stay' = i2_stay /\ e1' = e1 \cup {h}
  <2>1. /\ \A s : s \in e1' <=> s \in e1 \/ s = h
        /\ RangeOf(i2_stay)' = RangeOf(i2_stay) /\ Distinct(i2_stay)'
    BY <1>5 DEF RangeOf, PlaceInv
  <2>2. /\ \A s : Waiting(s)' <=> Waiting(s) /\ s # h
        /\ \A s : Executing(s)' <=> Executing(s) \/ s = h
    BY <1>0, <1>2, <1>3, <1>4, <2>1 DEF Waiting, Executing
  <2>3. WaitingApart'
    BY <1>0, <1>2, <1>3, <2>1, <2>2 DEF PlaceInv, WaitingApart, Seqs
  <2>4. Held' /\ Covered'
    BY <1>0, <1>3, <1>4, <2>2 DEF PlaceInv, Held, Covered, Seqs
  <2>5. ~(h \in e2 \/ h \in e3 \/ h \in e4 \/ h \in w1 \/ L1dLoad(h) \/ InLiq(h))
    BY <1>3 DEF Executing
  <2>6. ExecutingApart'
    BY <1>0, <1>3, <1>4, <2>1, <2>2, <2>5 DEF PlaceInv, ExecutingApart, Seqs
  <2>7. QED
    BY <1>2, <2>1, <2>3, <2>4, <2>6 DEF PlaceInv
<1>6. CASE i2_stay' = Append(i2_stay, h) /\ e1' = e1
  <2>1. /\ \A s : s \in RangeOf(i2_stay)' <=> s \in RangeOf(i2_stay) \/ s = h
        /\ Distinct(i2_stay)'
    BY <1>1, <1>2, <1>3, <1>6, RangeAppend DEF PlaceInv
  <2>2. /\ \A s : Waiting(s)' <=> Waiting(s)
        /\ \A s : Executing(s)' <=> Executing(s)
    BY <1>0, <1>2, <1>4, <1>6, <2>1 DEF Waiting, Executing
  <2>3. WaitingApart'
    BY <1>0, <1>2, <1>3, <2>1, <2>2 DEF PlaceInv, WaitingApart, Seqs
  <2>4. Held' /\ Covered'
    BY <1>0, <1>4, <2>2 DEF PlaceInv, Held, Covered, Seqs
  <2>5. ExecutingApart'
    BY <1>0, <1>4, <1>6, <2>2 DEF PlaceInv, ExecutingApart, Seqs
  <2>6. QED
    BY <1>2, <2>1, <2>3, <2>4, <2>5 DEF PlaceInv
<1>7. QED
  BY <1>0, <1>5, <1>6

\* At the end of advance_i2 what was kept aside is I2.
LEMMA PlaceI2End ==
  ASSUME PlaceInv, I2End
  PROVE  PlaceInv'
<1>0. /\ UNCHANGED <<uops, done_cycle, rob, committed, upstream, stageVars, l1d, liq>>
      /\ i2 = <<>> /\ i2' = i2_stay /\ i2_stay' = <<>>
  BY DEF I2End, uopVars, stage_cycles, commitVars, lsuVars, loadVars
<1>1. RangeOf(i2)' = RangeOf(i2_stay) /\ RangeOf(i2_stay)' = {} /\ RangeOf(i2) = {}
  BY <1>0, SMTT(60) DEF RangeOf
<1>2. Distinct(i2)' /\ Distinct(i2_stay)'
  BY <1>0 DEF PlaceInv, Distinct
<1>3. /\ \A t : InRob(t)' <=> InRob(t)
      /\ \A t : InLiq(t)' <=> InLiq(t)
      /\ \A t : L1dLoad(t)' <=> L1dLoad(t)
  BY <1>0 DEF InRob, InLiq, L1dLoad
<1>4. /\ \A t : Waiting(t)' <=> Waiting(t)
      /\ \A t : Executing(t)' <=> Executing(t)
  BY <1>0, <1>1, <1>3 DEF Waiting, Executing, stageVars
<1>5. WaitingApart'
  BY <1>0, <1>1, <1>4 DEF PlaceInv, WaitingApart, stageVars, Seqs
<1>6. Held' /\ Covered'
  BY <1>0, <1>3, <1>4 DEF PlaceInv, Held, Covered, stageVars, Seqs
<1>7. ExecutingApart'
  BY <1>0, <1>3, <1>4 DEF PlaceInv, ExecutingApart, stageVars, Seqs
<1>8. QED
  BY <1>2, <1>5, <1>6, <1>7 DEF PlaceInv

\* advance_frontend allocates a uop that was nowhere before.
LEMMA PlaceAllocate ==
  ASSUME TypeOK, Numbered, PlaceInv, Allocate
  PROVE  PlaceInv'
<1> DEFINE n == Len(committed) + Len(rob)
<1>0. /\ UNCHANGED <<uops, done_cycle, committed, i2, i2_stay, stageVars, l1d, liq>>
      /\ n \in Seqs /\ upstream' = upstream \cup {n} /\ rob' = Append(rob, n)
  BY DEF Allocate, uopVars, stage_cycles, i2Vars, lsuVars, loadVars
<1>1. /\ Len(rob) \in Nat /\ Len(committed) \in Nat /\ Len(rob') = Len(rob) + 1
  <2>1. rob \in Seq(Seqs) /\ committed \in Seq([seq : Seqs, cycle : Nat, trap : TrapCauses \cup {None}])
    BY DEF TypeOK, CommitTypeOK
  <2> HIDE DEF n
  <2>2. QED
    BY <1>0, <2>1, SMTT(60)
<1>2. /\ \A s \in Seqs : InRob(s)' <=> InRob(s) \/ s = n
      /\ \A s \in Seqs : s < n => s < Len(committed') + Len(rob')
      /\ ~InRob(n) /\ ~(n < n)
  BY <1>0, <1>1, StreamShape, SMTT(60) DEF InRob
<1>3. /\ \A t : InLiq(t)' <=> InLiq(t)
      /\ \A t : L1dLoad(t)' <=> L1dLoad(t)
      /\ RangeOf(i2)' = RangeOf(i2) /\ RangeOf(i2_stay)' = RangeOf(i2_stay)
      /\ Distinct(i2)' /\ Distinct(i2_stay)'
  BY <1>0 DEF InLiq, L1dLoad, RangeOf, PlaceInv
<1>4. ~Waiting(n) /\ ~Executing(n) /\ n \notin w2 /\ done_cycle[n] = None
  BY <1>0, <1>2 DEF PlaceInv, Held
<1>5. /\ \A s : Waiting(s)' <=> Waiting(s) \/ s = n
      /\ \A s : Executing(s)' <=> Executing(s)
  BY <1>0, <1>3 DEF Waiting, Executing, stageVars
<1>6. /\ \A s : s \in upstream' <=> s \in upstream \/ s = n
      /\ n \notin RangeOf(i2) /\ n \notin RangeOf(i2_stay)
  BY <1>0, <1>4 DEF Waiting
<1>7. \A s \in Seqs : s \in w2 \/ done_cycle[s] # None => s < n
  BY DEF PlaceInv, Held
<1> HIDE DEF n
<1>8. WaitingApart'
  BY <1>0, <1>3, <1>4, <1>5, <1>6 DEF PlaceInv, WaitingApart, stageVars, Seqs
<1>9. Held'
  <2>1. \A s \in Seqs : Waiting(s)' \/ Executing(s)' => InRob(s)' /\ done_cycle[s] = None
    BY <1>2, <1>4, <1>5 DEF PlaceInv, Held
  <2>2. QED
    BY <1>0, <1>2, <1>7, <2>1 DEF Held, stageVars, Seqs
<1>10. Covered'
  BY <1>0, <1>2, <1>5 DEF PlaceInv, Covered, stageVars, Seqs
<1>11. ExecutingApart'
  BY <1>0, <1>3, <1>5 DEF PlaceInv, ExecutingApart, stageVars, Seqs
<1>12. QED
  BY <1>3, <1>8, <1>9, <1>10, <1>11 DEF PlaceInv

\* dispatch_to_iq_and_bypass moves a uop straight to W2, or leaves it.
LEMMA PlaceBypass ==
  ASSUME TypeOK, Numbered, PlaceInv, NEW s \in Seqs, Bypass(s)
  PROVE  PlaceInv'
<1>0. /\ UNCHANGED <<uops, done_cycle, rob, committed, i2, i2_stay, e1, e2, e3, e4, w1, l1d, liq>>
      /\ s \in upstream
      /\ \/ UNCHANGED <<upstream, w2>>
         \/ upstream' = upstream \ {s} /\ w2' = w2 \cup {s}
  BY DEF Bypass, stage_cycles, commitVars, i2Vars, loadVars
<1>1. /\ \A t : InLiq(t)' <=> InLiq(t)
      /\ \A t : L1dLoad(t)' <=> L1dLoad(t)
      /\ \A t : InRob(t)' <=> InRob(t)
      /\ RangeOf(i2)' = RangeOf(i2) /\ RangeOf(i2_stay)' = RangeOf(i2_stay)
      /\ Distinct(i2)' /\ Distinct(i2_stay)'
  BY <1>0 DEF InLiq, L1dLoad, InRob, RangeOf, PlaceInv
<1>2. CASE UNCHANGED <<upstream, w2>>
  BY <1>0, <1>1, <1>2, PlaceUnchanged DEF placeVars, stageVars
<1>3. CASE upstream' = upstream \ {s} /\ w2' = w2 \cup {s}
  <2>1. /\ \A t : t \in upstream' <=> t \in upstream /\ t # s
        /\ \A t : t \in w2' <=> t \in w2 \/ t = s
        /\ s \notin RangeOf(i2) /\ s \notin RangeOf(i2_stay) /\ ~Executing(s) /\ Waiting(s)
    BY <1>0, <1>3 DEF PlaceInv, WaitingApart, Waiting
  <2>2. /\ \A t : Waiting(t)' <=> Waiting(t) /\ t # s
        /\ \A t : Executing(t)' <=> Executing(t)
    BY <1>0, <1>1, <2>1 DEF Waiting, Executing
  <2>3. s < Len(committed) + Len(rob)
    BY <2>1 DEF PlaceInv, Held, InRob
  <2>4. WaitingApart'
    BY <1>0, <1>1, <2>1, <2>2 DEF PlaceInv, WaitingApart, Seqs
  <2>5. Held' /\ Covered'
    BY <1>0, <1>1, <2>1, <2>2, <2>3 DEF PlaceInv, Held, Covered, Seqs
  <2>6. ExecutingApart'
    BY <1>0, <1>1, <2>1, <2>2 DEF PlaceInv, ExecutingApart, Seqs
  <2>7. QED
    BY <1>1, <2>4, <2>5, <2>6 DEF PlaceInv
<1>4. QED
  BY <1>0, <1>2, <1>3

\* Every stage of the loop keeps the places.
LEMMA PlaceStep ==
  TypeOK /\ Numbered /\ CommitInOrder /\ MemInv /\ WidthInv /\ PlaceInv /\ [Next]_vars => PlaceInv'
<1> SUFFICES ASSUME TypeOK, Numbered, CommitInOrder, MemInv, WidthInv, PlaceInv, [Next]_vars
             PROVE  PlaceInv'
  OBVIOUS
<1>1. CASE At("publish", "retire") /\ AdvanceScb
  <2>1. UNCHANGED placeVars
    BY <1>1 DEF AdvanceScb, placeVars, uopVars, stage_cycles, commitVars, i2Vars
  <2>2. ASSUME NEW s PROVE L1dLoad(s)' <=> L1dLoad(s)
    <3>1. CASE l1d' = l1d
      BY <3>1 DEF L1dLoad
    <3>2. CASE l1d' # l1d
      <4>1. PICK x \in scb : /\ l1d = None
                             /\ l1d' = [seq |-> x.seq, kind |-> "StoreDrain", ready_cycle |-> cycle + 1]
        BY <1>1, <3>2 DEF AdvanceScb, can_accept_l1d
      <4>2. QED
        BY <4>1 DEF L1dLoad
    <3>3. QED
      BY <3>1, <3>2
  <2>3. QED
    BY <2>1, <2>2, PlaceUnchanged
<1>2. CASE UNCHANGED <<placeVars, l1d>>
  <2>1. \A s : L1dLoad(s)' <=> L1dLoad(s)
    BY <1>2 DEF L1dLoad
  <2>2. QED
    BY <1>2, <2>1, PlaceUnchanged
<1>3. CASE \/ At("publish", "publish") /\ \E s \in Seqs : RaiseTrap(s)
           \/ RetireEnd("execute")
           \/ At("feed", "i2") /\ UNCHANGED <<backendVars, uopVars>>
           \/ NextCycle
           \/ Exited
           \/ UNCHANGED vars
  <2>1. UNCHANGED <<placeVars, l1d>>
    BY <1>3 DEF RaiseTrap, RetireEnd, NextCycle, Exited, vars,
           backendVars, uopVars, commitVars, i2Vars, lsuVars, stageVars, loadVars, stage_cycles, placeVars
  <2>2. QED
    BY <1>2, <2>1
<1>4. QED
  BY <1>1, <1>3, PlaceTag, PlaceRetire, PlaceExecute, PlaceL1d, PlaceLiq, PlaceFeed, PlaceI2,
     PlaceI2End, PlaceAllocate, PlaceBypass DEF Next

\* PlaceInv is OnePlace, place by place.
LEMMA PlaceImplies ==
  ASSUME TypeOK, Numbered, CommitInOrder, PlaceInv
  PROVE  OnePlace
<1> DEFINE places == <<upstream, RangeOf(i2), RangeOf(i2_stay), e1, e2, e3, e4,
                       InL1d("LoadHit"), SeqsOf(liq), w1, w2>>
<1>1. /\ upstream \subseteq Seqs /\ RangeOf(i2) \subseteq Seqs /\ RangeOf(i2_stay) \subseteq Seqs
      /\ e1 \subseteq Seqs /\ e2 \subseteq Seqs /\ e3 \subseteq Seqs /\ e4 \subseteq Seqs
      /\ InL1d("LoadHit") \subseteq Seqs /\ SeqsOf(liq) \subseteq Seqs
      /\ w1 \subseteq Seqs /\ w2 \subseteq Seqs
  BY SMTT(60) DEF TypeOK, StageTypeOK, LsuTypeOK, Refill, RangeOf, InL1d, SeqsOf
<1>2. /\ \A s \in Seqs : s \in InL1d("LoadHit") <=> L1dLoad(s)
      /\ \A s : s \in SeqsOf(liq) <=> InLiq(s)
      /\ \A s \in Seqs : s \in RangeOf(rob) <=> InRob(s)
  BY RobHolds DEF InL1d, SeqsOf, L1dLoad, InLiq
<1>3. /\ DOMAIN places = 1 .. 11
      /\ places[1] = upstream /\ places[2] = RangeOf(i2) /\ places[3] = RangeOf(i2_stay)
      /\ places[4] = e1 /\ places[5] = e2 /\ places[6] = e3 /\ places[7] = e4
      /\ places[8] = InL1d("LoadHit") /\ places[9] = SeqsOf(liq)
      /\ places[10] = w1 /\ places[11] = w2
  BY SMTT(60)
<1> HIDE DEF places
<1>4. \A k \in DOMAIN places : k \in {1, 2, 3, 4, 5, 6, 7, 8, 9, 10, 11}
  BY <1>3, SMTT(60)
<1>5. ASSUME NEW s \in Seqs, NEW j \in DOMAIN places, NEW k \in DOMAIN places,
             j < k, s \in places[j]
      PROVE  s \notin places[k]
  <2>1. CASE j = 1 \/ j = 2 \/ j = 3
    BY <1>2, <1>3, <1>4, <1>5, <2>1, SMTT(60) DEF PlaceInv, WaitingApart, Waiting, Executing
  <2>2. CASE j = 4 \/ j = 5 \/ j = 6 \/ j = 7
    BY <1>2, <1>3, <1>4, <1>5, <2>2, SMTT(60) DEF PlaceInv, ExecutingApart, Executing
  <2>3. CASE j = 8 \/ j = 9 \/ j = 10
    BY <1>2, <1>3, <1>4, <1>5, <2>3, SMTT(60) DEF PlaceInv, ExecutingApart, Executing
  <2>4. QED
    BY <1>3, <1>4, <1>5, <2>1, <2>2, <2>3, SMTT(60)
<1>6. \A k \in DOMAIN places : places[k] \subseteq Seqs
  BY <1>1, <1>3, <1>4
<1>7. ASSUME NEW j \in DOMAIN places, NEW k \in DOMAIN places, j # k
      PROVE  places[j] \cap places[k] = {}
  <2>1. j < k \/ k < j
    BY <1>3, <1>7, SMTT(60)
  <2>2. QED
    BY <1>5, <1>6, <2>1
<1>8. ASSUME NEW s \in RangeOf(rob)
      PROVE  (\E k \in DOMAIN places : s \in places[k]) \/ done_cycle[s] # None
  <2>1. s \in Seqs /\ InRob(s)
    BY <1>2, RobHolds
  <2>2. Waiting(s) \/ Executing(s) \/ s \in w2 \/ done_cycle[s] # None
    BY <2>1 DEF PlaceInv, Covered
  <2>3. CASE Waiting(s)
    BY <1>3, <2>3, SMTT(60) DEF Waiting
  <2>4. CASE Executing(s)
    BY <1>2, <1>3, <2>1, <2>4, SMTT(60) DEF Executing
  <2>5. CASE s \in w2
    BY <1>3, <2>5, SMTT(60)
  <2>6. QED
    BY <2>2, <2>3, <2>4, <2>5
<1>9. ASSUME NEW k \in DOMAIN places, k < 11, NEW s \in places[k] PROVE s \in RangeOf(rob)
  <2>1. s \in Seqs
    BY <1>6, <1>9
  <2>2. Waiting(s) \/ Executing(s)
    BY <1>2, <1>3, <1>4, <1>9, <2>1, SMTT(60) DEF Waiting, Executing
  <2>3. QED
    BY <1>2, <2>1, <2>2 DEF PlaceInv, Held
<1>10. QED
  BY <1>7, <1>8, <1>9 DEF OnePlace, places

-----------------------------------------------------------------------------
(* The owner queues.                                                       *)

\* The part of OwnerQueues that MemInv does not give.
InLhq(s) == \/ s \in e1 /\ uops[s].is_load
            \/ s \in e2 \/ s \in e3 \/ s \in e4 \/ L1dLoad(s)
InStq(s) == InRob(s) /\ uops[s].is_store /\ ~Waiting(s)

QueueInv ==
  /\ \A s \in Seqs : s \in lhq <=> InLhq(s)
  /\ mdb = liq
  /\ \A s \in Seqs : s \in stq <=> InStq(s)

\* The queues start out empty, like the pipeline.
LEMMA QueueInit == Init /\ Numbered => QueueInv
<1> SUFFICES ASSUME Init, Numbered PROVE QueueInv
  OBVIOUS
<1>1. \A s \in Seqs : s \in Nat
  BY TypeInit, StreamShape
<1>2. /\ Len(rob) = 0 /\ Len(committed) = 0 /\ e1 = {} /\ e2 = {} /\ e3 = {} /\ e4 = {}
      /\ l1d = None /\ lhq = {} /\ stq = {} /\ liq = {} /\ mdb = {}
  BY DEF Init, BackendInit
<1>3. QED
  BY <1>1, <1>2, SMTT(60) DEF QueueInv, InLhq, InStq, L1dLoad, InRob

\* A step that moves neither a load nor a store keeps the queues.
LEMMA QueueUnchanged ==
  ASSUME QueueInv, UNCHANGED <<uops, lhq, stq, mdb, liq>>,
         \A s \in Seqs : (InLhq(s)' <=> InLhq(s)) /\ (InStq(s)' <=> InStq(s))
  PROVE  QueueInv'
BY DEF QueueInv, Seqs

\* The stages before the owner queues leave the LHQ's loads alone.
LEMMA SameLoads ==
  ASSUME UNCHANGED <<uops, e1, e2, e3, e4, l1d>>
  PROVE  \A s : InLhq(s)' <=> InLhq(s)
BY DEF InLhq, L1dLoad

\* And the stages past I2 the STQ's stores.
LEMMA SameStores ==
  ASSUME UNCHANGED <<uops, rob, committed, upstream, i2, i2_stay>>
  PROVE  \A s : InStq(s)' <=> InStq(s)
BY DEF InStq, InRob, Waiting, RangeOf

\* advance_scb takes no load to the L1D.
LEMMA QueueScb ==
  ASSUME QueueInv, AdvanceScb
  PROVE  QueueInv'
<1>0. UNCHANGED <<uops, rob, committed, upstream, i2, i2_stay, e1, e2, e3, e4, lhq, stq, mdb, liq>>
  BY DEF AdvanceScb, uopVars, commitVars, i2Vars, stageVars
<1>1. ASSUME NEW s PROVE L1dLoad(s)' <=> L1dLoad(s)
  <2>1. CASE l1d' = l1d
    BY <2>1 DEF L1dLoad
  <2>2. CASE l1d' # l1d
    <3>1. PICK x \in scb : /\ l1d = None
                           /\ l1d' = [seq |-> x.seq, kind |-> "StoreDrain", ready_cycle |-> cycle + 1]
      BY <2>2 DEF AdvanceScb, can_accept_l1d
    <3>2. QED
      BY <3>1 DEF L1dLoad
  <2>3. QED
    BY <2>1, <2>2
<1>2. \A s : InLhq(s)' <=> InLhq(s)
  BY <1>0, <1>1 DEF InLhq
<1>3. QED
  BY <1>0, <1>2, SameStores, QueueUnchanged

\* retire_ready takes a store out of the STQ when it takes it from the ROB.
LEMMA QueueRetire ==
  ASSUME TypeOK, Numbered, CommitInOrder, PlaceInv, QueueInv, RetireOne
  PROVE  QueueInv'
<1> DEFINE h == Len(committed)
<1>0. UNCHANGED <<uops, upstream, i2, i2_stay, e1, e2, e3, e4, l1d, lhq, mdb, liq>>
  BY DEF RetireOne, uopVars, i2Vars, stageVars, loadVars
<1>1. /\ Len(rob') = Len(rob) - 1 /\ Len(committed') = h + 1 /\ Len(rob) \in Nat /\ h \in Nat
      /\ Head(rob) = h /\ h \in Seqs
      /\ stq' = IF uops[h].is_store THEN stq \ {h} ELSE stq
  <2>1. rob \in Seq(Seqs) /\ rob # <<>> /\ rob' = Tail(rob)
    BY DEF RetireOne, MayRetire, TypeOK, CommitTypeOK
  <2>2. /\ Head(rob) = rob[1] /\ Head(rob) \in Seqs /\ Len(rob) > 0 /\ Len(rob') = Len(rob) - 1
        /\ Len(rob) \in Nat
    BY <2>1, SMTT(60)
  <2>3. /\ committed \in Seq([seq : Seqs, cycle : Nat, trap : TrapCauses \cup {None}])
        /\ Len(committed) \in Nat
    BY SMTT(60) DEF TypeOK, CommitTypeOK
  <2>4. Len(committed') = Len(committed) + 1
    BY <2>3, SMTT(60) DEF RetireOne
  <2>5. Head(rob) = Len(committed)
    BY <2>2, <2>3, SMTT(60) DEF CommitInOrder
  <2>6. stq' = IF uops[Head(rob)].is_store THEN stq \ {Head(rob)} ELSE stq
    BY DEF RetireOne, storeVars
  <2>7. stq' = IF uops[h].is_store THEN stq \ {h} ELSE stq
    BY <2>5, <2>6
  <2>8. QED
    BY <2>2, <2>3, <2>4, <2>5, <2>7
<1>2. \A s \in Seqs : InRob(s)' <=> InRob(s) /\ s # h
  BY <1>1, StreamShape, SMTT(60) DEF InRob
<1> HIDE DEF h
<1>3. \A s : Waiting(s)' <=> Waiting(s)
  BY <1>0 DEF Waiting, RangeOf
<1>4. \A s \in Seqs : s \in stq' <=> InStq(s)'
  BY <1>0, <1>1, <1>2, <1>3 DEF QueueInv, InStq
<1>5. \A s \in Seqs : s \in lhq' <=> InLhq(s)'
  BY <1>0, SameLoads DEF QueueInv
<1>6. QED
  BY <1>0, <1>4, <1>5 DEF QueueInv, Seqs

\* advance_execute takes a load out of the LHQ when it misses and puts it
\* into the LIQ and the MDB alike.
LEMMA QueueExecute ==
  ASSUME TypeOK, Numbered, WidthInv, MemInv, PlaceInv, QueueInv, AdvanceExecute
  PROVE  QueueInv'
<1>0. UNCHANGED <<uops, rob, committed, upstream, i2, i2_stay, stq>>
  BY DEF AdvanceExecute, commitVars, i2Vars, storeVars
<1>1. /\ lhq' = lhq \ Missed
      /\ mdb' = mdb \cup [seq : Missed, refill_ready_cycle : {restart_cycle}]
      /\ liq' = liq \cup [seq : Missed, refill_ready_cycle : {restart_cycle}]
  BY DEF AdvanceExecute
<1>2. mdb' = liq'
  BY <1>1 DEF QueueInv
<1>3. ASSUME NEW s \in Seqs PROVE InLhq(s)' <=> InLhq(s) /\ s \notin Missed
  <2>1. \/ s \in e1' /\ uops[s].is_load
        \/ s \in e2' \cup e3' \cup e4'
        <=> \/ s \in e1 /\ uops[s].is_load
            \/ s \in e2 \cup e3
            \/ s \in e4 /\ s \notin Missed /\ s \notin Hit
    <3>1. \A t \in e2 \cup e3 : uops[t].is_load
      BY DEF MemInv, PipeKinds
    <3>2. QED
      BY <3>1, ExecuteMoves DEF Loads
  <2>2. L1dLoad(s)' <=> L1dLoad(s) \/ s \in Hit
    BY ExecuteMoves
  <2>3. (s \in Missed => s \in e4) /\ (s \in Hit => s \in e4) /\ ~(s \in Missed /\ s \in Hit)
    BY ExecuteMoves
  <2>4. s \in e4 => s \notin e1 /\ s \notin e2 /\ s \notin e3 /\ ~L1dLoad(s)
    BY DEF PlaceInv, ExecutingApart
  <2>5. QED
    BY <1>0, <2>1, <2>2, <2>3, <2>4 DEF InLhq
<1>4. \A s \in Seqs : s \in lhq' <=> InLhq(s)'
  BY <1>1, <1>3 DEF QueueInv
<1>5. \A s \in Seqs : s \in stq' <=> InStq(s)'
  BY <1>0, SameStores DEF QueueInv
<1>6. QED
  BY <1>0, <1>2, <1>4, <1>5 DEF QueueInv, Seqs

\* advance_l1d takes a load out of the LHQ when the L1D has answered.
LEMMA QueueL1d ==
  ASSUME TypeOK, Numbered, PlaceInv, QueueInv, AdvanceL1d
  PROVE  QueueInv'
<1>0. UNCHANGED <<uops, rob, committed, upstream, i2, i2_stay, e1, e2, e3, e4, stq, mdb, liq>>
  BY DEF AdvanceL1d, uopVars, commitVars, i2Vars, storeVars
<1>1. \A s \in Seqs : s \in stq' <=> InStq(s)'
  BY <1>0, SameStores DEF QueueInv
<1>2. \A s \in Seqs : s \in lhq' <=> InLhq(s)'
  <2>1. CASE L1dWait \/ L1dStoreDrain
    <3>1. lhq' = lhq /\ \A s : L1dLoad(s)' <=> L1dLoad(s)
      BY <2>1 DEF L1dWait, L1dStoreDrain, L1dReady, L1dLoad
    <3>2. QED
      BY <1>0, <3>1 DEF InLhq, QueueInv
  <2>2. CASE L1dLoadHit
    <3>1. \A s : (s \in lhq' <=> s \in lhq /\ ~L1dLoad(s)) /\ ~L1dLoad(s)'
      BY <2>2 DEF L1dLoadHit, L1dReady, L1dLoad
    <3>2. \A s \in Seqs : L1dLoad(s) => s \notin e1 /\ s \notin e2 /\ s \notin e3 /\ s \notin e4
      BY DEF PlaceInv, ExecutingApart
    <3>3. QED
      BY <1>0, <3>1, <3>2 DEF InLhq, QueueInv
  <2>3. QED
    BY <2>1, <2>2 DEF AdvanceL1d
<1>3. QED
  BY <1>0, <1>1, <1>2 DEF QueueInv, Seqs

\* advance_liq takes a load out of the LIQ and the MDB and back into the LHQ.
LEMMA QueueLiq ==
  ASSUME TypeOK, Numbered, MemInv, QueueInv, AdvanceLiq
  PROVE  QueueInv'
<1>0. UNCHANGED <<uops, rob, committed, upstream, i2, i2_stay, e2, e3, e4, l1d, stq>>
  BY DEF AdvanceLiq, commitVars, i2Vars, storeVars
<1>1. \A s \in Seqs : s \in stq' <=> InStq(s)'
  BY <1>0, SameStores DEF QueueInv
<1>2. CASE UNCHANGED <<liq, mdb, lhq, e1>>
  BY <1>0, <1>1, <1>2, SameLoads DEF QueueInv, Seqs
<1>3. ASSUME NEW x \in Refillable, LiqRestart(x) PROVE QueueInv'
  <2>1. /\ x \in liq /\ liq' = liq \ {x} /\ mdb' = mdb \ Entry(mdb, x.seq)
        /\ lhq' = lhq \cup {x.seq} /\ e1' = e1 \cup {x.seq}
    BY <1>3 DEF Refillable, LiqRestart
  <2>2. Entry(mdb, x.seq) = {x} /\ uops[x.seq].is_load
    BY <2>1 DEF QueueInv, MemInv, LoadsApart, PipeKinds, Entry
  <2>3. \A s \in Seqs : s \in lhq' <=> InLhq(s)'
    BY <1>0, <2>1, <2>2 DEF QueueInv, InLhq, L1dLoad
  <2>4. mdb' = liq'
    BY <2>1, <2>2 DEF QueueInv
  <2>5. QED
    BY <1>0, <1>1, <2>3, <2>4 DEF QueueInv, Seqs
<1>4. QED
  BY <1>2, <1>3 DEF AdvanceLiq

\* advance_i2 enters a load into the LHQ and a store into the STQ when it
\* issues them.
LEMMA QueueI2 ==
  ASSUME TypeOK, Numbered, PlaceInv, QueueInv, I2Issue \/ I2Stay
  PROVE  QueueInv'
<1> DEFINE h == Head(i2)
<1>0. /\ UNCHANGED <<uops, rob, committed, upstream, e2, e3, e4, l1d, liq, mdb>>
      /\ i2 # <<>> /\ i2' = Tail(i2)
      /\ \/ /\ i2_stay' = i2_stay /\ e1' = e1 \cup {h}
            /\ lhq' = IF uops[h].is_load THEN lhq \cup {h} ELSE lhq
            /\ stq' = IF uops[h].is_store THEN stq \cup {h} ELSE stq
         \/ i2_stay' = Append(i2_stay, h) /\ UNCHANGED <<e1, lhq, stq>>
  BY DEF I2Issue, I2Stay, uopVars, commitVars, lsuVars, loadVars, storeVars, stageVars
<1>1. i2 \in Seq(Seqs) /\ i2_stay \in Seq(Seqs)
  BY DEF TypeOK, StageTypeOK
<1>2. /\ \A s : s \in RangeOf(i2)' <=> s \in RangeOf(i2) /\ s # h
      /\ h \in RangeOf(i2) /\ h \in Seqs
  BY <1>0, <1>1, RangeTail DEF PlaceInv
<1>3. h \notin RangeOf(i2_stay) /\ h \notin upstream /\ Waiting(h) /\ InRob(h)
  BY <1>2 DEF PlaceInv, WaitingApart, Waiting, Held
<1>4. \A s : (InRob(s)' <=> InRob(s)) /\ (L1dLoad(s)' <=> L1dLoad(s))
  BY <1>0 DEF InRob, L1dLoad
<1>a. uops[h].is_load \in BOOLEAN /\ uops[h].is_store \in BOOLEAN
  BY <1>2, UopFacts
<1> HIDE DEF h
<1>5. CASE /\ i2_stay' = i2_stay /\ e1' = e1 \cup {h}
           /\ lhq' = IF uops[h].is_load THEN lhq \cup {h} ELSE lhq
           /\ stq' = IF uops[h].is_store THEN stq \cup {h} ELSE stq
  <2>1. \A s : Waiting(s)' <=> Waiting(s) /\ s # h
    <3>1. RangeOf(i2_stay)' = RangeOf(i2_stay)
      BY <1>5 DEF RangeOf
    <3>2. QED
      BY <1>0, <1>2, <1>3, <3>1 DEF Waiting
  <2>2. \A s \in Seqs : s \in stq' <=> InStq(s)'
    BY <1>0, <1>3, <1>4, <1>5, <1>a, <2>1 DEF QueueInv, InStq
  <2>3. \A s \in Seqs : s \in lhq' <=> InLhq(s)'
    BY <1>0, <1>4, <1>5, <1>a DEF QueueInv, InLhq
  <2>4. QED
    BY <1>0, <2>2, <2>3 DEF QueueInv, Seqs
<1>6. CASE i2_stay' = Append(i2_stay, h) /\ UNCHANGED <<e1, lhq, stq>>
  <2>1. \A s : s \in RangeOf(i2_stay)' <=> s \in RangeOf(i2_stay) \/ s = h
    BY <1>1, <1>2, <1>6, RangeAppend
  <2>2. \A s : Waiting(s)' <=> Waiting(s)
    BY <1>0, <1>2, <2>1 DEF Waiting
  <2>3. \A s \in Seqs : (InLhq(s)' <=> InLhq(s)) /\ (InStq(s)' <=> InStq(s))
    BY <1>0, <1>4, <1>6, <2>2 DEF InLhq, InStq
  <2>4. QED
    BY <1>0, <1>6, <2>3, QueueUnchanged
<1>7. QED
  BY <1>0, <1>5, <1>6

\* advance_i1_to_i2 and the end of advance_i2 leave the uops waiting that were.
LEMMA QueueFeed ==
  ASSUME TypeOK, Numbered, PlaceInv, QueueInv, I2End \/ \E s \in Seqs : FeedI2(s)
  PROVE  QueueInv'
<1>0. UNCHANGED <<uops, rob, committed, e1, e2, e3, e4, l1d, liq, mdb, lhq, stq>>
  BY DEF FeedI2, I2End, uopVars, commitVars, lsuVars, loadVars, storeVars, stageVars
<1>1. \A t : Waiting(t)' <=> Waiting(t)
  <2>1. CASE I2End
    BY <2>1 DEF I2End, Waiting, RangeOf
  <2>2. ASSUME NEW s \in Seqs, FeedI2(s) PROVE \A t : Waiting(t)' <=> Waiting(t)
    <3>1. /\ s \in upstream /\ upstream' = upstream \ {s} /\ i2' = Append(i2, s)
          /\ i2_stay' = i2_stay /\ i2 \in Seq(Seqs)
      BY <2>2 DEF FeedI2, TypeOK, StageTypeOK
    <3>2. \A t : t \in RangeOf(i2)' <=> t \in RangeOf(i2) \/ t = s
      BY <3>1, RangeAppend
    <3>3. RangeOf(i2_stay)' = RangeOf(i2_stay)
      BY <3>1 DEF RangeOf
    <3>4. QED
      BY <3>1, <3>2, <3>3 DEF Waiting
  <2>3. QED
    BY <2>1, <2>2
<1>2. \A s : (InLhq(s)' <=> InLhq(s)) /\ (InStq(s)' <=> InStq(s))
  BY <1>0, <1>1 DEF InLhq, InStq, InRob, L1dLoad
<1>3. QED
  BY <1>0, <1>2, QueueUnchanged

\* A uop that advance_frontend allocates waits, and one that takes the D2
\* bypass is no store: dispatch leaves the queues alone.
LEMMA QueueDispatch ==
  ASSUME TypeOK, Numbered, PlaceInv, QueueInv, Allocate \/ \E s \in Seqs : Bypass(s)
  PROVE  QueueInv'
<1>0. UNCHANGED <<uops, committed, i2, i2_stay, e1, e2, e3, e4, l1d, liq, mdb, lhq, stq>>
  BY DEF Allocate, Bypass, uopVars, commitVars, i2Vars, lsuVars, loadVars, storeVars, stageVars
<1>1. ASSUME NEW s \in Seqs, Bypass(s) PROVE QueueInv'
  <2>1. rob' = rob /\ (upstream' = upstream \/ upstream' = upstream \ {s}) /\ s \in upstream
    BY <1>1 DEF Bypass, commitVars
  <2>2. ~uops[s].is_store
    BY <1>1, UopFacts DEF Bypass, Mem
  <2>3. \A t : t # s => (Waiting(t)' <=> Waiting(t))
    BY <1>0, <2>1 DEF Waiting, RangeOf
  <2>4. \A t : (InLhq(t)' <=> InLhq(t)) /\ (InRob(t)' <=> InRob(t))
    BY <1>0, <2>1 DEF InLhq, InRob, L1dLoad
  <2>5. \A t \in Seqs : InStq(t)' <=> InStq(t)
    BY <1>0, <2>2, <2>3, <2>4 DEF InStq
  <2>6. QED
    BY <1>0, <2>4, <2>5, QueueUnchanged
<1>2. CASE Allocate
  <2> DEFINE n == Len(committed) + Len(rob)
  <2>1. n \in Seqs /\ upstream' = upstream \cup {n} /\ rob' = Append(rob, n)
    BY <1>2 DEF Allocate
  <2>2. /\ Len(rob) \in Nat /\ Len(committed) \in Nat /\ Len(rob') = Len(rob) + 1
    <3>1. rob \in Seq(Seqs) /\ committed \in Seq([seq : Seqs, cycle : Nat, trap : TrapCauses \cup {None}])
      BY DEF TypeOK, CommitTypeOK
    <3> HIDE DEF n
    <3>2. QED
      BY <2>1, <3>1, SMTT(60)
  <2>3. \A s \in Seqs : InRob(s)' <=> InRob(s) \/ s = n
    BY <1>0, <2>1, <2>2, StreamShape, SMTT(60) DEF InRob
  <2>4. ~InRob(n)
    BY <2>2, SMTT(60) DEF InRob
  <2> HIDE DEF n
  <2>5. \A s : Waiting(s)' <=> Waiting(s) \/ s = n
    BY <1>0, <2>1 DEF Waiting, RangeOf
  <2>6. \A s : InLhq(s)' <=> InLhq(s)
    BY <1>0, SameLoads
  <2>7. \A s \in Seqs : InStq(s)' <=> InStq(s)
    BY <1>0, <2>3, <2>4, <2>5 DEF InStq
  <2>8. QED
    BY <1>0, <2>6, <2>7, QueueUnchanged
<1>3. QED
  BY <1>1, <1>2

\* Every stage of the loop keeps the queues.
LEMMA QueueStep ==
  TypeOK /\ Numbered /\ CommitInOrder /\ MemInv /\ WidthInv /\ PlaceInv /\ QueueInv /\ [Next]_vars => QueueInv'
<1> SUFFICES ASSUME TypeOK, Numbered, CommitInOrder, MemInv, WidthInv, PlaceInv, QueueInv, [Next]_vars
             PROVE  QueueInv'
  OBVIOUS
<1>1. CASE \/ At("tag", "publish") /\ TagStageCycles
           \/ At("publish", "publish") /\ \E s \in Seqs : RaiseTrap(s)
           \/ RetireEnd("execute")
           \/ At("feed", "i2") /\ UNCHANGED <<backendVars, uopVars>>
           \/ NextCycle
           \/ Exited
           \/ UNCHANGED vars
  <2>1. UNCHANGED <<uops, rob, committed, upstream, i2, i2_stay, e1, e2, e3, e4, l1d, lhq, stq, mdb, liq>>
    BY <1>1 DEF TagStageCycles, RaiseTrap, RetireEnd, NextCycle, Exited, vars,
           backendVars, uopVars, commitVars, i2Vars, lsuVars, stageVars, loadVars, storeVars
  <2>2. QED
    BY <2>1, SameLoads, SameStores, QueueUnchanged
<1>2. QED
  BY <1>1, QueueScb, QueueRetire, QueueExecute, QueueL1d, QueueLiq, QueueI2, QueueFeed,
     QueueDispatch DEF Next

\* What the invariants say of the queues is OwnerQueues.
LEMMA QueueImplies ==
  ASSUME TypeOK, Numbered, CommitInOrder, MemInv, QueueInv
  PROVE  OwnerQueues
<1>0. /\ e1 \subseteq Seqs /\ e2 \subseteq Seqs /\ e3 \subseteq Seqs /\ e4 \subseteq Seqs
      /\ lhq \subseteq Seqs /\ stq \subseteq Seqs
      /\ \A s \in Seqs : s \in InL1d("LoadHit") <=> L1dLoad(s)
      /\ InL1d("LoadHit") \subseteq Seqs
  BY DEF TypeOK, StageTypeOK, LsuTypeOK, InL1d, L1dLoad
<1>1. lhq = Loads(e1) \cup e2 \cup e3 \cup e4 \cup InL1d("LoadHit")
  <2>1. ASSUME NEW s
        PROVE  s \in lhq <=> s \in Loads(e1) \cup e2 \cup e3 \cup e4 \cup InL1d("LoadHit")
    BY <1>0 DEF QueueInv, InLhq, Loads
  <2>2. QED
    BY <2>1
<1>2. mdb = liq
  BY DEF QueueInv
<1>3. \A s \in Seqs : s \in Retired <=> s < Len(committed)
  <2>1. /\ committed \in Seq([seq : Seqs, cycle : Nat, trap : TrapCauses \cup {None}])
        /\ Len(committed) \in Nat /\ DOMAIN committed = 1 .. Len(committed)
    BY SMTT(60) DEF TypeOK, CommitTypeOK
  <2>2. ASSUME NEW s \in Seqs, s \in Retired PROVE s < Len(committed)
    <3>1. PICK k \in 1 .. Len(committed) : s = committed[k].seq
      BY <2>1, <2>2 DEF Retired, SeqsOf, RangeOf
    <3>2. QED
      BY <2>1, <3>1, SMTT(60) DEF CommitInOrder
  <2>3. ASSUME NEW s \in Seqs, s < Len(committed) PROVE s \in Retired
    <3>1. s \in Nat
      BY StreamShape
    <3>2. s + 1 \in 1 .. Len(committed) /\ (s + 1) - 1 = s
      BY <2>1, <2>3, <3>1, SMTT(60)
    <3>3. committed[s + 1].seq = s /\ s + 1 \in DOMAIN committed
      BY <2>1, <3>2 DEF CommitInOrder
    <3>4. committed[s + 1] \in RangeOf(committed)
      BY <3>3 DEF RangeOf
    <3>5. QED
      BY <3>3, <3>4 DEF Retired, SeqsOf
  <2>4. QED
    BY <2>2, <2>3
<1>4. /\ \A s : s \in SeqsOf(scb) <=> \E x \in scb : x.seq = s
      /\ \A s : s \in InL1d("StoreDrain") <=> s \in Seqs /\ l1d # None /\ l1d.kind = "StoreDrain" /\ l1d.seq = s
  BY DEF SeqsOf, InL1d
<1>5. SeqsOf(scb) \cup InL1d("StoreDrain") =
        {s \in Retired : uops[s].is_store /\ uops[s].load_store_id >= lsid_cache_ptr}
  <2>0. Retired \subseteq Seqs
    <3> DEFINE R == [seq : Seqs, cycle : Nat, trap : TrapCauses \cup {None}]
    <3>a. committed \in Seq(R) /\ \A r \in R : r.seq \in Seqs
      BY DEF TypeOK, CommitTypeOK
    <3> HIDE DEF R
    <3>b. \A k \in DOMAIN committed : committed[k] \in R
      BY <3>a, SMTT(60)
    <3>1. \A k \in DOMAIN committed : committed[k].seq \in Seqs
      BY <3>a, <3>b
    <3>2. \A x \in RangeOf(committed) : x.seq \in Seqs
      BY <3>1 DEF RangeOf
    <3>3. QED
      BY <3>2 DEF Retired, SeqsOf
  <2>1. ASSUME NEW s \in Seqs, uops[s].is_store, s < Len(committed)
        PROVE  s \in SeqsOf(scb) \cup InL1d("StoreDrain") <=> lsid(s) >= lsid_cache_ptr
    <3>1. StorePerformed(s) <=> lsid(s) < lsid_cache_ptr
      BY <2>1 DEF MemInv, PerformedBelow, StoresBelow
    <3>2. StorePerformed(s) <=> ~(s \in SeqsOf(scb) \cup InL1d("StoreDrain"))
      BY <1>4, <2>1 DEF StorePerformed
    <3>3. lsid(s) \in Nat /\ lsid_cache_ptr \in Nat
      BY UopFacts
    <3>4. QED
      BY <3>1, <3>2, <3>3, SMTT(60)
  <2>2. ASSUME NEW s \in SeqsOf(scb) \cup InL1d("StoreDrain")
        PROVE  s \in Seqs /\ uops[s].is_store /\ s < Len(committed)
    BY <1>4, UopFacts, SMTT(60) DEF MemInv, PipeKinds
  <2>3. ASSUME NEW s
        PROVE  s \in SeqsOf(scb) \cup InL1d("StoreDrain")
                 <=> s \in {t \in Retired : uops[t].is_store /\ uops[t].load_store_id >= lsid_cache_ptr}
    BY <1>3, <2>0, <2>1, <2>2 DEF lsid
  <2>4. QED
    BY <2>3
<1>6. SeqsOf(scb) \cap InL1d("StoreDrain") = {}
  BY <1>4 DEF MemInv, StoresApart
<1>7. stq = {s \in RangeOf(rob) : uops[s].is_store /\ s \notin upstream \cup RangeOf(i2)
                                                                \cup RangeOf(i2_stay)}
  <2>1. ASSUME NEW s
        PROVE  s \in stq <=> s \in {t \in RangeOf(rob) : uops[t].is_store /\ t \notin upstream \cup RangeOf(i2)
                                                                \cup RangeOf(i2_stay)}
    BY <1>0, RobHolds DEF QueueInv, InStq, Waiting
  <2>2. QED
    BY <2>1
<1>8. QED
  BY <1>1, <1>2, <1>5, <1>6, <1>7 DEF OwnerQueues
=============================================================================
