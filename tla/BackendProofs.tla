---------------------------- MODULE BackendProofs ----------------------------
(***************************************************************************)
(* What holds of Backend for every set of commit streams, every width and  *)
(* every load-miss option.                                                 *)
(*                                                                         *)
(* First, no uop passes I2 on data that a late load miss could take back,  *)
(* and the tags that announce a uop's result are set in the order in which *)
(* it goes through the stages.  Then, with the facts about finite sets,    *)
(* what build_uops counts and how full the stages are.  BackInv puts the   *)
(* parts together with those of BackendInvariant.                          *)
(***************************************************************************)
EXTENDS BackendInvariant

\* Leaves go to Zenon, with time to spare, unless they name another prover.
USE ZenonT(60)

-----------------------------------------------------------------------------
(* Data.                                                                   *)

\* A load's data tag is set with its e4_cycle, that of any other uop that
\* passes I2 with its w1_cycle: tag_stage_cycles moves a data tag only once.
DataTags ==
  \A s \in Seqs : data_ready_visible[s] # None /\ ~uops[s].bypass_d2 =>
    /\ uops[s].is_load => e4_cycle[s] # None
    /\ ~uops[s].is_load => w1_cycle[s] # None

\* A uop of the D2 bypass never enters I2.
PastI2 ==
  \A s \in Seqs : s \in RangeOf(i2) \/ s \in RangeOf(i2_stay) \/ Executing(s) => ~uops[s].bypass_d2

DataUsed == \A s \in Seqs : Executing(s) => i2_ready(s)

DataInv == NoDataFromMiss /\ DataTags /\ PastI2 /\ DataUsed

HasData(p) == Reached(data_ready_visible[p], cycle)

\* What build_uops writes into a source: an invalid one has no producer, a
\* producer comes earlier in the stream, and a logical tag names a writer of
\* the source's operand queue, which is then the producer.
LEMMA Sources ==
  ASSUME TypeOK, Numbered, NEW s \in Seqs, NEW i \in {1, 2}
  PROVE  /\ uops[s].src_valid[i] \in BOOLEAN
         /\ uops[s].deps[i] # None => /\ uops[s].deps[i] \in Seqs /\ uops[s].deps[i] < s
                                      /\ uops[s].src_valid[i]
         /\ uops[s].src_logical_tags[i] # None =>
              /\ uops[s].src_logical_tags[i] \in Seqs
              /\ uops[s].deps[i] = uops[s].src_logical_tags[i]
              /\ uops[s].src_queue_kinds[i] # None
              /\ uops[uops[s].deps[i]].dst_queue_kind = uops[s].src_queue_kinds[i]
<1> DEFINE c == Stream
           tag == resolve_logical_queue_src(c, s, i)
           r == c[s].src[i].reg
<1>1. /\ DOMAIN c = Seqs /\ uops[s] = build_uops(c)[s]
      /\ \A p \in Seqs : uops[p] = build_uops(c)[p]
  BY StreamShape
<1>2. /\ uops[s].deps[i] = Producer(c, s, i)
      /\ uops[s].src_valid[i] = source_valid(c, s, i)
      /\ uops[s].src_queue_kinds[i] = queue_src_kind(c, s, i)
      /\ uops[s].src_logical_tags[i] = tag
      /\ \A p \in Seqs : uops[p].dst_queue_kind = queue_dst_kind(c, p)
  <2>1. uops[s].deps = [j \in {1, 2} |-> Producer(c, s, j)]
    BY <1>1, SMTT(60) DEF build_uops
  <2>2. uops[s].src_valid = [j \in {1, 2} |-> source_valid(c, s, j)]
    BY <1>1, SMTT(60) DEF build_uops
  <2>3. uops[s].src_queue_kinds = [j \in {1, 2} |-> queue_src_kind(c, s, j)]
    BY <1>1, SMTT(60) DEF build_uops
  <2>4. uops[s].src_logical_tags = [j \in {1, 2} |-> resolve_logical_queue_src(c, s, j)]
    BY <1>1, SMTT(60) DEF build_uops
  <2>5. ASSUME NEW p \in Seqs PROVE uops[p].dst_queue_kind = queue_dst_kind(c, p)
    <3>1. uops[p] = build_uops(c)[p] /\ p \in DOMAIN c
      BY <1>1
    <3>2. QED
      BY <3>1, SMTT(60) DEF build_uops
  <2>6. QED
    BY <2>1, <2>2, <2>3, <2>4, <2>5
<1> HIDE DEF c
<1>3. ASSUME NEW S, NEW n PROVE NthLatest(S, n) \in S \/ NthLatest(S, n) = None
  BY DEF NthLatest
<1>4. source_valid(c, s, i) \in BOOLEAN
  BY DEF source_valid
<1>5. tag # None => /\ tag \in Seqs /\ tag < s
                    /\ queue_src_kind(c, s, i) # None
                    /\ queue_dst_kind(c, tag) = queue_src_kind(c, s, i)
                    /\ source_valid(c, s, i)
  <2> SUFFICES ASSUME tag # None
               PROVE  /\ tag \in Seqs /\ tag < s
                      /\ queue_src_kind(c, s, i) # None
                      /\ queue_dst_kind(c, tag) = queue_src_kind(c, s, i)
                      /\ source_valid(c, s, i)
    OBVIOUS
  <2>1. queue_src_kind(c, s, i) # None /\ tag = NthLatest(QueueHistory(c, s, r), c[s].src[i].rel)
    BY DEF resolve_logical_queue_src
  <2>2. tag \in QueueHistory(c, s, r)
    BY <1>3, <2>1
  <2>3. tag \in Seqs /\ tag < s /\ queue_dst_kind(c, tag) = r
    <3> HIDE DEF tag
    <3>1. QED
      BY <1>1, <2>2 DEF QueueHistory
  <2>4. queue_src_kind(c, s, i) = r /\ source_valid(c, s, i)
    BY <2>1 DEF queue_src_kind
  <2>5. QED
    BY <2>1, <2>3, <2>4
<1>6. Producer(c, s, i) # None =>
        /\ Producer(c, s, i) \in Seqs /\ Producer(c, s, i) < s
        /\ source_valid(c, s, i)
  <2>1. CASE tag # None
    <3>1. Producer(c, s, i) = tag
      BY <2>1 DEF Producer
    <3>2. QED
      BY <1>5, <2>1, <3>1
  <2>2. CASE tag = None
    <3>1. Producer(c, s, i) # None => Producer(c, s, i) = last_writer(c, s, r) /\ source_valid(c, s, i)
      BY <2>2 DEF Producer
    <3> DEFINE S == {p \in DOMAIN c : p < s /\ c[p].wb = r}
    <3>2. last_writer(c, s, r) = NthLatest(S, 1)
      BY DEF last_writer
    <3>3. \A p \in S : p \in Seqs /\ p < s
      BY <1>1
    <3> HIDE DEF S, r
    <3>4. NthLatest(S, 1) # None => NthLatest(S, 1) \in Seqs /\ NthLatest(S, 1) < s
      BY <1>3, <3>3
    <3>5. QED
      BY <3>1, <3>2, <3>4
  <2>3. QED
    BY <2>1, <2>2
<1>7. tag # None => Producer(c, s, i) = tag
  BY DEF Producer
<1> HIDE DEF tag
<1>8. QED
  BY <1>2, <1>4, <1>5, <1>6, <1>7

\* The producers of a uop are uops before it.
LEMMA DepsInStream ==
  ASSUME TypeOK, Numbered, NEW s \in Seqs
  PROVE  /\ Deps(s) \subseteq Seqs
         /\ \A p \in Deps(s) : p < s
  BY Sources, SMTT(60) DEF Deps

\* A uop whose producers keep their data stays ready.
LEMMA ReadyStays ==
  ASSUME TypeOK, Numbered, uops' = uops, \A p \in Seqs : HasData(p) => HasData(p)'
  PROVE  \A s \in Seqs : i2_ready(s) => i2_ready(s)'
<1> SUFFICES ASSUME NEW s \in Seqs, i2_ready(s) PROVE i2_ready(s)'
  OBVIOUS
<1>1. Deps(s)' = Deps(s) /\ Deps(s) \subseteq Seqs
  BY DepsInStream DEF Deps
<1>2. \A p \in Deps(s) : HasData(p)
  BY DEF i2_ready, HasData
<1>3. \A p \in Deps(s)' : HasData(p)'
  BY <1>1, <1>2
<1>4. QED
  BY <1>3 DEF i2_ready, HasData

\* Before the first cycle there is no data.
LEMMA DataInit == Init => DataInv
<1> SUFFICES ASSUME Init PROVE DataInv
  OBVIOUS
<1>1. /\ \A s \in Seqs : data_ready_visible[s] = None
      /\ RangeOf(i2) = {} /\ RangeOf(i2_stay) = {}
      /\ e1 = {} /\ e2 = {} /\ e3 = {} /\ e4 = {} /\ w1 = {} /\ l1d = None /\ liq = {}
  BY SMTT(60) DEF Init, UopsInit, BackendInit, RangeOf
<1>2. \A s : ~Executing(s)
  BY <1>1 DEF Executing, L1dLoad, InLiq
<1>3. QED
  BY <1>1, <1>2 DEF DataInv, NoDataFromMiss, DataTags, PastI2, DataUsed

\* The three parts of DataInv that a step keeps when it leaves the tags as
\* they are.
LEMMA DataUnchanged ==
  ASSUME TypeOK, Numbered, DataInv, NoDataFromMiss',
         UNCHANGED <<uops, cycle, data_ready_visible, e4_cycle, w1_cycle>>,
         \A s \in Seqs : Executing(s)' => Executing(s),
         \A s \in Seqs : s \in RangeOf(i2)' \/ s \in RangeOf(i2_stay)' =>
                           s \in RangeOf(i2) \/ s \in RangeOf(i2_stay)
  PROVE  DataInv'
<1>1. DataTags'
  BY DEF DataInv, DataTags, Seqs
<1>2. PastI2'
  BY DEF DataInv, PastI2, Seqs
<1>3. \A s \in Seqs : i2_ready(s) => i2_ready(s)'
  BY ReadyStays DEF HasData
<1>4. DataUsed'
  BY <1>3 DEF DataInv, DataUsed, Seqs
<1>5. QED
  BY <1>1, <1>2, <1>4 DEF DataInv

\* A miss is still to come for the same loads as long as miss_injected and
\* the uops do not change.
LEMMA MissUnchanged ==
  ASSUME UNCHANGED <<uops, miss_injected>>
  PROVE  \A s : should_inject_load_miss(s)' <=> should_inject_load_miss(s)
BY DEF should_inject_load_miss

\* A stage other than tag_stage_cycles and advance_execute keeps
\* NoDataFromMiss: until advance_execute E4 stays as it is, and after it
\* there is nothing to keep.
LEMMA NoDataKept ==
  ASSUME NoDataFromMiss, UNCHANGED <<uops, miss_injected, cycle>>,
         \A s \in Seqs : uops[s].is_load => data_ready_visible'[s] = data_ready_visible[s],
         \A s \in Seqs : should_inject_load_miss(s) => uops[s].is_load,
         step \in {"publish", "retire", "execute", "exit"} =>
           e4' = e4 /\ step' \in {"publish", "retire", "execute", "exit"}
  PROVE  NoDataFromMiss'
<1>1. \A s : should_inject_load_miss(s)' <=> should_inject_load_miss(s)
  BY MissUnchanged
<1>2. QED
  BY <1>1 DEF NoDataFromMiss, Seqs

\* tag_stage_cycles announces data for the next cycle: never for a uop
\* whose data was there already.
LEMMA DataTag ==
  ASSUME TypeOK, Numbered, MemInv, DataInv, At("tag", "publish"), TagStageCycles
  PROVE  DataInv'
<1>0. /\ UNCHANGED <<uops, miss_injected, cycle, rob, committed, upstream, i2, i2_stay, stageVars, l1d, liq>>
      /\ step = "tag" /\ step' = "publish"
  BY DEF At, TagStageCycles, miss_state, backendVars, commitVars, i2Vars, lsuVars, loadVars
<1>1. cycle \in Nat /\ cycle # None /\ cycle + 1 # None
  BY NoneAssumption, SMTT(60) DEF TypeOK, LoopTypeOK
<1>2. \A s \in Seqs :
        /\ e4_cycle'[s] = IF s \in e4 /\ e4_cycle[s] = None THEN cycle ELSE e4_cycle[s]
        /\ w1_cycle'[s] = IF s \in w1 /\ w1_cycle[s] = None THEN cycle ELSE w1_cycle[s]
        /\ data_ready_visible'[s] =
             IF IF uops[s].is_load THEN s \in e4 /\ e4_cycle[s] = None ELSE s \in w1 /\ w1_cycle[s] = None
             THEN cycle + 1 ELSE data_ready_visible[s]
  BY DEF TagStageCycles, FirstIn
<1>3. \A s \in Seqs : uops[s].is_load \in BOOLEAN
  BY UopFacts
<1>4. /\ \A s : Executing(s)' <=> Executing(s)
      /\ RangeOf(i2)' = RangeOf(i2) /\ RangeOf(i2_stay)' = RangeOf(i2_stay)
  BY <1>0 DEF Executing, L1dLoad, InLiq, RangeOf, stageVars
<1>5. NoDataFromMiss'
  <2>1. \A s \in Seqs : should_inject_load_miss(s) => data_ready_visible[s] = None /\ uops[s].is_load
    BY <1>0 DEF DataInv, NoDataFromMiss, should_inject_load_miss
  <2>2. \A s : should_inject_load_miss(s)' <=> should_inject_load_miss(s)
    BY <1>0, MissUnchanged
  <2>3. \A s \in Seqs : should_inject_load_miss(s) /\ data_ready_visible'[s] # None =>
                          s \in e4 /\ data_ready_visible'[s] = cycle + 1
    BY <1>2, <2>1
  <2>4. QED
    BY <1>0, <2>2, <2>3 DEF NoDataFromMiss, Seqs, stageVars
<1>6. DataTags'
  BY <1>0, <1>1, <1>2, <1>3 DEF DataInv, DataTags, Seqs
<1>7. PastI2'
  BY <1>0, <1>4 DEF DataInv, PastI2, Seqs
<1>8. \A p \in Seqs : HasData(p) => HasData(p)'
  <2> SUFFICES ASSUME NEW p \in Seqs, HasData(p) PROVE HasData(p)'
    OBVIOUS
  <2>1. data_ready_visible[p] # None
    BY DEF HasData, Reached
  <2>2. uops[p].is_load => e4_cycle[p] # None
    <3>1. uops[p].is_load => ~uops[p].bypass_d2
      BY UopFacts DEF Mem
    <3>2. QED
      BY <2>1, <3>1 DEF DataInv, DataTags
  <2>3. ~uops[p].is_load => p \notin w1 \/ w1_cycle[p] # None
    <3>1. p \in w1 => ~uops[p].bypass_d2
      BY DEF DataInv, PastI2, Executing
    <3>2. QED
      BY <2>1, <3>1 DEF DataInv, DataTags
  <2>4. data_ready_visible'[p] = data_ready_visible[p]
    BY <1>2, <1>3, <2>2, <2>3
  <2>5. QED
    BY <1>0, <2>4 DEF HasData
<1>9. DataUsed'
  <2>1. \A s \in Seqs : i2_ready(s) => i2_ready(s)'
    BY <1>0, <1>8, ReadyStays
  <2>2. QED
    BY <1>0, <1>4, <2>1 DEF DataInv, DataUsed, Seqs
<1>10. QED
  BY <1>5, <1>6, <1>7, <1>9 DEF DataInv

\* advance_execute takes back only data that is announced for the next
\* cycle, so data that a consumer can have read stays.
LEMMA DataExecute ==
  ASSUME TypeOK, Numbered, WidthInv, MemInv, DataInv, At("execute", "l1d"), AdvanceExecute
  PROVE  DataInv'
<1>0. UNCHANGED <<uops, cycle, i2, i2_stay>> /\ step = "execute" /\ step' = "l1d"
  BY DEF At, AdvanceExecute, i2Vars
<1>1. \A s \in Seqs :
        /\ miss_injected'[s] <=> miss_injected[s] \/ s \in Missed
        /\ s \in Missed => data_ready_visible'[s] = None
        /\ s \notin Missed => /\ data_ready_visible'[s] = data_ready_visible[s]
                              /\ e4_cycle'[s] = e4_cycle[s] /\ w1_cycle'[s] = w1_cycle[s]
  BY DEF AdvanceExecute, ResetMissed
<1>2. \A s : s \in Missed <=> s \in e4 /\ should_inject_load_miss(s)
  BY DEF Missed
<1>3. NoDataFromMiss'
  <2> SUFFICES ASSUME NEW s \in Seqs, should_inject_load_miss(s)', data_ready_visible'[s] # None
               PROVE  FALSE
    BY <1>0 DEF NoDataFromMiss, Seqs
  <2>1. s \notin Missed
    BY <1>1
  <2>2. should_inject_load_miss(s)
    BY <1>0, <1>1 DEF should_inject_load_miss
  <2>3. s \in e4
    BY <1>1, <2>1, <2>2 DEF DataInv, NoDataFromMiss
  <2>4. QED
    BY <1>2, <2>1, <2>2, <2>3
<1>4. DataTags'
  BY <1>0, <1>1 DEF DataInv, DataTags, Seqs
<1>5. \A s \in Seqs : Executing(s)' => Executing(s)
  BY ExecuteMoves DEF Executing, Loads
<1>6. PastI2'
  <2>1. RangeOf(i2)' = RangeOf(i2) /\ RangeOf(i2_stay)' = RangeOf(i2_stay)
    BY <1>0 DEF RangeOf
  <2>2. QED
    BY <1>0, <1>5, <2>1 DEF DataInv, PastI2, Seqs
<1>7. \A p \in Seqs : HasData(p) => HasData(p)'
  <2> SUFFICES ASSUME NEW p \in Seqs, HasData(p) PROVE HasData(p)'
    OBVIOUS
  <2>1. data_ready_visible[p] # None /\ data_ready_visible[p] <= cycle /\ cycle \in Nat
    BY DEF HasData, Reached, TypeOK, LoopTypeOK
  <2>2. ~should_inject_load_miss(p)
    BY <2>1, SMTT(60) DEF DataInv, NoDataFromMiss
  <2>3. data_ready_visible'[p] = data_ready_visible[p]
    BY <1>1, <1>2, <2>2
  <2>4. QED
    BY <1>0, <2>3 DEF HasData
<1>8. DataUsed'
  <2>1. \A s \in Seqs : i2_ready(s) => i2_ready(s)'
    BY <1>0, <1>7, ReadyStays
  <2>2. QED
    BY <1>0, <1>5, <2>1 DEF DataInv, DataUsed, Seqs
<1>9. QED
  BY <1>3, <1>4, <1>6, <1>8 DEF DataInv

\* advance_l1d and advance_liq bring no uop into the execution stages.
LEMMA LsuMoves ==
  ASSUME AdvanceL1d \/ AdvanceLiq
  PROVE  \A s \in Seqs : Executing(s)' => Executing(s)
<1>1. CASE AdvanceL1d
  <2>1. /\ UNCHANGED <<e1, e2, e3, e4, liq>>
        /\ \A s : s \in w1' => s \in w1 \/ L1dLoad(s)
        /\ \A s : L1dLoad(s)' => L1dLoad(s)
    BY <1>1 DEF AdvanceL1d, L1dLoadHit, L1dStoreDrain, L1dWait, L1dReady, L1dLoad
  <2>2. \A s : InLiq(s)' => InLiq(s)
    BY <2>1 DEF InLiq
  <2>3. QED
    BY <2>1, <2>2 DEF Executing
<1>2. CASE AdvanceLiq
  <2>1. /\ UNCHANGED <<e2, e3, e4, w1, l1d>>
        /\ \A x \in liq' : x \in liq
        /\ \A s \in e1' : s \in e1 \/ \E x \in liq : x.seq = s
    BY <1>2 DEF AdvanceLiq, LiqRestart, Refillable
  <2>2. QED
    BY <2>1 DEF Executing, InLiq, L1dLoad
<1>3. QED
  BY <1>1, <1>2

\* advance_l1d and advance_liq move loads that had their data.
LEMMA DataLsu ==
  ASSUME TypeOK, Numbered, DataInv, \/ At("l1d", "liq") /\ AdvanceL1d
                                    \/ At("liq", "feed") /\ AdvanceLiq
  PROVE  DataInv'
<1>0. UNCHANGED <<uops, cycle, data_ready_visible, e4_cycle, w1_cycle, miss_injected, i2, i2_stay>>
  BY DEF At, AdvanceL1d, AdvanceLiq, uopVars, stage_cycles, visible_cycles, miss_state, i2Vars
<1>1. NoDataFromMiss'
  <2>1. step \notin {"publish", "retire", "execute", "exit"}
    BY DEF At
  <2>2. \A s : should_inject_load_miss(s) => uops[s].is_load
    BY DEF should_inject_load_miss
  <2>3. QED
    BY <1>0, <2>1, <2>2, NoDataKept DEF DataInv
<1>2. RangeOf(i2)' = RangeOf(i2) /\ RangeOf(i2_stay)' = RangeOf(i2_stay)
  BY <1>0 DEF RangeOf
<1>3. \A s \in Seqs : Executing(s)' => Executing(s)
  BY LsuMoves
<1>4. QED
  BY <1>0, <1>1, <1>2, <1>3, DataUnchanged

\* I2 issues a uop only with the data of its producers.
LEMMA DataI2 ==
  ASSUME TypeOK, Numbered, PlaceInv, DataInv, \/ At("i2", "i2") /\ (I2Issue \/ I2Stay)
                                              \/ At("i2", "dispatch") /\ I2End
  PROVE  DataInv'
<1>0. UNCHANGED <<uops, cycle, data_ready_visible, e4_cycle, w1_cycle, miss_injected, e2, e3, e4, w1, l1d, liq>>
  BY DEF At, I2Issue, I2Stay, I2End, uopVars, stage_cycles, visible_cycles, miss_state, lsuVars,
         loadVars, stageVars
<1>1. NoDataFromMiss'
  <2>1. step \notin {"publish", "retire", "execute", "exit"}
    BY DEF At
  <2>2. \A s : should_inject_load_miss(s) => uops[s].is_load
    BY DEF should_inject_load_miss
  <2>3. QED
    BY <1>0, <2>1, <2>2, NoDataKept DEF DataInv
<1>2. i2 \in Seq(Seqs) /\ i2_stay \in Seq(Seqs)
  BY DEF TypeOK, StageTypeOK
<1>a. \A s : (L1dLoad(s)' <=> L1dLoad(s)) /\ (InLiq(s)' <=> InLiq(s))
  BY <1>0 DEF L1dLoad, InLiq
<1>3. CASE I2Issue \/ I2Stay
  <2> DEFINE h == Head(i2)
  <2>1. /\ i2 # <<>> /\ i2' = Tail(i2)
        /\ \/ i2_stay' = i2_stay /\ e1' = e1 \cup {h} /\ i2_ready(h)
           \/ i2_stay' = Append(i2_stay, h) /\ e1' = e1
    BY <1>3 DEF I2Issue, I2Stay, I2Goes, i2_issue_eligible, lsuVars, stageVars
  <2>2. /\ h \in Seqs /\ h \in RangeOf(i2)
        /\ \A s : s \in RangeOf(i2)' => s \in RangeOf(i2)
    BY <1>2, <2>1, RangeTail DEF PlaceInv
  <2>3. \A s : s \in RangeOf(i2_stay)' => s \in RangeOf(i2_stay) \/ s = h
    <3>1. CASE i2_stay' = i2_stay
      BY <3>1 DEF RangeOf
    <3>2. CASE i2_stay' = Append(i2_stay, h)
      BY <1>2, <2>2, <3>2, RangeAppend
    <3>3. QED
      BY <2>1, <3>1, <3>2
  <2> HIDE DEF h
  <2>4. \A s : Executing(s)' => Executing(s) \/ (s = h /\ i2_ready(h))
    BY <1>0, <1>a, <2>1 DEF Executing
  <2>5. DataTags'
    BY <1>0 DEF DataInv, DataTags, Seqs
  <2>6. PastI2'
    BY <1>0, <2>2, <2>3, <2>4 DEF DataInv, PastI2, Seqs
  <2>7. \A s \in Seqs : i2_ready(s) => i2_ready(s)'
    BY <1>0, ReadyStays DEF HasData
  <2>8. DataUsed'
    BY <1>0, <2>2, <2>4, <2>7 DEF DataInv, DataUsed, Seqs
  <2>9. QED
    BY <1>1, <2>5, <2>6, <2>8 DEF DataInv
<1>4. CASE I2End
  <2>1. RangeOf(i2)' = RangeOf(i2_stay) /\ RangeOf(i2_stay)' = {} /\ e1' = e1
    BY <1>4, SMTT(60) DEF I2End, RangeOf, lsuVars, stageVars
  <2>2. \A s \in Seqs : Executing(s)' => Executing(s)
    BY <1>0, <1>a, <2>1 DEF Executing
  <2>3. \A s \in Seqs : s \in RangeOf(i2)' \/ s \in RangeOf(i2_stay)' =>
                          s \in RangeOf(i2) \/ s \in RangeOf(i2_stay)
    BY <2>1
  <2>4. QED
    BY <1>0, <1>1, <2>2, <2>3, DataUnchanged
<1>5. QED
  BY <1>3, <1>4

\* What advance_i1_to_i2 hands to I2 does not take the D2 bypass.
LEMMA DataFeed ==
  ASSUME TypeOK, Numbered, DataInv, At("feed", "feed"), NEW f \in Seqs, FeedI2(f)
  PROVE  DataInv'
<1>0. /\ UNCHANGED <<uops, cycle, data_ready_visible, e4_cycle, w1_cycle, miss_injected, i2_stay, stageVars, l1d, liq>>
      /\ i2' = Append(i2, f) /\ ~uops[f].bypass_d2
  BY DEF At, FeedI2, uopVars, stage_cycles, visible_cycles, miss_state, lsuVars, loadVars
<1>1. NoDataFromMiss'
  <2>1. step \notin {"publish", "retire", "execute", "exit"}
    BY DEF At
  <2>2. \A s : should_inject_load_miss(s) => uops[s].is_load
    BY DEF should_inject_load_miss
  <2>3. QED
    BY <1>0, <2>1, <2>2, NoDataKept DEF DataInv
<1>2. /\ \A s : s \in RangeOf(i2)' <=> s \in RangeOf(i2) \/ s = f
      /\ RangeOf(i2_stay)' = RangeOf(i2_stay)
  <2>1. i2 \in Seq(Seqs)
    BY DEF TypeOK, StageTypeOK
  <2>2. RangeOf(i2_stay)' = RangeOf(i2_stay)
    BY <1>0 DEF RangeOf
  <2>3. QED
    BY <1>0, <2>1, <2>2, RangeAppend
<1>3. \A s : Executing(s)' <=> Executing(s)
  BY <1>0 DEF Executing, L1dLoad, InLiq, stageVars
<1>4. DataTags'
  BY <1>0 DEF DataInv, DataTags, Seqs
<1>5. PastI2'
  BY <1>0, <1>2, <1>3 DEF DataInv, PastI2, Seqs
<1>6. \A s \in Seqs : i2_ready(s) => i2_ready(s)'
  BY <1>0, ReadyStays DEF HasData
<1>7. DataUsed'
  BY <1>0, <1>3, <1>6 DEF DataInv, DataUsed, Seqs
<1>8. QED
  BY <1>1, <1>4, <1>5, <1>7 DEF DataInv

\* dispatch_to_iq_and_bypass announces the data of a bypassing uop once.
LEMMA DataBypass ==
  ASSUME TypeOK, Numbered, DataInv, At("dispatch", "dispatch"), NEW b \in Seqs, Bypass(b)
  PROVE  DataInv'
<1>0. /\ UNCHANGED <<uops, cycle, e4_cycle, w1_cycle, miss_injected, i2, i2_stay, e1, e2, e3, e4, w1, l1d, liq>>
      /\ uops[b].bypass_d2
  BY DEF At, Bypass, stage_cycles, miss_state, i2Vars, loadVars
<1>1. \A s \in Seqs : /\ s # b => data_ready_visible'[s] = data_ready_visible[s]
                      /\ data_ready_visible[s] # None => data_ready_visible'[s] = data_ready_visible[s]
  BY DEF Bypass, GetOrInsert, TypeOK, UopsTypeOK
<1>2. ~uops[b].is_load
  BY <1>0, UopFacts DEF Mem
<1>3. NoDataFromMiss'
  <2>1. step \notin {"publish", "retire", "execute", "exit"}
    BY DEF At
  <2>2. \A s : should_inject_load_miss(s) => uops[s].is_load
    BY DEF should_inject_load_miss
  <2>3. \A s \in Seqs : uops[s].is_load => data_ready_visible'[s] = data_ready_visible[s]
    BY <1>1, <1>2
  <2>4. QED
    BY <1>0, <2>1, <2>2, <2>3, NoDataKept DEF DataInv
<1>4. DataTags'
  BY <1>0, <1>1 DEF DataInv, DataTags, Seqs
<1>5. /\ \A s : Executing(s)' <=> Executing(s)
      /\ RangeOf(i2)' = RangeOf(i2) /\ RangeOf(i2_stay)' = RangeOf(i2_stay)
  BY <1>0 DEF Executing, L1dLoad, InLiq, RangeOf
<1>6. PastI2'
  BY <1>0, <1>5 DEF DataInv, PastI2, Seqs
<1>7. \A p \in Seqs : HasData(p) => HasData(p)'
  BY <1>0, <1>1 DEF HasData, Reached
<1>8. \A s \in Seqs : i2_ready(s) => i2_ready(s)'
  BY <1>0, <1>7, ReadyStays
<1>9. DataUsed'
  BY <1>0, <1>5, <1>8 DEF DataInv, DataUsed, Seqs
<1>10. QED
  BY <1>3, <1>4, <1>6, <1>9 DEF DataInv

\* The steps that move no uop between I2 and W1 and set no tag.
Quiet ==
  \/ At("publish", "publish") /\ \E s \in Seqs : RaiseTrap(s)
  \/ At("publish", "retire") /\ AdvanceScb
  \/ At("retire", "retire") /\ RetireOne
  \/ RetireEnd("execute")
  \/ At("feed", "i2") /\ UNCHANGED <<backendVars, uopVars>>
  \/ At("dispatch", "dispatch") /\ Allocate
  \/ NextCycle
  \/ Exited
  \/ UNCHANGED vars

\* What they leave alone; advance_scb hands the L1D a store, never a load.
LEMMA QuietMoves ==
  ASSUME Quiet
  PROVE  /\ UNCHANGED <<uopVars, i2, i2_stay, e1, e2, e3, e4, w1, liq>>
         /\ \A s \in Seqs : Executing(s)' => Executing(s)
<1>0. UNCHANGED <<uopVars, i2, i2_stay, e1, e2, e3, e4, w1, liq>>
  BY DEF Quiet, RaiseTrap, AdvanceScb, RetireOne, RetireEnd, Allocate, NextCycle, Exited, vars,
     backendVars, i2Vars, lsuVars, loadVars, stageVars
<1>1. \A s : L1dLoad(s)' => L1dLoad(s)
  <2>1. CASE l1d' = l1d
    BY <2>1 DEF L1dLoad
  <2>2. CASE l1d' # l1d
    <3>1. AdvanceScb
      BY <2>2 DEF Quiet, RaiseTrap, RetireOne, RetireEnd, Allocate, NextCycle, Exited, vars,
         backendVars, lsuVars, loadVars
    <3>2. l1d'.kind = "StoreDrain"
      BY <2>2, <3>1, SMTT(60) DEF AdvanceScb
    <3>3. QED
      BY <3>2 DEF L1dLoad
  <2>3. QED
    BY <2>1, <2>2
<1>2. QED
  BY <1>0, <1>1 DEF Executing, InLiq

\* They keep the data; a cycle that ends only makes it older.
LEMMA DataQuiet ==
  ASSUME TypeOK, Numbered, MemInv, DataInv, Quiet
  PROVE  DataInv'
<1>0. UNCHANGED <<uops, data_ready_visible, e4_cycle, w1_cycle, miss_injected, i2, i2_stay,
                  e1, e2, e3, e4, w1, liq>>
  BY QuietMoves DEF uopVars, stage_cycles, visible_cycles, miss_state
<1>2. \A s \in Seqs : Executing(s)' => Executing(s)
  BY QuietMoves
<1>3. RangeOf(i2)' = RangeOf(i2) /\ RangeOf(i2_stay)' = RangeOf(i2_stay)
  BY <1>0 DEF RangeOf
<1>4. \A s : should_inject_load_miss(s) => uops[s].is_load
  BY DEF should_inject_load_miss
<1>5. CASE UNCHANGED cycle /\ ~NextCycle
  <2>1. step \in {"publish", "retire", "execute", "exit"} =>
          step' \in {"publish", "retire", "execute", "exit"}
    BY <1>5 DEF Quiet, At, RetireEnd, Exited, vars, loopVars
  <2>2. NoDataFromMiss'
    BY <1>0, <1>4, <1>5, <2>1, NoDataKept DEF DataInv
  <2>3. QED
    BY <1>0, <1>2, <1>3, <1>5, <2>2, DataUnchanged
<1>6. CASE NextCycle
  <2>1. step = "dispatch" /\ cycle \in Nat /\ (cycle' = cycle \/ cycle' = cycle + 1)
    BY <1>6 DEF NextCycle, TypeOK, LoopTypeOK
  <2>2. NoDataFromMiss'
    <3>1. \A s \in Seqs : should_inject_load_miss(s) => data_ready_visible[s] = None
      BY <2>1 DEF DataInv, NoDataFromMiss
    <3>2. \A s : should_inject_load_miss(s)' <=> should_inject_load_miss(s)
      BY <1>0, MissUnchanged
    <3>3. QED
      BY <1>0, <3>1, <3>2 DEF NoDataFromMiss, Seqs
  <2>3. DataTags'
    BY <1>0 DEF DataInv, DataTags, Seqs
  <2>4. PastI2'
    BY <1>0, <1>2, <1>3 DEF DataInv, PastI2, Seqs
  <2>5. \A p \in Seqs : HasData(p) => HasData(p)'
    <3>1. \A p \in Seqs : data_ready_visible[p] \in Nat \cup {None}
      BY DEF TypeOK, UopsTypeOK, OptCycle
    <3>2. QED
      BY <1>0, <2>1, <3>1, SMTT(60) DEF HasData, Reached
  <2>6. \A s \in Seqs : i2_ready(s) => i2_ready(s)'
    BY <1>0, <2>5, ReadyStays
  <2>7. DataUsed'
    BY <1>0, <1>2, <2>6 DEF DataInv, DataUsed, Seqs
  <2>8. QED
    BY <2>2, <2>3, <2>4, <2>7 DEF DataInv
<1>7. NextCycle \/ UNCHANGED cycle
  BY DEF Quiet, At, RetireEnd, Exited, vars, loopVars
<1>8. QED
  BY <1>5, <1>6, <1>7

\* Every stage of the loop keeps DataInv.
LEMMA DataStep ==
  TypeOK /\ Numbered /\ MemInv /\ WidthInv /\ PlaceInv /\ DataInv /\ [Next]_vars => DataInv'
<1> SUFFICES ASSUME TypeOK, Numbered, MemInv, WidthInv, PlaceInv, DataInv, [Next]_vars
             PROVE  DataInv'
  OBVIOUS
<1>1. QED
  BY DataTag, DataExecute, DataLsu, DataFeed, DataI2, DataBypass, DataQuiet DEF Next, Quiet

-----------------------------------------------------------------------------
(* The wake-up tags.                                                       *)

\* The first cycle ends before anything has reached I2.
Early ==
  cycle = 0 => /\ \A s \in Seqs : ~Executing(s)
               /\ i2 = <<>> /\ i2_stay = <<>>
               /\ step \notin {"dispatch", "exit"} => upstream = {}

\* The loads that tag_stage_cycles has seen in E1.
SeenInE1(s) == \/ s \in e2 \/ s \in e3 \/ s \in e4
               \/ s \in e1 /\ step \in {"publish", "retire", "execute"}

\* A load's promise is made the cycle after it enters E1 and its data comes
\* the cycle after it enters E4; a miss takes both back.
LoadTags ==
  \A s \in Seqs : uops[s].is_load =>
    /\ pick_wakeup_visible[s] # None => e1_cycle[s] # None
    /\ data_ready_visible[s] # None => e4_cycle[s] # None
    /\ e1_cycle[s] # None => /\ pick_wakeup_visible[s] = e1_cycle[s] + 1
                             /\ e1_cycle[s] > 0 /\ e1_cycle[s] <= cycle
    /\ e4_cycle[s] # None => /\ data_ready_visible[s] = e4_cycle[s] + 1
                             /\ e1_cycle[s] # None /\ e1_cycle[s] <= e4_cycle[s]
    /\ SeenInE1(s) => e1_cycle[s] # None

\* Any other uop makes its promise when its data comes.
OtherTags ==
  \A s \in Seqs : ~uops[s].is_load =>
    /\ pick_wakeup_visible[s] = data_ready_visible[s]
    /\ w1_cycle[s] # None => data_ready_visible[s] = w1_cycle[s] + 1 /\ w1_cycle[s] > 0

\* A promise is made by a uop that has left I2, or takes the D2 bypass.
PromisedLate ==
  \A s \in Seqs : pick_wakeup_visible[s] # None =>
    s < Len(committed) + Len(rob) /\ (uops[s].bypass_d2 \/ ~Waiting(s))

TagInv == Early /\ LoadTags /\ OtherTags /\ PromisedLate

\* Before the first cycle there is no tag.
LEMMA TagInit == Init => TagInv
<1> SUFFICES ASSUME Init PROVE TagInv
  OBVIOUS
<1>1. /\ \A s \in Seqs : /\ data_ready_visible[s] = None /\ pick_wakeup_visible[s] = None
                         /\ e1_cycle[s] = None /\ e4_cycle[s] = None /\ w1_cycle[s] = None
      /\ e1 = {} /\ e2 = {} /\ e3 = {} /\ e4 = {} /\ w1 = {} /\ l1d = None /\ liq = {}
      /\ i2 = <<>> /\ i2_stay = <<>> /\ upstream = {}
  BY DEF Init, UopsInit, BackendInit
<1>2. \A s : ~Executing(s)
  BY <1>1 DEF Executing, L1dLoad, InLiq
<1>3. QED
  BY <1>1, <1>2 DEF TagInv, Early, LoadTags, OtherTags, PromisedLate, SeenInE1

\* A step that leaves the tags alone keeps TagInv when it takes no promised
\* uop back to where it waits and shows no new load to tag_stage_cycles.
LEMMA TagKept ==
  ASSUME TagInv, Early',
         UNCHANGED <<uops, cycle, e1_cycle, e4_cycle, w1_cycle, visible_cycles>>,
         \A s \in Seqs : s < Len(committed) + Len(rob) =>
                           /\ s < Len(committed)' + Len(rob)'
                           /\ ~Waiting(s) => ~Waiting(s)',
         \A s \in Seqs : uops[s].is_load /\ SeenInE1(s)' => SeenInE1(s)
  PROVE  TagInv'
<1>1. LoadTags'
  BY DEF TagInv, LoadTags, Seqs, visible_cycles
<1>2. OtherTags'
  BY DEF TagInv, OtherTags, Seqs, visible_cycles
<1>3. PromisedLate'
  BY DEF TagInv, PromisedLate, Seqs, visible_cycles
<1>4. QED
  BY <1>1, <1>2, <1>3 DEF TagInv

\* tag_stage_cycles sets a tag and its promise together.
LEMMA TagTag ==
  ASSUME TypeOK, Numbered, MemInv, PlaceInv, DataInv, TagInv, At("tag", "publish"), TagStageCycles
  PROVE  TagInv'
<1>0. /\ UNCHANGED <<uops, cycle, rob, committed, upstream, i2, i2_stay, e1, e2, e3, e4, w1, l1d, liq>>
      /\ step = "tag" /\ step' = "publish"
  BY DEF At, TagStageCycles, backendVars, commitVars, i2Vars, lsuVars, loadVars, stageVars
<1>1. cycle \in Nat /\ cycle # None /\ cycle + 1 # None
  BY NoneAssumption, SMTT(60) DEF TypeOK, LoopTypeOK
<1>2. \A s \in Seqs :
        /\ e1_cycle'[s] = IF s \in e1 /\ e1_cycle[s] = None THEN cycle ELSE e1_cycle[s]
        /\ e4_cycle'[s] = IF s \in e4 /\ e4_cycle[s] = None THEN cycle ELSE e4_cycle[s]
        /\ w1_cycle'[s] = IF s \in w1 /\ w1_cycle[s] = None THEN cycle ELSE w1_cycle[s]
        /\ pick_wakeup_visible'[s] =
             IF IF uops[s].is_load THEN s \in e1 /\ e1_cycle[s] = None ELSE s \in w1 /\ w1_cycle[s] = None
             THEN cycle + 1 ELSE pick_wakeup_visible[s]
        /\ data_ready_visible'[s] =
             IF IF uops[s].is_load THEN s \in e4 /\ e4_cycle[s] = None ELSE s \in w1 /\ w1_cycle[s] = None
             THEN cycle + 1 ELSE data_ready_visible[s]
  BY DEF TagStageCycles, FirstIn
<1>3. \A s \in Seqs : uops[s].is_load \in BOOLEAN
  BY UopFacts
<1>4. /\ \A s : Executing(s)' <=> Executing(s)
      /\ \A s : Waiting(s)' <=> Waiting(s)
  BY <1>0 DEF Executing, L1dLoad, InLiq, Waiting, RangeOf
<1>5. \A s \in Seqs : s \in e1 \/ s \in e4 \/ s \in w1 =>
        cycle > 0 /\ ~Waiting(s) /\ s < Len(committed) + Len(rob)
  <2>1. \A s \in Seqs : s \in e1 \/ s \in e4 \/ s \in w1 => Executing(s)
    BY DEF Executing
  <2>2. \A s \in Seqs : Executing(s) => ~Waiting(s) /\ s < Len(committed) + Len(rob)
    BY DEF PlaceInv, WaitingApart, Held, InRob
  <2>3. \A s \in Seqs : Executing(s) => cycle > 0
    BY <1>1, SMTT(60) DEF TagInv, Early
  <2>4. QED
    BY <2>1, <2>2, <2>3
<1>6. Early'
  BY <1>0, <1>4 DEF TagInv, Early, Seqs
<1>7. LoadTags'
  BY <1>0, <1>1, <1>2, <1>5, SMTT(60) DEF TagInv, LoadTags, SeenInE1, Seqs
<1>8. OtherTags'
  BY <1>0, <1>1, <1>2, <1>5 DEF TagInv, OtherTags, Seqs
<1>9. PromisedLate'
  BY <1>0, <1>2, <1>3, <1>4, <1>5 DEF TagInv, PromisedLate, Seqs
<1>10. QED
  BY <1>6, <1>7, <1>8, <1>9 DEF TagInv

\* advance_execute takes all the tags of a missed load back.
LEMMA TagExecute ==
  ASSUME TypeOK, Numbered, WidthInv, MemInv, PlaceInv, TagInv, At("execute", "l1d"), AdvanceExecute
  PROVE  TagInv'
<1>0. UNCHANGED <<uops, cycle, i2, i2_stay, upstream, rob, committed>> /\ step = "execute" /\ step' = "l1d"
  BY DEF At, AdvanceExecute, i2Vars, commitVars
<1>1. \A s \in Seqs :
        /\ s \in Missed => /\ data_ready_visible'[s] = None /\ pick_wakeup_visible'[s] = None
                           /\ e1_cycle'[s] = None /\ e4_cycle'[s] = None /\ w1_cycle'[s] = None
        /\ s \notin Missed => /\ data_ready_visible'[s] = data_ready_visible[s]
                              /\ pick_wakeup_visible'[s] = pick_wakeup_visible[s]
                              /\ e1_cycle'[s] = e1_cycle[s]
                              /\ e4_cycle'[s] = e4_cycle[s] /\ w1_cycle'[s] = w1_cycle[s]
  BY DEF AdvanceExecute, ResetMissed
<1>2. \A s \in Seqs : s \in Missed => uops[s].is_load
  BY DEF Missed, should_inject_load_miss
<1>3. /\ \A s \in Seqs : Executing(s)' => Executing(s)
      /\ \A s \in Seqs : SeenInE1(s)' => SeenInE1(s) /\ s \notin Missed
  BY <1>0, ExecuteMoves DEF Executing, Loads, SeenInE1, MemInv, LoadsApart
<1>4. \A s : Waiting(s)' <=> Waiting(s)
  BY <1>0 DEF Waiting, RangeOf
<1>5. Early'
  BY <1>0, <1>3 DEF TagInv, Early, Seqs
<1>6. LoadTags'
  BY <1>0, <1>1, <1>3 DEF TagInv, LoadTags, Seqs
<1>7. OtherTags'
  BY <1>0, <1>1, <1>2 DEF TagInv, OtherTags, Seqs
<1>8. PromisedLate'
  BY <1>0, <1>1, <1>4 DEF TagInv, PromisedLate, Seqs
<1>9. QED
  BY <1>5, <1>6, <1>7, <1>8 DEF TagInv

\* advance_l1d and advance_liq move loads that tag_stage_cycles has not yet
\* seen again.
LEMMA TagLsu ==
  ASSUME TypeOK, Numbered, TagInv, \/ At("l1d", "liq") /\ AdvanceL1d
                                   \/ At("liq", "feed") /\ AdvanceLiq
  PROVE  TagInv'
<1>0. /\ UNCHANGED <<uops, cycle, e1_cycle, e4_cycle, w1_cycle, visible_cycles, rob, committed, upstream,
                     i2, i2_stay, e2, e3, e4>>
      /\ step' \in {"liq", "feed"} /\ step \in {"l1d", "liq"}
  BY DEF At, AdvanceL1d, AdvanceLiq, uopVars, stage_cycles, commitVars, i2Vars
<1>1. \A s : Waiting(s)' <=> Waiting(s)
  BY <1>0 DEF Waiting, RangeOf
<1>2. \A s \in Seqs : Executing(s)' => Executing(s)
  BY LsuMoves
<1>3. Early'
  BY <1>0, <1>2 DEF TagInv, Early, Seqs
<1>4. \A s : SeenInE1(s)' => SeenInE1(s)
  BY <1>0 DEF SeenInE1
<1>5. QED
  BY <1>0, <1>1, <1>3, <1>4, TagKept

\* advance_i2 moves uops on, and none in the first cycle.
LEMMA TagI2 ==
  ASSUME TypeOK, Numbered, PlaceInv, TagInv, \/ At("i2", "i2") /\ (I2Issue \/ I2Stay)
                                             \/ At("i2", "dispatch") /\ I2End
  PROVE  TagInv'
<1>0. /\ UNCHANGED <<uops, cycle, e1_cycle, e4_cycle, w1_cycle, visible_cycles, rob, committed, upstream,
                     e2, e3, e4, w1, l1d, liq>>
      /\ step = "i2" /\ step' \in {"i2", "dispatch"}
  BY DEF At, I2Issue, I2Stay, I2End, uopVars, stage_cycles, commitVars, lsuVars, loadVars, stageVars
<1>1. i2 \in Seq(Seqs) /\ i2_stay \in Seq(Seqs)
  BY DEF TypeOK, StageTypeOK
<1>2. \A s : Waiting(s)' => Waiting(s)
  <2>1. CASE I2End
    BY <1>0, <2>1 DEF I2End, Waiting, RangeOf
  <2>2. CASE I2Issue \/ I2Stay
    <3>1. /\ i2 # <<>> /\ i2' = Tail(i2)
          /\ i2_stay' = i2_stay \/ i2_stay' = Append(i2_stay, Head(i2))
      BY <2>2 DEF I2Issue, I2Stay
    <3>2. /\ Head(i2) \in Seqs /\ Head(i2) \in RangeOf(i2)
          /\ \A s : s \in RangeOf(i2)' => s \in RangeOf(i2)
      BY <1>1, <3>1, RangeTail DEF PlaceInv
    <3>3. CASE i2_stay' = i2_stay
      <4>1. RangeOf(i2_stay)' = RangeOf(i2_stay)
        BY <3>3 DEF RangeOf
      <4>2. QED
        BY <1>0, <3>2, <4>1 DEF Waiting
    <3>4. CASE i2_stay' = Append(i2_stay, Head(i2))
      <4>1. \A s : s \in RangeOf(i2_stay)' => s \in RangeOf(i2_stay) \/ s = Head(i2)
        BY <1>1, <3>2, <3>4, RangeAppend
      <4>2. QED
        BY <1>0, <3>2, <4>1 DEF Waiting
    <3>5. QED
      BY <3>1, <3>3, <3>4
  <2>3. QED
    BY <2>1, <2>2
<1>3. Early'
  <2> SUFFICES ASSUME cycle = 0 PROVE Early'
    BY <1>0 DEF Early
  <2>1. I2End /\ i2 = <<>> /\ i2_stay = <<>> /\ upstream = {} /\ \A s \in Seqs : ~Executing(s)
    BY <1>0 DEF TagInv, Early, I2Issue, I2Stay
  <2>2. UNCHANGED <<e1, i2, i2_stay>>
    BY <2>1 DEF I2End, lsuVars, stageVars
  <2>3. \A s : Executing(s)' <=> Executing(s)
    BY <1>0, <2>2 DEF Executing, L1dLoad, InLiq
  <2>4. QED
    BY <1>0, <2>1, <2>2, <2>3 DEF Early, Seqs
<1>4. \A s : SeenInE1(s)' => SeenInE1(s)
  BY <1>0 DEF SeenInE1
<1>5. QED
  BY <1>0, <1>2, <1>3, <1>4, TagKept

\* advance_i1_to_i2 has nothing to move in the first cycle.
LEMMA TagFeed ==
  ASSUME TypeOK, Numbered, TagInv, At("feed", "feed"), NEW f \in Seqs, FeedI2(f)
  PROVE  TagInv'
<1>0. /\ UNCHANGED <<uops, cycle, e1_cycle, e4_cycle, w1_cycle, visible_cycles, rob, committed,
                     i2_stay, e1, e2, e3, e4, w1, l1d, liq>>
      /\ step = "feed" /\ step' = "feed" /\ f \in upstream
      /\ upstream' = upstream \ {f} /\ i2' = Append(i2, f)
  BY DEF At, FeedI2, uopVars, stage_cycles, commitVars, lsuVars, loadVars, stageVars
<1>1. \A s : Waiting(s)' => Waiting(s)
  <2>1. /\ \A s : s \in RangeOf(i2)' => s \in RangeOf(i2) \/ s = f
        /\ RangeOf(i2_stay)' = RangeOf(i2_stay)
    <3>1. i2 \in Seq(Seqs)
      BY DEF TypeOK, StageTypeOK
    <3>2. RangeOf(i2_stay)' = RangeOf(i2_stay)
      BY <1>0 DEF RangeOf
    <3>3. QED
      BY <1>0, <3>1, <3>2, RangeAppend
  <2>2. QED
    BY <1>0, <2>1 DEF Waiting
<1>2. cycle # 0
  BY <1>0 DEF TagInv, Early
<1>3. Early'
  BY <1>0, <1>2 DEF Early
<1>4. \A s : SeenInE1(s)' => SeenInE1(s)
  BY <1>0 DEF SeenInE1
<1>5. QED
  BY <1>0, <1>1, <1>3, <1>4, TagKept

\* A bypassing uop makes its promise with its data, while it still waits.
LEMMA TagBypass ==
  ASSUME TypeOK, Numbered, PlaceInv, TagInv, At("dispatch", "dispatch"), NEW b \in Seqs, Bypass(b)
  PROVE  TagInv'
<1>0. /\ UNCHANGED <<uops, cycle, e1_cycle, e4_cycle, w1_cycle, rob, committed,
                     i2, i2_stay, e1, e2, e3, e4, w1, l1d, liq>>
      /\ step = "dispatch" /\ step' = "dispatch" /\ uops[b].bypass_d2
      /\ b \in upstream /\ upstream' \subseteq upstream
  BY DEF At, Bypass, stage_cycles, commitVars, i2Vars, loadVars
<1>1. \A s \in Seqs :
        /\ s # b => /\ data_ready_visible'[s] = data_ready_visible[s]
                    /\ pick_wakeup_visible'[s] = pick_wakeup_visible[s]
        /\ s = b => /\ data_ready_visible'[s] = IF data_ready_visible[s] = None THEN cycle + 1
                                                ELSE data_ready_visible[s]
                    /\ pick_wakeup_visible'[s] = IF pick_wakeup_visible[s] = None THEN cycle + 1
                                                 ELSE pick_wakeup_visible[s]
  BY DEF Bypass, GetOrInsert, TypeOK, UopsTypeOK
<1>2. ~uops[b].is_load
  BY <1>0, UopFacts DEF Mem
<1>3. /\ \A s : Waiting(s)' => Waiting(s)
      /\ \A s : Executing(s)' <=> Executing(s)
  BY <1>0 DEF Waiting, RangeOf, Executing, L1dLoad, InLiq
<1>4. b < Len(committed) + Len(rob)
  BY <1>0 DEF PlaceInv, Held, InRob, Waiting
<1>5. Early'
  BY <1>0, <1>3 DEF TagInv, Early, Seqs
<1>6. LoadTags'
  <2>1. \A s : SeenInE1(s)' => SeenInE1(s)
    BY <1>0 DEF SeenInE1
  <2>2. QED
    BY <1>0, <1>1, <1>2, <2>1 DEF TagInv, LoadTags, Seqs
<1>7. OtherTags'
  <2> SUFFICES ASSUME NEW s \in Seqs, ~uops[s].is_load
               PROVE  /\ pick_wakeup_visible'[s] = data_ready_visible'[s]
                      /\ w1_cycle[s] # None => data_ready_visible'[s] = w1_cycle[s] + 1 /\ w1_cycle[s] > 0
    BY <1>0 DEF OtherTags, Seqs
  <2>1. /\ pick_wakeup_visible[s] = data_ready_visible[s]
        /\ w1_cycle[s] # None => data_ready_visible[s] = w1_cycle[s] + 1 /\ w1_cycle[s] > 0
    BY DEF TagInv, OtherTags
  <2>2. w1_cycle[s] # None => w1_cycle[s] + 1 # None
    BY NoneAssumption, SMTT(60) DEF TypeOK, UopsTypeOK, OptCycle
  <2>3. QED
    BY <1>1, <2>1, <2>2
<1>8. PromisedLate'
  BY <1>0, <1>1, <1>3, <1>4 DEF TagInv, PromisedLate, Seqs
<1>9. QED
  BY <1>5, <1>6, <1>7, <1>8 DEF TagInv

\* The quiet steps keep the tags: a new ROB entry has none, and only the
\* next cycle sees the loads of E1 again.
LEMMA TagQuiet ==
  ASSUME TypeOK, Numbered, PlaceInv, TagInv, Quiet
  PROVE  TagInv'
<1>0. /\ UNCHANGED <<uops, e1_cycle, e4_cycle, w1_cycle, visible_cycles, i2, i2_stay, e1, e2, e3, e4>>
      /\ \A s \in Seqs : Executing(s)' => Executing(s)
  BY QuietMoves DEF uopVars, stage_cycles
<1>1. /\ cycle \in Nat /\ Len(committed) \in Nat /\ Len(rob) \in Nat
      /\ rob \in Seq(Seqs) /\ committed \in Seq([seq : Seqs, cycle : Nat, trap : TrapCauses \cup {None}])
  BY SMTT(60) DEF TypeOK, LoopTypeOK, CommitTypeOK
<1>2. \A s \in Seqs : s < Len(committed) + Len(rob) =>
        /\ s < Len(committed)' + Len(rob)'
        /\ ~Waiting(s) => ~Waiting(s)'
  <2>1. CASE UNCHANGED <<rob, committed, upstream>>
    BY <1>0, <2>1 DEF Waiting, RangeOf
  <2>2. CASE RetireOne
    <3>1. rob # <<>> /\ rob' = Tail(rob) /\ upstream' = upstream
      BY <2>2 DEF RetireOne, MayRetire
    <3>2. Len(committed') = Len(committed) + 1
      BY <1>1, <2>2, SMTT(60) DEF RetireOne
    <3>3. Len(rob') = Len(rob) - 1
      BY <1>1, <3>1, SMTT(60)
    <3>4. QED
      BY <1>0, <1>1, <3>1, <3>2, <3>3, SMTT(60) DEF Waiting, RangeOf
  <2>3. CASE Allocate
    <3> DEFINE new == Len(committed) + Len(rob)
    <3>1. rob' = Append(rob, new) /\ new \in Seqs /\ upstream' = upstream \cup {new} /\ committed' = committed
      BY <2>3 DEF Allocate
    <3>2. Len(rob') = Len(rob) + 1
      BY <1>1, <3>1, SMTT(60)
    <3>3. \A s \in Seqs : s < new => s # new
      BY StreamShape, SMTT(60)
    <3>4. \A s \in Seqs : s < new => s < Len(committed)' + Len(rob)'
      BY <1>1, <3>1, <3>2, StreamShape, SMTT(60)
    <3>5. QED
      BY <1>0, <3>1, <3>3, <3>4 DEF Waiting, RangeOf
  <2>4. QED
    BY <2>1, <2>2, <2>3 DEF Quiet, RaiseTrap, AdvanceScb, RetireEnd, NextCycle, Exited, vars,
       backendVars, commitVars
<1>3. \A s : SeenInE1(s)' => SeenInE1(s)
  BY <1>0 DEF Quiet, SeenInE1, At, RetireEnd, NextCycle, Exited, vars, loopVars
<1>4. CASE UNCHANGED cycle
  <2>1. Early'
    <3>1. upstream' = upstream \/ step' = "dispatch"
      BY DEF Quiet, At, RaiseTrap, AdvanceScb, RetireOne, RetireEnd, NextCycle, Exited, vars, backendVars
    <3>2. step \in {"dispatch", "exit"} => step' \in {"dispatch", "exit"}
      BY <1>1, <1>4, SMTT(60) DEF Quiet, At, RetireEnd, NextCycle, Exited, vars, loopVars
    <3>3. QED
      BY <1>0, <1>4, <3>1, <3>2 DEF TagInv, Early, Seqs
  <2>2. QED
    BY <1>0, <1>2, <1>3, <1>4, <2>1, TagKept
<1>5. CASE cycle' = cycle + 1
  <2>1. Early'
    BY <1>1, <1>5, SMTT(60) DEF Early
  <2>2. LoadTags'
    <3>1. \A s \in Seqs : e1_cycle[s] \in Nat \cup {None}
      BY DEF TypeOK, UopsTypeOK, OptCycle
    <3>2. \A s \in Seqs : e1_cycle[s] # None /\ e1_cycle[s] <= cycle => e1_cycle[s] <= cycle'
      BY <1>1, <1>5, <3>1, SMTT(60)
    <3>3. QED
      BY <1>0, <1>3, <3>2 DEF TagInv, LoadTags, Seqs, visible_cycles
  <2>3. OtherTags' /\ PromisedLate'
    BY <1>0, <1>2 DEF TagInv, OtherTags, PromisedLate, Seqs, visible_cycles
  <2>4. QED
    BY <2>1, <2>2, <2>3 DEF TagInv
<1>6. cycle' = cycle \/ cycle' = cycle + 1
  BY DEF Quiet, At, RetireEnd, NextCycle, Exited, vars, loopVars
<1>7. QED
  BY <1>4, <1>5, <1>6

\* Every stage of the loop keeps TagInv.
LEMMA TagStep ==
  TypeOK /\ Numbered /\ MemInv /\ WidthInv /\ PlaceInv /\ DataInv /\ TagInv /\ [Next]_vars => TagInv'
<1> SUFFICES ASSUME TypeOK, Numbered, MemInv, WidthInv, PlaceInv, DataInv, TagInv, [Next]_vars
             PROVE  TagInv'
  OBVIOUS
<1>1. QED
  BY TagTag, TagExecute, TagLsu, TagFeed, TagI2, TagBypass, TagQuiet DEF Next, Quiet

-----------------------------------------------------------------------------
(* What build_uops counts.                                                 *)

INSTANCE FiniteSetTheorems

\* There are finitely many uops and so finitely many before each; one more
\* memory access makes one more load_store_id.
LEMMA StreamNumbered ==
  ASSUME TypeOK
  PROVE  Numbered
<1>1. Stream \in CommitStreams /\ uops = build_uops(Stream)
  BY DEF TypeOK, UopsTypeOK
<1>2. IsCommitStream(Stream) /\ DOMAIN Stream = Seqs
  BY <1>1, StreamsAssumption DEF Stream, Seqs
<1>3. IsFiniteSet(Seqs) /\ Seqs = 0 .. Cardinality(Seqs) - 1
  BY <1>2 DEF IsCommitStream
<1>4. Cardinality(Seqs) \in Nat
  BY <1>3, FS_CardinalityType
<1>5. Seqs \subseteq Nat
  BY <1>3, <1>4, SMTT(60)
<1>6. ASSUME NEW s \in Seqs
      PROVE  /\ IsFiniteSet(MemsBefore(Stream, s))
             /\ uops[s].load_store_id = Cardinality(MemsBefore(Stream, s))
             /\ uops[s].load_store_id \in Nat /\ uops[s].load_ordinal \in Nat
             /\ Mem(s) => Stream[s].mem # "none"
  <2>1. /\ uops[s].is_load = (Stream[s].mem = "load")
        /\ uops[s].is_store = (Stream[s].mem = "store")
        /\ uops[s].load_store_id = Cardinality(MemsBefore(Stream, s))
        /\ uops[s].load_ordinal = Cardinality(LoadsBefore(Stream, s))
    BY <1>1, <1>2 DEF build_uops
  <2>2. MemsBefore(Stream, s) \subseteq Seqs /\ LoadsBefore(Stream, s) \subseteq Seqs
    BY <1>2 DEF MemsBefore, LoadsBefore
  <2>3. IsFiniteSet(MemsBefore(Stream, s)) /\ IsFiniteSet(LoadsBefore(Stream, s))
    BY <1>3, <2>2, FS_Subset
  <2>4. /\ Cardinality(MemsBefore(Stream, s)) \in Nat /\ Cardinality(LoadsBefore(Stream, s)) \in Nat
    BY <2>3, FS_CardinalityType
  <2>5. QED
    BY <2>1, <2>3, <2>4 DEF Mem
<1>7. ASSUME NEW s \in Seqs, NEW t \in Seqs, Mem(s), s < t
      PROVE  uops[s].load_store_id < uops[t].load_store_id
  <2>0. \A q, r \in Seqs : r \in MemsBefore(Stream, q) <=> r < q /\ Stream[r].mem # "none"
    BY <1>2 DEF MemsBefore
  <2>1. s \in MemsBefore(Stream, t) /\ s \notin MemsBefore(Stream, s)
    <3>1. ~(s < s)
      BY <1>5, SMTT(60)
    <3>2. QED
      BY <1>6, <1>7, <2>0, <3>1
  <2>2. MemsBefore(Stream, s) \subseteq MemsBefore(Stream, t)
    <3>1. \A r \in Seqs : r < s => r < t
      BY <1>5, <1>7, SMTT(60)
    <3>2. MemsBefore(Stream, s) \subseteq Seqs
      BY <1>2 DEF MemsBefore
    <3>3. QED
      BY <2>0, <3>1, <3>2
  <2>3. IsFiniteSet(MemsBefore(Stream, t))
    BY <1>6
  <2>4. /\ Cardinality(MemsBefore(Stream, s)) <= Cardinality(MemsBefore(Stream, t))
        /\ Cardinality(MemsBefore(Stream, s)) # Cardinality(MemsBefore(Stream, t))
    BY <2>1, <2>2, <2>3, FS_Subset
  <2>5. QED
    BY <1>6, <2>4, SMTT(60)
<1>8. QED
  BY <1>4, <1>6, <1>7 DEF Numbered
-----------------------------------------------------------------------------
(* Widths.                                                                 *)

\* Sets of uops are finite, and a part of one is no larger.
LEMMA PartOfStage ==
  ASSUME TypeOK, Numbered, NEW S, S \subseteq Seqs, NEW T, T \subseteq S
  PROVE  /\ IsFiniteSet(S) /\ Cardinality(S) \in Nat /\ Cardinality(T) \in Nat
         /\ Cardinality(T) <= Cardinality(S)
<1>1. IsFiniteSet(S)
  BY StreamShape, FS_Subset
<1>2. IsFiniteSet(T) /\ Cardinality(T) <= Cardinality(S)
  BY <1>1, FS_Subset
<1>3. QED
  BY <1>1, <1>2, FS_CardinalityType

\* One more uop takes at most one more place.
LEMMA OneMore ==
  ASSUME TypeOK, Numbered, NEW S, S \subseteq Seqs, NEW s, NEW n \in Nat, Cardinality(S) < n
  PROVE  Cardinality(S \cup {s}) <= n
<1>1. IsFiniteSet(S) /\ Cardinality(S) \in Nat
  BY PartOfStage
<1>2. Cardinality(S \cup {s}) = IF s \in S THEN Cardinality(S) ELSE Cardinality(S) + 1
  BY <1>1, FS_AddElement
<1>3. QED
  BY <1>1, <1>2, SMTT(60)

\* A stage with at most one uop fits every width.
LEMMA AtMostOneFits ==
  ASSUME NEW S, AtMostOne(S)
  PROVE  Cardinality(S) <= ISSUE_WIDTH /\ Cardinality(S) \in Nat
<1>1. CASE S = {}
  BY <1>1, FS_EmptySet, WidthsAssumption, SMTT(60)
<1>2. CASE S # {}
  <2>1. PICK a \in S : TRUE
    BY <1>2
  <2>2. S = {a}
    BY <2>1 DEF AtMostOne
  <2>3. Cardinality(S) = 1
    BY <2>2, FS_Singleton
  <2>4. QED
    BY <2>3, WidthsAssumption, SMTT(60)
<1>3. QED
  BY <1>1, <1>2

\* The empty pipeline is within the widths.
LEMMA WidthInit == Init => WidthInv
<1> SUFFICES ASSUME Init PROVE WidthInv
  OBVIOUS
<1>1. Cardinality({}) = 0
  BY FS_EmptySet
<1>2. QED
  BY <1>1, WidthsAssumption, SMTT(60) DEF Init, BackendInit, WidthInv, StageWidths, StepShape, AtMostOne, Loads

\* A stage that leaves the widths alone keeps them.
LEMMA WidthUnchanged ==
  ASSUME WidthInv, UNCHANGED widthVars, StepShape'
  PROVE  WidthInv'
BY DEF WidthInv, widthVars, StageWidths, AtMostOne, Loads, Seqs

\* advance_execute moves whole stages on, or leaves them where they are.
LEMMA WidthExecute ==
  ASSUME TypeOK, Numbered, WidthInv, At("execute", "l1d"), AdvanceExecute
  PROVE  WidthInv'
<1>0. /\ UNCHANGED <<uops, i2, i2_stay, rob>> /\ step = "execute" /\ step' = "l1d"
      /\ Seqs' = Seqs
  BY DEF At, AdvanceExecute, i2Vars, commitVars, Seqs
<1>1. /\ w2' = w1 /\ w1' = e1 \ Loads(e1)
      /\ e4' \subseteq e4 \/ e4' = e3
      /\ e3' = e3 \/ e3' = e2
      /\ e2' = e2 \/ e2' = Loads(e1)
      /\ e1' = {} \/ e1' = Loads(e1)
  BY DEF AdvanceExecute, Into, Left, StayE4, StayE3, StayE2
<1>2. /\ Loads(e1) \subseteq e1 /\ Loads(e1)' = e1' /\ \A s \in e1' : uops[s].is_load
      /\ e1 \subseteq Seqs
  BY <1>0, <1>1 DEF Loads, TypeOK, StageTypeOK
<1>3. AtMostOne(Loads(e1)') /\ AtMostOne(e2') /\ AtMostOne(e3') /\ AtMostOne(e4')
  BY <1>1, <1>2 DEF WidthInv, StageWidths, AtMostOne
<1>4. e2' \cup e3' \cup e4' \subseteq Loads(Seqs)'
  BY <1>0, <1>1, <1>2 DEF WidthInv, StageWidths, Loads
<1>5. Cardinality(e1') <= ISSUE_WIDTH
  BY <1>2, <1>3, AtMostOneFits
<1>6. Cardinality(w1') <= ISSUE_WIDTH
  <2>1. Cardinality(w1') <= Cardinality(e1) /\ Cardinality(w1') \in Nat /\ Cardinality(e1) \in Nat
    BY <1>1, <1>2, PartOfStage
  <2>2. QED
    BY <2>1, WidthsAssumption, SMTT(60) DEF WidthInv, StageWidths
<1>7. QED
  BY <1>0, <1>1, <1>2, <1>3, <1>4, <1>5, <1>6 DEF WidthInv, StageWidths, StepShape

\* advance_l1d asks for room in W1.
LEMMA WidthL1d ==
  ASSUME TypeOK, Numbered, WidthInv, At("l1d", "liq"), AdvanceL1d
  PROVE  WidthInv'
<1>0. /\ UNCHANGED <<uops, e1, e2, e3, e4, w2, i2, i2_stay, rob>>
      /\ step = "l1d" /\ step' = "liq"
  BY DEF At, AdvanceL1d, uopVars, i2Vars, commitVars
<1>1. StepShape'
  BY <1>0 DEF WidthInv, StepShape
<1>2. CASE w1' = w1
  BY <1>0, <1>1, <1>2, WidthUnchanged DEF widthVars
<1>3. CASE L1dLoadHit
  <2>1. Cardinality(w1') <= ISSUE_WIDTH
    <3>1. w1' = w1 \cup {l1d.seq} /\ Cardinality(w1) < ISSUE_WIDTH
      BY <1>3 DEF L1dLoadHit
    <3>2. w1 \subseteq Seqs /\ ISSUE_WIDTH \in Nat
      BY WidthsAssumption DEF TypeOK, StageTypeOK
    <3>3. QED
      BY <3>1, <3>2, OneMore
  <2>2. QED
    BY <1>0, <1>1, <2>1 DEF WidthInv, StageWidths, AtMostOne, Loads, Seqs
<1>4. QED
  BY <1>2, <1>3 DEF AdvanceL1d, L1dStoreDrain, L1dWait

\* advance_liq restarts a load only into an E1 without a load, which is
\* an empty one at this point of the cycle.
LEMMA WidthLiq ==
  ASSUME TypeOK, Numbered, WidthInv, At("liq", "feed"), AdvanceLiq
  PROVE  WidthInv'
<1>0. /\ UNCHANGED <<uops, e2, e3, e4, w1, w2, i2, i2_stay, rob>>
      /\ step = "liq" /\ step' = "feed"
  BY DEF At, AdvanceLiq, i2Vars, commitVars
<1>1. StepShape'
  BY <1>0 DEF WidthInv, StepShape
<1>2. CASE e1' = e1
  BY <1>0, <1>1, <1>2, WidthUnchanged DEF widthVars
<1>3. ASSUME NEW x \in Refillable, LiqRestart(x) PROVE WidthInv'
  <2>1. e1 = {} /\ e1' = {x.seq}
    BY <1>0, <1>3 DEF Refillable, load_slot_available, LiqRestart, Loads, WidthInv, StepShape
  <2>2. AtMostOne(e1') /\ AtMostOne(Loads(e1)')
    BY <2>1 DEF AtMostOne, Loads
  <2>3. Cardinality(e1') <= ISSUE_WIDTH
    BY <2>2, AtMostOneFits
  <2>4. QED
    BY <1>0, <1>1, <2>2, <2>3 DEF WidthInv, StageWidths, AtMostOne, Loads, Seqs
<1>4. QED
  BY <1>2, <1>3 DEF AdvanceLiq

\* advance_i2 asks for room in E1, and for the load slot.
LEMMA WidthI2 ==
  ASSUME TypeOK, Numbered, WidthInv, At("i2", "i2"), I2Issue \/ I2Stay
  PROVE  WidthInv'
<1>0. /\ UNCHANGED <<uops, e2, e3, e4, w1, w2, rob>>
      /\ step = "i2" /\ step' = "i2" /\ i2 # <<>> /\ i2' = Tail(i2)
  BY DEF At, I2Issue, I2Stay, uopVars, commitVars, lsuVars, stageVars
<1>1. StepShape'
  BY <1>0 DEF StepShape
<1>2. /\ i2 \in Seq(Seqs) /\ i2_stay \in Seq(Seqs) /\ e1 \subseteq Seqs
      /\ Len(i2') = Len(i2) - 1 /\ Len(i2) \in Nat /\ Len(i2_stay) \in Nat /\ Head(i2) \in Seqs
  BY <1>0, SMTT(60) DEF TypeOK, StageTypeOK
<1>3. CASE I2Issue
  <2>1. i2_stay' = i2_stay /\ e1' = e1 \cup {Head(i2)} /\ e1_can_accept(Head(i2))
    BY <1>3 DEF I2Issue, I2Goes
  <2>2. Len(i2') + Len(i2_stay') <= ISSUE_WIDTH
    BY <1>2, <2>1, WidthsAssumption, SMTT(60) DEF WidthInv, StageWidths
  <2>3. Cardinality(e1') <= ISSUE_WIDTH
    <3>1. Cardinality(e1) < ISSUE_WIDTH /\ ISSUE_WIDTH \in Nat
      BY <2>1, WidthsAssumption DEF e1_can_accept
    <3>2. QED
      BY <1>2, <2>1, <3>1, OneMore
  <2>4. AtMostOne(Loads(e1)')
    BY <1>0, <2>1, UopFacts DEF e1_can_accept, load_slot_available, AtMostOne, Loads, WidthInv, StageWidths
  <2>5. QED
    BY <1>0, <1>1, <2>2, <2>3, <2>4 DEF WidthInv, StageWidths, AtMostOne, Loads, Seqs
<1>4. CASE I2Stay
  <2>1. i2_stay' = Append(i2_stay, Head(i2)) /\ e1' = e1
    BY <1>4 DEF I2Stay, lsuVars, stageVars
  <2>2. Len(i2') + Len(i2_stay') <= ISSUE_WIDTH
    BY <1>2, <2>1, WidthsAssumption, SMTT(60) DEF WidthInv, StageWidths
  <2>3. QED
    BY <1>0, <1>1, <2>1, <2>2 DEF WidthInv, StageWidths, AtMostOne, Loads, Seqs
<1>5. QED
  BY <1>3, <1>4

\* Every stage of the loop keeps the widths.
LEMMA WidthStep == TypeOK /\ Numbered /\ WidthInv /\ [Next]_vars => WidthInv'
<1> SUFFICES ASSUME TypeOK, Numbered, WidthInv, [Next]_vars PROVE WidthInv'
  OBVIOUS
<1>1. CASE At("feed", "feed") /\ \E s \in Seqs : FeedI2(s)
  <2>1. PICK s \in Seqs : FeedI2(s)
    BY <1>1
  <2>2. /\ UNCHANGED <<uops, e1, e2, e3, e4, w1, w2, i2_stay, rob>> /\ step = "feed" /\ step' = "feed"
        /\ Len(i2) < ISSUE_WIDTH /\ i2' = Append(i2, s)
    BY <1>1, <2>1 DEF At, FeedI2, uopVars, commitVars, lsuVars, stageVars
  <2>3. StepShape' /\ i2_stay' = <<>>
    BY <2>2 DEF WidthInv, StepShape
  <2>4. Len(i2') + Len(i2_stay') <= ISSUE_WIDTH
    BY <2>2, <2>3, WidthsAssumption, SMTT(60) DEF TypeOK, StageTypeOK
  <2>5. QED
    BY <2>2, <2>3, <2>4 DEF WidthInv, StageWidths, AtMostOne, Loads, Seqs
<1>2. CASE At("i2", "dispatch") /\ I2End
  <2>1. /\ UNCHANGED <<uops, e1, e2, e3, e4, w1, w2, rob>> /\ step' = "dispatch"
        /\ i2 = <<>> /\ i2' = i2_stay /\ i2_stay' = <<>>
    BY <1>2 DEF At, I2End, uopVars, commitVars, lsuVars, stageVars
  <2>2. StepShape'
    BY <2>1 DEF StepShape
  <2>3. Len(i2') + Len(i2_stay') <= ISSUE_WIDTH
    BY <2>1, SMTT(60) DEF WidthInv, StageWidths, TypeOK, StageTypeOK
  <2>4. QED
    BY <2>1, <2>2, <2>3 DEF WidthInv, StageWidths, AtMostOne, Loads, Seqs
<1>3. CASE At("dispatch", "dispatch") /\ Allocate
  <2>1. /\ UNCHANGED <<uops, e1, e2, e3, e4, w1, w2, i2, i2_stay>> /\ step' = step
        /\ Len(rob) < ROB_CAPACITY /\ rob' = Append(rob, Len(committed) + Len(rob))
        /\ Len(committed) + Len(rob) \in Seqs
    BY <1>3 DEF At, Allocate, uopVars, i2Vars, lsuVars, stageVars
  <2>2. StepShape'
    BY <2>1 DEF WidthInv, StepShape
  <2>3. Len(rob') <= ROB_CAPACITY
    <3>1. rob \in Seq(Seqs)
      BY DEF TypeOK, CommitTypeOK
    <3>2. Len(rob') = Len(rob) + 1
      BY <2>1, <3>1, SMTT(60)
    <3>3. QED
      BY <2>1, <3>1, <3>2, WidthsAssumption, SMTT(60)
  <2>4. QED
    BY <2>1, <2>2, <2>3 DEF WidthInv, StageWidths, AtMostOne, Loads, Seqs
<1>4. CASE At("dispatch", "dispatch") /\ \E s \in Seqs : Bypass(s)
  <2>1. PICK s \in Seqs : Bypass(s)
    BY <1>4
  <2>2. /\ UNCHANGED <<uops, e1, e2, e3, e4, w1, i2, i2_stay, rob>> /\ step' = step
        /\ w2' = w2 \/ (Cardinality(w2) < ISSUE_WIDTH /\ w2' = w2 \cup {s})
    BY <1>4, <2>1 DEF At, Bypass, commitVars, i2Vars
  <2>3. StepShape'
    BY <2>2 DEF WidthInv, StepShape
  <2>4. Cardinality(w2') <= ISSUE_WIDTH
    <3>1. w2 \subseteq Seqs /\ ISSUE_WIDTH \in Nat /\ Cardinality(w2) <= ISSUE_WIDTH
      BY WidthsAssumption DEF WidthInv, StageWidths, TypeOK, StageTypeOK
    <3>2. QED
      BY <2>2, <3>1, OneMore
  <2>5. QED
    BY <2>2, <2>3, <2>4 DEF WidthInv, StageWidths, AtMostOne, Loads, Seqs
<1>5. CASE At("retire", "retire") /\ RetireOne
  <2>1. /\ UNCHANGED <<uops, e1, e2, e3, e4, w1, w2, i2, i2_stay>> /\ step' = step
        /\ rob # <<>> /\ rob' = Tail(rob)
    BY <1>5 DEF At, RetireOne, MayRetire, uopVars, i2Vars, stageVars
  <2>2. StepShape'
    BY <2>1 DEF WidthInv, StepShape
  <2>3. Len(rob') <= ROB_CAPACITY
    BY <2>1, WidthsAssumption, SMTT(60) DEF WidthInv, StageWidths, TypeOK, CommitTypeOK
  <2>4. QED
    BY <2>1, <2>2, <2>3 DEF WidthInv, StageWidths, AtMostOne, Loads, Seqs
<1>6. CASE UNCHANGED widthVars /\ step' \notin {"l1d", "liq"} /\ step # "i2"
  <2>1. StepShape'
    BY <1>6 DEF WidthInv, StepShape, widthVars
  <2>2. QED
    BY <1>6, <2>1, WidthUnchanged
<1>7. CASE Exited \/ UNCHANGED vars
  <2>1. StepShape' /\ UNCHANGED widthVars
    BY <1>7 DEF Exited, vars, loopVars, backendVars, uopVars, commitVars, i2Vars, lsuVars, stageVars,
           WidthInv, StepShape, widthVars
  <2>2. QED
    BY <2>1, WidthUnchanged
<1>8. CASE \/ At("tag", "publish") /\ TagStageCycles
           \/ At("publish", "publish") /\ \E s \in Seqs : RaiseTrap(s)
           \/ At("publish", "retire") /\ AdvanceScb
           \/ RetireEnd("execute")
           \/ At("feed", "i2") /\ UNCHANGED <<backendVars, uopVars>>
           \/ NextCycle
  <2>1. UNCHANGED widthVars /\ step' \notin {"l1d", "liq"} /\ step # "i2"
    <3>1. UNCHANGED widthVars
      BY <1>8 DEF TagStageCycles, RaiseTrap, AdvanceScb, RetireEnd, NextCycle,
             backendVars, uopVars, commitVars, i2Vars, lsuVars, stageVars, widthVars
    <3>2. step' \notin {"l1d", "liq"} /\ step # "i2"
      BY <1>8 DEF At, RetireEnd, NextCycle
    <3>3. QED
      BY <3>1, <3>2
  <2>2. QED
    BY <1>6, <2>1
<1>9. QED
  BY <1>1, <1>2, <1>3, <1>4, <1>5, <1>7, <1>8, WidthExecute, WidthL1d, WidthLiq, WidthI2
  DEF Next
-----------------------------------------------------------------------------
(* The theorems.                                                           *)

\* All the invariants together.
BackInv ==
  TypeOK /\ CommitInOrder /\ MemInv /\ WidthInv /\ PlaceInv /\ QueueInv /\ DataInv /\ TagInv

\* Backend starts with them.
LEMMA BackInit == Init => BackInv
<1> SUFFICES ASSUME Init PROVE BackInv
  OBVIOUS
<1>1. CommitInOrder
  BY SMTT(60) DEF Init, BackendInit, CommitInOrder
<1>2. TypeOK /\ Numbered
  BY TypeInit, StreamNumbered
<1> QED
  BY <1>1, <1>2, MemInit, WidthInit, PlaceInit, QueueInit, DataInit, TagInit DEF BackInv

\* Every step of Backend keeps them.
LEMMA BackStep == BackInv /\ [Next]_vars => BackInv'
<1> SUFFICES ASSUME BackInv, [Next]_vars PROVE BackInv'
  OBVIOUS
<1>1. Numbered
  BY StreamNumbered DEF BackInv
<1> QED
  BY <1>1, TypeNext, CommitStep, MemStep, WidthStep, PlaceStep, QueueStep, DataStep, TagStep
  DEF BackInv

\* So they hold in every reachable state.
LEMMA BackHolds == Spec => []BackInv
  BY BackInit, BackStep, PTL DEF Spec

\* TypeOK holds of Backend: in every reachable state of the engine each
\* queue, table and pointer holds values of its Rust type.
THEOREM TypeCorrect == Spec => []TypeOK
<1>1. BackInv => TypeOK
  BY DEF BackInv
<1>2. QED
  BY <1>1, BackHolds, PTL

\* The engine commits the functional stream in order: what retire_ready has
\* committed followed by the ROB is always a prefix of the stream.
THEOREM CommitsInOrder == Spec => []CommitInOrder
<1>1. BackInv => CommitInOrder
  BY DEF BackInv
<1>2. QED
  BY <1>1, BackHolds, PTL

\* The L1D serves the loads and stores of the stream in program order: the
\* accesses made so far are exactly those below lsid_cache_ptr, however
\* advance_execute, advance_l1d, advance_liq and advance_scb interleave them.
THEOREM CacheInOrder == Spec => []MemoryOrder
<1>1. BackInv => MemoryOrder
  BY StreamNumbered, MemInvGivesOrder DEF BackInv
<1>2. QED
  BY <1>1, BackHolds, PTL

\* The back end implements InOrderMemory: every step of the engine commits
\* the next instruction, performs the next memory access, or does neither.
THEOREM Implements == Spec => Refinement
<1>1. Init => Abstract!Init
  BY DEF Init, BackendInit, Abstract!Init
<1>2. BackInv /\ [Next]_vars => [Abstract!Next]_<<uops, Len(committed), lsid_cache_ptr>>
  <2> SUFFICES ASSUME BackInv, [Next]_vars
               PROVE  [Abstract!Next]_<<uops, Len(committed), lsid_cache_ptr>>
    OBVIOUS
  <2>1. TypeOK /\ Numbered /\ CommitInOrder /\ MemInv
    BY StreamNumbered DEF BackInv
  <2> QED
    BY <2>1, AbstractStep
<1>3. QED
  BY <1>1, <1>2, BackHolds, PTL DEF Spec, Refinement, Abstract!Spec

\* StageWidths holds of Backend, for every ISSUE_WIDTH and ROB_CAPACITY: W1
\* and W2 always have room for what advance_execute moves on, E2 to E4 hold
\* one load each and I2, E1 and the ROB never hold more than they were
\* built for.
THEOREM WidthsKept == Spec => []StageWidths
<1>1. BackInv => StageWidths
  BY DEF BackInv, WidthInv
<1>2. QED
  BY <1>1, BackHolds, PTL

\* OnePlace holds of Backend: however the uops overtake each other, hit or
\* miss, a uop of the ROB is in one place of the pipeline, retire_ready takes
\* none that is still in one, and none is lost on the way.
THEOREM PlacesApart == Spec => []OnePlace
<1>1. BackInv => OnePlace
  BY StreamNumbered, PlaceImplies DEF BackInv
<1>2. QED
  BY <1>1, BackHolds, PTL

\* OwnerQueues holds of Backend: the LHQ, the STQ, the SCB, the LIQ and the
\* MDB always hold exactly the loads and stores the pipeline stages and the
\* two LSID pointers say they should.
THEOREM QueuesAgree == Spec => []OwnerQueues
<1>1. BackInv => OwnerQueues
  BY StreamNumbered, QueueImplies DEF BackInv
<1>2. QED
  BY <1>1, BackHolds, PTL

\* NoDataFromMiss holds of Backend, for every load_miss_every and
\* load_miss_penalty: a load that is going to miss never shows its data to
\* a consumer.
THEOREM MissesHideData == Spec => []NoDataFromMiss
<1>1. BackInv => NoDataFromMiss
  BY DEF BackInv, DataInv
<1>2. QED
  BY <1>1, BackHolds, PTL

\* DataBeforeUse holds of Backend: once i2_issue_eligible let a uop pass I2
\* its producers' data stays readable, whichever loads miss.
THEOREM DataStays == Spec => []DataBeforeUse
<1>1. BackInv => DataBeforeUse
  <2> SUFFICES ASSUME BackInv,
                      NEW s \in e1 \cup e2 \cup e3 \cup e4 \cup w1 \cup SeqsOf(liq) \cup InL1d("LoadHit")
               PROVE  i2_ready(s)
    BY DEF DataBeforeUse
  <2>0. TypeOK /\ Numbered /\ DataUsed
    BY StreamNumbered DEF BackInv, DataInv
  <2>1. Executing(s)
    BY DEF Executing, SeqsOf, InLiq, InL1d, L1dLoad
  <2>2. s \in Seqs
    BY <2>0, UopFacts DEF SeqsOf, InL1d
  <2>3. QED
    BY <2>0, <2>1, <2>2 DEF DataUsed
<1>2. QED
  BY <1>1, BackHolds, PTL
-----------------------------------------------------------------------------
(* What the stages in front of the back end may rely on.                   *)

\* The invariant gives the view; it does not depend on `step'.
LEMMA BackView ==
  ASSUME BackInv
  PROVE  View
<1>1. TypeOK /\ Numbered /\ CommitInOrder /\ PlaceInv /\ TagInv
  BY StreamNumbered DEF BackInv
<1>2. StreamView
  <2>1. Seqs \subseteq Nat /\ IsFiniteSet(Seqs)
    BY <1>1, StreamShape
  <2>2. \A s \in Seqs : uops[s].is_load \in BOOLEAN /\ (Mem(s) => ~uops[s].bypass_d2)
    BY <1>1, UopFields
  <2>3. \A s, t \in Seqs : Mem(s) /\ Mem(t) /\ uops[s].load_store_id = uops[t].load_store_id => s = t
    BY <1>1, LsidInjective
  <2>4. \A s \in Seqs : \A i \in {1, 2} : SourceView(s, i)
    BY <1>1, Sources DEF SourceView
  <2> QED
    BY <2>1, <2>2, <2>3, <2>4 DEF StreamView
<1>3. CommitTypeOK
  BY <1>1 DEF TypeOK
<1>4. PlaceView
  <2>1. upstream \subseteq Seqs /\ i2 \in Seq(Seqs) /\ i2_stay \in Seq(Seqs)
    BY <1>1 DEF TypeOK, StageTypeOK
  <2>2. Len(committed) \in Nat /\ Len(rob) \in Nat
    BY <1>3, SMTT(60) DEF CommitTypeOK
  <2> QED
    BY <1>1, <2>1, <2>2 DEF PlaceView, PlaceInv, WaitingApart, Held
<1>5. TagView
  <2>1. /\ cycle \in Nat
        /\ pick_wakeup_visible \in [Seqs -> OptCycle] /\ data_ready_visible \in [Seqs -> OptCycle]
        /\ e1_cycle \in [Seqs -> OptCycle] /\ e4_cycle \in [Seqs -> OptCycle] /\ w1_cycle \in [Seqs -> OptCycle]
    BY <1>1 DEF TypeOK, UopsTypeOK, LoopTypeOK
  <2> QED
    BY <1>1, <2>1 DEF TagView, TagInv, LoadTags, OtherTags, PromisedLate
<1> QED
  BY <1>1, <1>2, <1>3, <1>4, <1>5 DEF View
=============================================================================
