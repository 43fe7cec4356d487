-------------------------- MODULE IssueQueueProofs --------------------------
(***************************************************************************)
(* What holds of IssueQueue for every set of commit streams, every width,  *)
(* every size of the issue queues and every load-miss option.              *)
(*                                                                         *)
(* The steps of IssueQueueInvariant need the choices of IssueQueueChoices  *)
(* and the view of the back end.  The back end, read with the step BStep,  *)
(* is Backend, so BackendProofs holds of it and gives the view; that it is *)
(* Backend needs the invariant of the issue queues.  Whole is both.        *)
(***************************************************************************)
EXTENDS IssueQueueChoices, IssueQueueInvariant, IssueQueueRefinement

\* Leaves go to Zenon, with time to spare, unless they name another prover.
USE ZenonT(60)

-----------------------------------------------------------------------------
(* The issue queues keep their invariant.                                  *)

\* Every step of the issue queues, and of the back end behind them, keeps the
\* invariant.
LEMMA IqStep ==
  ASSUME View, IqInv, [IqNext]_<<vars, iqVars>>
  PROVE  IqInv'
<1>1. ASSUME BackendStep, UNCHANGED iqVars PROVE IqInv'
  <2>1. CASE At("tag", "publish") /\ TagStageCycles
    BY <1>1, <2>1, IqTag
  <2>2. CASE \/ At("publish", "publish") /\ \E s \in Seqs : RaiseTrap(s)
             \/ At("scb", "retire") /\ AdvanceScb
             \/ RetireEnd("execute")
             \/ At("l1d", "liq") /\ AdvanceL1d
             \/ At("liq", "i1") /\ AdvanceLiq
    BY <1>1, <2>2, IqQuiet
  <2>3. CASE At("retire", "retire") /\ RetireOne
    BY <1>1, <2>3, IqRetire
  <2>4. CASE At("execute", "l1d") /\ AdvanceExecute
    BY <1>1, <2>4, IqExecute
  <2>5. CASE At("i2", "i2") /\ I2Issue
    BY <1>1, <2>5, IqI2Issue
  <2>6. CASE \/ At("i2", "i2") /\ I2Stay
             \/ At("i2", "pick") /\ I2End
    BY <1>1, <2>6, IqI2Turn
  <2>7. CASE At("dispatch", "dispatch") /\ Allocate
    BY <1>1, <2>7, IqAllocate
  <2>8. CASE At("dispatch", "dispatch") /\ \E s \in Seqs : Bypass(s)
    BY <1>1, <2>8, IqBypass
  <2> QED
    BY <1>1, <2>1, <2>2, <2>3, <2>4, <2>5, <2>6, <2>7, <2>8 DEF BackendStep
<1>2. ASSUME At("publish", "scb"), UpdateIqEntries PROVE IqInv'
  BY <1>2, IqUpdate
<1>3. ASSUME At("i1", "i1"), I1Move PROVE IqInv'
  BY <1>3, IqI1Move
<1>4. ASSUME At("i1", "i1"), I1Stay PROVE IqInv'
  BY <1>4, IqI1Stay
<1>5. ASSUME At("i1", "arbitrate"), I1End PROVE IqInv'
  BY <1>5, IqI1End
<1>6. ASSUME At("arbitrate", "i2"), ArbitrateI1 PROVE IqInv'
  BY <1>6, AdmitsFromP1, IqArbitrate
<1>7. ASSUME At("pick", "dispatch"), PickFromIq PROVE IqInv'
  BY <1>7, WinnersOrdered, IqPick
<1>8. ASSUME At("dispatch", "dispatch"), NEW s \in Seqs, Dispatch(s) PROVE IqInv'
  BY <1>8, RouteHasRoom, IqDispatch
<1>9. ASSUME NextCycle, enqueue_ports_used' = NoPortsUsed, UNCHANGED <<iq, qtagVars, p1, i1Vars>>
      PROVE  IqInv'
  BY <1>9, IqNextCycle
<1>10. ASSUME UNCHANGED <<vars, iqVars>> PROVE IqInv'
  BY <1>10, IqStutter
<1>11. Exited /\ UNCHANGED iqVars => UNCHANGED <<vars, iqVars>>
  BY DEF Exited
<1> QED
  BY <1>1, <1>2, <1>3, <1>4, <1>5, <1>6, <1>7, <1>8, <1>9, <1>10, <1>11 DEF IqNext

\* The invariant gives InflightIsPicked.
LEMMA InflightOf ==
  ASSUME IqInv
  PROVE  InflightIsPicked
<1>1. /\ Picked \in Seq(Seqs) /\ Distinct(Picked)
      /\ \A s : s \in RangeOf(Picked) <=> InPicked(s)
  BY PickedTogether
<1>2. Cardinality(RangeOf(Picked)) = Len(Picked)
  BY <1>1, DistinctCount
<1>3. \A s \in RangeOf(Picked) : s \in Seqs
  BY <1>1, SMTT(60) DEF RangeOf
<1>4. {s \in DOMAIN iq : iq[s].inflight} = RangeOf(Picked)
  BY <1>1, <1>3 DEF IqInv, PickedOnce
<1> QED
  BY <1>2, <1>4 DEF IqInv, PickedOnce, InflightIsPicked
-----------------------------------------------------------------------------
(* The back end behind the issue queues is Backend.                        *)

\* The actions of the back end do not mention the step: they are the actions
\* of the instance.
LEMMA SameActions ==
  /\ Abstraction!TagStageCycles <=> TagStageCycles
  /\ \A s : Abstraction!RaiseTrap(s) <=> RaiseTrap(s)
  /\ Abstraction!AdvanceScb <=> AdvanceScb
  /\ Abstraction!RetireOne <=> RetireOne
  /\ Abstraction!AdvanceExecute <=> AdvanceExecute
  /\ Abstraction!AdvanceL1d <=> AdvanceL1d
  /\ Abstraction!AdvanceLiq <=> AdvanceLiq
  /\ \A s : Abstraction!FeedI2(s) <=> FeedI2(s)
  /\ Abstraction!I2Issue <=> I2Issue
  /\ Abstraction!I2Stay <=> I2Stay
  /\ Abstraction!I2End <=> I2End
  /\ Abstraction!Allocate <=> Allocate
  /\ \A s : Abstraction!Bypass(s) <=> Bypass(s)
<1> USE DEF Abstraction!backendVars, backendVars, Abstraction!commitVars, commitVars, Abstraction!i2Vars, i2Vars, Abstraction!lsuVars,
            lsuVars, Abstraction!stageVars, stageVars, Abstraction!loadVars, loadVars, Abstraction!storeVars, storeVars,
            Abstraction!lsidVars, lsidVars, Abstraction!uopVars, uopVars, Abstraction!stage_cycles, stage_cycles,
            Abstraction!visible_cycles, visible_cycles, Abstraction!miss_state, miss_state, Abstraction!Seqs, Seqs
<1>1. Abstraction!TagStageCycles <=> TagStageCycles
  BY DEF Abstraction!TagStageCycles, TagStageCycles, Abstraction!FirstIn, FirstIn
<1>2. ASSUME NEW s PROVE Abstraction!RaiseTrap(s) <=> RaiseTrap(s)
  BY DEF Abstraction!RaiseTrap, RaiseTrap, Abstraction!RangeOf, RangeOf
<1>3. Abstraction!AdvanceScb <=> AdvanceScb
  BY DEF Abstraction!AdvanceScb, AdvanceScb, Abstraction!can_accept_l1d, can_accept_l1d, Abstraction!lsid_cache_ready,
               lsid_cache_ready, Abstraction!Mem, Mem
<1>4. Abstraction!RetireOne <=> RetireOne
  BY DEF Abstraction!RetireOne, RetireOne, Abstraction!MayRetire, MayRetire, Abstraction!TrapOf, TrapOf
<1>5. Abstraction!AdvanceExecute <=> AdvanceExecute
  BY DEF Abstraction!AdvanceExecute, AdvanceExecute, Abstraction!Into, Into, Abstraction!Left, Left, Abstraction!StayE4, StayE4,
               Abstraction!StayE3, StayE3, Abstraction!StayE2, StayE2, Abstraction!Missed, Missed, Abstraction!Hit, Hit, Abstraction!Loads, Loads,
               Abstraction!should_inject_load_miss, should_inject_load_miss, Abstraction!lsid_cache_ready,
               lsid_cache_ready, Abstraction!Mem, Mem, Abstraction!can_accept_l1d, can_accept_l1d, Abstraction!restart_cycle,
               restart_cycle, Abstraction!ResetMissed, ResetMissed
<1>6. Abstraction!AdvanceL1d <=> AdvanceL1d
  BY DEF Abstraction!AdvanceL1d, AdvanceL1d, Abstraction!L1dLoadHit, L1dLoadHit, Abstraction!L1dStoreDrain, L1dStoreDrain,
               Abstraction!L1dWait, L1dWait, Abstraction!L1dReady, L1dReady, Abstraction!Cardinality, Cardinality
<1>7. Abstraction!AdvanceLiq <=> AdvanceLiq
  BY DEF Abstraction!AdvanceLiq, AdvanceLiq, Abstraction!Refillable, Refillable, Abstraction!load_slot_available,
               load_slot_available, Abstraction!Loads, Loads, Abstraction!lsid_cache_ready, lsid_cache_ready, Abstraction!Mem,
               Mem, Abstraction!LiqRestart, LiqRestart, Abstraction!Entry, Entry
<1>8. ASSUME NEW s PROVE Abstraction!FeedI2(s) <=> FeedI2(s)
  BY DEF Abstraction!FeedI2, FeedI2, Abstraction!lsid_issue_ready, lsid_issue_ready, Abstraction!Mem, Mem, Abstraction!Deps, Deps,
               Abstraction!RangeOf, RangeOf
<1>9. Abstraction!I2Issue <=> I2Issue
  BY DEF Abstraction!I2Issue, I2Issue, Abstraction!I2Goes, I2Goes, Abstraction!i2_issue_eligible, i2_issue_eligible,
               Abstraction!i2_ready, i2_ready, Abstraction!Deps, Deps, Abstraction!Reached, Reached, Abstraction!lsid_issue_ready,
               lsid_issue_ready, Abstraction!Mem, Mem, Abstraction!e1_can_accept, e1_can_accept, Abstraction!Cardinality,
               Cardinality, Abstraction!load_slot_available, load_slot_available, Abstraction!Loads, Loads
<1>10. Abstraction!I2Stay <=> I2Stay
  BY DEF Abstraction!I2Stay, I2Stay, Abstraction!I2Goes, I2Goes, Abstraction!i2_issue_eligible, i2_issue_eligible,
               Abstraction!i2_ready, i2_ready, Abstraction!Deps, Deps, Abstraction!Reached, Reached, Abstraction!lsid_issue_ready,
               lsid_issue_ready, Abstraction!Mem, Mem, Abstraction!e1_can_accept, e1_can_accept, Abstraction!Cardinality,
               Cardinality, Abstraction!load_slot_available, load_slot_available, Abstraction!Loads, Loads
<1>11. Abstraction!I2End <=> I2End
  BY DEF Abstraction!I2End, I2End
<1>12. Abstraction!Allocate <=> Allocate
  BY DEF Abstraction!Allocate, Allocate
<1>13. ASSUME NEW s PROVE Abstraction!Bypass(s) <=> Bypass(s)
  BY DEF Abstraction!Bypass, Bypass, Abstraction!GetOrInsert, GetOrInsert, Abstraction!Cardinality, Cardinality
<1> QED
  BY <1>1, <1>2, <1>3, <1>4, <1>5, <1>6, <1>7, <1>8, <1>9, <1>10, <1>11, <1>12, <1>13

\* The step of the back end that a step of the issue queues' loop stands for.
LEMMA StepNames ==
  /\ step = "tag" => BStep = "tag"
  /\ step = "publish" => BStep = "publish"
  /\ step = "scb" => BStep = "publish"
  /\ step = "retire" => BStep = "retire"
  /\ step = "execute" => BStep = "execute"
  /\ step = "l1d" => BStep = "l1d"
  /\ step = "liq" => BStep = "liq"
  /\ step = "i1" => BStep = "feed"
  /\ step = "arbitrate" => BStep = "feed"
  /\ step = "i2" => BStep = "i2"
  /\ step = "pick" => BStep = "dispatch"
  /\ step = "dispatch" => BStep = "dispatch"
  /\ step = "exit" => BStep = "exit"
  BY DEF BStep

\* The same of the next state.
LEMMA NextStepNames ==
  /\ step' = "tag" => BStep' = "tag"
  /\ step' = "publish" => BStep' = "publish"
  /\ step' = "scb" => BStep' = "publish"
  /\ step' = "retire" => BStep' = "retire"
  /\ step' = "execute" => BStep' = "execute"
  /\ step' = "l1d" => BStep' = "l1d"
  /\ step' = "liq" => BStep' = "liq"
  /\ step' = "i1" => BStep' = "feed"
  /\ step' = "arbitrate" => BStep' = "feed"
  /\ step' = "i2" => BStep' = "i2"
  /\ step' = "pick" => BStep' = "dispatch"
  /\ step' = "dispatch" => BStep' = "dispatch"
  /\ step' = "exit" => BStep' = "exit"
  BY DEF BStep

\* The uop that advance_i1_to_i2 moves is one that Backend's environment may
\* hand on: its turn in memory order has come, and no producer is behind it.
LEMMA MoveFeeds ==
  ASSUME View, IqInv, I1Move
  PROVE  Head(i1) \in Seqs /\ FeedI2(Head(i1))
<1>1. i1 # <<>> /\ i1 \in Seq(Seqs)
  BY DEF I1Move, IqInv, Shapes
<1>2. Head(i1) \in Seqs /\ Head(i1) \in RangeOf(i1)
  BY <1>1, SMTT(60) DEF RangeOf
<1>3. Head(i1) \in DOMAIN iq /\ InPicked(Head(i1))
  BY <1>2 DEF IqInv, PickedOnce, InPicked
<1>4. /\ Head(i1) \in upstream /\ ~uops[Head(i1)].bypass_d2
      /\ lsid_issue_ready(Head(i1))
  BY <1>2, <1>3 DEF IqInv, Entries, MemTurn, lsid_issue_ready
<1>5. \A p \in Deps(Head(i1)) : PastIssue(p)
  BY <1>3 DEF IqInv, Woken, PickedOnce
<1>6. \A p \in Deps(Head(i1)) \cap (upstream \cup RangeOf(i2)) : uops[p].bypass_d2
  BY <1>5 DEF PastIssue, Waiting
<1> QED
  BY <1>2, <1>4, <1>6 DEF I1Move, I1Goes, FeedI2

\* Every step of the issue queues is one of the back end, or leaves it alone.
LEMMA Mapped ==
  ASSUME View, IqInv, [IqNext]_<<vars, iqVars>>
  PROVE  [Abstraction!Next]_(Abstraction!vars)
<1>1. ASSUME BackendStep PROVE Abstraction!Next
  <2> USE StepNames, NextStepNames
  <2>1. CASE At("tag", "publish") /\ TagStageCycles
    BY <2>1, SameActions DEF At, Abstraction!At, Abstraction!Next
  <2>2. CASE At("publish", "publish") /\ \E s \in Seqs : RaiseTrap(s)
    BY <2>2, SameActions DEF At, Abstraction!At, Abstraction!Next, Abstraction!Seqs, Seqs
  <2>3. CASE At("scb", "retire") /\ AdvanceScb
    BY <2>3, SameActions DEF At, Abstraction!At, Abstraction!Next
  <2>4. CASE At("retire", "retire") /\ RetireOne
    BY <2>4, SameActions DEF At, Abstraction!At, Abstraction!Next
  <2>5. CASE RetireEnd("execute")
    <3>1. BStep = "retire" /\ (step' = "exit" => BStep' = "exit") /\ (step' = "execute" => BStep' = "execute")
      BY <2>5 DEF RetireEnd
    <3>2. Abstraction!RetireEnd("execute")
      BY <2>5, <3>1
         DEF RetireEnd, Abstraction!RetireEnd, MayRetire, Abstraction!MayRetire, trap_retired, Abstraction!trap_retired,
             RetiredNow, Abstraction!RetiredNow, AllCommitted, Abstraction!AllCommitted, Seqs, Abstraction!Seqs,
             Cardinality, Abstraction!Cardinality, i2Vars, Abstraction!i2Vars, lsuVars, Abstraction!lsuVars, stageVars,
             Abstraction!stageVars, loadVars, Abstraction!loadVars, storeVars, Abstraction!storeVars, lsidVars, Abstraction!lsidVars,
             uopVars, Abstraction!uopVars, stage_cycles, Abstraction!stage_cycles, visible_cycles,
             Abstraction!visible_cycles, miss_state, Abstraction!miss_state
    <3> QED
      BY <3>2 DEF Abstraction!Next
  <2>6. CASE At("execute", "l1d") /\ AdvanceExecute
    BY <2>6, SameActions DEF At, Abstraction!At, Abstraction!Next
  <2>7. CASE At("l1d", "liq") /\ AdvanceL1d
    BY <2>7, SameActions DEF At, Abstraction!At, Abstraction!Next
  <2>8. CASE At("liq", "i1") /\ AdvanceLiq
    BY <2>8, SameActions DEF At, Abstraction!At, Abstraction!Next
  <2>9. CASE At("i2", "i2") /\ (I2Issue \/ I2Stay)
    BY <2>9, SameActions DEF At, Abstraction!At, Abstraction!Next
  <2>10. CASE At("i2", "pick") /\ I2End
    BY <2>10, SameActions DEF At, Abstraction!At, Abstraction!Next
  <2>11. CASE At("dispatch", "dispatch") /\ (Allocate \/ \E s \in Seqs : Bypass(s))
    BY <2>11, SameActions DEF At, Abstraction!At, Abstraction!Next, Abstraction!Seqs, Seqs
  <2> QED
    BY <1>1, <2>1, <2>2, <2>3, <2>4, <2>5, <2>6, <2>7, <2>8, <2>9, <2>10, <2>11
       DEF BackendStep
<1> USE StepNames, NextStepNames
<1> USE DEF Abstraction!vars, Abstraction!loopVars, Abstraction!backendVars, backendVars, Abstraction!commitVars, commitVars, Abstraction!i2Vars,
            i2Vars, Abstraction!lsuVars, lsuVars, Abstraction!stageVars, stageVars, Abstraction!loadVars, loadVars,
            Abstraction!storeVars, storeVars, Abstraction!lsidVars, lsidVars, Abstraction!uopVars, uopVars, Abstraction!stage_cycles,
            stage_cycles, Abstraction!visible_cycles, visible_cycles, Abstraction!miss_state, miss_state
<1>2. ASSUME At("publish", "scb"), UpdateIqEntries PROVE UNCHANGED Abstraction!vars
  BY <1>2 DEF At, UpdateIqEntries
<1>3. ASSUME At("i1", "i1"), I1Move PROVE Abstraction!Next
  <2>1. \E s \in Abstraction!Seqs : Abstraction!FeedI2(s)
    BY <1>3, MoveFeeds, SameActions DEF Abstraction!Seqs, Seqs
  <2>2. Abstraction!At("feed", "feed")
    BY <1>3 DEF At, Abstraction!At
  <2> QED
    BY <2>1, <2>2 DEF Abstraction!Next
<1>4. ASSUME At("i1", "i1"), I1Stay PROVE UNCHANGED Abstraction!vars
  BY <1>4 DEF At, I1Stay
<1>5. ASSUME At("i1", "arbitrate"), I1End PROVE UNCHANGED Abstraction!vars
  BY <1>5 DEF At, I1End
<1>6. ASSUME At("arbitrate", "i2"), ArbitrateI1 PROVE Abstraction!Next
  BY <1>6 DEF At, Abstraction!At, ArbitrateI1, Abstraction!Next
<1>7. ASSUME At("pick", "dispatch"), PickFromIq PROVE UNCHANGED Abstraction!vars
  BY <1>7 DEF At, PickFromIq
<1>8. ASSUME At("dispatch", "dispatch"), NEW s \in Seqs, Dispatch(s) PROVE UNCHANGED Abstraction!vars
  BY <1>8 DEF At, Dispatch, Enqueue
<1>9. ASSUME NextCycle PROVE Abstraction!Next
  <2>1. Abstraction!NextCycle
    BY <1>9 DEF NextCycle, Abstraction!NextCycle
  <2> QED
    BY <2>1 DEF Abstraction!Next
<1>10. ASSUME UNCHANGED vars PROVE UNCHANGED Abstraction!vars
  <2>1. BStep' = BStep
    BY <1>10 DEF vars, loopVars, BStep
  <2> QED
    BY <1>10, <2>1 DEF vars, loopVars
<1>11. Exited \/ UNCHANGED <<vars, iqVars>> => UNCHANGED vars
  BY DEF Exited
<1> QED
  BY <1>1, <1>2, <1>3, <1>4, <1>5, <1>6, <1>7, <1>8, <1>9, <1>10, <1>11 DEF IqNext

\* The issue queues start where the back end does.
LEMMA MappedInit == IqInit => Abstraction!Init
<1>1. step = "tag" => BStep = "tag"
  BY StepNames
<1> QED
  BY <1>1 DEF IqInit, Init, Abstraction!Init, UopsInit, Abstraction!UopsInit, BackendInit, Abstraction!BackendInit,
     build_uops, Abstraction!build_uops, d2_bypass, Abstraction!d2_bypass, source_valid, Abstraction!source_valid, Producer,
     Abstraction!Producer, queue_src_kind, Abstraction!queue_src_kind, resolve_logical_queue_src,
     Abstraction!resolve_logical_queue_src, queue_dst_kind, Abstraction!queue_dst_kind, last_writer, Abstraction!last_writer,
     QueueHistory, Abstraction!QueueHistory, NthLatest, Abstraction!NthLatest, LoadsBefore, Abstraction!LoadsBefore,
     MemsBefore, Abstraction!MemsBefore, Cardinality, Abstraction!Cardinality, IsFiniteSet, Abstraction!IsFiniteSet, Seqs, Abstraction!Seqs

-----------------------------------------------------------------------------
(* So what is proved of Backend holds of it.                               *)

A == INSTANCE BackendProofs WITH step <- BStep

\* What Backend assumes of its constants holds of the instance's too.
LEMMA Assumed ==
  /\ \A c \in CommitStreams : A!IsCommitStream(c)
  /\ None \notin Int /\ {"x0", "T", "U"} \cap Regs = {}
  /\ ISSUE_WIDTH \in Nat \ {0} /\ COMMIT_WIDTH \in Nat \ {0} /\ ROB_CAPACITY \in Nat \ {0}
  /\ max_cycles \in Nat \ {0} /\ load_miss_every \in Nat /\ load_miss_penalty \in Nat
  /\ None \notin TrapCauses
  /\ None \notin [seq : Nat, kind : {"LoadHit", "StoreDrain"}, ready_cycle : Nat]
<1>1. \A c \in CommitStreams : A!IsCommitStream(c)
  BY StreamsAssumption DEF A!IsCommitStream, IsCommitStream, A!Groups, Groups, A!Ops, Ops,
     A!d2_bypass, d2_bypass, A!AllRegs, AllRegs, A!Source, Source, A!Cardinality, Cardinality,
     A!IsFiniteSet, IsFiniteSet
<1> QED
  BY <1>1, NoneAssumption, RegsAssumption, WidthsAssumption, NoneNotL1d

\* The view does not mention the step either.
LEMMA SameView == A!View <=> View
<1> USE DEF A!Seqs, Seqs, A!Mem, Mem, A!RangeOf, RangeOf, A!Waiting, Waiting
<1>1. A!StreamView <=> StreamView
  BY DEF A!StreamView, StreamView, A!SourceView, SourceView, A!IsFiniteSet, IsFiniteSet
<1>2. A!CommitTypeOK <=> CommitTypeOK
  BY DEF A!CommitTypeOK, CommitTypeOK
<1>3. A!CommitInOrder <=> CommitInOrder
  BY DEF A!CommitInOrder, CommitInOrder
<1>4. A!PlaceView <=> PlaceView
  BY DEF A!PlaceView, PlaceView, A!Distinct, Distinct, A!InRob, InRob
<1>5. A!TagView <=> TagView
  BY DEF A!TagView, TagView, A!OptCycle, OptCycle
<1> QED
  BY <1>1, <1>2, <1>3, <1>4, <1>5 DEF A!View, View

\* The invariant of the back end, read with its own step, gives the view.
LEMMA ViewHolds ==
  ASSUME A!BackInv
  PROVE  View
  BY A!BackView, Assumed, SameView

\* Backend is instantiated twice, with its proofs and without them.
LEMMA SameNext == ([A!Next]_(A!vars)) <=> ([Abstraction!Next]_(Abstraction!vars))
  BY DEF A!AdvanceExecute, Abstraction!AdvanceExecute, A!AdvanceL1d, Abstraction!AdvanceL1d,
     A!AdvanceLiq, Abstraction!AdvanceLiq, A!AdvanceScb, Abstraction!AdvanceScb,
     A!AllCommitted, Abstraction!AllCommitted, A!Allocate, Abstraction!Allocate, A!At,
     Abstraction!At, A!Bypass, Abstraction!Bypass, A!Deps, Abstraction!Deps, A!Entry,
     Abstraction!Entry, A!Exited, Abstraction!Exited, A!FeedI2, Abstraction!FeedI2, A!FirstIn,
     Abstraction!FirstIn, A!GetOrInsert, Abstraction!GetOrInsert, A!Hit, Abstraction!Hit,
     A!I2End, Abstraction!I2End, A!I2Goes, Abstraction!I2Goes, A!I2Issue, Abstraction!I2Issue,
     A!I2Stay, Abstraction!I2Stay, A!Into, Abstraction!Into, A!L1dLoadHit,
     Abstraction!L1dLoadHit, A!L1dReady, Abstraction!L1dReady, A!L1dStoreDrain,
     Abstraction!L1dStoreDrain, A!L1dWait, Abstraction!L1dWait, A!Left, Abstraction!Left,
     A!LiqRestart, Abstraction!LiqRestart, A!Loads, Abstraction!Loads, A!MayRetire,
     Abstraction!MayRetire, A!Mem, Abstraction!Mem, A!Missed, Abstraction!Missed, A!Next,
     Abstraction!Next, A!NextCycle, Abstraction!NextCycle, A!RaiseTrap, Abstraction!RaiseTrap,
     A!RangeOf, Abstraction!RangeOf, A!Reached, Abstraction!Reached, A!Refillable,
     Abstraction!Refillable, A!ResetMissed, Abstraction!ResetMissed, A!RetireEnd,
     Abstraction!RetireEnd, A!RetireOne, Abstraction!RetireOne, A!RetiredNow,
     Abstraction!RetiredNow, A!Seqs, Abstraction!Seqs, A!StayE2, Abstraction!StayE2, A!StayE3,
     Abstraction!StayE3, A!StayE4, Abstraction!StayE4, A!TagStageCycles,
     Abstraction!TagStageCycles, A!TrapOf, Abstraction!TrapOf, A!backendVars,
     Abstraction!backendVars, A!can_accept_l1d, Abstraction!can_accept_l1d, A!commitVars,
     Abstraction!commitVars, A!e1_can_accept, Abstraction!e1_can_accept, A!i2Vars,
     Abstraction!i2Vars, A!i2_issue_eligible, Abstraction!i2_issue_eligible, A!i2_ready,
     Abstraction!i2_ready, A!loadVars, Abstraction!loadVars, A!load_slot_available,
     Abstraction!load_slot_available, A!loopVars, Abstraction!loopVars, A!lsidVars,
     Abstraction!lsidVars, A!lsid_cache_ready, Abstraction!lsid_cache_ready,
     A!lsid_issue_ready, Abstraction!lsid_issue_ready, A!lsuVars, Abstraction!lsuVars,
     A!miss_state, Abstraction!miss_state, A!restart_cycle, Abstraction!restart_cycle,
     A!should_inject_load_miss, Abstraction!should_inject_load_miss, A!stageVars,
     Abstraction!stageVars, A!stage_cycles, Abstraction!stage_cycles, A!storeVars,
     Abstraction!storeVars, A!trap_retired, Abstraction!trap_retired, A!uopVars,
     Abstraction!uopVars, A!vars, Abstraction!vars, A!visible_cycles,
     Abstraction!visible_cycles, A!Cardinality, Abstraction!Cardinality, A!IsFiniteSet,
     Abstraction!IsFiniteSet

\* The same of the initial states.
LEMMA SameInit == A!Init <=> Abstraction!Init
  BY DEF A!BackendInit, Abstraction!BackendInit, A!Init, Abstraction!Init, A!LoadsBefore,
     Abstraction!LoadsBefore, A!MemsBefore, Abstraction!MemsBefore, A!NthLatest,
     Abstraction!NthLatest, A!Producer, Abstraction!Producer, A!QueueHistory,
     Abstraction!QueueHistory, A!Seqs, Abstraction!Seqs, A!UopsInit, Abstraction!UopsInit,
     A!build_uops, Abstraction!build_uops, A!d2_bypass, Abstraction!d2_bypass, A!last_writer,
     Abstraction!last_writer, A!queue_dst_kind, Abstraction!queue_dst_kind, A!queue_src_kind,
     Abstraction!queue_src_kind, A!resolve_logical_queue_src,
     Abstraction!resolve_logical_queue_src, A!source_valid, Abstraction!source_valid,
     A!Cardinality, Abstraction!Cardinality, A!IsFiniteSet, Abstraction!IsFiniteSet

\* The back end's invariant and that of the issue queues hold together: each
\* step of the one needs the other.
Whole == A!BackInv /\ IqInv

\* The steps of the loop of run, from its first cycle on, keep both.
LEMMA WholeHolds == IqSpec => []Whole
<1>1. IqInit => Whole
  BY MappedInit, SameInit, A!BackInit, Assumed, IqStart DEF Whole
<1>2. Whole /\ [IqNext]_<<vars, iqVars>> => Whole'
  <2> SUFFICES ASSUME Whole, [IqNext]_<<vars, iqVars>> PROVE Whole'
    OBVIOUS
  <2>1. View /\ IqInv
    BY ViewHolds DEF Whole
  <2>2. IqInv'
    BY <2>1, IqStep
  <2>3. [A!Next]_(A!vars)
    BY <2>1, Mapped, SameNext
  <2>4. A!BackInv'
    BY <2>3, A!BackStep, Assumed DEF Whole
  <2> QED
    BY <2>2, <2>4 DEF Whole
<1> QED
  BY <1>1, <1>2, PTL DEF IqSpec
-----------------------------------------------------------------------------
(* The properties.                                                         *)

\* The issue queues are the environment that Backend leaves open: with them,
\* the back end behaves as Backend says, so all that is proved of Backend
\* holds behind the issue queues.
THEOREM QueuesFeedBackend == IqSpec => A!Spec
<1>1. Whole /\ [IqNext]_<<vars, iqVars>> => [A!Next]_(A!vars)
  <2> SUFFICES ASSUME Whole, [IqNext]_<<vars, iqVars>> PROVE [A!Next]_(A!vars)
    OBVIOUS
  <2> QED
    BY ViewHolds, Mapped, SameNext DEF Whole
<1> QED
  BY <1>1, WholeHolds, MappedInit, SameInit, PTL DEF IqSpec, A!Spec

\* Each step of the loop with the issue queues is one step of the loop that
\* Backend describes, or leaves the back end alone: a uop enters I2 only when
\* its producers are past issue and its turn in memory order has come.
THEOREM StepsFeedBackend == IqSpec => FeedsBackend
  BY QueuesFeedBackend, SameNext, PTL DEF A!Spec, FeedsBackend

\* The variables of the issue queues keep their shape.
THEOREM IqTypeCorrect == IqSpec => []IqTypeOK
<1>1. Whole => IqTypeOK
  BY TypesOf DEF Whole
<1> QED
  BY <1>1, WholeHolds, PTL

\* A queue tag has one owner, and the crossbar lists the waiting sources.
THEOREM TagsOwned == IqSpec => []QTagOwners
<1>1. Whole => QTagOwners
  BY OwnersOf DEF Whole
<1> QED
  BY <1>1, WholeHolds, PTL

\* An entry is marked inflight exactly while pick_from_iq's choice is in P1 or
\* I1, and it is there once.
THEOREM PickedAreInflight == IqSpec => []InflightIsPicked
<1>1. Whole => InflightIsPicked
  BY InflightOf DEF Whole
<1> QED
  BY <1>1, WholeHolds, PTL

\* At most one memory access is between the queues and E1.
THEOREM OneMemoryUop == IqSpec => []OneMemoryUopIssuing
<1>1. Whole => OneMemoryUopIssuing
  BY ViewHolds, MemoryOf DEF Whole
<1> QED
  BY <1>1, WholeHolds, PTL

\* Wake-ups are never late.
THEOREM WakeupsInTime == IqSpec => []NoLostWakeup
<1>1. Whole => NoLostWakeup
  BY ViewHolds, WakeupsOf DEF Whole
<1> QED
  BY <1>1, WholeHolds, PTL

\* Wake-ups are never early, and a miss takes a speculative one back.
THEOREM WakeupsBacked == IqSpec => []ReadyIsBacked
<1>1. Whole => ReadyIsBacked
  BY DEF Whole, IqInv
<1> QED
  BY <1>1, WholeHolds, PTL
=============================================================================
