------------------------------- MODULE Backend -------------------------------
(***************************************************************************)
(* The back end of the cycle engine: the execution stages E1-E4, W1, W2,   *)
(* the load/store unit with its owner queues, in-order retirement and the  *)
(* I2 stage that feeds them.                                               *)
(*                                                                         *)
(* An action is one function the engine's cycle loop calls, in the order   *)
(* in which it calls them; `step' names the function whose turn it is.  A  *)
(* loop inside a function is a repeated action (retire_ready, advance_i2). *)
(* The front end and the issue queues are the environment here: they       *)
(* allocate ROB entries in stream order, raise traps and hand uops to I2   *)
(* or, past the issue queues, to W2.                                       *)
(***************************************************************************)
EXTENDS Uops, Sequences

CONSTANTS
  ISSUE_WIDTH,
  COMMIT_WIDTH,
  ROB_CAPACITY,
  max_cycles,          \* options.max_cycles
  load_miss_every,     \* options.load_miss_every, 0 for none
  load_miss_penalty,   \* options.load_miss_penalty
  TrapCauses           \* the causes of the traps that recovery raises

ASSUME WidthsAssumption ==
  /\ ISSUE_WIDTH \in Nat \ {0}
  /\ COMMIT_WIDTH \in Nat \ {0}
  /\ ROB_CAPACITY \in Nat \ {0}
  /\ max_cycles \in Nat \ {0}
  /\ load_miss_every \in Nat
  /\ load_miss_penalty \in Nat
  /\ None \notin TrapCauses

\* The L1D's transaction is an Option.
ASSUME NoneNotL1d ==
  None \notin [seq : Nat, kind : {"LoadHit", "StoreDrain"}, ready_cycle : Nat]

VARIABLES
  cycle, step, exit_reason,
  rob, committed,                \* committed: [seq, cycle, trap] records
  retired_this_cycle,            \* the local of retire_ready
  pending_trap,                  \* None or [seq, cause]
  ready_table,                   \* logical tags whose producer has retired
  upstream,                      \* in the ROB, not yet in I2 or W2
  i2, i2_stay,                   \* I2, and the local `stay' of advance_i2
  e1, e2, e3, e4, w1, w2,        \* the execution stages, as sets of seqs
  l1d,                           \* the transaction in the L1D, or None
  lhq, stq, scb, liq, mdb,       \* the owner queues of the LSU
  lsid_issue_ptr, lsid_complete_ptr, lsid_cache_ptr

loopVars == <<cycle, step, exit_reason>>
commitVars == <<rob, committed, retired_this_cycle, pending_trap, ready_table>>
stageVars == <<e1, e2, e3, e4, w1, w2>>
i2Vars == <<i2, i2_stay>>
loadVars == <<l1d, lhq, liq, mdb>>
storeVars == <<stq, scb>>
lsidVars == <<lsid_issue_ptr, lsid_complete_ptr, lsid_cache_ptr>>
lsuVars == <<stageVars, loadVars, storeVars, lsidVars>>
backendVars == <<commitVars, upstream, i2Vars, lsuVars>>
vars == <<loopVars, backendVars, uopVars>>

At(from, to) == step = from /\ step' = to /\ UNCHANGED <<cycle, exit_reason>>

RangeOf(q) == {q[k] : k \in DOMAIN q}
Loads(S) == {s \in S : uops[s].is_load}
Entry(S, s) == {x \in S : x.seq = s}
SeqsOf(S) == {x.seq : x \in S}
-----------------------------------------------------------------------------
(* tag_stage_cycles: the first cycle a uop spends in E1, E4, W1 and W2.    *)
FirstIn(stage, tag, s) == s \in stage /\ tag[s] = None

TagStageCycles ==
  /\ e1_cycle' = [s \in Seqs |-> IF FirstIn(e1, e1_cycle, s) THEN cycle ELSE e1_cycle[s]]
  /\ e4_cycle' = [s \in Seqs |-> IF FirstIn(e4, e4_cycle, s) THEN cycle ELSE e4_cycle[s]]
  /\ w1_cycle' = [s \in Seqs |-> IF FirstIn(w1, w1_cycle, s) THEN cycle ELSE w1_cycle[s]]
  /\ done_cycle' = [s \in Seqs |-> IF FirstIn(w2, done_cycle, s) THEN cycle ELSE done_cycle[s]]
  /\ pick_wakeup_visible' =
       [s \in Seqs |->
          IF IF uops[s].is_load THEN FirstIn(e1, e1_cycle, s) ELSE FirstIn(w1, w1_cycle, s)
          THEN cycle + 1 ELSE pick_wakeup_visible[s]]
  /\ data_ready_visible' =
       [s \in Seqs |->
          IF IF uops[s].is_load THEN FirstIn(e4, e4_cycle, s) ELSE FirstIn(w1, w1_cycle, s)
          THEN cycle + 1 ELSE data_ready_visible[s]]
  /\ UNCHANGED <<uops, miss_state, backendVars>>
-----------------------------------------------------------------------------
(* The load/store unit.  LSU_WIDTH and L1D_WIDTH are 1.                    *)

\* Mutants: an access does not wait for its turn.
lsid_cache_ready_Anytime(s) == TRUE
lsid_issue_ready_Anytime(s) == TRUE

lsid_cache_ready(s) == Mem(s) => uops[s].load_store_id = lsid_cache_ptr
lsid_issue_ready(s) == Mem(s) => uops[s].load_store_id = lsid_issue_ptr
can_accept_l1d == l1d = None
load_slot_available == Loads(e1) = {}

should_inject_load_miss(s) ==
  /\ load_miss_every # 0
  /\ uops[s].is_load
  /\ ~miss_injected[s]
  /\ (uops[s].load_ordinal + 1) % load_miss_every = 0

\* A store leaves the SCB for the L1D a cycle or more after it retired.
AdvanceScb ==
  /\ IF /\ can_accept_l1d
        /\ \E x \in scb : x.enqueue_cycle < cycle /\ lsid_cache_ready(x.seq)
     THEN \E x \in scb :
            /\ x.enqueue_cycle < cycle
            /\ lsid_cache_ready(x.seq)
            /\ scb' = scb \ {x}
            /\ l1d' = [seq |-> x.seq, kind |-> "StoreDrain", ready_cycle |-> cycle + 1]
     ELSE UNCHANGED <<scb, l1d>>
  /\ UNCHANGED <<uopVars, commitVars, upstream, i2Vars, stageVars, lhq, liq, mdb, stq, lsidVars>>

\* A stage of width one takes the stage before it when it is empty.
Into(dst, src) == IF dst = {} THEN src ELSE dst
Left(dst, src) == IF dst = {} THEN {} ELSE src

\* Mutant: the miss is noticed a cycle after the load has entered E4.
Missed_Late == {s \in e4 : should_inject_load_miss(s) /\ Reached(data_ready_visible[s], cycle)}

Missed == {s \in e4 : should_inject_load_miss(s)}
Hit == {s \in e4 \ Missed : lsid_cache_ready(s) /\ can_accept_l1d}
StayE4 == e4 \ (Missed \cup Hit)
StayE3 == Left(StayE4, e3)
StayE2 == Left(StayE3, e2)
restart_cycle == cycle + (IF load_miss_penalty = 0 THEN 1 ELSE load_miss_penalty)
ResetMissed(tag) == [s \in Seqs |-> IF s \in Missed THEN None ELSE tag[s]]

\* W1 and the non-loads of E1 never exceed ISSUE_WIDTH (StageWidths below),
\* so both always move on.
AdvanceExecute ==
  /\ w2' = w1
  /\ w1' = e1 \ Loads(e1)
  /\ e4' = Into(StayE4, e3)
  /\ e3' = Into(StayE3, e2)
  /\ e2' = Into(StayE2, Loads(e1))
  /\ e1' = Left(StayE2, Loads(e1))
  /\ l1d' = IF Hit = {} THEN l1d
            ELSE [seq |-> CHOOSE s \in Hit : TRUE, kind |-> "LoadHit", ready_cycle |-> cycle + 1]
  /\ liq' = liq \cup [seq : Missed, refill_ready_cycle : {restart_cycle}]
  /\ mdb' = mdb \cup [seq : Missed, refill_ready_cycle : {restart_cycle}]
  /\ lhq' = lhq \ Missed
  /\ miss_injected' = [s \in Seqs |-> miss_injected[s] \/ s \in Missed]
  /\ miss_pending_until' = [s \in Seqs |-> IF s \in Missed THEN restart_cycle
                                           ELSE IF s \in Hit THEN None
                                           ELSE miss_pending_until[s]]
  /\ pick_wakeup_visible' = ResetMissed(pick_wakeup_visible)
  /\ data_ready_visible' = ResetMissed(data_ready_visible)
  /\ e1_cycle' = ResetMissed(e1_cycle)
  /\ e4_cycle' = ResetMissed(e4_cycle)
  /\ w1_cycle' = ResetMissed(w1_cycle)
  /\ done_cycle' = ResetMissed(done_cycle)
  /\ UNCHANGED <<uops, commitVars, upstream, i2Vars, storeVars, lsidVars>>

L1dReady(kind) == l1d # None /\ l1d.kind = kind /\ l1d.ready_cycle <= cycle

\* Mutant: the LHQ entry is not removed.
L1dLoadHit_KeepsLhq ==
  /\ L1dReady("LoadHit")
  /\ Cardinality(w1) < ISSUE_WIDTH
  /\ w1' = w1 \cup {l1d.seq}
  /\ l1d' = None
  /\ lsid_cache_ptr' = lsid_cache_ptr + 1
  /\ UNCHANGED lhq

L1dLoadHit ==
  /\ L1dReady("LoadHit")
  /\ Cardinality(w1) < ISSUE_WIDTH
  /\ w1' = w1 \cup {l1d.seq}
  /\ lhq' = lhq \ {l1d.seq}
  /\ l1d' = None
  /\ lsid_cache_ptr' = lsid_cache_ptr + 1

L1dStoreDrain ==
  /\ L1dReady("StoreDrain")
  /\ l1d' = None
  /\ lsid_cache_ptr' = lsid_cache_ptr + 1
  /\ UNCHANGED <<w1, lhq>>

L1dWait ==
  /\ ~L1dReady("StoreDrain")
  /\ ~(L1dReady("LoadHit") /\ Cardinality(w1) < ISSUE_WIDTH)
  /\ UNCHANGED <<w1, lhq, l1d, lsid_cache_ptr>>

AdvanceL1d ==
  /\ L1dLoadHit \/ L1dStoreDrain \/ L1dWait
  /\ UNCHANGED <<uopVars, commitVars, upstream, i2Vars, e1, e2, e3, e4, w2, liq, mdb,
                 storeVars, lsid_issue_ptr, lsid_complete_ptr>>

\* The LIQ entries whose line has arrived and whose turn at the cache it is.
\* rob_age_rank orders them as their seqs do: the ROB holds seqs in order.
Refillable ==
  IF load_slot_available
  THEN {x \in liq : x.refill_ready_cycle <= cycle /\ lsid_cache_ready(x.seq)}
  ELSE {}

\* Mutant: the load is restarted without leaving the LIQ.
LiqRestart_StaysQueued(x) ==
  /\ \A y \in Refillable : x.seq <= y.seq
  /\ mdb' = mdb \ Entry(mdb, x.seq)
  /\ lhq' = lhq \cup {x.seq}
  /\ e1' = e1 \cup {x.seq}
  /\ miss_pending_until' = [miss_pending_until EXCEPT ![x.seq] = None]
  /\ UNCHANGED liq

LiqRestart(x) ==
  /\ \A y \in Refillable : x.seq <= y.seq
  /\ liq' = liq \ {x}
  /\ mdb' = mdb \ Entry(mdb, x.seq)
  /\ lhq' = lhq \cup {x.seq}
  /\ e1' = e1 \cup {x.seq}
  /\ miss_pending_until' = [miss_pending_until EXCEPT ![x.seq] = None]

AdvanceLiq ==
  /\ \/ \E x \in Refillable : LiqRestart(x)
     \/ Refillable = {} /\ UNCHANGED <<liq, mdb, lhq, e1, miss_pending_until>>
  /\ UNCHANGED <<uops, stage_cycles, visible_cycles, miss_injected, commitVars, upstream,
                 i2Vars, e2, e3, e4, w1, w2, l1d, storeVars, lsidVars>>
-----------------------------------------------------------------------------
(* advance_i2: each uop of I2 in turn goes to E1 or stays.                 *)
i2_ready(s) == \A p \in Deps(s) : Reached(data_ready_visible[p], cycle)
\* Mutant: I2 does not wait for the data of the producers.
i2_issue_eligible_NoData(s) == lsid_issue_ready(s)

i2_issue_eligible(s) == i2_ready(s) /\ lsid_issue_ready(s)

\* Mutant: the one load slot of E1 is not asked for.
e1_can_accept_NoSlot(s) == Cardinality(e1) < ISSUE_WIDTH

e1_can_accept(s) ==
  /\ Cardinality(e1) < ISSUE_WIDTH
  /\ uops[s].is_load => load_slot_available

I2Goes(s) == i2_issue_eligible(s) /\ e1_can_accept(s)

I2Issue ==
  /\ i2 # <<>>
  /\ I2Goes(Head(i2))
  /\ i2' = Tail(i2)
  /\ e1' = e1 \cup {Head(i2)}
  /\ lhq' = IF uops[Head(i2)].is_load THEN lhq \cup {Head(i2)} ELSE lhq
  /\ stq' = IF uops[Head(i2)].is_store THEN stq \cup {Head(i2)} ELSE stq
  /\ lsid_issue_ptr' = IF Mem(Head(i2)) THEN lsid_issue_ptr + 1 ELSE lsid_issue_ptr
  /\ lsid_complete_ptr' = IF Mem(Head(i2)) THEN lsid_complete_ptr + 1 ELSE lsid_complete_ptr
  /\ UNCHANGED <<uopVars, commitVars, upstream, i2_stay, e2, e3, e4, w1, w2, l1d, liq, mdb,
                 scb, lsid_cache_ptr>>

I2Stay ==
  /\ i2 # <<>>
  /\ ~I2Goes(Head(i2))
  /\ i2' = Tail(i2)
  /\ i2_stay' = Append(i2_stay, Head(i2))
  /\ UNCHANGED <<uopVars, commitVars, upstream, lsuVars>>

I2End ==
  /\ i2 = <<>>
  /\ i2' = i2_stay
  /\ i2_stay' = <<>>
  /\ UNCHANGED <<uopVars, commitVars, upstream, lsuVars>>
-----------------------------------------------------------------------------
(* retire_ready: up to COMMIT_WIDTH finished uops from the ROB's head.     *)
\* Mutant: the head retires before it is done.
MayRetire_NotDone == retired_this_cycle < COMMIT_WIDTH /\ rob # <<>>

MayRetire ==
  /\ retired_this_cycle < COMMIT_WIDTH
  /\ rob # <<>>
  /\ done_cycle[Head(rob)] # None

TrapOf(s) == IF pending_trap # None /\ pending_trap.seq = s THEN pending_trap.cause ELSE None

RetireOne ==
  /\ MayRetire
  /\ rob' = Tail(rob)
  /\ committed' = Append(committed, [seq   |-> Head(rob),
                                     cycle |-> cycle,
                                     trap  |-> TrapOf(Head(rob))])
  /\ retired_this_cycle' = retired_this_cycle + 1
  /\ pending_trap' = IF TrapOf(Head(rob)) # None THEN None ELSE pending_trap
  /\ ready_table' = IF uops[Head(rob)].dst_queue_kind # None
                    THEN ready_table \cup {Head(rob)} ELSE ready_table
  /\ IF uops[Head(rob)].is_store
     THEN /\ stq' = stq \ {Head(rob)}
          /\ scb' = scb \cup {[seq |-> Head(rob), enqueue_cycle |-> cycle]}
     ELSE UNCHANGED storeVars
  /\ UNCHANGED <<uopVars, upstream, i2Vars, stageVars, loadVars, lsidVars>>

\* trap_retired: the cause of a trap among the uops retired in this cycle.
RetiredNow == {k \in 1 .. Len(committed) : k > Len(committed) - retired_this_cycle}
trap_retired == \E k \in RetiredNow : committed[k].trap # None
AllCommitted == Len(committed) = Cardinality(Seqs)

\* What the engine does after retire_ready: stop on a trap, stop when every
\* commit of the functional engine has been replayed, or go on.  When all is
\* replayed the functional engine's reason replaces that of a trap.
RetireEnd(next) ==
  /\ step = "retire"
  /\ ~MayRetire
  /\ \/ /\ trap_retired
        /\ exit_reason' = IF AllCommitted THEN "func" ELSE "trap"
        /\ step' = "exit"
     \/ /\ ~trap_retired
        /\ AllCommitted
        /\ exit_reason' = "func"
        /\ step' = "exit"
     \/ /\ ~trap_retired
        /\ ~AllCommitted
        /\ step' = next
        /\ UNCHANGED exit_reason
  /\ retired_this_cycle' = 0
  /\ UNCHANGED <<cycle, rob, committed, pending_trap, ready_table, upstream, i2Vars, lsuVars,
                 uopVars>>
-----------------------------------------------------------------------------
(* The environment.                                                        *)

\* A pending trap gives way only to one of the same uop or an older one; a
\* trap is published in the cycle in which its uop is first seen in W1 or W2.
RaiseTrap(s) ==
  /\ \/ w1_cycle[s] = cycle
     \/ w1_cycle[s] = None /\ done_cycle[s] = cycle
  /\ s \in RangeOf(rob)
  /\ pending_trap # None => s <= pending_trap.seq
  /\ \E cause \in TrapCauses : pending_trap' = [seq |-> s, cause |-> cause]
  /\ UNCHANGED <<uopVars, rob, committed, retired_this_cycle, ready_table, upstream, i2Vars,
                 lsuVars>>

\* advance_i1_to_i2 hands on a uop that pick_from_iq chose: its turn in
\* memory order has come and its producers that pass I2 have left it.
FeedI2(s) ==
  /\ s \in upstream
  /\ ~uops[s].bypass_d2
  /\ Len(i2) < ISSUE_WIDTH
  /\ lsid_issue_ready(s)
  /\ \A p \in Deps(s) \cap (upstream \cup RangeOf(i2)) : uops[p].bypass_d2
  /\ upstream' = upstream \ {s}
  /\ i2' = Append(i2, s)
  /\ UNCHANGED <<uopVars, commitVars, i2_stay, lsuVars>>

GetOrInsert(tag, s, value) == [tag EXCEPT ![s] = IF @ = None THEN value ELSE @]

\* dispatch_to_iq_and_bypass sends a bypassing uop straight to W2; its result
\* is announced even when W2 has no room and the uop has to wait.
Bypass(s) ==
  /\ s \in upstream
  /\ uops[s].bypass_d2
  /\ IF Cardinality(w2) < ISSUE_WIDTH
     THEN upstream' = upstream \ {s} /\ w2' = w2 \cup {s}
     ELSE UNCHANGED <<upstream, w2>>
  /\ pick_wakeup_visible' = GetOrInsert(pick_wakeup_visible, s, cycle + 1)
  /\ data_ready_visible' = GetOrInsert(data_ready_visible, s, cycle + 1)
  /\ UNCHANGED <<uops, stage_cycles, miss_state, commitVars, i2Vars, e1, e2, e3, e4, w1,
                 loadVars, storeVars, lsidVars>>

\* Mutant: allocation at the wrong end.
Allocate_Front ==
  /\ Len(rob) < ROB_CAPACITY
  /\ Len(committed) + Len(rob) \in Seqs
  /\ rob' = <<Len(committed) + Len(rob)>> \o rob
  /\ upstream' = upstream \cup {Len(committed) + Len(rob)}
  /\ UNCHANGED <<uopVars, committed, retired_this_cycle, pending_trap, ready_table, i2Vars,
                 lsuVars>>

\* advance_frontend allocates the next ROB entry.
Allocate ==
  /\ Len(rob) < ROB_CAPACITY
  /\ Len(committed) + Len(rob) \in Seqs
  /\ rob' = Append(rob, Len(committed) + Len(rob))
  /\ upstream' = upstream \cup {Len(committed) + Len(rob)}
  /\ UNCHANGED <<uopVars, committed, retired_this_cycle, pending_trap, ready_table, i2Vars,
                 lsuVars>>

NextCycle ==
  /\ step = "dispatch"
  /\ IF cycle + 1 < max_cycles
     THEN step' = "tag" /\ cycle' = cycle + 1 /\ UNCHANGED exit_reason
     ELSE step' = "exit" /\ exit_reason' = "cycle_limit" /\ UNCHANGED cycle
  /\ UNCHANGED <<backendVars, uopVars>>

Exited == step = "exit" /\ UNCHANGED vars
-----------------------------------------------------------------------------
BackendInit ==
  /\ rob = <<>> /\ committed = <<>> /\ retired_this_cycle = 0
  /\ pending_trap = None /\ ready_table = {} /\ upstream = {}
  /\ i2 = <<>> /\ i2_stay = <<>>
  /\ e1 = {} /\ e2 = {} /\ e3 = {} /\ e4 = {} /\ w1 = {} /\ w2 = {}
  /\ l1d = None /\ lhq = {} /\ stq = {} /\ scb = {} /\ liq = {} /\ mdb = {}
  /\ lsid_issue_ptr = 0 /\ lsid_complete_ptr = 0 /\ lsid_cache_ptr = 0

Init ==
  /\ UopsInit
  /\ BackendInit
  /\ cycle = 0
  /\ step = "tag"
  /\ exit_reason = "none"

Next ==
  \/ At("tag", "publish") /\ TagStageCycles
  \/ At("publish", "publish") /\ \E s \in Seqs : RaiseTrap(s)
  \/ At("publish", "retire") /\ AdvanceScb
  \/ At("retire", "retire") /\ RetireOne
  \/ RetireEnd("execute")
  \/ At("execute", "l1d") /\ AdvanceExecute
  \/ At("l1d", "liq") /\ AdvanceL1d
  \/ At("liq", "feed") /\ AdvanceLiq
  \/ At("feed", "feed") /\ \E s \in Seqs : FeedI2(s)
  \/ At("feed", "i2") /\ UNCHANGED <<backendVars, uopVars>>
  \/ At("i2", "i2") /\ (I2Issue \/ I2Stay)
  \/ At("i2", "dispatch") /\ I2End
  \/ At("dispatch", "dispatch") /\ (Allocate \/ \E s \in Seqs : Bypass(s))
  \/ NextCycle
  \/ Exited

Spec == Init /\ [][Next]_vars
-----------------------------------------------------------------------------
Steps == {"tag", "publish", "retire", "execute", "l1d", "liq", "feed", "i2", "dispatch", "exit"}
L1dKinds == {"LoadHit", "StoreDrain"}
Refill == [seq : Seqs, refill_ready_cycle : Nat]

LoopTypeOK ==
  /\ cycle \in Nat
  /\ step \in Steps
  /\ exit_reason \in {"none", "func", "trap", "cycle_limit"}

CommitTypeOK ==
  /\ rob \in Seq(Seqs)
  /\ committed \in Seq([seq : Seqs, cycle : Nat, trap : TrapCauses \cup {None}])
  /\ retired_this_cycle \in Nat
  /\ pending_trap \in [seq : Seqs, cause : TrapCauses] \cup {None}
  /\ ready_table \subseteq Seqs

StageTypeOK ==
  /\ upstream \subseteq Seqs
  /\ i2 \in Seq(Seqs) /\ i2_stay \in Seq(Seqs)
  /\ e1 \subseteq Seqs /\ e2 \subseteq Seqs /\ e3 \subseteq Seqs /\ e4 \subseteq Seqs
  /\ w1 \subseteq Seqs /\ w2 \subseteq Seqs

LsuTypeOK ==
  /\ l1d \in [seq : Seqs, kind : L1dKinds, ready_cycle : Nat] \cup {None}
  /\ lhq \subseteq Seqs /\ stq \subseteq Seqs
  /\ scb \subseteq [seq : Seqs, enqueue_cycle : Nat]
  /\ liq \subseteq Refill /\ mdb \subseteq Refill
  /\ lsid_issue_ptr \in Nat /\ lsid_complete_ptr \in Nat /\ lsid_cache_ptr \in Nat

\* Every variable keeps its shape.
TypeOK == UopsTypeOK /\ LoopTypeOK /\ CommitTypeOK /\ StageTypeOK /\ LsuTypeOK

AtMostOne(S) == \A a, b \in S : a = b

\* The widths advance_simple and the E1 loop test are never exceeded: no
\* stage ever holds a uop that AdvanceExecute would have had to leave behind
\* for lack of room in W1 or W2.
StageWidths ==
  /\ AtMostOne(Loads(e1)) /\ AtMostOne(e2) /\ AtMostOne(e3) /\ AtMostOne(e4)
  /\ e2 \cup e3 \cup e4 \subseteq Loads(Seqs)
  /\ Cardinality(e1) <= ISSUE_WIDTH
  /\ Cardinality(w1) <= ISSUE_WIDTH
  /\ Cardinality(w2) <= ISSUE_WIDTH
  /\ Len(i2) + Len(i2_stay) <= ISSUE_WIDTH
  /\ Len(rob) <= ROB_CAPACITY

Retired == SeqsOf(RangeOf(committed))
InL1d(kind) == {s \in Seqs : l1d # None /\ l1d.kind = kind /\ l1d.seq = s}

\* The ROB holds the stream in order, right after what has been committed:
\* retire_ready replays the functional commit stream without a gap, a
\* duplicate or an exchange, however the uops overtook each other.
CommitInOrder ==
  /\ \A k \in 1 .. Len(committed) : committed[k].seq = k - 1
  /\ \A k \in 1 .. Len(rob) : rob[k] = Len(committed) + k - 1

\* A uop of the ROB is in one place of the pipeline only.
OnePlace ==
  LET places == <<upstream, RangeOf(i2), RangeOf(i2_stay), e1, e2, e3, e4,
                  InL1d("LoadHit"), SeqsOf(liq), w1, w2>>
  IN /\ \A j, k \in DOMAIN places : j # k => places[j] \cap places[k] = {}
     /\ \A s \in RangeOf(rob) :
          (\E k \in DOMAIN places : s \in places[k]) \/ done_cycle[s] # None
     /\ \A k \in DOMAIN places : k < 11 => places[k] \subseteq RangeOf(rob)

\* The owner queues agree with the pipeline: the LHQ holds exactly the loads
\* between I2 and the L1D's answer, the MDB mirrors the LIQ, and a store is
\* in the STQ until it retires, in the SCB or the L1D from then until the
\* cache has taken it.
OwnerQueues ==
  /\ lhq = Loads(e1) \cup e2 \cup e3 \cup e4 \cup InL1d("LoadHit")
  /\ mdb = liq
  /\ SeqsOf(scb) \cup InL1d("StoreDrain") =
       {s \in Retired : uops[s].is_store /\ uops[s].load_store_id >= lsid_cache_ptr}
  /\ SeqsOf(scb) \cap InL1d("StoreDrain") = {}
  /\ stq = {s \in RangeOf(rob) : uops[s].is_store /\ s \notin upstream \cup RangeOf(i2)
                                                               \cup RangeOf(i2_stay)}

\* The loads and stores whose cache access is over.
Performed == {s \in Seqs : \/ uops[s].is_load /\ (s \in w1 \cup w2 \/ done_cycle[s] # None)
                           \/ uops[s].is_store /\ s \in Retired \ (SeqsOf(scb) \cup InL1d("StoreDrain"))}

\* The cache is accessed in program order: the accesses made so far are the
\* ones with a load_store_id below lsid_cache_ptr, the one in the L1D is next.
MemoryOrder ==
  /\ \A s \in Seqs : Mem(s) => (s \in Performed <=> uops[s].load_store_id < lsid_cache_ptr)
  /\ l1d # None => Mem(l1d.seq) /\ uops[l1d.seq].load_store_id = lsid_cache_ptr

\* A uop past I2 has had the data of all its producers, and a late load miss
\* never takes data back that a consumer may have read.
DataBeforeUse ==
  \A s \in e1 \cup e2 \cup e3 \cup e4 \cup w1 \cup SeqsOf(liq) \cup InL1d("LoadHit") :
    i2_ready(s)

\* A load's data is announced for the next cycle when it enters E4, before
\* the L1D has answered; a load that is going to miss is still in E4 then,
\* and misses before the announced cycle begins.
NoDataFromMiss ==
  \A s \in Seqs : should_inject_load_miss(s) /\ data_ready_visible[s] # None =>
    /\ s \in e4
    /\ data_ready_visible[s] = cycle + 1
    /\ step \in {"publish", "retire", "execute", "exit"}

\* What the back end promises: see InOrderMemory.
Abstract == INSTANCE InOrderMemory WITH
              program <- uops, commits <- Len(committed), performed <- lsid_cache_ptr
Refinement == Abstract!Spec
=============================================================================
