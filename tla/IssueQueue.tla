----------------------------- MODULE IssueQueue -----------------------------
(***************************************************************************)
(* The issue queues in front of the back end: an entry per dispatched uop  *)
(* that tracks the readiness of its two sources, the wake-up of sources by *)
(* producers (speculative for loads, and addressed by queue tags for the   *)
(* operand queues T and U), the pick of the oldest ready entries into P1,  *)
(* arbitration for the register read ports into I1, and the move into I2,  *)
(* where a uop gives up its entry.                                         *)
(*                                                                         *)
(* The front end is still the environment: it allocates ROB entries and    *)
(* offers uops for dispatch.                                               *)
(***************************************************************************)
EXTENDS Backend, FiniteSetsExt

CONSTANTS
  READ_PORTS,
  IQ_CAPACITY,
  IQ_ENQUEUE_PORTS

ASSUME IqAssumption ==
  /\ READ_PORTS \in Nat /\ READ_PORTS >= 2
  /\ IQ_CAPACITY \in Nat \ {0}
  /\ IQ_ENQUEUE_PORTS \in Nat \ {0}

VARIABLES
  iq,                  \* seq -> its entry, for the uops in an issue queue
  dst_qtag,            \* seq -> the queue tag it got at dispatch, or None
  src_qtags,           \* seq -> per source, the queue tag it waits for, or None
  qtag_wait_crossbar,  \* the waiters <<queue tag, seq, source>>
  p1, i1,
  i1_stay, i1_queues,  \* the locals stay and used_queues of advance_i1_to_i2
  enqueue_ports_used   \* the local of dispatch_to_iq_and_bypass

qtagVars == <<dst_qtag, src_qtags, qtag_wait_crossbar>>
i1Vars == <<i1, i1_stay, i1_queues>>
iqVars == <<iq, qtagVars, p1, i1Vars, enqueue_ports_used>>

PhysIqs == {"AluIq0", "SharedIq1", "BruIq", "AguIq0", "AguIq1", "StdIq0", "StdIq1", "CmdIq"}

\* A queue tag is a physical queue and an entry of it.  An entry's tag (the
\* map iq_tags) lives as long as the entry and is kept in it; the owner table
\* is the inverse of that map.
QTags == PhysIqs \X (0 .. IQ_CAPACITY - 1)
SourceStates == {"wait", "spec", "nonspec"}
IqEntries == [qtag : QTags, inflight : BOOLEAN, src : [{1, 2} -> SourceStates]]

phys_iq(s) == iq[s].qtag[1]
Occupants(q) == {s \in DOMAIN iq : phys_iq(s) = q}
\* The members of S, from the oldest on.
Oldest(S) ==
  [k \in 1 .. Cardinality(S) |-> CHOOSE s \in S : Cardinality({t \in S : t < s}) = k - 1]
Without(f, S) == [x \in DOMAIN f \ S |-> f[x]]
FirstOf(q, n) == SubSeq(q, 1, IF n < Len(q) THEN n ELSE Len(q))
FromOn(q, n) == SubSeq(q, n + 1, Len(q))
-----------------------------------------------------------------------------
(* The readiness of a source.                                              *)
source_logical_ready(s, i) == uops[s].src_logical_tags[i] \in ready_table
PickReady(p) == Reached(pick_wakeup_visible[p], cycle)
DataReady(p) == Reached(data_ready_visible[p], cycle)

seed_iq_entry_source_state(s, i) ==
  LET p == uops[s].deps[i]
  IN IF p = None \/ source_logical_ready(s, i) THEN "nonspec"
     ELSE IF DataReady(p) THEN "nonspec"
     ELSE IF PickReady(p) THEN "spec"
     ELSE "wait"

\* Mutant: a speculative wake-up is not revoked when the load misses.
update_iq_entry_source_state_NoRevoke(s, i) ==
  LET p == uops[s].deps[i]
      state == iq[s].src[i]
  IN IF p = None \/ source_logical_ready(s, i) THEN "nonspec"
     ELSE IF state = "nonspec" /\ ~DataReady(p) THEN "wait"
     ELSE state

\* revoke_stale_iq_source_state and apply_ready_table_wakeup.
update_iq_entry_source_state(s, i) ==
  LET p == uops[s].deps[i]
      state == iq[s].src[i]
  IN IF p = None \/ source_logical_ready(s, i) THEN "nonspec"
     ELSE IF state = "nonspec" /\ ~DataReady(p) THEN "wait"
     ELSE IF state = "spec" /\ ~PickReady(p) THEN "wait"
     ELSE state

LastCycle == IF cycle = 0 THEN 0 ELSE cycle - 1

\* Mutant: a result that never passes W1 is not announced.
producer_publishes_nonspec_wakeup_W1Only(p) ==
  \/ uops[p].is_load /\ e4_cycle[p] = LastCycle
  \/ ~uops[p].is_load /\ w1_cycle[p] = LastCycle

producer_publishes_nonspec_wakeup(p) ==
  \/ uops[p].is_load /\ e4_cycle[p] = LastCycle
  \/ ~uops[p].is_load /\ w1_cycle[p] = LastCycle
  \/ data_ready_visible[p] = cycle

producer_publishes_spec_wakeup(p) ==
  /\ uops[p].is_load
  /\ e1_cycle[p] = LastCycle \/ pick_wakeup_visible[p] = cycle

\* A source that reads an operand queue listens to the queue tag of its
\* producer on the crossbar; other sources listen to all wake-ups.
iq_source_matches_wake_event(s, i) ==
  LET p == uops[s].deps[i]
      kind == uops[s].src_queue_kinds[i]
  IN /\ uops[s].src_valid[i]
     /\ p # None
     /\ kind # None =>
          /\ kind = uops[p].dst_queue_kind
          /\ uops[s].src_logical_tags[i] = p
          /\ src_qtags[s][i] # None
          /\ src_qtags[s][i] = dst_qtag[p]
          /\ <<dst_qtag[p], s, i>> \in qtag_wait_crossbar

publish_wake_into_entry_source(s, i, state) ==
  IF ~iq_source_matches_wake_event(s, i) THEN state
  ELSE IF producer_publishes_nonspec_wakeup(uops[s].deps[i]) THEN "nonspec"
  ELSE IF producer_publishes_spec_wakeup(uops[s].deps[i]) /\ state # "nonspec" THEN "spec"
  ELSE state

UpdateIqEntries ==
  /\ iq' = [s \in DOMAIN iq |->
              [iq[s] EXCEPT !.src = [i \in {1, 2} |->
                 publish_wake_into_entry_source(s, i, update_iq_entry_source_state(s, i))]]]
  /\ UNCHANGED <<backendVars, uopVars, qtagVars, p1, i1Vars, enqueue_ports_used>>
-----------------------------------------------------------------------------
(* Pick and arbitration.                                                   *)
miss_pending_active ==
  \E s \in Seqs :
    /\ uops[s].is_load /\ miss_injected[s] /\ done_cycle[s] = None
    /\ \E tag \in {miss_pending_until[s], e1_cycle[s], e4_cycle[s], w1_cycle[s]} : tag # None

\* The uops whose value comes, through any number of uops, from a load that
\* is in E4 or waits for its missed line: the E4 bit of dep_load_gen_vec.
dep_load_gen_e4[s \in Seqs] ==
  \/ /\ uops[s].is_load
     /\ miss_pending_until[s] # None \/ e4_cycle[s] = cycle
  \/ \E p \in Deps(s) : dep_load_gen_e4[p]

\* Mutant: a memory uop is picked before its turn.
iq_entry_ready_NoTurn(s) ==
  /\ miss_pending_active => \A p \in Deps(s) : ~dep_load_gen_e4[p]
  /\ \A i \in {1, 2} : uops[s].src_valid[i] => iq[s].src[i] # "wait"

iq_entry_ready(s) ==
  /\ lsid_issue_ready(s)
  /\ miss_pending_active => \A p \in Deps(s) : ~dep_load_gen_e4[p]
  /\ \A i \in {1, 2} : uops[s].src_valid[i] => iq[s].src[i] # "wait"

ready_iq_entries == {s \in DOMAIN iq : ~iq[s].inflight /\ iq_entry_ready(s)}

\* The oldest ready entry of each physical queue: ROB age is seq order.
ready_iq_winners ==
  LET ready == ready_iq_entries
  IN {s \in ready : \A t \in ready : phys_iq(t) = phys_iq(s) => s <= t}

SetInflight(S, value) ==
  [s \in DOMAIN iq |-> IF s \in S THEN [iq[s] EXCEPT !.inflight = value] ELSE iq[s]]

\* Mutant: a picked entry is not marked and can be picked again.
PickFromIq_Again ==
  LET picked == FirstOf(Oldest(ready_iq_winners), ISSUE_WIDTH - Len(p1))
  IN /\ p1' = p1 \o picked
     /\ UNCHANGED <<backendVars, uopVars, iq, qtagVars, i1Vars, enqueue_ports_used>>

PickFromIq ==
  LET picked == FirstOf(Oldest(ready_iq_winners), ISSUE_WIDTH - Len(p1))
  IN /\ p1' = p1 \o picked
     /\ iq' = SetInflight(RangeOf(picked), TRUE)
     /\ UNCHANGED <<backendVars, uopVars, qtagVars, i1Vars, enqueue_ports_used>>

source_uses_qtag_wakeup(s, i) == src_qtags[s][i] # None

source_needs_rf_read(s, i) ==
  LET p == uops[s].deps[i]
  IN /\ uops[s].src_valid[i]
     /\ ~source_uses_qtag_wakeup(s, i)
     /\ iq[s].src[i] # "spec"
     /\ p # None => DataReady(p) \/ ~(uops[p].is_load /\ PickReady(p))

read_ports_needed(s) == Cardinality({i \in {1, 2} : source_needs_rf_read(s, i)})

\* The attempts of P1 in turn, oldest first: each gets the read ports it needs
\* or loses, and one per physical queue gets them at most.
attempts == Oldest(RangeOf(p1))
NoneAdmitted == [admitted |-> <<>>, queues |-> {}, ports |-> 0]

Admit(acc, s) ==
  IF phys_iq(s) \in acc.queues \/ acc.ports + read_ports_needed(s) > READ_PORTS THEN acc
  ELSE [admitted |-> Append(acc.admitted, s),
        queues   |-> acc.queues \cup {phys_iq(s)},
        ports    |-> acc.ports + read_ports_needed(s)]

arbitrate_i1[n \in 0 .. Len(attempts)] ==
  IF n = 0 THEN NoneAdmitted ELSE Admit(arbitrate_i1[n - 1], attempts[n])

admitted_i1 == arbitrate_i1[Len(attempts)].admitted

\* arbitrate_i1 and advance_p1_to_i1: the losers go back to their queue, the
\* winners for which I1 has no room stay in P1.
ArbitrateI1 ==
  LET room == ISSUE_WIDTH - Len(i1)
  IN /\ i1' = i1 \o FirstOf(admitted_i1, room)
     /\ p1' = FromOn(admitted_i1, room)
     /\ iq' = SetInflight(RangeOf(p1) \ RangeOf(admitted_i1), FALSE)
     /\ UNCHANGED <<backendVars, uopVars, qtagVars, i1_stay, i1_queues, enqueue_ports_used>>
-----------------------------------------------------------------------------
(* advance_i1_to_i2: each uop of I1 in turn goes to I2 or stays.           *)
I1Goes(s) == Len(i2) < ISSUE_WIDTH /\ phys_iq(s) \notin i1_queues

\* Mutant: the freed entry's sources stay on the crossbar.
I1Move_KeepsWaiters ==
  /\ i1 # <<>>
  /\ I1Goes(Head(i1))
  /\ i1' = Tail(i1)
  /\ i1_queues' = i1_queues \cup {phys_iq(Head(i1))}
  /\ i2' = Append(i2, Head(i1))
  /\ upstream' = upstream \ {Head(i1)}
  /\ iq' = Without(iq, {Head(i1)})
  /\ UNCHANGED <<uopVars, commitVars, i2_stay, lsuVars, qtagVars, p1, i1_stay,
                 enqueue_ports_used>>

\* The entry is freed, its tag with it, and its sources leave the crossbar.
I1Move ==
  /\ i1 # <<>>
  /\ I1Goes(Head(i1))
  /\ i1' = Tail(i1)
  /\ i1_queues' = i1_queues \cup {phys_iq(Head(i1))}
  /\ i2' = Append(i2, Head(i1))
  /\ upstream' = upstream \ {Head(i1)}
  /\ iq' = Without(iq, {Head(i1)})
  /\ qtag_wait_crossbar' = {w \in qtag_wait_crossbar : w[2] # Head(i1)}
  /\ UNCHANGED <<uopVars, commitVars, i2_stay, lsuVars, dst_qtag, src_qtags, p1, i1_stay,
                 enqueue_ports_used>>

I1Stay ==
  /\ i1 # <<>>
  /\ ~I1Goes(Head(i1))
  /\ i1' = Tail(i1)
  /\ i1_stay' = Append(i1_stay, Head(i1))
  /\ UNCHANGED <<uopVars, backendVars, iq, qtagVars, p1, i1_queues, enqueue_ports_used>>

I1End ==
  /\ i1 = <<>>
  /\ i1' = i1_stay
  /\ i1_stay' = <<>>
  /\ i1_queues' = {}
  /\ UNCHANGED <<uopVars, backendVars, iq, qtagVars, p1, enqueue_ports_used>>
-----------------------------------------------------------------------------
(* The issue-queue half of dispatch_to_iq_and_bypass.                      *)
issue_queue_candidates(s) ==
  CASE uops[s].commit.group = "ALU" -> <<"AluIq0", "SharedIq1">>
    [] uops[s].commit.group = "BRU" -> <<"BruIq">>
    [] uops[s].commit.group = "LDA" -> <<"AguIq0", "AguIq1">>
    [] uops[s].commit.group = "STA" -> <<"StdIq0", "StdIq1">>
    [] uops[s].commit.group \in {"CMD", "BBD"} -> <<"CmdIq">>
    [] OTHER -> <<"SharedIq1">>

\* Mutant: the enqueue ports of a queue are not counted.
Routes_AnyPort(s) ==
  LET candidates == issue_queue_candidates(s)
  IN {k \in DOMAIN candidates : Cardinality(Occupants(candidates[k])) < IQ_CAPACITY}

\* The positions of the candidates that can take s; the first one does.
Routes(s) ==
  LET candidates == issue_queue_candidates(s)
  IN {k \in DOMAIN candidates :
        /\ enqueue_ports_used[candidates[k]] < IQ_ENQUEUE_PORTS
        /\ Cardinality(Occupants(candidates[k])) < IQ_CAPACITY}

route_phys_iq(s) == issue_queue_candidates(s)[Min(Routes(s))]

allocate_qtag(q) == <<q, Min({n \in 0 .. IQ_CAPACITY - 1 : \A t \in DOMAIN iq : iq[t].qtag # <<q, n>>})>>

\* The tag of a producer that has not retired, kept after it left its queue.
annotate_qtag_sources(s) ==
  [i \in {1, 2} |->
     LET p == uops[s].src_logical_tags[i]
     IN IF p = None \/ p \in ready_table THEN None ELSE dst_qtag[p]]

Enqueue(s) ==
  LET q == route_phys_iq(s)
      tag == allocate_qtag(q)
      tags == annotate_qtag_sources(s)
  IN /\ Routes(s) # {}
     /\ enqueue_ports_used' = [enqueue_ports_used EXCEPT ![q] = @ + 1]
     /\ dst_qtag' = [dst_qtag EXCEPT ![s] = tag]
     /\ src_qtags' = [src_qtags EXCEPT ![s] = tags]
     /\ qtag_wait_crossbar' = qtag_wait_crossbar \cup
          {<<tags[i], s, i>> : i \in {j \in {1, 2} : tags[j] # None}}
     /\ iq' = [t \in DOMAIN iq \cup {s} |->
                 IF t # s THEN iq[t]
                 ELSE [qtag |-> tag, inflight |-> FALSE,
                       src  |-> [i \in {1, 2} |-> seed_iq_entry_source_state(s, i)]]]
     /\ UNCHANGED <<uopVars, backendVars, p1, i1Vars>>
-----------------------------------------------------------------------------
(* The loop closed by a front end that allocates ROB entries and dispatches *)
(* what they hold in any order.                                            *)
NoPortsUsed == [q \in PhysIqs |-> 0]

Dispatch(s) ==
  /\ s \in upstream \ DOMAIN iq
  /\ ~uops[s].bypass_d2
  /\ Enqueue(s)

IqInitVars ==
  /\ iq = <<>>
  /\ dst_qtag = [s \in Seqs |-> None]
  /\ src_qtags = [s \in Seqs |-> [i \in {1, 2} |-> None]]
  /\ qtag_wait_crossbar = {}
  /\ p1 = <<>> /\ i1 = <<>> /\ i1_stay = <<>> /\ i1_queues = {}
  /\ enqueue_ports_used = NoPortsUsed

IqInit == Init /\ IqInitVars

\* The steps of the back end that leave the issue queues alone.
BackendStep ==
  \/ At("tag", "publish") /\ TagStageCycles
  \/ At("publish", "publish") /\ \E s \in Seqs : RaiseTrap(s)
  \/ At("scb", "retire") /\ AdvanceScb
  \/ At("retire", "retire") /\ RetireOne
  \/ RetireEnd("execute")
  \/ At("execute", "l1d") /\ AdvanceExecute
  \/ At("l1d", "liq") /\ AdvanceL1d
  \/ At("liq", "i1") /\ AdvanceLiq
  \/ At("i2", "i2") /\ (I2Issue \/ I2Stay)
  \/ At("i2", "pick") /\ I2End
  \/ At("dispatch", "dispatch") /\ (Allocate \/ \E s \in Seqs : Bypass(s))

IqNext ==
  \/ BackendStep /\ UNCHANGED iqVars
  \/ At("publish", "scb") /\ UpdateIqEntries
  \/ At("i1", "i1") /\ (I1Move \/ I1Stay)
  \/ At("i1", "arbitrate") /\ I1End
  \/ At("arbitrate", "i2") /\ ArbitrateI1
  \/ At("pick", "dispatch") /\ PickFromIq
  \/ At("dispatch", "dispatch") /\ \E s \in Seqs : Dispatch(s)
  \/ /\ NextCycle
     /\ enqueue_ports_used' = NoPortsUsed
     /\ UNCHANGED <<iq, qtagVars, p1, i1Vars>>
  \/ Exited /\ UNCHANGED iqVars

IqSpec == IqInit /\ [][IqNext]_<<vars, iqVars>>
-----------------------------------------------------------------------------
Picked == p1 \o i1 \o i1_stay

\* The issue queues' variables keep their shape.
IqTypeOK ==
  /\ DOMAIN iq \subseteq Seqs
  /\ \A s \in DOMAIN iq : iq[s] \in IqEntries
  /\ dst_qtag \in [Seqs -> QTags \cup {None}]
  /\ src_qtags \in [Seqs -> [{1, 2} -> QTags \cup {None}]]
  /\ qtag_wait_crossbar \subseteq QTags \X Seqs \X {1, 2}
  /\ Picked \in Seq(Seqs)
  /\ i1_queues \subseteq PhysIqs
  /\ enqueue_ports_used \in [PhysIqs -> 0 .. IQ_ENQUEUE_PORTS]

\* No two entries own the same queue tag, and the crossbar holds exactly the
\* waiting sources of the entries: allocate_qtag, the registration at
\* dispatch and the removal in advance_i1_to_i2 keep the three in step.
QTagOwners ==
  /\ \A s, t \in DOMAIN iq : iq[s].qtag = iq[t].qtag => s = t
  /\ qtag_wait_crossbar =
       {<<src_qtags[s][i], s, i>> : s \in DOMAIN iq, i \in {1, 2}} \ ({None} \X Seqs \X {1, 2})

\* An entry is marked inflight exactly while it is in P1 or I1, once.
InflightIsPicked ==
  /\ {s \in DOMAIN iq : iq[s].inflight} = RangeOf(Picked)
  /\ Cardinality(RangeOf(Picked)) = Len(Picked)
  /\ Len(p1) <= ISSUE_WIDTH /\ Len(i1) + Len(i1_stay) <= ISSUE_WIDTH

\* A memory uop is picked only when its turn has come, and the turn passes on
\* when it leaves I2: one at most is between the queues and E1.
OneMemoryUopIssuing ==
  AtMostOne({s \in RangeOf(Picked) \cup RangeOf(i2) \cup RangeOf(i2_stay) : Mem(s)})

\* The steps of a cycle between update_iq_entries_for_cycle and dispatch.
Updated == step \in {"scb", "retire", "execute"}

\* Wake-ups are never late: once the producer's data can be read, a source no
\* longer waits.  A source that reads an operand queue without a queue tag
\* (its producer had none yet) may wait until the producer has retired.
NoLostWakeup ==
  Updated => \A s \in DOMAIN iq, i \in {1, 2} :
    /\ uops[s].src_valid[i] /\ iq[s].src[i] = "wait"
    /\ uops[s].src_queue_kinds[i] # None => src_qtags[s][i] # None
    => ~DataReady(uops[s].deps[i])

\* Wake-ups are never early, and a miss takes a speculative one back: a source
\* is marked ready only on data that can be read, or on a load's promise.
ReadyIsBacked ==
  Updated => \A s \in DOMAIN iq, i \in {1, 2} :
    LET p == uops[s].deps[i]
    IN p # None /\ ~source_logical_ready(s, i) =>
         /\ iq[s].src[i] = "nonspec" => DataReady(p)
         /\ iq[s].src[i] = "spec" => uops[p].is_load /\ PickReady(p)
=============================================================================
