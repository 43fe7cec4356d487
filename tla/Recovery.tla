------------------------------ MODULE Recovery ------------------------------
(***************************************************************************)
(* Recovery: what the outcome of branches and block boundaries does to the *)
(* pipeline.  In the cycle in which a uop is first seen in W1 (or W2, for  *)
(* the uops that go there directly) its outcome is published: a wrong      *)
(* branch leaves a correction for the end of its block, a bad target or a  *)
(* misplaced SETRET a trap, and a boundary redirects fetch.  A redirect    *)
(* flushes everything younger in the next cycle and goes back to the       *)
(* checkpoint of its block.                                                *)
(***************************************************************************)
EXTENDS Frontend

VARIABLES
  pending_flush,           \* None or [flush_seq, checkpoint_id, apply_cycle]
  pending_bru_correction   \* None or [source_seq, epoch, actual_take, target_pc, checkpoint_id]

recoveryVars == <<pending_flush, pending_bru_correction>>

FRONTEND_REDIRECT_RESTART_DELAY == 1

\* Mutant: the first visit of the target, not the next.
legal_redirect_restart_seq_First(s, pc) ==
  LET legal == {t \in Seqs : C(t).pc = pc /\ is_start_marker(t)}
  IN IF legal = {} THEN None ELSE Min(legal)

legal_redirect_restart_seq(s, pc) ==
  LET legal == {t \in Seqs : t > s /\ C(t).pc = pc /\ is_start_marker(t)}
  IN IF legal = {} THEN None ELSE Min(legal)

\* A trap gives way to one of an older uop, or of the same.
Publish(s, cause) ==
  pending_trap' = IF pending_trap # None /\ pending_trap.seq < s THEN pending_trap
                  ELSE [seq |-> s, cause |-> cause]

PublishOnly == UNCHANGED <<uopVars, rob, committed, retired_this_cycle, ready_table, upstream,
                           i2Vars, lsuVars, iqVars, frontendVars, pending_flush>>
-----------------------------------------------------------------------------
(* publish_bru_correction_state.  Every uop whose outcome is seen has been *)
(* dispatched, so it has a context and an epoch of its own.                *)
bru_actual_take(s) == C(s).next_pc # fallthrough_pc(s)

bru_correction_candidates ==
  {s \in Seqs :
     /\ ResolveCycle(s) = cycle
     /\ ~C(s).trap_valid /\ C(s).group = "BRU" /\ ~is_boundary_redirect_owner(s)
     /\ contexts[s].kind \in {"Cond", "Ret"}
     /\ bru_actual_take(s) # contexts[s].pred_take}

bru_faults ==
  {s \in bru_correction_candidates :
     bru_actual_take(s) /\ legal_redirect_restart_seq(s, contexts[s].target_pc) = None}

PublishBruCorrection ==
  /\ \/ /\ bru_faults # {}
        /\ Publish(Min(bru_faults), "BRU_RECOVERY_NOT_BSTART")
        /\ UNCHANGED pending_bru_correction
     \/ /\ bru_faults = {}
        /\ bru_correction_candidates # {}
        /\ \E s \in bru_correction_candidates :
             /\ \A t \in bru_correction_candidates :
                  \/ owners[t].epoch < owners[s].epoch
                  \/ owners[t].epoch = owners[s].epoch /\ t <= s
             /\ pending_bru_correction' =
                  IF pending_bru_correction # None /\ pending_bru_correction.source_seq > s
                  THEN pending_bru_correction
                  ELSE [source_seq |-> s, epoch |-> owners[s].epoch,
                        actual_take |-> bru_actual_take(s),
                        target_pc |-> contexts[s].target_pc,
                        checkpoint_id |-> owners[s].checkpoint]
        /\ UNCHANGED pending_trap
     \/ bru_correction_candidates = {} /\ UNCHANGED <<pending_trap, pending_bru_correction>>
  /\ PublishOnly
-----------------------------------------------------------------------------
(* publish_dynamic_boundary_target_fault_state                             *)
\* Mutant: blocks of every kind are taken to need a dynamic target.
dynamic_boundary_target_fault_AnyKind(s) ==
  IF ~is_boundary_redirect_owner(s) \/ ResolveCycle(s) # cycle THEN None
  ELSE IF live_boundary_target(s) = None THEN "DYNAMIC_TARGET_MISSING"
  ELSE None

dynamic_boundary_target_fault(s) ==
  LET target == live_boundary_target(s)
  IN CASE \/ ~is_boundary_redirect_owner(s)
          \/ ResolveCycle(s) # cycle
          \/ live_branch_kind(s) \notin Dynamic -> None
       [] OTHER ->
            IF target = None THEN "DYNAMIC_TARGET_MISSING"
            ELSE IF owners[s].setup_epoch # None /\ owners[s].setup_epoch # owners[s].epoch
            THEN "DYNAMIC_TARGET_STALE"
            ELSE IF legal_redirect_restart_seq(s, target) = None
            THEN "DYNAMIC_TARGET_NOT_BSTART"
            ELSE None

PublishDynamicTargetFault ==
  LET faults == {s \in Seqs : dynamic_boundary_target_fault(s) # None}
  IN /\ \/ /\ faults # {}
           /\ Publish(Min(faults), dynamic_boundary_target_fault(Min(faults)))
        \/ faults = {} /\ UNCHANGED pending_trap
     /\ UNCHANGED pending_bru_correction
     /\ PublishOnly

(* publish_call_header_fault_state                                         *)
\* Mutant: a cycle late.
PublishCallHeaderFault_Late ==
  LET faults == {s \in Seqs : owners[s].header_fault /\ ResolveCycle(s) # None
                               /\ ResolveCycle(s) = cycle - 1}
  IN /\ \/ faults # {} /\ Publish(Min(faults), "SETRET_NOT_ADJACENT")
        \/ faults = {} /\ UNCHANGED pending_trap
     /\ UNCHANGED pending_bru_correction
     /\ PublishOnly

PublishCallHeaderFault ==
  LET faults == {s \in Seqs : owners[s].header_fault /\ ResolveCycle(s) = cycle}
  IN /\ \/ faults # {} /\ Publish(Min(faults), "SETRET_NOT_ADJACENT")
        \/ faults = {} /\ UNCHANGED pending_trap
     /\ UNCHANGED pending_bru_correction
     /\ PublishOnly
-----------------------------------------------------------------------------
(* schedule_frontend_redirect_recovery                                     *)
ResolvedBoundaries == {s \in Seqs : is_boundary_redirect_owner(s) /\ ResolveCycle(s) = cycle}
resolved_boundary_seq == Min(ResolvedBoundaries)

\* A pending correction of the same block overrides the boundary's target.
CorrectedBy(s) ==
  /\ pending_bru_correction # None
  /\ pending_bru_correction.source_seq < s
  /\ pending_bru_correction.epoch = owners[s].epoch

resolved_frontend_redirect ==
  LET s == resolved_boundary_seq
  IN IF ResolvedBoundaries = {} \/ (pending_trap # None /\ pending_trap.seq = s) THEN None
     ELSE IF CorrectedBy(s)
     THEN [source_seq |-> s, from_correction |-> TRUE,
           target_pc |-> IF pending_bru_correction.actual_take
                         THEN pending_bru_correction.target_pc ELSE fallthrough_pc(s),
           checkpoint_id |-> pending_bru_correction.checkpoint_id]
     ELSE IF live_boundary_target(s) = None THEN None
     ELSE [source_seq |-> s, from_correction |-> FALSE,
           target_pc |-> live_boundary_target(s),
           checkpoint_id |-> live_rob_checkpoint_id(s)]

ScheduleRedirect ==
  LET redirect == resolved_frontend_redirect
      resume == cycle + FRONTEND_REDIRECT_RESTART_DELAY
      next == [restart_seq |-> OrElse(legal_redirect_restart_seq(redirect.source_seq,
                                                                 redirect.target_pc),
                                      redirect.source_seq + 1),
               resume_cycle |-> resume]
  IN /\ IF redirect = None
        THEN UNCHANGED <<frontend_redirect, pending_flush, pending_bru_correction>>
        ELSE /\ frontend_redirect' =
                  IF frontend_redirect # None /\ frontend_redirect.resume_cycle >= resume
                  THEN frontend_redirect ELSE next
             /\ pending_flush' =
                  IF pending_flush # None /\ pending_flush.apply_cycle <= resume
                  THEN pending_flush
                  ELSE [flush_seq |-> redirect.source_seq, apply_cycle |-> resume,
                        checkpoint_id |-> redirect.checkpoint_id]
             /\ pending_bru_correction' =
                  IF \/ redirect.from_correction
                     \/ /\ pending_bru_correction # None
                        /\ pending_bru_correction.epoch < owners[redirect.source_seq].epoch
                  THEN None ELSE pending_bru_correction
     /\ UNCHANGED <<uopVars, backendVars, iqVars, frontend, next_fetch_seq, stay_s2, blockVars>>
-----------------------------------------------------------------------------
(* apply_pending_flush                                                     *)
\* Mutant: the boundary itself is flushed.
Kept_Strict(q, last) == SelectSeq(q, LAMBDA s : s < last)

Kept(q, last) == SelectSeq(q, LAMBDA s : s <= last)
KeptSet(S, last) == {s \in S : s <= last}
KeptEntries(S, last) == {x \in S : x.seq <= last}

restore_ready_tables_for_checkpoint(id) ==
  /\ ready_table' = IF id \in DOMAIN checkpoints THEN checkpoints[id].ready_table ELSE ready_table
  /\ active' = [IF id \in DOMAIN checkpoints THEN checkpoints[id].active ELSE active
                  EXCEPT !.checkpoint = id]

prune_speculative_state(last) ==
  /\ frontend' = [k \in DOMAIN frontend |-> Kept(frontend[k], last)]
  /\ p1' = Kept(p1, last) /\ i1' = Kept(i1, last) /\ i2' = Kept(i2, last)
  /\ e1' = KeptSet(e1, last) /\ e2' = KeptSet(e2, last) /\ e3' = KeptSet(e3, last)
  /\ e4' = KeptSet(e4, last) /\ w1' = KeptSet(w1, last) /\ w2' = KeptSet(w2, last)
  /\ owners' = [s \in Seqs |-> IF s <= last THEN owners[s] ELSE NoOwner]
  /\ qtag_wait_crossbar' = {w \in qtag_wait_crossbar : w[2] <= last}
  /\ iq' = Without(iq, {s \in DOMAIN iq : s > last})
  /\ rob' = Kept(rob, last)
  /\ upstream' = KeptSet(upstream, last)

prune_memory_owner_state(last) ==
  /\ stq' = KeptSet(stq, last) /\ lhq' = KeptSet(lhq, last)
  /\ liq' = KeptEntries(liq, last) /\ mdb' = KeptEntries(mdb, last)
  /\ scb' = KeptEntries(scb, last)
  /\ l1d' = IF l1d # None /\ l1d.seq > last THEN None ELSE l1d

\* Where memory uops are after the pruning: behind I2, or anywhere.
issued_memory_seqs ==
  e1' \cup e2' \cup e3' \cup e4' \cup w1' \cup w2' \cup SeqsOf(liq') \cup lhq' \cup SeqsOf(mdb')
    \cup stq' \cup SeqsOf(scb') \cup {s \in Seqs : l1d' # None /\ l1d'.seq = s}
pipeline_seqs ==
  RangeOf(rob') \cup DOMAIN iq' \cup UNION {RangeOf(frontend'[k]) : k \in DOMAIN frontend'}
    \cup RangeOf(p1') \cup RangeOf(i1') \cup RangeOf(i2')

Ids(S) == {uops[s].load_store_id : s \in {t \in S : Mem(t)}}
HeadOf(S, ptr) == IF Ids(S) = {} THEN ptr ELSE Min(Ids(S))

rebase_lsid ==
  /\ lsid_issue_ptr' = HeadOf(pipeline_seqs \ issued_memory_seqs, lsid_issue_ptr)
  /\ lsid_complete_ptr' = HeadOf(pipeline_seqs \ issued_memory_seqs, lsid_complete_ptr)
  /\ lsid_cache_ptr' = HeadOf(pipeline_seqs \cup issued_memory_seqs, lsid_cache_ptr)

FlushDue == pending_flush # None /\ pending_flush.apply_cycle <= cycle

Flush ==
  /\ FlushDue
  /\ restore_ready_tables_for_checkpoint(pending_flush.checkpoint_id)
  /\ prune_speculative_state(pending_flush.flush_seq)
  /\ prune_memory_owner_state(pending_flush.flush_seq)
  /\ rebase_lsid
  /\ pending_flush' = None
  /\ UNCHANGED <<uopVars, committed, retired_this_cycle, pending_trap, i2_stay, dst_qtag,
                 src_qtags, i1_stay, i1_queues, enqueue_ports_used, next_fetch_seq,
                 frontend_redirect, stay_s2, contexts, checkpoints, pending_bru_correction>>

NoFlush ==
  /\ ~FlushDue
  /\ UNCHANGED <<uopVars, backendVars, iqVars, frontendVars, recoveryVars>>
=============================================================================
