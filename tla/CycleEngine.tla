----------------------------- MODULE CycleEngine -----------------------------
(***************************************************************************)
(* The cycle engine: all its parts, in the order in which the loop of      *)
(* CycleEngine::run calls them.  Nothing is left to an environment: a      *)
(* commit stream determines the run.                                       *)
(***************************************************************************)
EXTENDS Recovery

allVars == <<vars, iqVars, frontendVars, recoveryVars>>

EngineInit ==
  /\ UopsInit
  /\ BackendInit
  /\ IqInitVars
  /\ FrontendInit
  /\ pending_flush = None /\ pending_bru_correction = None
  /\ cycle = 0
  /\ step = "flush"
  /\ exit_reason = "none"

EndCycle ==
  /\ step = "end"
  /\ IF cycle + 1 < max_cycles
     THEN step' = "flush" /\ cycle' = cycle + 1 /\ UNCHANGED exit_reason
     ELSE step' = "exit" /\ exit_reason' = "cycle_limit" /\ UNCHANGED cycle
  /\ enqueue_ports_used' = NoPortsUsed
  /\ UNCHANGED <<backendVars, uopVars, iq, qtagVars, p1, i1Vars, frontendVars, recoveryVars>>

EngineBackendStep ==
  \/ At("tag", "bru") /\ TagStageCycles
  \/ At("scb", "retire") /\ AdvanceScb
  \/ At("retire", "retire") /\ RetireOne
  \/ RetireEnd("schedule")
  \/ At("execute", "l1d") /\ AdvanceExecute
  \/ At("l1d", "liq") /\ AdvanceL1d
  \/ At("liq", "i1") /\ AdvanceLiq
  \/ At("i2", "i2") /\ (I2Issue \/ I2Stay)
  \/ At("i2", "pick") /\ I2End

EngineIqStep ==
  \/ At("update", "scb") /\ UpdateIqEntries
  \/ At("i1", "i1") /\ (I1Move \/ I1Stay)
  \/ At("i1", "arbitrate") /\ I1End
  \/ At("arbitrate", "i2") /\ ArbitrateI1
  \/ At("pick", "dispatch") /\ PickFromIq

EngineFrontendStep ==
  \/ At("fetch", "tag") /\ FillFetch
  \/ At("dispatch", "dispatch") /\ DispatchOne
  \/ At("dispatch", "frontend") /\ DispatchEnd
  \/ At("frontend", "frontend") /\ AllocateRob
  \/ At("frontend", "end") /\ AdvanceFrontend

EngineNext ==
  \/ At("flush", "fetch") /\ (Flush \/ NoFlush)
  \/ At("bru", "dynamic") /\ PublishBruCorrection
  \/ At("dynamic", "header") /\ PublishDynamicTargetFault
  \/ At("header", "update") /\ PublishCallHeaderFault
  \/ At("schedule", "execute") /\ ScheduleRedirect
  \/ EngineFrontendStep /\ UNCHANGED recoveryVars
  \/ EngineIqStep /\ UNCHANGED <<frontendVars, recoveryVars>>
  \/ EngineBackendStep /\ UNCHANGED <<iqVars, frontendVars, recoveryVars>>
  \/ EndCycle
  \/ step = "exit" /\ UNCHANGED allVars

EngineSpec == EngineInit /\ [][EngineNext]_allVars
-----------------------------------------------------------------------------
\* The cycle engine replays the functional engine's commit stream: a run that
\* is given enough cycles ends with every commit retired, in order, with no
\* trap that the functional engine did not have.
Replays ==
  step = "exit" =>
    /\ exit_reason = "func"
    /\ Len(committed) = Cardinality(Seqs)
    /\ \A k \in 1 .. Len(committed) : committed[k].seq = k - 1 /\ committed[k].trap = None

\* What is fetched and not retired, from old to young: the ROB from the uops
\* of D1 down, then the stages before it.  S2 is in two parts during dispatch.
FrontSeqs == UNION {RangeOf(frontend[k]) : k \in 0 .. LastStage} \cup RangeOf(stay_s2)
Window == RangeOf(rob) \cup FrontSeqs

\* No trap is about to end the run; behind one, fetch and flush no longer matter.
Untrapped == pending_trap = None /\ \A k \in 1 .. Len(committed) : committed[k].trap = None

\* Fetch, the stages, the ROB and the redirects of fetch keep to the order of
\* the stream: the window is the seqs from the first not retired to the last
\* fetched, and no uop is ahead of an older one in the front end.
InOrderWindow ==
  Untrapped =>
  /\ Window = Len(committed) .. next_fetch_seq - 1
  /\ \A j, k \in 0 .. LastStage :
       \A a \in DOMAIN frontend[j], b \in DOMAIN frontend[k] :
         j < k \/ (j = k /\ a > b) => frontend[j][a] > frontend[k][b]

\* fill_fetch stops behind a redirect until the redirect is resolved: no uop
\* younger than a boundary whose outcome is open is anywhere in the pipeline.
NoWrongPath ==
  \A s \in Window : redirect_target(s) # None /\ ResolveCycle(s) = None =>
    \A t \in Window : t <= s

\* When a resolved boundary restarts fetch, it restarts it where it stopped,
\* at the uop after the boundary: legal_redirect_restart_seq finds, among all
\* visits of the target, the next one.
ResumesWhereStopped ==
  frontend_redirect # None /\ Untrapped => frontend_redirect.restart_seq = next_fetch_seq

\* A flush that a redirect left behind finds nothing to throw away: the fetch
\* barrier has kept younger uops out.
FlushDropsNothing ==
  [][FlushDue /\ step = "flush" /\ Untrapped =>
       UNCHANGED <<rob, frontend, p1, i1, i2, stageVars, iq>>]_allVars

\* A trap is published before its uop can retire: a pending trap's uop is still
\* in the ROB, and a run in which a trap retires ends in that cycle.
TrapInTime ==
  /\ pending_trap # None => pending_trap.seq \in RangeOf(rob)
  /\ \A k \in 1 .. Len(committed) : committed[k].trap # None => committed[k].cycle = cycle

\* A trap is raised for the reason that it names: a SETRET that is not right
\* behind a call header without a return address, a taken branch in a block
\* whose end is predicted, a boundary that needs a dynamic target.
TrapHasCause ==
  pending_trap # None =>
    LET s == pending_trap.seq
    IN CASE pending_trap.cause = "SETRET_NOT_ADJACENT" ->
              is_setret(s) /\ ~(s > 0 /\ is_call_header(s - 1) /\ C(s - 1).wb # "ra")
         [] pending_trap.cause = "BRU_RECOVERY_NOT_BSTART" ->
              C(s).group = "BRU" /\ bru_actual_take(s) /\ contexts[s].kind \in {"Cond", "Ret"}
         [] OTHER -> is_boundary_redirect_owner(s) /\ live_branch_kind(s) \in Dynamic

\* The traps are precise: no uop younger than the trapping one is committed.
PreciseTrap ==
  \A k \in 1 .. Len(committed) : committed[k].trap # None => k = Len(committed)

\* A run without a taken boundary uses the issue queues, and through them the
\* back end, as IssueQueue says its environment does.
IqStep ==
  CASE step \in {"flush", "fetch"} -> "tag"
    [] step \in {"bru", "dynamic", "header", "update"} -> "publish"
    [] step = "schedule" -> "execute"
    [] step \in {"frontend", "end"} -> "dispatch"
    [] OTHER -> step
IqAbstraction == INSTANCE IssueQueue WITH step <- IqStep
FeedsIssueQueues == [][IqAbstraction!IqNext]_<<IqAbstraction!vars, iqVars>>
=============================================================================
