------------------------------ MODULE Frontend ------------------------------
(***************************************************************************)
(* The front end: fetch, the eleven stages F0 .. S2, ROB allocation, and   *)
(* dispatch.  Dispatch also keeps the live state of the block being        *)
(* dispatched (`active': its branch kind and target, the dynamic target    *)
(* set up in it, a call header waiting for its return address), notes for  *)
(* each uop what was live when it was dispatched, and takes a checkpoint   *)
(* at every start of a block.                                              *)
(*                                                                         *)
(* What only labels trace events is left out: which instruction set up a   *)
(* target, return-address owners, materialization kinds.                   *)
(***************************************************************************)
EXTENDS IssueQueue, ControlStream, TLC

CONSTANTS
  FETCH_WIDTH,
  DISPATCH_WIDTH

ASSUME FrontendAssumption ==
  FETCH_WIDTH \in Nat \ {0} /\ DISPATCH_WIDTH \in Nat \ {0}

VARIABLES
  frontend,           \* stage index -> queue of seqs, 0 for F0 .. 10 for S2
  next_fetch_seq,
  frontend_redirect,  \* None or [restart_seq, resume_cycle]
  stay_s2,            \* the local of dispatch_to_iq_and_bypass
  active,             \* the live block state
  owners,             \* seq -> what was live at its fetch and dispatch
  contexts,           \* seq -> the branch context it was dispatched in, or None
  checkpoints         \* checkpoint id -> [ready_table, active]

fetchVars == <<frontend, next_fetch_seq, frontend_redirect, stay_s2>>
blockVars == <<active, owners, contexts, checkpoints>>
frontendVars == <<fetchVars, blockVars>>

Dynamic == {"Ret", "Ind", "ICall"}
LastStage == 10
D1 == 6
Checkpoints == 64
Epochs == 65536

\* A SETC.TGT has a source; its commit's `target' is the value read from it.
ASSUME ControlAssumption ==
  \A c \in CommitStreams :
    /\ IsControlStream(c)
    /\ \A s \in DOMAIN c : c[s].op = "SETC_TGT" => c[s].src[1] # None

C(s) == uops[s].commit
OrElse(a, b) == IF a # None THEN a ELSE b
NonZero(pc) == IF pc = 0 THEN None ELSE pc

is_bstart(s) == C(s).op = "BSTART"
is_bstop(s) == C(s).op = "BSTOP"
is_macro_boundary(s) == C(s).op \in {"FENTRY", "FEXIT", "FRET_RA", "FRET_STK"}
is_start_marker(s) == is_bstart(s) \/ is_macro_boundary(s)
is_boundary_redirect_owner(s) == is_start_marker(s) \/ is_bstop(s)
is_setret(s) == C(s).op = "SETRET"
fallthrough_pc(s) == C(s).pc + C(s).len

redirect_target(s) ==
  IF ~C(s).trap_valid /\ C(s).next_pc # fallthrough_pc(s) /\ is_boundary_redirect_owner(s)
  THEN C(s).next_pc ELSE None

branch_owner_kind(s) ==
  CASE C(s).op \in {"FRET_RA", "FRET_STK"} -> "Ret"
    [] C(s).op = "BSTART_CALL" -> "Call"
    [] OTHER -> C(s).kind

is_call_header(s) == is_bstart(s) /\ branch_owner_kind(s) = "Call"

\* The cycle in which a uop's outcome is seen: w1_cycle, else done_cycle.
ResolveCycle(s) == OrElse(w1_cycle[s], done_cycle[s])
-----------------------------------------------------------------------------
(* Checkpoint ids: six bits of the fetch packet's address plus the slot.   *)
packet_checkpoint_id(pc) == (pc \div 4) % Checkpoints

\* The head of the packet that s falls into when the stream is cut up from
\* its beginning.
fetch_packet_head[s \in Nat] ==
  IF s = 0 THEN 0
  ELSE LET head == fetch_packet_head[s - 1]
       IN IF s - head < FETCH_WIDTH /\ redirect_target(s - 1) = None THEN head ELSE s

live_rob_checkpoint_id(s) ==
  LET head == fetch_packet_head[s]
      fetched == OrElse(owners[s].fetch_checkpoint, packet_checkpoint_id(C(head).pc))
  IN OrElse(owners[s].rob_checkpoint,
            IF is_start_marker(s) THEN (fetched + s - head) % Checkpoints ELSE 0)
-----------------------------------------------------------------------------
(* Branch contexts.                                                        *)
NoContext == [kind |-> "None", target_pc |-> 0, pred_take |-> FALSE]

\* The target of s as a block boundary, given the owner record and the live
\* dynamic target to look at.
boundary_target_pc(s, own, dynamic) ==
  IF branch_owner_kind(s) \in Dynamic
  THEN OrElse(own.boundary_target,
         OrElse(own.dynamic_target, OrElse(dynamic, redirect_target(s))))
  ELSE redirect_target(s)

boundary_context(s, own, dynamic) ==
  LET kind == branch_owner_kind(s)
      target == boundary_target_pc(s, own, dynamic)
  IN IF kind = "None" THEN NoContext
     ELSE [kind      |-> kind,
           target_pc |-> IF target = None THEN 0 ELSE target,
           pred_take |-> kind = "Cond" /\ target # None /\ target < C(s).pc]

ContextOf(s) == IF contexts[s] = None THEN NoContext ELSE contexts[s]

live_boundary_target(s) ==
  OrElse(NonZero(boundary_context(s, owners[s], active.dynamic_target).target_pc),
    OrElse(NonZero(ContextOf(s).target_pc), redirect_target(s)))

live_branch_kind(s) ==
  IF branch_owner_kind(s) # "None" THEN branch_owner_kind(s) ELSE ContextOf(s).kind
-----------------------------------------------------------------------------
(* fill_fetch                                                              *)
unresolved_redirect_barrier(n) ==
  \E s \in 0 .. n - 1 : redirect_target(s) # None /\ ResolveCycle(s) = None

\* Mutant: fetch runs past redirects.
FetchCount_NoBarrier(n) ==
  Max({k \in 0 .. FETCH_WIDTH - Len(frontend[0]) : n + k <= Cardinality(Seqs)})

\* How many uops are fetched from n on: up to the room in F0, the end of the
\* stream and the first redirect; none behind an unresolved redirect.
FetchCount(n) ==
  IF unresolved_redirect_barrier(n) THEN 0
  ELSE Max({k \in 0 .. FETCH_WIDTH - Len(frontend[0]) :
              /\ n + k <= Cardinality(Seqs)
              /\ \A s \in n .. n + k - 2 : redirect_target(s) = None})

Fetch(n) ==
  LET k == FetchCount(n)
      fetched == n .. n + k - 1
  IN /\ frontend' = [frontend EXCEPT ![0] = @ \o Oldest(fetched)]
     /\ next_fetch_seq' = n + k
     /\ owners' = [s \in Seqs |->
          IF s \in fetched
          THEN [owners[s] EXCEPT !.fetch_checkpoint = OrElse(@, packet_checkpoint_id(C(n).pc))]
          ELSE owners[s]]

FillFetch ==
  /\ \/ frontend_redirect = None /\ Fetch(next_fetch_seq) /\ UNCHANGED frontend_redirect
     \/ /\ frontend_redirect # None
        /\ cycle >= frontend_redirect.resume_cycle
        /\ Fetch(frontend_redirect.restart_seq)
        /\ frontend_redirect' = None
     \/ /\ frontend_redirect # None
        /\ cycle < frontend_redirect.resume_cycle
        /\ UNCHANGED <<frontend, next_fetch_seq, owners, frontend_redirect>>
  /\ UNCHANGED <<uopVars, backendVars, iqVars, stay_s2, active, contexts, checkpoints>>
-----------------------------------------------------------------------------
(* dispatch_to_iq_and_bypass, first half: the live block state.            *)
dynamic_target_of(s) ==
  CASE C(s).op = "SETC_TGT" -> C(s).target
    [] C(s).op \in {"FRET_RA", "FRET_STK"} -> redirect_target(s)
    [] C(s).op = "BSTOP" -> active.dynamic_target
    [] OTHER -> None

\* The target a boundary goes to and the epoch it was set up in.
boundary_owner(s) ==
  IF C(s).op \in {"FRET_RA", "FRET_STK"} THEN [pc |-> redirect_target(s), epoch |-> active.epoch]
  ELSE IF \/ is_bstop(s) /\ active.context.kind \in Dynamic
          \/ branch_owner_kind(s) \in Dynamic
  THEN [pc |-> active.dynamic_target, epoch |-> active.setup_epoch]
  ELSE [pc |-> None, epoch |-> None]

\* Mutant: the header is forgotten at once.
WaitingHeader_Never(s) == None

\* A call header keeps waiting for its return address only if s is the
\* SETRET right behind it.
WaitingHeader(s) ==
  IF active.call_header # None /\ s = active.call_header + 1 /\ is_setret(s)
  THEN active.call_header ELSE None

CheckpointAt(s) == IF is_start_marker(s) THEN live_rob_checkpoint_id(s) ELSE active.checkpoint

\* The owner record of s after snapshot, update_dynamic_target_owner and
\* update_call_header_owner.  Maps keep an earlier entry when nothing is
\* inserted.
OwnerAt(s) ==
  LET bo == boundary_owner(s)
      old == owners[s]
  IN [old EXCEPT
        !.rob_checkpoint = IF is_start_marker(s) THEN CheckpointAt(s) ELSE @,
        !.checkpoint = CheckpointAt(s),
        !.epoch = active.epoch,
        !.dynamic_target = OrElse(dynamic_target_of(s), @),
        !.boundary_target = OrElse(bo.pc, @),
        !.setup_epoch = IF bo.pc # None THEN bo.epoch ELSE @,
        !.header_fault = @ \/ (is_setret(s) /\ WaitingHeader(s) = None)]

\* A SETC.TGT sets the dynamic target, also in the context of a block that
\* has one.
AfterSetc(s) ==
  IF C(s).op # "SETC_TGT" THEN active
  ELSE [active EXCEPT !.dynamic_target = C(s).target,
                      !.setup_epoch = active.epoch,
                      !.context.target_pc = IF active.context.kind \in Dynamic THEN C(s).target ELSE @]

\* The live state after s: a boundary, or a header at the head of a block,
\* opens a new epoch and a new context.
ActiveAt(s) ==
  LET a == [AfterSetc(s) EXCEPT
              !.checkpoint = CheckpointAt(s),
              !.call_header = IF is_call_header(s) /\ C(s).wb # "ra" THEN s ELSE None]
      head == is_bstart(s) /\ active.block_head
      boundary == (is_bstart(s) /\ ~active.block_head) \/ is_bstop(s) \/ is_macro_boundary(s)
  IN IF head \/ boundary
     THEN [a EXCEPT !.block_head = ~head,
                    !.epoch = (@ + 1) % Epochs,
                    !.context = boundary_context(s, OwnerAt(s), a.dynamic_target),
                    !.dynamic_target = None,
                    !.setup_epoch = None]
     ELSE a

Annotate(s) ==
  /\ checkpoints' = IF is_start_marker(s)
                    THEN (CheckpointAt(s) :> [ready_table |-> ready_table, active |-> active])
                           @@ checkpoints
                    ELSE checkpoints
  /\ owners' = [owners EXCEPT ![s] = OwnerAt(s)]
  /\ contexts' = [contexts EXCEPT ![s] = active.context]
  /\ active' = ActiveAt(s)
-----------------------------------------------------------------------------
(* dispatch_to_iq_and_bypass, second half: each uop of S2 in turn goes to  *)
(* W2, into an issue queue, or stays for the next cycle.                   *)
S2 == frontend[LastStage]
PopS2 == [frontend EXCEPT ![LastStage] = Tail(@)]

DispatchBypass ==
  /\ S2 # <<>>
  /\ Bypass(Head(S2))
  /\ stay_s2' = IF Head(S2) \in w2' THEN stay_s2 ELSE Append(stay_s2, Head(S2))
  /\ UNCHANGED iqVars

DispatchEnqueue ==
  /\ S2 # <<>>
  /\ ~uops[Head(S2)].bypass_d2
  /\ Enqueue(Head(S2))
  /\ UNCHANGED stay_s2

DispatchStay ==
  /\ S2 # <<>>
  /\ ~uops[Head(S2)].bypass_d2
  /\ Routes(Head(S2)) = {}
  /\ stay_s2' = Append(stay_s2, Head(S2))
  /\ UNCHANGED <<uopVars, backendVars, iqVars>>

DispatchOne ==
  /\ DispatchBypass \/ DispatchEnqueue \/ DispatchStay
  /\ Annotate(Head(S2))
  /\ frontend' = PopS2
  /\ UNCHANGED <<next_fetch_seq, frontend_redirect>>

\* Mutant: what has to stay is lost.
DispatchEnd_Drops ==
  /\ S2 = <<>>
  /\ stay_s2' = <<>>
  /\ UNCHANGED <<uopVars, backendVars, iqVars, frontend, next_fetch_seq, frontend_redirect,
                 blockVars>>

DispatchEnd ==
  /\ S2 = <<>>
  /\ frontend' = [frontend EXCEPT ![LastStage] = stay_s2]
  /\ stay_s2' = <<>>
  /\ UNCHANGED <<uopVars, backendVars, iqVars, next_fetch_seq, frontend_redirect, blockVars>>
-----------------------------------------------------------------------------
(* advance_frontend: from S2 back to F1, each stage takes from the one     *)
(* before it what it has room for.  D2 takes nothing unless the ROB has    *)
(* room for all of D1, and then all of D1 gets ROB entries.                *)
NewToRob == SelectSeq(frontend[D1], LAMBDA s : s \notin RangeOf(rob))

\* Mutant: the ROB's capacity is not asked for.
RobHasRoom_Always == TRUE

RobHasRoom == Len(rob) + Len(NewToRob) <= ROB_CAPACITY

AllocateRob ==
  /\ RobHasRoom /\ NewToRob # <<>>
  /\ rob' = Append(rob, Head(NewToRob))
  /\ upstream' = upstream \cup {Head(NewToRob)}
  /\ UNCHANGED <<uopVars, committed, retired_this_cycle, pending_trap, ready_table, i2Vars,
                 lsuVars, iqVars, frontendVars>>

\* How many uops move from stage k - 1 to stage k.
MovedInto[k \in 1 .. LastStage + 1] ==
  IF k = LastStage + 1 \/ (k = D1 + 1 /\ ~RobHasRoom) THEN 0
  ELSE LET moved == MovedInto[k + 1]
       IN Min({Len(frontend[k - 1]), DISPATCH_WIDTH - (Len(frontend[k]) - moved)})

\* Mutant: what moves into a stage passes what is there.
AdvanceFrontend_Overtakes ==
  /\ RobHasRoom => NewToRob = <<>>
  /\ frontend' = [k \in 0 .. LastStage |->
       (IF k = 0 THEN <<>> ELSE FirstOf(frontend[k - 1], MovedInto[k]))
         \o FromOn(frontend[k], MovedInto[k + 1])]
  /\ UNCHANGED <<uopVars, backendVars, iqVars, next_fetch_seq, frontend_redirect, stay_s2,
                 blockVars>>

AdvanceFrontend ==
  /\ RobHasRoom => NewToRob = <<>>
  /\ frontend' = [k \in 0 .. LastStage |->
       FromOn(frontend[k], MovedInto[k + 1])
         \o (IF k = 0 THEN <<>> ELSE FirstOf(frontend[k - 1], MovedInto[k]))]
  /\ UNCHANGED <<uopVars, backendVars, iqVars, next_fetch_seq, frontend_redirect, stay_s2,
                 blockVars>>
-----------------------------------------------------------------------------
NoOwner == [fetch_checkpoint |-> None, rob_checkpoint |-> None, checkpoint |-> None,
            epoch |-> None, dynamic_target |-> None, boundary_target |-> None,
            setup_epoch |-> None, header_fault |-> FALSE]

FrontendInit ==
  /\ frontend = [k \in 0 .. LastStage |-> <<>>]
  /\ next_fetch_seq = 0
  /\ frontend_redirect = None
  /\ stay_s2 = <<>>
  /\ active = [checkpoint |-> 0, epoch |-> 0, block_head |-> TRUE, context |-> NoContext,
               dynamic_target |-> None, setup_epoch |-> None, call_header |-> None]
  /\ owners = [s \in Seqs |-> NoOwner]
  /\ contexts = [s \in Seqs |-> None]
  /\ checkpoints = <<>>
=============================================================================
