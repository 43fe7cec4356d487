----------------------------- MODULE FuncControl -----------------------------
(***************************************************************************)
(* Control flow of the functional engine: the loop of FuncEngine::run and  *)
(* the instructions of execute_step that open a block, set its end up, end *)
(* it, jump, call or return.                                               *)
(*                                                                         *)
(* A block is opened by a header (BSTART ...), which names its branch kind *)
(* and perhaps a target.  SETC and SETC.TGT inside it decide whether and   *)
(* where it goes; C.BSTOP, or the header of the next block, ends it.  The  *)
(* header of the next block ends it without a commit: the loop moves pc    *)
(* and starts over.                                                        *)
(*                                                                         *)
(* Data: an instruction that only computes writes the constant `imm' into  *)
(* its register, or nothing; a comparison comes out either way; registers  *)
(* saved by FENTRY lie in a stack of 8-byte words, which only FENTRY       *)
(* writes.  carg mirrors cond and is never read, so it is left out.        *)
(***************************************************************************)
EXTENDS ControlStream, Integers, Sequences

CONSTANTS
  Images,      \* programs: functions from addresses to instructions
  entry_pc,
  StackWords,
  max_steps

VARIABLES
  image,
  state,        \* ExecState: [pc, regs, stack, block, cond, target]
  commits,
  step,
  exit_reason,  \* "running" until the loop is left
  frames        \* history: the frames FENTRY has opened and nothing has closed

vars == <<image, state, commits, step, exit_reason, frames>>

REG_SP == 1
REG_A0 == 2
REG_RA == 10
LastReg == 23
Registers == REG_SP .. LastReg

ASSUME FuncAssumption ==
  StackWords \in Nat \ {0} /\ max_steps \in Nat /\ entry_pc \in Nat \ {0}

\* The fields of a decoded instruction that the stack pointer depends on.
ASSUME ImagesAssumption ==
  \A im \in Images : \A a \in DOMAIN im :
    im[a].first \in Int /\ im[a].last \in Int /\ im[a].size \in Nat /\ im[a].imm \in Int

NoBlock == [kind |-> "None", target |-> 0, return_target |-> 0]

pc == state.pc
Insn == image[pc]
fallthrough == pc + Insn.len

(* Headers execute_step knows by name. *)
starts_new_block(d) == d.insn \in {"BSTART.STD", "C.BSTART", "C.BSTART.STD", "BSTART CALL"}

\* The class of an instruction in the commit stream.
CommitOp(d) ==
  CASE d.insn \in {"BSTART.STD", "C.BSTART", "C.BSTART.STD"} -> "BSTART"
    [] d.insn = "BSTART CALL" -> "BSTART_CALL"
    [] d.insn = "C.BSTOP" -> "BSTOP"
    [] d.insn \in {"FENTRY", "FEXIT", "SETRET"} -> d.insn
    [] d.insn = "SETC.TGT" -> "SETC_TGT"
    [] d.insn = "FRET.RA" -> "FRET_RA"
    [] d.insn = "FRET.STK" -> "FRET_STK"
    [] OTHER -> "PLAIN"

\* The kind of block a header opens.  "CALL" is looked for first, and is
\* found in ICALL; a C.BSTART.STD has no target, so only the kinds that find
\* theirs elsewhere count.
block_kind(d) ==
  CASE d.insn = "BSTART.STD" -> IF d.kind = "ICall" THEN "Call" ELSE d.kind
    [] d.insn = "C.BSTART" -> IF d.kind = "Cond" THEN "Cond" ELSE "Direct"
    [] OTHER -> IF d.kind \in {"Ind", "ICall", "Ret"} THEN d.kind ELSE "Fall"

set_block_KeepsTarget(st, kind, target) ==
  [st EXCEPT !.block = [kind |-> kind, target |-> target, return_target |-> 0], !.cond = FALSE]

set_block(st, kind, target) ==
  [st EXCEPT !.block = [kind |-> kind, target |-> target, return_target |-> 0],
             !.cond = FALSE, !.target = 0]

\* Where the open block goes when it ends at `behind', the address behind it,
\* and the state after that.
block_target(st, behind) ==
  CASE st.block.kind \in {"None", "Fall"} -> behind
    [] st.block.kind = "Cond" -> IF st.cond THEN st.block.target ELSE behind
    [] st.block.kind \in {"Direct", "Call"} -> st.block.target
    [] st.block.kind \in {"Ind", "ICall"} -> st.target
    [] st.block.kind = "Ret" -> IF st.target # 0 THEN st.target ELSE st.regs[REG_RA]

resolve_block_end(st, behind) ==
  LET links == st.block.kind \in {"Call", "ICall"} /\ st.block.return_target = 0
  IN [st EXCEPT !.block = NoBlock, !.cond = FALSE, !.target = 0,
                !.regs[REG_RA] = IF links THEN behind ELSE @]
-----------------------------------------------------------------------------
(* The macro instructions FENTRY, FEXIT and FRET.  A register range wraps   *)
(* from 23 to 2; ranges that name other registers never end and are not    *)
(* among the images.                                                       *)
wrapped_reg_sequence(first, last) ==
  [i \in 1 .. ((last - first) % 22) + 1 |-> 2 + ((first - 2 + i - 1) % 22)]

Saved(d) == wrapped_reg_sequence(d.first, d.last)

\* The word of the stack that the i-th saved register is in, below `top'.
SlotBelow(top, i) == top - i

fentry_fails(d) ==
  LET sp == state.regs[REG_SP]
  IN \/ sp < d.size \/ d.size < Len(Saved(d))
     \/ \E i \in DOMAIN Saved(d) : SlotBelow(sp, i) \notin DOMAIN state.stack

apply_fentry_Upwards(st, d) ==
  LET bottom == st.regs[REG_SP] - d.size
  IN [st EXCEPT !.regs[REG_SP] = bottom,
        !.stack = [w \in DOMAIN @ |->
          IF w - bottom + 1 \in DOMAIN Saved(d) THEN st.regs[Saved(d)[w - bottom + 1]] ELSE @[w]]]

apply_fentry(st, d) ==
  LET top == st.regs[REG_SP]
  IN [st EXCEPT !.regs[REG_SP] = top - d.size,
        !.stack = [w \in DOMAIN @ |->
          IF top - w \in DOMAIN Saved(d) THEN st.regs[Saved(d)[top - w]] ELSE @[w]]]

fexit_fails(d) ==
  \E i \in DOMAIN Saved(d) : SlotBelow(state.regs[REG_SP] + d.size, i) \notin DOMAIN state.stack

apply_fexit(st, d) ==
  LET top == st.regs[REG_SP] + d.size
      restored(r) == CHOOSE i \in DOMAIN Saved(d) : Saved(d)[i] = r
  IN [st EXCEPT !.regs = [r \in DOMAIN @ |->
        IF r = REG_SP THEN top
        ELSE IF \E i \in DOMAIN Saved(d) : Saved(d)[i] = r
             THEN st.stack[SlotBelow(top, restored(r))] ELSE @[r]]]

leave_block(st) == [st EXCEPT !.block = NoBlock, !.cond = FALSE, !.target = 0]
-----------------------------------------------------------------------------
(* The loop. *)
Running == exit_reason = "running" /\ step < max_steps

Fetched == Running /\ pc \in DOMAIN image

EndsBlockElsewhere ==
  /\ state.block.kind # "None" /\ starts_new_block(Insn)
  /\ block_target(state, pc) # pc

\* The state an instruction executes in: a header has ended the block before.
Entered ==
  IF state.block.kind # "None" /\ starts_new_block(Insn)
  THEN resolve_block_end(state, pc) ELSE state

Executes(insns) == Fetched /\ ~EndsBlockElsewhere /\ Insn.insn \in insns

Record(next_pc, trap_valid) ==
  [op |-> CommitOp(Insn), kind |-> Insn.kind, group |-> Insn.group, pc |-> pc,
   len |-> Insn.len, next_pc |-> next_pc, trap_valid |-> trap_valid]

\* The commit of an instruction that leaves the state st and goes to next_pc.
Commit(st, next_pc, trap_valid, exit) ==
  /\ state' = [st EXCEPT !.pc = next_pc]
  /\ commits' = Append(commits, Record(next_pc, trap_valid))
  /\ step' = step + 1
  /\ exit_reason' = exit
  /\ UNCHANGED image

Retire(st, next_pc) == Commit(st, next_pc, FALSE, "running")

\* execute_step fails: the run ends in a trap.  What the failed instruction
\* has changed is dropped with the state.
Fault == Commit(Entered, pc, TRUE, "unsupported_instruction")

FetchFails ==
  /\ Running /\ pc \notin DOMAIN image
  /\ exit_reason' = "no_bundle"
  /\ UNCHANGED <<image, state, commits, step, frames>>

\* The commit of a word that does not decode has no decoded instruction.
DecodeFault ==
  /\ Fetched /\ Insn.insn = "undecoded"
  /\ commits' = Append(commits, [Record(pc, TRUE) EXCEPT !.len = 8])
  /\ exit_reason' = "decode_fault"
  /\ UNCHANGED <<image, state, step, frames>>

\* A header at which the open block goes elsewhere: no commit, no step.
EndBlockAtHeader_Commits ==
  /\ Fetched /\ EndsBlockElsewhere
  /\ Retire(resolve_block_end(state, pc), block_target(state, pc))
  /\ UNCHANGED frames

EndBlockAtHeader_Stays ==
  /\ Fetched /\ EndsBlockElsewhere
  /\ UNCHANGED vars

EndBlockAtHeader ==
  /\ Fetched /\ EndsBlockElsewhere
  /\ state' = [resolve_block_end(state, pc) EXCEPT !.pc = block_target(state, pc)]
  /\ UNCHANGED <<image, commits, step, exit_reason, frames>>

StepLimit ==
  /\ exit_reason = "running" /\ step = max_steps
  /\ exit_reason' = "step_limit"
  /\ UNCHANGED <<image, state, commits, step, frames>>
-----------------------------------------------------------------------------
(* execute_step, one action for each group of instructions. *)
Header ==
  /\ Executes({"BSTART.STD", "C.BSTART", "C.BSTART.STD"})
  /\ \/ /\ Insn.insn = "BSTART.STD" /\ Insn.kind = "ICall"  \* has no simm17
        /\ Fault
     \/ /\ ~(Insn.insn = "BSTART.STD" /\ Insn.kind = "ICall")
        /\ Retire(set_block(Entered, block_kind(Insn), Insn.target), fallthrough)
  /\ UNCHANGED frames

CallHeader ==
  /\ Executes({"BSTART CALL"})
  /\ Retire([set_block(Entered, "Call", Insn.target) EXCEPT
               !.regs[REG_RA] = Insn.imm, !.block.return_target = Insn.imm], fallthrough)
  /\ UNCHANGED frames

Bstop ==
  /\ Executes({"C.BSTOP"})
  /\ Retire(resolve_block_end(state, fallthrough), block_target(state, fallthrough))
  /\ UNCHANGED frames

Setc ==
  /\ Executes({"SETC"})
  /\ \E holds \in BOOLEAN : Retire([state EXCEPT !.cond = holds], fallthrough)
  /\ UNCHANGED frames

SetcTgt ==
  /\ Executes({"SETC.TGT"})
  /\ Retire([state EXCEPT !.target = state.regs[Insn.reg], !.cond = TRUE], fallthrough)
  /\ UNCHANGED frames

Setret ==
  /\ Executes({"SETRET"})
  /\ Retire([state EXCEPT !.regs[REG_RA] = Insn.imm,
               !.block.return_target = IF state.block.kind = "None" THEN @ ELSE Insn.imm],
            fallthrough)
  /\ UNCHANGED frames

Jump ==
  /\ Executes({"J", "JR"})
  /\ Retire(state, IF Insn.insn = "J" THEN Insn.target ELSE state.regs[Insn.reg] + Insn.imm)
  /\ UNCHANGED frames

\* Instructions that only compute.
Compute ==
  /\ Executes({"compute"})
  /\ Retire([state EXCEPT !.regs[Insn.reg] = Insn.imm], fallthrough)
  /\ frames' = IF Insn.reg = REG_SP THEN <<>> ELSE frames

Frame(d) == [first |-> d.first, last |-> d.last, size |-> d.size, regs |-> state.regs]
SameShape(d, f) == f.first = d.first /\ f.last = d.last /\ f.size = d.size
TopFrame == frames[Len(frames)]
ClosesTop(d) == frames # <<>> /\ SameShape(d, TopFrame)

\* The history forgets all frames when one is closed in another shape.
CloseFrame ==
  frames' = IF ClosesTop(Insn) THEN SubSeq(frames, 1, Len(frames) - 1) ELSE <<>>

Fentry ==
  /\ Executes({"FENTRY"})
  /\ \/ fentry_fails(Insn) /\ Fault /\ UNCHANGED frames
     \/ /\ ~fentry_fails(Insn)
        /\ Retire(apply_fentry(state, Insn), fallthrough)
        /\ frames' = Append(frames, Frame(Insn))

Fexit ==
  /\ Executes({"FEXIT"})
  /\ \/ fexit_fails(Insn) /\ Fault /\ UNCHANGED frames
     \/ ~fexit_fails(Insn) /\ Retire(apply_fexit(state, Insn), fallthrough) /\ CloseFrame

\* FRET.STK returns to the restored ra, FRET.RA to the one before.
Fret ==
  /\ Executes({"FRET.STK", "FRET.RA"})
  /\ \/ fexit_fails(Insn) /\ Fault /\ UNCHANGED frames
     \/ /\ ~fexit_fails(Insn)
        /\ LET left == leave_block(apply_fexit(state, Insn))
           IN Retire(left, IF Insn.insn = "FRET.STK" THEN left.regs[REG_RA]
                           ELSE state.regs[REG_RA])
        /\ CloseFrame

\* A system call returns a value, ends the guest, or fails.
Acrc ==
  /\ Executes({"ACRC"})
  /\ \/ Retire([state EXCEPT !.regs[REG_A0] = 0], fallthrough)
     \/ Commit(state, fallthrough, FALSE, "guest_exit")
     \/ Fault
  /\ UNCHANGED frames

Ebreak ==
  /\ Executes({"EBREAK"})
  /\ Commit(state, fallthrough, TRUE, "breakpoint")
  /\ UNCHANGED frames

Unsupported == Executes({"unsupported"}) /\ Fault /\ UNCHANGED frames

Init ==
  /\ image \in Images
  /\ state = [pc |-> entry_pc, block |-> NoBlock, cond |-> FALSE, target |-> 0,
              regs |-> [r \in Registers |-> IF r = REG_SP THEN StackWords ELSE 0],
              stack |-> [w \in 0 .. StackWords - 1 |-> 0]]
  /\ commits = <<>> /\ step = 0 /\ exit_reason = "running" /\ frames = <<>>

Next ==
  \/ StepLimit \/ FetchFails \/ DecodeFault \/ EndBlockAtHeader
  \/ Header \/ CallHeader \/ Bstop \/ Setc \/ SetcTgt \/ Setret \/ Jump \/ Compute
  \/ Fentry \/ Fexit \/ Fret \/ Acrc \/ Ebreak \/ Unsupported

Spec == Init /\ [][Next]_vars

\* run is one loop: it goes on as long as it can.
FairSpec == Spec /\ WF_vars(Next)
-----------------------------------------------------------------------------
CommittedInsn(k) == image[commits[k].pc]

(* What the cycle engine takes for granted of the commits it replays: only *)
(* C.BSTOP, macro returns, jumps and traps leave the straight line, and    *)
(* two commits in a row meet, unless a header that run passed without a    *)
(* commit lies between them.                                               *)
StreamForm ==
  /\ IsControlStream(commits)
  /\ \A k \in DOMAIN commits : k + 1 \in DOMAIN commits =>
       \/ commits[k + 1].pc = commits[k].next_pc
       \/ starts_new_block(image[commits[k].next_pc])

(* A block ends as its own instructions decided: the condition and the     *)
(* dynamic target that resolve_block_end will look at were set by a SETC   *)
(* or SETC.TGT committed behind the block's header, not by an earlier one. *)
OwnSetup ==
  state.block.kind # "None" /\ (state.cond \/ state.target # 0) =>
    \E k \in DOMAIN commits :
      /\ CommittedInsn(k).insn \in {"SETC", "SETC.TGT"}
      /\ \A j \in k .. Len(commits) : ~starts_new_block(CommittedInsn(j))

(* FEXIT and FRET undo the FENTRY they match, through calls nested in      *)
(* between: stack pointer and saved registers are those at its FENTRY, and *)
(* FRET.STK goes to the return address the function was entered with.      *)
(* (Frames are written by FENTRY only: the program stores nothing there.)  *)
Undoes(d, f) ==
  /\ state'.regs[REG_SP] = f.regs[REG_SP]
  /\ \A i \in DOMAIN Saved(d) : state'.regs[Saved(d)[i]] = f.regs[Saved(d)[i]]
  /\ d.insn = "FRET.STK" /\ (\E i \in DOMAIN Saved(d) : Saved(d)[i] = REG_RA) =>
       state'.pc = f.regs[REG_RA]

ReturnsRestore ==
  [][step' = step + 1 /\ exit_reason' = "running"
     /\ Insn.insn \in {"FEXIT", "FRET.STK", "FRET.RA"} /\ ClosesTop(Insn)
       => Undoes(Insn, TopFrame)]_vars

(* The loop of run ends on every program.  Passing a header without a      *)
(* commit counts no step, so the step limit alone does not see to it: what *)
(* does is that the header it goes to finds no open block.                 *)
RunEnds == <>(exit_reason # "running")
=============================================================================
