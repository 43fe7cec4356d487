---------------------------- MODULE ControlStream ----------------------------
(***************************************************************************)
(* What a commit stream says about control flow: the interface between the *)
(* functional engine, which produces it (FuncControl), and the cycle       *)
(* engine, which replays it (Frontend).                                    *)
(*                                                                         *)
(* `kind' is the branch kind a block header's assembly names; pc, len,     *)
(* next_pc and trap_valid are the commit's own fields.  The functional     *)
(* engine ends a block in the commit of a C.BSTOP, a macro return or a     *)
(* jump; a header that ends the block before it is reached by no commit.   *)
(***************************************************************************)
EXTENDS Naturals

BranchKinds == {"None", "Fall", "Cond", "Direct", "Call", "Ret", "Ind", "ICall"}

IsControlStream(c) ==
  \A s \in DOMAIN c :
    /\ c[s].kind \in BranchKinds
    /\ c[s].kind # "None" => c[s].op = "BSTART"
    /\ c[s].pc \in Nat \ {0} /\ c[s].len \in {2, 4, 6, 8} /\ c[s].next_pc \in Nat
    /\ c[s].trap_valid \in BOOLEAN
    /\ c[s].next_pc # c[s].pc + c[s].len =>
         \/ c[s].op \in {"BSTOP", "FRET_RA", "FRET_STK"}
         \/ c[s].op = "PLAIN" /\ c[s].group = "BRU"
         \/ c[s].trap_valid
    /\ s + 1 \in DOMAIN c =>
         c[s + 1].pc = c[s].next_pc \/ c[s + 1].op \in {"BSTART", "BSTART_CALL", "FENTRY"}
=============================================================================
