--------------------------- MODULE MCCycleEngine ---------------------------
(***************************************************************************)
(* The cycle engine over commit streams written as sequences of            *)
(* instructions.  Place gives them addresses: an instruction follows the   *)
(* one before it, four bytes on, unless that one is taken.                 *)
(***************************************************************************)
EXTENDS CycleEngine

CONSTANT Programs  \* the instruction sequences to replay

Instr(op, group) ==
  [op |-> op, group |-> group, mem |-> "none", wb |-> None, wb_queue |-> FALSE,
   src |-> <<None, None>>, kind |-> "None", trap_valid |-> FALSE, taken |-> FALSE,
   home |-> 0]

Reading(d, r) == [d EXCEPT !.src = <<[reg |-> r, rel |-> IF r = "T" THEN 1 ELSE 0], None>>]
Writing(d, r) == [d EXCEPT !.wb = r, !.wb_queue = r = "T"]
Taken(d) == [d EXCEPT !.taken = TRUE]

Alu == Instr("PLAIN", "ALU")
Load == [Instr("PLAIN", "LDA") EXCEPT !.mem = "load"]
Store == [Instr("PLAIN", "STA") EXCEPT !.mem = "store"]
Setc == Instr("PLAIN", "BRU")
Jump == Taken(Setc)
SetcTgt == Reading(Instr("SETC_TGT", "SYS"), "ra")
CSetcTgt == Reading(Instr("SETC_TGT", "ALU"), "ra")
Setret == Writing(Instr("SETRET", "BRU"), "ra")
Bstart(kind) == [Instr("BSTART", "CMD") EXCEPT !.kind = kind]
BypassBstart(kind) == [Instr("BSTART", "BBD") EXCEPT !.kind = kind]
BstartCall == Writing(Instr("BSTART_CALL", "BBD"), "ra")
Bstop == Instr("BSTOP", "CMD")
Fentry == Writing(Instr("FENTRY", "CMD"), "sp")
FretStk == Taken(Writing(Instr("FRET_STK", "CMD"), "sp"))
\* An uncompressed write to T, which names no queue (`->{t, u, Rd}').
Untagged(d) == [d EXCEPT !.wb = "T", !.wb_queue = FALSE]
Ebreak == [Instr("PLAIN", "SYS") EXCEPT !.trap_valid = TRUE]

\* The address of the k-th instruction, counting from 0.
PcOf(q, k) ==
  LET at == IF k < Len(q) /\ q[k + 1].home # 0 THEN q[k + 1].home - 1 ELSE k
  IN 4096 + 4 * at + 64 * Cardinality({j \in 1 .. at : q[j].taken})

\* The same instructions again, at the same addresses: a loop.
Twice(q) == q \o [k \in DOMAIN q |-> [q[k] EXCEPT !.home = k]]

\* Where the block that k is in ends.
BlockExit(q, k) ==
  LET ends == {j \in k .. Len(q) : q[j].taken}
  IN PcOf(q, IF ends = {} THEN Len(q) ELSE Min(ends))

\* A header that ends the block before it is reached by no commit: the one
\* before it falls through.
MayLeave(d) == d.taken \/ d.op = "BSTOP"

Place(q) ==
  [s \in 0 .. Len(q) - 1 |->
     [pc |-> PcOf(q, s), len |-> 4, target |-> BlockExit(q, s + 1),
      next_pc |-> IF MayLeave(q[s + 1]) THEN PcOf(q, s + 1) ELSE PcOf(q, s) + 4]
       @@ q[s + 1]]

Streams == {Place(q) : q \in Programs}
-----------------------------------------------------------------------------
(* Streams without a taken boundary.                                       *)
CONSTANT N

StraightKinds ==
  {Setc, Load, Bstart("Fall"), BypassBstart("Cond"), Writing(Alu, "a0"), Reading(Store, "a0"),
   Writing(Reading(Alu, "a0"), "T"), Writing(Reading(Load, "T"), "T"), Reading(Alu, "T"), Bstop}

StraightPrograms == [1 .. N -> StraightKinds]

(* Streams of blocks, some of them taken, repeated or called.              *)
Blocks ==
  {<<head>> \o body \o end :
     head \in {Bstart("Fall"), Bstart("Direct"), BypassBstart("Cond")},
     body \in {<<Alu>>, <<Setc>>, <<Writing(Alu, "T"), Reading(Alu, "T")>>,
              <<Writing(Load, "a0"), Reading(Store, "a0")>>},
     end \in {<<>>, <<Bstop>>, <<Taken(Bstop)>>}}
Calls ==
  {<<Bstart("Call"), Setret, Taken(Bstop)>>, <<BypassBstart("Call"), Setret, Bstop>>,
   <<Fentry, Alu, FretStk>>, <<Fentry, Load>>}
LastBlock == <<Bstart("Fall"), Alu, Bstop>>

BlockPrograms ==
  {a \o b \o LastBlock : a \in Blocks \cup Calls, b \in Calls}
    \cup {Twice(a) \o LastBlock : a \in Blocks}
    \cup {a \o LastBlock : a \in Blocks}

(* Streams that raise the traps of recovery, at once or behind slow loads. *)
SlowLoads == <<Writing(Load, "a0"), Writing(Reading(Load, "a0"), "a0"), Reading(Alu, "a0")>>
Faults ==
  {<<Bstart("Call"), Alu, Setret, Bstop>>, <<Bstart("Ret"), SetcTgt, Taken(Bstop)>>,
   <<Bstart("Ret"), SetcTgt, Jump>>, <<Bstart("Cond"), Jump>>, <<Setret>>,
   <<Fentry, Alu, FretStk, BstartCall>>}
TrapPrograms == {a \o b \o LastBlock : a \in {<<>>, SlowLoads}, b \in Faults}

BlockAndTrapPrograms == BlockPrograms \cup TrapPrograms
BlockStreams == {Place(q) : q \in BlockPrograms}

\* The cycle engine replays every stream of blocks, as Replays says.
BlocksReplay == step = "exit" /\ [s \in Seqs |-> C(s)] \in BlockStreams => Replays

(* Single streams.                                                         *)
RetHeader == {<<Bstart("Ret"), SetcTgt, Taken(Bstop)>> \o LastBlock}
ReturnToCall == {<<Fentry, FretStk, BstartCall, Taken(Bstop)>> \o LastBlock}
SetretRetried ==
  {[k \in 1 .. 20 |-> <<Bstart("Fall"), Setc, Alu, Alu>>[1 + ((k - 1) % 4)]]
     \o <<BypassBstart("Call"), Setret, Taken(Bstop)>> \o LastBlock}
Chain == Writing(Reading(Alu, "a0"), "a0")
DoneLoad ==
  {<<Bstart("Fall"), Chain, Chain, Chain, Chain, Chain, Load>> \o [k \in 1 .. 28 |-> Setc]
     \o <<Taken(Bstop), Bstart("Fall"), Load, Bstop>>}
ThreeLoads == {<<Bstart("Fall"), Load, Load, Load, Bstop>>}
UntaggedT == {<<Bstart("Fall"), Untagged(Alu), Reading(Alu, "T"), Bstop>>}
=============================================================================
