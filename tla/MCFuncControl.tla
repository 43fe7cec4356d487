---------------------------- MODULE MCFuncControl ----------------------------
(***************************************************************************)
(* Small programs for FuncControl: two blocks of any shape, and functions  *)
(* that call one another.  Targets are written as slots (positions in the  *)
(* program) and laid out as addresses.                                     *)
(***************************************************************************)
EXTENDS FuncControl

Len_(insn) == IF insn \in {"C.BSTOP", "C.BSTART", "C.BSTART.STD"} THEN 2 ELSE 4

I(insn) == [insn |-> insn, kind |-> "None", group |-> "ALU", slot |-> 0, ret |-> 0,
            reg |-> 3, first |-> 10, last |-> 10, size |-> 1]
Hdr(form, kind, slot) == [I(form) EXCEPT !.kind = kind, !.slot = slot]
CallHdr(slot, ret) == [I("BSTART CALL") EXCEPT !.slot = slot, !.ret = ret]
Load(reg, slot) == [I("compute") EXCEPT !.reg = reg, !.ret = slot]
Macro(insn, first, last, size) ==
  [I(insn) EXCEPT !.first = first, !.last = last, !.size = size]
Jmp(insn, slot) == [I(insn) EXCEPT !.slot = slot, !.group = "BRU"]

\* Addresses of the slots of program p; the first is at entry_pc.
Layout(p) ==
  LET upTo[i \in 1 .. Len(p)] ==   \* the addresses of the first i slots
        IF i = 1 THEN <<entry_pc>>
        ELSE LET q == upTo[i - 1] IN Append(q, q[i - 1] + Len_(p[i - 1].insn))
      at == upTo[Len(p)]
      addr(i) == IF i = 0 THEN 0 ELSE at[i]
      insn(i) == [insn |-> p[i].insn, kind |-> p[i].kind, group |-> p[i].group,
                  len |-> Len_(p[i].insn), target |-> addr(p[i].slot), imm |-> addr(p[i].ret),
                  reg |-> p[i].reg, first |-> p[i].first, last |-> p[i].last,
                  size |-> p[i].size]
  IN [a \in {at[i] : i \in 1 .. Len(p)} |-> insn(CHOOSE i \in 1 .. Len(p) : at[i] = a)]

\* Two blocks, at slots 3 and 6, and a last one at slot 9.  Register 3 holds
\* the address of the second; SETC.TGT and JR read it.
Headers(own, other) ==
  {Hdr("BSTART.STD", k, other) : k \in {"Cond", "Direct", "Call"}}
  \cup {Hdr("BSTART.STD", k, 0) : k \in {"Fall", "Ret", "ICall"}}
  \cup {Hdr("C.BSTART.STD", k, 0) : k \in {"Ind", "ICall", "Ret", "Call"}}
  \cup {Hdr("C.BSTART", "Cond", own), CallHdr(other, 9)}

Setups == {I("SETC"), I("SETC.TGT"), [I("SETRET") EXCEPT !.ret = 9]}
Ends == {I("C.BSTOP"), Load(4, 0)}

TwoBlocks ==
  {Layout(<<Load(3, 6), before, h1, s1, e1, h2, s2, e2, Hdr("BSTART.STD", "Fall", 0), last>>) :
     before \in {I("SETC.TGT"), [I("SETRET") EXCEPT !.ret = 3]}, h1 \in Headers(3, 6), s1 \in Setups, e1 \in Ends,
     h2 \in Headers(6, 9), s2 \in Setups, e2 \in Ends, last \in {Jmp("J", 3)}}

\* A block in which every other instruction occurs once.
OneBlock ==
  {Layout(<<Load(3, 2), Hdr("C.BSTART", "Direct", 2), last, I("EBREAK")>>) :
     last \in {Jmp("JR", 0), I("ACRC"), I("EBREAK"), I("unsupported"), I("undecoded")}}

\* A program that calls f (slot 5), which calls g (slot 10).  Frames of one,
\* two and three registers, one of them wrapping around, one too small; the
\* functions may close another frame than they opened.
Shapes == {<<10, 10, 1>>, <<10, 11, 3>>, <<23, 3, 3>>, <<10, 11, 1>>}
M(insn, s) == Macro(insn, s[1], s[2], s[3])
Returns == {"FRET.STK", "FRET.RA", "FEXIT"}

Functions ==
  {Layout(<<CallHdr(5, 3), I("C.BSTOP"), Hdr("BSTART.STD", "Fall", 0), I("EBREAK"),
            M("FENTRY", a), body, CallHdr(10, 9), I("C.BSTOP"), M(r1, b),
            M("FENTRY", c), Load(11, 3), M(r2, d)>>) :
     a \in Shapes, b \in Shapes, c \in Shapes, d \in Shapes, r1 \in Returns, r2 \in Returns,
     body \in {Load(11, 9), Load(REG_SP, 0)}}

SmallImages == TwoBlocks \cup OneBlock \cup Functions
=============================================================================
