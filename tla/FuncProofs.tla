------------------------------ MODULE FuncProofs ------------------------------
(***************************************************************************)
(* Two facts about the functional engine, for every program, stack size    *)
(* and step limit: a block ends as its own instructions decided, and a     *)
(* return undoes the entry it matches.  The first is inductive once the    *)
(* state is known to have its fields.  The second needs to know that the   *)
(* frames open lie one below the other, the last at the stack pointer, and *)
(* that each still holds what its FENTRY saved: a later FENTRY writes only *)
(* below the stack pointer, so below them all.                             *)
(***************************************************************************)
EXTENDS FuncControl, SequenceTheorems, TLAPS

\* Leaves go to SMT, with time to spare, unless they name another prover.
USE SMTT(60)

\* The fields of an ExecState, its registers and its stack are all there.
Fields == {"pc", "regs", "stack", "block", "cond", "target"}

Shape(st) ==
  /\ DOMAIN st = Fields
  /\ DOMAIN st.block = {"kind", "target", "return_target"}
  /\ DOMAIN st.regs = Registers
  /\ DOMAIN st.stack = 0 .. StackWords - 1
  /\ st.regs[REG_SP] \in Int

\* What the end of the block depends on is as before, or is reset; the stack
\* and the stack pointer are as before.
SameSetup(st, new) ==
  new.block.kind = st.block.kind /\ new.cond = st.cond /\ new.target = st.target
NoSetup(new) == new.cond = FALSE /\ new.target = 0
SameStack(st, new) == new.stack = st.stack /\ new.regs[REG_SP] = st.regs[REG_SP]

\* The registers by number.
LEMMA RegistersAre == Registers = 1 .. 23 /\ REG_SP = 1 /\ REG_A0 = 2 /\ REG_RA = 10
  BY DEF Registers, REG_SP, REG_A0, REG_RA, LastReg

\* A macro instruction names 1 to 22 registers, none of them the stack pointer.
LEMMA SavedRegs ==
  ASSUME NEW d, d.first \in Int, d.last \in Int
  PROVE  /\ Len(Saved(d)) \in 1 .. 22
         /\ DOMAIN Saved(d) = 1 .. Len(Saved(d))
         /\ \A i \in DOMAIN Saved(d) : Saved(d)[i] \in 2 .. 23
<1> DEFINE n == ((d.last - d.first) % 22) + 1
           r(i) == 2 + ((d.first - 2 + i - 1) % 22)
<1>1. n \in 1 .. 22
  OBVIOUS
<1>2. \A i \in 1 .. n : r(i) \in 2 .. 23
  OBVIOUS
<1>3. Saved(d) = [i \in 1 .. n |-> r(i)]
  BY DEF Saved, wrapped_reg_sequence
<1> HIDE DEF n, r
<1>4. Saved(d) \in Seq(2 .. 23) /\ Len(Saved(d)) = n
  BY <1>1, <1>2, <1>3
<1> QED
  BY <1>1, <1>2, <1>3, <1>4

\* Ending a block resets its set-up and leaves the stack alone.
LEMMA Ended ==
  ASSUME NEW st, Shape(st), NEW behind, NEW new, new = resolve_block_end(st, behind)
  PROVE  /\ Shape(new) /\ new.stack = st.stack /\ new.regs[REG_SP] = st.regs[REG_SP]
         /\ new.block.kind = "None" /\ new.cond = FALSE /\ new.target = 0
  BY RegistersAre DEF Shape, Fields, resolve_block_end, NoBlock

\* So does opening one.
LEMMA Opened ==
  ASSUME NEW st, Shape(st), NEW kind, NEW target
  PROVE  /\ Shape(set_block(st, kind, target))
         /\ SameStack(st, set_block(st, kind, target))
         /\ NoSetup(set_block(st, kind, target))
<1> DEFINE new == set_block(st, kind, target)
<1>1. Shape(new) /\ SameStack(st, new) /\ NoSetup(new)
  BY DEF Shape, Fields, set_block, SameStack, NoSetup
<1> QED
  BY <1>1

\* A header executes with no block open, anything else in the state as it is.
LEMMA EnteredAs ==
  ASSUME Shape(state)
  PROVE  /\ Shape(Entered) /\ Entered.stack = state.stack
         /\ Entered.regs[REG_SP] = state.regs[REG_SP]
         /\ starts_new_block(Insn) => Entered.block.kind = "None"
         /\ ~starts_new_block(Insn) => Entered = state
<1>1. CASE state.block.kind # "None" /\ starts_new_block(Insn)
  <2>1. Entered = resolve_block_end(state, pc)
    BY <1>1 DEF Entered
  <2> QED
    BY <1>1, <2>1, Ended, Zenon
<1>2. CASE ~(state.block.kind # "None" /\ starts_new_block(Insn))
  <2>1. Entered = state
    BY <1>2, Zenon DEF Entered
  <2> QED
    BY <1>2, <2>1, Zenon
<1> QED
  BY <1>1, <1>2, Zenon

\* Writing the return address, in ra and in the block, changes neither.
LEMMA Linked ==
  ASSUME NEW st, Shape(st), NEW x, NEW y, NEW new,
         new = [st EXCEPT !.regs[REG_RA] = x, !.block.return_target = y]
  PROVE  Shape(new) /\ SameSetup(st, new) /\ SameStack(st, new)
  BY RegistersAre DEF Shape, Fields, SameSetup, SameStack

\* Nor does writing a register other than the stack pointer.
LEMMA Written ==
  ASSUME NEW st, Shape(st), NEW r, NEW x \in Int, NEW new, new = [st EXCEPT !.regs[r] = x]
  PROVE  Shape(new) /\ SameSetup(st, new) /\ (r # REG_SP => SameStack(st, new))
  BY RegistersAre DEF Shape, Fields, SameSetup, SameStack

\* What apply_fentry does to the stack pointer and to each word of the stack.
LEMMA FrameOpened ==
  ASSUME NEW st, Shape(st), NEW d, d.size \in Nat, NEW new, new = apply_fentry(st, d)
  PROVE  /\ Shape(new) /\ SameSetup(st, new)
         /\ new.regs[REG_SP] = st.regs[REG_SP] - d.size
         /\ \A w \in DOMAIN st.stack :
              new.stack[w] = IF st.regs[REG_SP] - w \in DOMAIN Saved(d)
                             THEN st.regs[Saved(d)[st.regs[REG_SP] - w]] ELSE st.stack[w]
  BY RegistersAre DEF Shape, Fields, SameSetup, apply_fentry

\* The registers a frame below `top' saved are what the stack holds for them.
Restored(d, st, new, top) ==
  \A i \in DOMAIN Saved(d) : \E k \in DOMAIN Saved(d) :
    Saved(d)[k] = Saved(d)[i] /\ new.regs[Saved(d)[i]] = st.stack[top - k]

\* What apply_fexit does to the stack pointer and to the saved registers.
LEMMA FrameClosed ==
  ASSUME NEW st, Shape(st), NEW d, d.size \in Nat, d.first \in Int, d.last \in Int,
         NEW new, new = apply_fexit(st, d), NEW top, top = st.regs[REG_SP] + d.size
  PROVE  /\ Shape(new) /\ SameSetup(st, new) /\ new.stack = st.stack
         /\ new.regs[REG_SP] = top /\ Restored(d, st, new, top)
<1> DEFINE slot(r) == CHOOSE i \in DOMAIN Saved(d) : Saved(d)[i] = r
           regs == [r \in DOMAIN st.regs |->
                      IF r = REG_SP THEN top
                      ELSE IF \E i \in DOMAIN Saved(d) : Saved(d)[i] = r
                           THEN st.stack[SlotBelow(top, slot(r))] ELSE st.regs[r]]
<1>1. new = [st EXCEPT !.regs = regs]
  BY DEF apply_fexit
<1>2. DOMAIN regs = Registers
  BY DEF Shape
<1>3. regs[REG_SP] = top /\ top \in Int
  BY RegistersAre DEF Shape
<1>4. ASSUME NEW i \in DOMAIN Saved(d)
      PROVE  \E k \in DOMAIN Saved(d) :
               Saved(d)[k] = Saved(d)[i] /\ regs[Saved(d)[i]] = st.stack[top - k]
  <2>1. Saved(d)[i] \in Registers /\ Saved(d)[i] # REG_SP
    BY SavedRegs, RegistersAre
  <2>2. slot(Saved(d)[i]) \in DOMAIN Saved(d) /\ Saved(d)[slot(Saved(d)[i])] = Saved(d)[i]
    BY Zenon
  <2>3. regs[Saved(d)[i]] = st.stack[top - slot(Saved(d)[i])]
    BY <2>1 DEF Shape, SlotBelow
  <2> HIDE DEF regs, slot
  <2> QED
    BY <2>2, <2>3
<1> HIDE DEF regs, slot
<1>5. new.regs = regs /\ new.stack = st.stack /\ Shape(new) /\ SameSetup(st, new)
  BY <1>1, <1>2, <1>3 DEF Shape, Fields, SameSetup
<1> QED
  BY <1>3, <1>4, <1>5, Zenon DEF Restored

\* leave_block resets the set-up and leaves registers and stack alone.
LEMMA Left ==
  ASSUME NEW st, Shape(st), NEW new, new = leave_block(st)
  PROVE  Shape(new) /\ NoSetup(new) /\ new.stack = st.stack /\ new.regs = st.regs
  BY DEF Shape, Fields, NoSetup, leave_block, NoBlock

\* A SETC opens no block.
LEMMA NotHeader ==
  ASSUME NEW d, d.insn \in {"SETC", "SETC.TGT"}
  PROVE  ~starts_new_block(d)
  BY Zenon DEF starts_new_block

\* The right side of OwnSetup, of a list of commits and an image.
SetUpIn(c, im) ==
  \E k \in DOMAIN c :
    /\ im[c[k].pc].insn \in {"SETC", "SETC.TGT"}
    /\ \A j \in k .. Len(c) : ~starts_new_block(im[c[j].pc])

\* A commit that opens no block leaves the SETC behind the last header.
LEMMA SetUpKept ==
  ASSUME NEW S, NEW c \in Seq(S), NEW r, NEW im, SetUpIn(c, im), ~starts_new_block(im[r.pc])
  PROVE  SetUpIn(Append(c, r), im)
<1>1. PICK k \in DOMAIN c :
        /\ im[c[k].pc].insn \in {"SETC", "SETC.TGT"}
        /\ \A j \in k .. Len(c) : ~starts_new_block(im[c[j].pc])
  BY DEF SetUpIn
<1> DEFINE n == Len(c)
           d == Append(c, r)
<1>2. n \in Nat /\ k \in 1 .. n /\ Len(d) = n + 1 /\ DOMAIN d = 1 .. n + 1
  OBVIOUS
<1>3. (\A j \in 1 .. n : d[j] = c[j]) /\ d[n + 1] = r
  OBVIOUS
<1> HIDE DEF d
<1>4. ASSUME NEW j \in k .. Len(d)
      PROVE  ~starts_new_block(im[d[j].pc])
  <2>1. j \in k .. n \/ j = n + 1
    BY <1>2
  <2> QED
    BY <1>1, <1>2, <1>3, <2>1
<1>5. SetUpIn(d, im)
  BY <1>1, <1>2, <1>3, <1>4 DEF SetUpIn
<1> QED
  BY <1>5 DEF d

\* The commit of a SETC puts one there.
LEMMA SetUpNow ==
  ASSUME NEW S, NEW c \in Seq(S), NEW r, NEW im, im[r.pc].insn \in {"SETC", "SETC.TGT"}
  PROVE  SetUpIn(Append(c, r), im)
<1> DEFINE d == Append(c, r)
<1>1. Len(d) \in Nat /\ Len(d) \in DOMAIN d /\ d[Len(d)] = r
  <2> DEFINE n == Len(c)
  <2>1. n \in Nat /\ Len(d) = n + 1 /\ DOMAIN d = 1 .. n + 1 /\ d[n + 1] = r
    OBVIOUS
  <2> HIDE DEF d, n
  <2> QED
    BY <2>1
<1>2. ~starts_new_block(im[r.pc])
  BY NotHeader
<1> HIDE DEF d
<1>3. \A j \in Len(d) .. Len(d) : j = Len(d)
  BY <1>1
<1>4. SetUpIn(d, im)
  BY <1>1, <1>2, <1>3 DEF SetUpIn
<1> QED
  BY <1>4 DEF d

\* The stack pointer below a frame.
Bottom(f) == f.regs[REG_SP] - f.size

\* The stack holds the registers that the FENTRY of f saved.
FrameHeld(f, stack) ==
  /\ f.first \in Int /\ f.last \in Int /\ f.size \in Nat /\ f.regs[REG_SP] \in Int
  /\ Len(Saved(f)) <= f.size
  /\ \A i \in DOMAIN Saved(f) :
       /\ f.regs[REG_SP] - i \in DOMAIN stack
       /\ stack[f.regs[REG_SP] - i] = f.regs[Saved(f)[i]]

\* Every open frame is held; each lies below all before it, begins where the
\* one before it ends, and the last ends at the stack pointer.
FramesHeld(fs, st) ==
  /\ \E S : fs \in Seq(S)
  /\ \A n \in 1 .. Len(fs) : FrameHeld(fs[n], st.stack)
  /\ \A m, n \in 1 .. Len(fs) : m < n => fs[n].regs[REG_SP] <= Bottom(fs[m])
  /\ \A n \in 1 .. Len(fs) :
       Bottom(fs[n]) = IF n = Len(fs) THEN st.regs[REG_SP] ELSE fs[n + 1].regs[REG_SP]

\* Frames are held as long as stack and stack pointer are as before.
LEMMA FramesKept ==
  ASSUME NEW fs, NEW st, FramesHeld(fs, st), NEW new, SameStack(st, new)
  PROVE  FramesHeld(fs, new)
<1>1. new.stack = st.stack /\ new.regs[REG_SP] = st.regs[REG_SP]
  BY DEF SameStack
<1> QED
  BY <1>1, Zenon DEF FramesHeld

\* There is nothing to hold when no frame is open.
LEMMA NoFrames ==
  ASSUME NEW st
  PROVE  FramesHeld(<<>>, st)
<1>1. <<>> \in Seq({}) /\ Len(<<>>) = 0
  OBVIOUS
<1>2. \A n \in 1 .. 0 : FALSE
  OBVIOUS
<1>3. \A n \in 1 .. Len(<<>>) : FALSE
  BY <1>1, <1>2
<1> QED
  BY <1>1, <1>2, <1>3, Zenon DEF FramesHeld

\* Closing the last frame gives its stack pointer back; the others are held.
LEMMA FramesPopped ==
  ASSUME NEW fs, NEW st, FramesHeld(fs, st), fs # <<>>, NEW new, new.stack = st.stack,
         new.regs[REG_SP] = fs[Len(fs)].regs[REG_SP]
  PROVE  FramesHeld(SubSeq(fs, 1, Len(fs) - 1), new)
<1>1. PICK S : fs \in Seq(S)
  BY DEF FramesHeld
<1> DEFINE n == Len(fs)
           gs == SubSeq(fs, 1, n - 1)
<1>2. n \in Nat \ {0} /\ gs \in Seq(S) /\ Len(gs) = n - 1
  <2>1. n \in Nat \ {0}
    BY <1>1, EmptySeq
  <2>2. \A i \in 1 .. n - 1 : fs[i] \in S
    BY <1>1, <2>1
  <2> HIDE DEF n
  <2>3. n - 1 \in Int /\ (IF 1 <= n - 1 THEN (n - 1) - 1 + 1 ELSE 0) = n - 1
    BY <2>1
  <2> QED
    BY <2>1, <2>2, <2>3, SubSeqProperties
<1>3. \A i \in 1 .. n - 1 : gs[i] = fs[i]
  BY <1>1, <1>2
<1>4. 1 .. n - 1 \subseteq 1 .. n /\ \A i \in 1 .. n - 1 : i # n /\ i + 1 \in 1 .. n
  BY <1>2
<1> HIDE DEF gs
<1>5. \A i \in 1 .. n - 1 : FrameHeld(gs[i], new.stack)
  <2> TAKE i \in 1 .. n - 1
  <2>1. FrameHeld(fs[i], st.stack)
    BY <1>4 DEF FramesHeld
  <2> QED
    BY <1>3, <2>1
<1>6. \A i, j \in 1 .. n - 1 : i < j => gs[j].regs[REG_SP] <= Bottom(gs[i])
  BY <1>3, <1>4 DEF FramesHeld
<1>7. ASSUME NEW i \in 1 .. n - 1
      PROVE  Bottom(gs[i]) = IF i = n - 1 THEN new.regs[REG_SP] ELSE gs[i + 1].regs[REG_SP]
  <2>1. Bottom(fs[i]) = fs[i + 1].regs[REG_SP]
    BY <1>2, <1>4 DEF FramesHeld
  <2>2. CASE i = n - 1
    BY <1>2, <1>3, <2>1, <2>2
  <2>3. CASE i # n - 1
    <3>1. i + 1 \in 1 .. n - 1
      BY <1>2, <2>3
    <3> QED
      BY <1>3, <2>1, <2>3, <3>1
  <2> QED
    BY <2>2, <2>3
<1>8. FramesHeld(gs, new)
  BY <1>2, <1>5, <1>6, <1>7 DEF FramesHeld
<1> QED
  BY <1>8 DEF gs

\* FENTRY writes below the stack pointer, that is below every open frame.
LEMMA FramesPushed ==
  ASSUME NEW st, Shape(st), NEW fs, FramesHeld(fs, st),
         NEW f, f.first \in Int, f.last \in Int, f.size \in Nat, f.regs = st.regs,
         Len(Saved(f)) <= f.size,
         \A i \in DOMAIN Saved(f) : st.regs[REG_SP] - i \in DOMAIN st.stack,
         NEW new, DOMAIN new.stack = DOMAIN st.stack,
         new.regs[REG_SP] = st.regs[REG_SP] - f.size,
         \A w \in DOMAIN st.stack :
           new.stack[w] = IF st.regs[REG_SP] - w \in DOMAIN Saved(f)
                          THEN st.regs[Saved(f)[st.regs[REG_SP] - w]] ELSE st.stack[w]
  PROVE  FramesHeld(Append(fs, f), new)
<1>1. PICK S : fs \in Seq(S)
  BY DEF FramesHeld
<1> DEFINE n == Len(fs)
           gs == Append(fs, f)
           sp == st.regs[REG_SP]
<1>2. n \in Nat /\ Len(gs) = n + 1 /\ gs \in Seq(S \cup {f})
  BY <1>1
<1>3. (\A i \in 1 .. n : gs[i] = fs[i]) /\ gs[n + 1] = f
  BY <1>1
<1>4. sp \in Int /\ DOMAIN st.stack \subseteq Int
  BY FuncAssumption DEF Shape
<1> HIDE DEF gs, n
<1>5. \A i \in 1 .. n : FrameHeld(fs[i], st.stack)
  BY DEF FramesHeld, n
<1>6. \A i \in 1 .. n : Bottom(fs[i]) \in Int /\ sp <= Bottom(fs[i])
  <2> TAKE i \in 1 .. n
  <2>1. n \in 1 .. n /\ Bottom(fs[n]) = sp
    BY <1>2 DEF FramesHeld, n
  <2>2. i = n \/ (i < n /\ fs[n].regs[REG_SP] <= Bottom(fs[i]))
    BY <1>2, <2>1 DEF FramesHeld, n
  <2>3. FrameHeld(fs[i], st.stack) /\ FrameHeld(fs[n], st.stack)
    BY <1>5, <2>1
  <2> QED
    BY <1>4, <2>1, <2>2, <2>3 DEF FrameHeld, Bottom
<1>7. FrameHeld(f, new.stack)
  <2>1. DOMAIN Saved(f) \subseteq Int
    BY SavedRegs
  <2>2. \A i \in DOMAIN Saved(f) : sp - (sp - i) = i
    BY <1>4, <2>1
  <2>3. \A i \in DOMAIN Saved(f) : new.stack[sp - i] = st.regs[Saved(f)[i]]
    BY <2>2
  <2> QED
    BY <1>4, <2>3 DEF FrameHeld
<1>8. \A i \in 1 .. n : FrameHeld(fs[i], new.stack)
  <2> TAKE i \in 1 .. n
  <2> DEFINE g == fs[i]
  <2>1. FrameHeld(g, st.stack)
    BY <1>5
  <2>2. ASSUME NEW k \in DOMAIN Saved(g)
        PROVE  new.stack[g.regs[REG_SP] - k] = st.stack[g.regs[REG_SP] - k]
    <3> DEFINE w == g.regs[REG_SP] - k
    <3>1. k \in Int /\ k <= Len(Saved(g)) /\ Len(Saved(g)) <= g.size /\ Len(Saved(g)) \in Int
      BY <2>1, SavedRegs DEF FrameHeld
    <3>2. w \in DOMAIN st.stack /\ w \in Int
      BY <2>1, <3>1 DEF FrameHeld
    <3>3. w >= sp
      BY <1>4, <1>6, <2>1, <3>1 DEF FrameHeld, Bottom
    <3> HIDE DEF w
    <3>4. sp - w \notin DOMAIN Saved(f)
      BY <1>4, <3>2, <3>3, SavedRegs
    <3> QED
      BY <3>2, <3>4 DEF w
  <2> QED
    BY <2>1, <2>2 DEF FrameHeld
<1>9. \A i \in 1 .. n + 1 : FrameHeld(gs[i], new.stack)
  BY <1>2, <1>3, <1>7, <1>8
<1>10. \A i, j \in 1 .. n + 1 : i < j => gs[j].regs[REG_SP] <= Bottom(gs[i])
  <2> SUFFICES ASSUME NEW i \in 1 .. n + 1, NEW j \in 1 .. n + 1, i < j
               PROVE  gs[j].regs[REG_SP] <= Bottom(gs[i])
    OBVIOUS
  <2>1. i \in 1 .. n /\ gs[i] = fs[i]
    BY <1>2, <1>3
  <2>2. CASE j = n + 1
    BY <1>3, <1>6, <2>1, <2>2
  <2>3. CASE j \in 1 .. n
    BY <1>3, <2>1, <2>3 DEF FramesHeld, n
  <2> QED
    BY <1>2, <2>2, <2>3
<1>11. \A i \in 1 .. n + 1 :
         Bottom(gs[i]) = IF i = n + 1 THEN new.regs[REG_SP] ELSE gs[i + 1].regs[REG_SP]
  <2> TAKE i \in 1 .. n + 1
  <2>1. CASE i = n + 1
    BY <1>3, <2>1 DEF Bottom
  <2>2. CASE i = n
    <3>1. i \in 1 .. n /\ i # n + 1
      BY <1>2, <2>2
    <3>2. Bottom(fs[n]) = sp
      BY <1>2, <2>2, <3>1 DEF FramesHeld, n
    <3> QED
      BY <1>3, <2>2, <3>1, <3>2
  <2>3. CASE i \in 1 .. n /\ i # n
    <3>1. i + 1 \in 1 .. n /\ i # n + 1
      BY <1>2, <2>3
    <3>2. Bottom(fs[i]) = fs[i + 1].regs[REG_SP]
      BY <2>3 DEF FramesHeld, n
    <3> QED
      BY <1>3, <2>3, <3>1, <3>2
  <2> QED
    BY <1>2, <2>1, <2>2, <2>3
<1>12. FramesHeld(gs, new)
  BY <1>2, <1>9, <1>10, <1>11 DEF FramesHeld
<1> QED
  BY <1>12 DEF gs

-----------------------------------------------------------------------------
\* The inductive invariant.
FuncInv ==
  /\ image \in Images /\ Shape(state)
  /\ \E S : commits \in Seq(S)
  /\ OwnSetup
  /\ FramesHeld(frames, state)

\* The fields of the instruction at pc, by the assumption on images.
LEMMA Decoded ==
  ASSUME FuncInv, pc \in DOMAIN image
  PROVE  Insn.first \in Int /\ Insn.last \in Int /\ Insn.size \in Nat /\ Insn.imm \in Int
  BY ImagesAssumption DEF FuncInv, Insn

\* OwnSetup, with its right side named.
LEMMA OwnSetupIs ==
  OwnSetup = (state.block.kind # "None" /\ (state.cond \/ state.target # 0)
                => SetUpIn(commits, image))
  BY Zenon DEF OwnSetup, SetUpIn, CommittedInsn

\* What a committed instruction does to the set-up of the block end: nothing
\* (and it is no header), or it resets it, or no block is open, or it sets it.
Decides(st) ==
  \/ SameSetup(state, st) /\ ~starts_new_block(Insn)
  \/ NoSetup(st)
  \/ st.block.kind = "None"
  \/ Insn.insn \in {"SETC", "SETC.TGT"}

\* A commit changes nothing but pc in the state it is given.
LEMMA Committed ==
  ASSUME NEW st, Shape(st), NEW next_pc, NEW trap_valid, NEW exit,
         Commit(st, next_pc, trap_valid, exit)
  PROVE  /\ Shape(state') /\ state'.stack = st.stack /\ state'.regs = st.regs
         /\ state'.block = st.block /\ state'.cond = st.cond /\ state'.target = st.target
         /\ state'.pc = next_pc
<1> DEFINE new == [st EXCEPT !.pc = next_pc]
<1>1. /\ Shape(new) /\ new.stack = st.stack /\ new.regs = st.regs
      /\ new.block = st.block /\ new.cond = st.cond /\ new.target = st.target
      /\ new.pc = next_pc
  BY DEF Shape, Fields
<1> HIDE DEF new
<1>2. state' = new
  BY DEF new, Commit
<1> QED
  BY <1>1, <1>2, Zenon

\* A commit keeps the invariant if the state it leaves fits the instruction.
LEMMA CommitKeeps ==
  ASSUME FuncInv, NEW st, NEW next_pc, NEW trap_valid, NEW exit,
         Commit(st, next_pc, trap_valid, exit), Shape(st), Decides(st),
         FramesHeld(frames', st)
  PROVE  FuncInv'
<1> DEFINE r == Record(next_pc, trap_valid)
<1>1. state' = [st EXCEPT !.pc = next_pc] /\ commits' = Append(commits, r) /\ image' = image
  BY DEF Commit
<1>2. /\ Shape(state') /\ state'.stack = st.stack /\ state'.regs = st.regs
      /\ state'.block = st.block /\ state'.cond = st.cond /\ state'.target = st.target
  BY Committed
<1>3. image[r.pc] = Insn
  BY DEF Record, Insn
<1> HIDE DEF r
<1>4. PICK S : commits \in Seq(S)
  BY DEF FuncInv
<1>5. commits' \in Seq(S \cup {r})
  BY <1>1, <1>4
<1>6. FramesHeld(frames', state')
  BY <1>2, FramesKept, Zenon DEF SameStack
<1>7. state'.block.kind # "None" /\ (state'.cond \/ state'.target # 0)
        => SetUpIn(commits', image')
  <2> SUFFICES ASSUME state'.block.kind # "None", state'.cond \/ state'.target # 0
               PROVE  SetUpIn(commits', image')
    BY Zenon
  <2>1. CASE SameSetup(state, st) /\ ~starts_new_block(Insn)
    <3>1. SetUpIn(commits, image)
      BY <1>2, <2>1, OwnSetupIs, Zenon DEF FuncInv, SameSetup
    <3> QED
      BY <1>1, <1>3, <1>4, <2>1, <3>1, SetUpKept, Zenon
  <2>2. CASE NoSetup(st)
    BY <1>2, <2>2, Zenon DEF NoSetup
  <2>3. CASE st.block.kind = "None"
    BY <1>2, <2>3, Zenon
  <2>4. CASE Insn.insn \in {"SETC", "SETC.TGT"}
    <3>1. image[r.pc].insn \in {"SETC", "SETC.TGT"}
      BY <1>3, <2>4, Zenon
    <3>2. SetUpIn(Append(commits, r), image)
      BY <1>4, <3>1, SetUpNow
    <3> QED
      BY <1>1, <3>2, Zenon
  <2> QED
    BY <2>1, <2>2, <2>3, <2>4, Zenon DEF Decides
<1>8. OwnSetup'
  BY <1>7, Zenon DEF OwnSetup, SetUpIn, CommittedInsn
<1> QED
  BY <1>1, <1>2, <1>5, <1>6, <1>8, Zenon DEF FuncInv

\* A failed instruction keeps it.
LEMMA FaultKeeps ==
  ASSUME FuncInv, Fault, frames' = frames
  PROVE  FuncInv'
<1>1. Shape(state) /\ FramesHeld(frames, state)
  BY DEF FuncInv
<1>2. Decides(Entered)
  BY <1>1, EnteredAs, Zenon DEF Decides, SameSetup
<1>3. FramesHeld(frames', Entered)
  BY <1>1, EnteredAs, FramesKept, Zenon DEF SameStack
<1> QED
  BY <1>1, <1>2, <1>3, EnteredAs, CommitKeeps, Zenon DEF Fault

\* Stack pointer and saved registers are those at the entry of f.
Regains(regs, d, f) ==
  /\ regs[REG_SP] = f.regs[REG_SP]
  /\ \A i \in DOMAIN Saved(d) : regs[Saved(d)[i]] = f.regs[Saved(d)[i]]

\* apply_fexit, when it closes the last frame in its own shape, gives back
\* the registers at the entry.
LEMMA ClosedAs ==
  ASSUME FuncInv, pc \in DOMAIN image, NEW new, new = apply_fexit(state, Insn)
  PROVE  /\ Shape(new) /\ SameSetup(state, new) /\ new.stack = state.stack
         /\ ClosesTop(Insn) => Regains(new.regs, Insn, TopFrame)
<1> DEFINE d == Insn
           f == TopFrame
           n == Len(frames)
           top == state.regs[REG_SP] + d.size
<1>1. /\ d.first \in Int /\ d.last \in Int /\ d.size \in Nat
      /\ Shape(state) /\ FramesHeld(frames, state)
  BY Decoded DEF FuncInv
<1> HIDE DEF d, top
<1>2. /\ Shape(new) /\ SameSetup(state, new) /\ new.stack = state.stack
      /\ new.regs[REG_SP] = top /\ Restored(d, state, new, top)
  <2>1. new = apply_fexit(state, d)
    BY DEF d
  <2>2. top = state.regs[REG_SP] + d.size
    BY DEF top
  <2> QED
    BY <1>1, <2>1, <2>2, FrameClosed
<1>3. ASSUME ClosesTop(d)
      PROVE  Regains(new.regs, d, f)
  <2>1. frames # <<>> /\ f.first = d.first /\ f.last = d.last /\ f.size = d.size
    BY <1>3 DEF ClosesTop, SameShape
  <2>2. n \in 1 .. n
    <3>1. PICK S : frames \in Seq(S)
      BY <1>1 DEF FramesHeld
    <3>2. n \in Nat \ {0}
      BY <2>1, <3>1, EmptySeq
    <3> QED
      BY <3>2
  <2>3. FrameHeld(f, state.stack) /\ Bottom(f) = state.regs[REG_SP]
    BY <1>1, <2>2 DEF FramesHeld, TopFrame
  <2> HIDE DEF f, n
  <2>4. Saved(f) = Saved(d)
    BY <2>1 DEF Saved
  <2>5. f.regs[REG_SP] = top
    BY <1>1, <2>1, <2>3 DEF FrameHeld, Bottom, Shape, top
  <2>6. ASSUME NEW i \in DOMAIN Saved(d)
        PROVE  new.regs[Saved(d)[i]] = f.regs[Saved(d)[i]]
    <3>1. PICK k \in DOMAIN Saved(d) :
            Saved(d)[k] = Saved(d)[i] /\ new.regs[Saved(d)[i]] = state.stack[top - k]
      BY <1>2 DEF Restored
    <3>2. state.stack[top - k] = f.regs[Saved(d)[k]]
      BY <2>3, <2>4, <2>5 DEF FrameHeld
    <3> QED
      BY <3>1, <3>2
  <2> QED
    BY <1>2, <2>5, <2>6 DEF Regains
<1> QED
  BY <1>2, <1>3, Zenon DEF d

\* The frames left by a FEXIT or FRET are held.
LEMMA CloseKeepsFrames ==
  ASSUME FuncInv, CloseFrame, NEW new, new.stack = state.stack,
         ClosesTop(Insn) => new.regs[REG_SP] = TopFrame.regs[REG_SP]
  PROVE  FramesHeld(frames', new)
<1>1. FramesHeld(frames, state)
  BY DEF FuncInv
<1>2. CASE ClosesTop(Insn)
  <2>1. frames # <<>> /\ frames' = SubSeq(frames, 1, Len(frames) - 1)
    BY <1>2 DEF ClosesTop, CloseFrame
  <2>2. new.regs[REG_SP] = frames[Len(frames)].regs[REG_SP]
    BY <1>2 DEF TopFrame
  <2>3. FramesHeld(SubSeq(frames, 1, Len(frames) - 1), new)
    BY <1>1, <2>1, <2>2, FramesPopped
  <2> QED
    BY <2>1, <2>3, Zenon
<1>3. CASE ~ClosesTop(Insn)
  BY <1>3, NoFrames, Zenon DEF CloseFrame
<1> QED
  BY <1>2, <1>3, Zenon

\* A commit that leaves stack and frames alone.
LEMMA QuietKeeps ==
  ASSUME FuncInv, NEW st, NEW next_pc, NEW trap_valid, NEW exit,
         Commit(st, next_pc, trap_valid, exit), Shape(st), Decides(st),
         SameStack(state, st), frames' = frames
  PROVE  FuncInv'
<1>1. FramesHeld(frames', st)
  BY FramesKept, Zenon DEF FuncInv
<1> QED
  BY <1>1, CommitKeeps, Zenon

\* The actions, one by one: a header,
LEMMA HeaderKeeps ==
  ASSUME FuncInv, Header
  PROVE  FuncInv'
<1>1. frames' = frames
  BY DEF Header
<1>2. CASE Fault
  BY <1>1, <1>2, FaultKeeps
<1>3. CASE Retire(set_block(Entered, block_kind(Insn), Insn.target), fallthrough)
  <2> DEFINE st == set_block(Entered, block_kind(Insn), Insn.target)
  <2>1. Shape(Entered) /\ SameStack(state, Entered)
    BY EnteredAs, Zenon DEF FuncInv, SameStack
  <2>2. Shape(st) /\ SameStack(Entered, st) /\ NoSetup(st)
    BY <2>1, Opened, Zenon
  <2> HIDE DEF st
  <2>3. Decides(st) /\ SameStack(state, st)
    BY <2>1, <2>2, Zenon DEF Decides, SameStack
  <2> QED
    BY <1>1, <1>3, <2>2, <2>3, QuietKeeps, Zenon DEF Retire, st
<1> QED
  BY <1>2, <1>3, Zenon DEF Header

\* a header that also writes ra,
LEMMA CallHeaderKeeps ==
  ASSUME FuncInv, CallHeader
  PROVE  FuncInv'
<1> DEFINE opened == set_block(Entered, "Call", Insn.target)
           st == [opened EXCEPT !.regs[REG_RA] = Insn.imm, !.block.return_target = Insn.imm]
<1>1. Retire(st, fallthrough) /\ frames' = frames
  BY Zenon DEF CallHeader
<1>2. Shape(Entered) /\ SameStack(state, Entered)
  BY EnteredAs, Zenon DEF FuncInv, SameStack
<1>3. Shape(opened) /\ SameStack(Entered, opened) /\ NoSetup(opened)
  BY <1>2, Opened, Zenon
<1> HIDE DEF opened
<1>4. Shape(st) /\ SameSetup(opened, st) /\ SameStack(opened, st)
  BY <1>3, Linked, Zenon
<1> HIDE DEF st
<1>5. Decides(st) /\ SameStack(state, st)
  BY <1>2, <1>3, <1>4, Zenon DEF Decides, SameStack, SameSetup, NoSetup
<1> QED
  BY <1>1, <1>4, <1>5, QuietKeeps, Zenon DEF Retire

\* C.BSTOP,
LEMMA BstopKeeps ==
  ASSUME FuncInv, Bstop
  PROVE  FuncInv'
<1> DEFINE st == resolve_block_end(state, fallthrough)
<1>1. Retire(st, block_target(state, fallthrough)) /\ frames' = frames
  BY Zenon DEF Bstop
<1>2. Shape(st) /\ SameStack(state, st) /\ NoSetup(st)
  BY Ended, Zenon DEF FuncInv, SameStack, NoSetup
<1> HIDE DEF st
<1> QED
  BY <1>1, <1>2, QuietKeeps, Zenon DEF Retire, Decides

\* SETC,
LEMMA SetcKeeps ==
  ASSUME FuncInv, Setc
  PROVE  FuncInv'
<1>1. PICK holds \in BOOLEAN : Retire([state EXCEPT !.cond = holds], fallthrough)
  BY Zenon DEF Setc
<1> DEFINE st == [state EXCEPT !.cond = holds]
<1>2. Shape(state)
  BY DEF FuncInv
<1>3. Shape(st) /\ SameStack(state, st)
  BY <1>2 DEF Shape, Fields, SameStack
<1> HIDE DEF st
<1>4. Decides(st) /\ frames' = frames
  BY Zenon DEF Setc, Executes, Decides
<1> QED
  BY <1>1, <1>3, <1>4, QuietKeeps, Zenon DEF Retire, st

\* SETC.TGT,
LEMMA SetcTgtKeeps ==
  ASSUME FuncInv, SetcTgt
  PROVE  FuncInv'
<1> DEFINE st == [state EXCEPT !.target = state.regs[Insn.reg], !.cond = TRUE]
<1>1. Retire(st, fallthrough) /\ frames' = frames
  BY Zenon DEF SetcTgt
<1>2. Shape(state)
  BY DEF FuncInv
<1>3. Shape(st) /\ SameStack(state, st)
  BY <1>2 DEF Shape, Fields, SameStack
<1> HIDE DEF st
<1>4. Decides(st)
  BY Zenon DEF SetcTgt, Executes, Decides
<1> QED
  BY <1>1, <1>3, <1>4, QuietKeeps, Zenon DEF Retire

\* SETRET,
LEMMA SetretKeeps ==
  ASSUME FuncInv, Setret
  PROVE  FuncInv'
<1> DEFINE target == IF state.block.kind = "None" THEN state.block.return_target ELSE Insn.imm
           st == [state EXCEPT !.regs[REG_RA] = Insn.imm, !.block.return_target = target]
<1>1. Shape(state)
  BY DEF FuncInv
<1>2. Retire(st, fallthrough) /\ frames' = frames
  BY <1>1 DEF Setret, Shape, Fields
<1>3. Shape(st) /\ SameSetup(state, st) /\ SameStack(state, st)
  BY <1>1, Linked, Zenon
<1> HIDE DEF st
<1>4. Decides(st)
  BY <1>3, Zenon DEF Setret, Executes, Decides, starts_new_block
<1> QED
  BY <1>2, <1>3, <1>4, QuietKeeps, Zenon DEF Retire

\* A commit that leaves all of the state but pc alone.
LEMMA UntouchedKeeps ==
  ASSUME FuncInv, NEW next_pc, NEW trap_valid, NEW exit,
         Commit(state, next_pc, trap_valid, exit), ~starts_new_block(Insn), frames' = frames
  PROVE  FuncInv'
<1>1. Shape(state) /\ Decides(state) /\ SameStack(state, state)
  BY Zenon DEF FuncInv, Decides, SameSetup, SameStack
<1> QED
  BY <1>1, QuietKeeps, Zenon

\* an instruction that computes (one that writes sp forgets the frames),
LEMMA ComputeKeeps ==
  ASSUME FuncInv, Compute
  PROVE  FuncInv'
<1> DEFINE st == [state EXCEPT !.regs[Insn.reg] = Insn.imm]
<1>1. Retire(st, fallthrough)
  BY Zenon DEF Compute
<1>2. Shape(state) /\ Insn.imm \in Int
  BY Decoded, Zenon DEF FuncInv, Compute, Executes, Fetched
<1>3. Shape(st) /\ SameSetup(state, st) /\ (Insn.reg # REG_SP => SameStack(state, st))
  BY <1>2, Written, Zenon
<1> HIDE DEF st
<1>4. Decides(st)
  BY <1>3, Zenon DEF Compute, Executes, Decides, starts_new_block
<1>5. FramesHeld(frames', st)
  <2>1. CASE Insn.reg = REG_SP
    BY <2>1, NoFrames, Zenon DEF Compute
  <2>2. CASE Insn.reg # REG_SP
    BY <1>3, <2>2, FramesKept, Zenon DEF Compute, FuncInv
  <2> QED
    BY <2>1, <2>2, Zenon
<1> QED
  BY <1>1, <1>3, <1>4, <1>5, CommitKeeps, Zenon DEF Retire

\* FENTRY,
LEMMA FentryKeeps ==
  ASSUME FuncInv, Fentry
  PROVE  FuncInv'
<1>1. CASE Fault /\ UNCHANGED frames
  BY <1>1, FaultKeeps
<1>2. CASE /\ ~fentry_fails(Insn)
           /\ Retire(apply_fentry(state, Insn), fallthrough)
           /\ frames' = Append(frames, Frame(Insn))
  <2> DEFINE d == Insn
             f == Frame(d)
             st == apply_fentry(state, d)
  <2>1. /\ d.first \in Int /\ d.last \in Int /\ d.size \in Nat
        /\ Shape(state) /\ FramesHeld(frames, state)
    BY Decoded, Zenon DEF FuncInv, Fentry, Executes, Fetched
  <2>2. f.first = d.first /\ f.last = d.last /\ f.size = d.size /\ f.regs = state.regs
    BY DEF Frame
  <2>3. /\ ~(d.size < Len(Saved(d)))
        /\ \A i \in DOMAIN Saved(d) : state.regs[REG_SP] - i \in DOMAIN state.stack
    BY <1>2, Zenon DEF fentry_fails, SlotBelow
  <2> HIDE DEF d, f
  <2>4. Saved(f) = Saved(d)
    BY <2>2 DEF Saved
  <2>5. Len(Saved(f)) <= f.size
    BY <2>1, <2>2, <2>3, <2>4, SavedRegs
  <2>6. /\ Shape(st) /\ SameSetup(state, st)
        /\ st.regs[REG_SP] = state.regs[REG_SP] - d.size
        /\ \A w \in DOMAIN state.stack :
             st.stack[w] = IF state.regs[REG_SP] - w \in DOMAIN Saved(d)
                           THEN state.regs[Saved(d)[state.regs[REG_SP] - w]] ELSE state.stack[w]
    BY <2>1, FrameOpened
  <2> HIDE DEF st
  <2>7. DOMAIN st.stack = DOMAIN state.stack
    BY <2>1, <2>6 DEF Shape
  <2>8. FramesHeld(Append(frames, f), st)
    BY <2>1, <2>2, <2>3, <2>4, <2>5, <2>6, <2>7, FramesPushed
  <2>9. Decides(st)
    BY <2>6, Zenon DEF Fentry, Executes, Decides, starts_new_block
  <2>10. FramesHeld(frames', st)
    BY <1>2, <2>8, Zenon DEF f, d
  <2> QED
    BY <1>2, <2>6, <2>9, <2>10, CommitKeeps, Zenon DEF Retire, st, d
<1> QED
  BY <1>1, <1>2, Zenon DEF Fentry

\* FEXIT,
LEMMA FexitKeeps ==
  ASSUME FuncInv, Fexit
  PROVE  FuncInv'
<1>1. CASE Fault /\ UNCHANGED frames
  BY <1>1, FaultKeeps
<1>2. CASE Retire(apply_fexit(state, Insn), fallthrough) /\ CloseFrame
  <2> DEFINE st == apply_fexit(state, Insn)
  <2>1. pc \in DOMAIN image
    BY Zenon DEF Fexit, Executes, Fetched
  <2>2. /\ Shape(st) /\ SameSetup(state, st) /\ st.stack = state.stack
        /\ ClosesTop(Insn) => st.regs[REG_SP] = TopFrame.regs[REG_SP]
    BY <2>1, ClosedAs, Zenon DEF Regains
  <2> HIDE DEF st
  <2>3. FramesHeld(frames', st)
    BY <1>2, <2>2, CloseKeepsFrames, Zenon
  <2>4. Decides(st)
    BY <2>2, Zenon DEF Fexit, Executes, Decides, starts_new_block
  <2> QED
    BY <1>2, <2>2, <2>3, <2>4, CommitKeeps, Zenon DEF Retire, st
<1> QED
  BY <1>1, <1>2, Zenon DEF Fexit

\* FRET,
LEMMA FretKeeps ==
  ASSUME FuncInv, Fret
  PROVE  FuncInv'
<1>1. CASE Fault /\ UNCHANGED frames
  BY <1>1, FaultKeeps
<1>2. CASE ~(Fault /\ UNCHANGED frames)
  <2> DEFINE closed == apply_fexit(state, Insn)
             st == leave_block(closed)
             next_pc == IF Insn.insn = "FRET.STK" THEN st.regs[REG_RA] ELSE state.regs[REG_RA]
  <2>1. pc \in DOMAIN image /\ Retire(st, next_pc) /\ CloseFrame
    BY <1>2, Zenon DEF Fret, Executes, Fetched
  <2>2. /\ Shape(closed) /\ closed.stack = state.stack
        /\ ClosesTop(Insn) => closed.regs[REG_SP] = TopFrame.regs[REG_SP]
    BY <2>1, ClosedAs, Zenon DEF Regains
  <2> HIDE DEF closed
  <2>3. Shape(st) /\ NoSetup(st) /\ st.stack = closed.stack /\ st.regs = closed.regs
    BY <2>2, Left, Zenon
  <2> HIDE DEF st
  <2>4. FramesHeld(frames', st)
    BY <2>1, <2>2, <2>3, CloseKeepsFrames, Zenon
  <2> HIDE DEF next_pc
  <2> QED
    BY <2>1, <2>3, <2>4, CommitKeeps, Zenon DEF Retire, Decides
<1> QED
  BY <1>1, <1>2, Zenon

\* a system call,
LEMMA AcrcKeeps ==
  ASSUME FuncInv, Acrc
  PROVE  FuncInv'
<1>1. frames' = frames /\ ~starts_new_block(Insn) /\ Shape(state)
  BY Zenon DEF Acrc, Executes, starts_new_block, FuncInv
<1>2. CASE Retire([state EXCEPT !.regs[REG_A0] = 0], fallthrough)
  <2> DEFINE st == [state EXCEPT !.regs[REG_A0] = 0]
  <2>1. REG_A0 # REG_SP /\ 0 \in Int
    BY RegistersAre
  <2>2. Shape(st) /\ SameSetup(state, st) /\ SameStack(state, st)
    BY <1>1, <2>1, Written, Zenon
  <2> HIDE DEF st
  <2> QED
    BY <1>1, <1>2, <2>2, QuietKeeps, Zenon DEF Retire, Decides, st
<1>3. CASE Commit(state, fallthrough, FALSE, "guest_exit")
  BY <1>1, <1>3, UntouchedKeeps, Zenon
<1>4. CASE Fault
  BY <1>1, <1>4, FaultKeeps
<1> QED
  BY <1>2, <1>3, <1>4, Zenon DEF Acrc

\* a word that does not decode,
LEMMA DecodeFaultKeeps ==
  ASSUME FuncInv, DecodeFault
  PROVE  FuncInv'
<1> DEFINE r == [Record(pc, TRUE) EXCEPT !.len = 8]
<1>1. commits' = Append(commits, r) /\ image' = image /\ state' = state /\ frames' = frames
  BY DEF DecodeFault
<1>2. r.pc = pc
  BY DEF Record
<1> HIDE DEF r
<1>3. ~starts_new_block(image[r.pc])
  BY <1>2, Zenon DEF DecodeFault, Insn, starts_new_block
<1>4. PICK S : commits \in Seq(S)
  BY DEF FuncInv
<1>5. commits' \in Seq(S \cup {r})
  BY <1>1, <1>4
<1>6. state.block.kind # "None" /\ (state.cond \/ state.target # 0)
        => SetUpIn(commits', image)
  BY <1>1, <1>3, <1>4, OwnSetupIs, SetUpKept, Zenon DEF FuncInv
<1>7. OwnSetup'
  BY <1>1, <1>6, Zenon DEF OwnSetup, SetUpIn, CommittedInsn
<1> QED
  BY <1>1, <1>5, <1>7, Zenon DEF FuncInv

\* a header at which the open block goes elsewhere,
LEMMA EndBlockKeeps ==
  ASSUME FuncInv, EndBlockAtHeader
  PROVE  FuncInv'
<1> DEFINE ended == resolve_block_end(state, pc)
           new == [ended EXCEPT !.pc = block_target(state, pc)]
<1>1. state' = new /\ image' = image /\ commits' = commits /\ frames' = frames
  BY DEF EndBlockAtHeader
<1>2. Shape(ended) /\ SameStack(state, ended) /\ NoSetup(ended)
  BY Ended, Zenon DEF FuncInv, SameStack, NoSetup
<1> HIDE DEF ended
<1>3. Shape(new) /\ SameStack(ended, new) /\ NoSetup(new)
  BY <1>2 DEF Shape, Fields, SameStack, NoSetup
<1> HIDE DEF new
<1>4. SameStack(state, new)
  BY <1>2, <1>3, Zenon DEF SameStack
<1>5. FramesHeld(frames', state')
  BY <1>1, <1>4, FramesKept, Zenon DEF FuncInv
<1>6. OwnSetup'
  BY <1>1, <1>3, Zenon DEF OwnSetup, NoSetup
<1> QED
  BY <1>1, <1>3, <1>5, <1>6, Zenon DEF FuncInv

\* and steps that only end the run.
LEMMA UnmovedKeeps ==
  ASSUME FuncInv, image' = image, state' = state, commits' = commits, frames' = frames
  PROVE  FuncInv'
  BY Zenon DEF FuncInv, OwnSetup, CommittedInsn

\* The invariant holds of every run of every program.
LEMMA FuncInvHolds == Spec => []FuncInv
<1>1. Init => FuncInv
  <2> SUFFICES ASSUME Init PROVE FuncInv
    OBVIOUS
  <2>1. Shape(state)
    BY FuncAssumption, RegistersAre DEF Init, Shape, Fields, NoBlock
  <2>2. commits \in Seq({}) /\ image \in Images
    BY DEF Init
  <2>3. OwnSetup
    BY DEF Init, OwnSetup, NoBlock
  <2>4. FramesHeld(frames, state)
    BY NoFrames, Zenon DEF Init
  <2> QED
    BY <2>1, <2>2, <2>3, <2>4, Zenon DEF FuncInv
<1>2. FuncInv /\ [Next]_vars => FuncInv'
  <2> SUFFICES ASSUME FuncInv, [Next]_vars PROVE FuncInv'
    OBVIOUS
  <2>1. CASE StepLimit \/ FetchFails \/ UNCHANGED vars
    BY <2>1, UnmovedKeeps, Zenon DEF StepLimit, FetchFails, vars
  <2>2. CASE Jump
    BY <2>2, UntouchedKeeps, Zenon DEF Jump, Retire, Executes, starts_new_block
  <2>3. CASE Ebreak
    BY <2>3, UntouchedKeeps, Zenon DEF Ebreak, Executes, starts_new_block
  <2>4. CASE Unsupported
    BY <2>4, FaultKeeps, Zenon DEF Unsupported
  <2> QED
    BY <2>1, <2>2, <2>3, <2>4, DecodeFaultKeeps, EndBlockKeeps, HeaderKeeps, CallHeaderKeeps,
       BstopKeeps, SetcKeeps, SetcTgtKeeps, SetretKeeps, ComputeKeeps, FentryKeeps, FexitKeeps,
       FretKeeps, AcrcKeeps, Zenon DEF Next
<1> QED
  BY <1>1, <1>2, PTL DEF Spec

(* In every program, the condition and the dynamic target that             *)
(* resolve_block_end looks at were set by a SETC or SETC.TGT behind the    *)
(* header of the block it ends: no header, fault or return leaves those of *)
(* an earlier block.                                                       *)
THEOREM BlocksOwnSetup == Spec => []OwnSetup
<1>1. FuncInv => OwnSetup
  BY DEF FuncInv
<1> QED
  BY <1>1, FuncInvHolds, PTL

\* A FEXIT that succeeds and matches undoes the FENTRY.
LEMMA FexitUndoes ==
  ASSUME FuncInv, Fexit, exit_reason' = "running", ClosesTop(Insn)
  PROVE  Undoes(Insn, TopFrame)
<1> DEFINE st == apply_fexit(state, Insn)
<1>1. pc \in DOMAIN image /\ Insn.insn = "FEXIT"
  BY Zenon DEF Fexit, Executes, Fetched
<1>2. Retire(st, fallthrough)
  <2>1. ~Fault
    BY Zenon DEF Fault, Commit
  <2> QED
    BY <2>1, Zenon DEF Fexit
<1>3. Shape(st) /\ Regains(st.regs, Insn, TopFrame)
  BY <1>1, ClosedAs, Zenon
<1> HIDE DEF st
<1>4. state'.regs = st.regs
  BY <1>2, <1>3, Committed, Zenon DEF Retire
<1>5. Regains(state'.regs, Insn, TopFrame)
  BY <1>3, <1>4, Zenon
<1>6. Insn.insn # "FRET.STK"
  BY <1>1
<1> QED
  BY <1>5, <1>6 DEF Undoes, Regains

\* So does a FRET, and FRET.STK goes to the restored ra.
LEMMA FretUndoes ==
  ASSUME FuncInv, Fret, exit_reason' = "running", ClosesTop(Insn)
  PROVE  Undoes(Insn, TopFrame)
<1> DEFINE closed == apply_fexit(state, Insn)
           st == leave_block(closed)
           next_pc == IF Insn.insn = "FRET.STK" THEN st.regs[REG_RA] ELSE state.regs[REG_RA]
<1>1. pc \in DOMAIN image /\ Retire(st, next_pc)
  <2>1. ~Fault
    BY Zenon DEF Fault, Commit
  <2> QED
    BY <2>1, Zenon DEF Fret, Executes, Fetched
<1>2. Shape(closed) /\ Regains(closed.regs, Insn, TopFrame)
  BY <1>1, ClosedAs, Zenon
<1> HIDE DEF closed
<1>3. Shape(st) /\ st.regs = closed.regs
  BY <1>2, Left, Zenon
<1> HIDE DEF st
<1>4. Insn.insn = "FRET.STK" => next_pc = st.regs[REG_RA]
  OBVIOUS
<1> HIDE DEF next_pc
<1>5. state'.regs = st.regs /\ state'.pc = next_pc
  BY <1>1, <1>3, Committed, Zenon DEF Retire
<1>6. Regains(state'.regs, Insn, TopFrame)
  BY <1>2, <1>3, <1>5, Zenon
<1>7. ASSUME Insn.insn = "FRET.STK", NEW i \in DOMAIN Saved(Insn), Saved(Insn)[i] = REG_RA
      PROVE  state'.pc = TopFrame.regs[REG_RA]
  <2>1. state'.regs[REG_RA] = TopFrame.regs[REG_RA]
    BY <1>6, <1>7, Zenon DEF Regains
  <2> QED
    BY <1>4, <1>5, <1>7, <2>1, Zenon
<1> QED
  BY <1>6, <1>7 DEF Undoes, Regains

(* In every program, and however deep calls are nested, a FEXIT or FRET of *)
(* the shape of the last open FENTRY restores the stack pointer and every  *)
(* saved register, and FRET.STK goes to the return address the function    *)
(* was entered with.                                                       *)
THEOREM ReturnsUndoEntries == Spec => ReturnsRestore
<1> DEFINE Restores ==
      step' = step + 1 /\ exit_reason' = "running"
      /\ Insn.insn \in {"FEXIT", "FRET.STK", "FRET.RA"} /\ ClosesTop(Insn)
        => Undoes(Insn, TopFrame)
<1>1. FuncInv /\ [Next]_vars => [Restores]_vars
  <2> SUFFICES ASSUME FuncInv, Next, exit_reason' = "running",
                      Insn.insn \in {"FEXIT", "FRET.STK", "FRET.RA"}, ClosesTop(Insn)
               PROVE  Undoes(Insn, TopFrame)
    BY Zenon
  <2>1. ~StepLimit /\ ~FetchFails /\ ~DecodeFault
    BY Zenon DEF StepLimit, FetchFails, DecodeFault
  <2>2. ~EndBlockAtHeader
    BY Zenon DEF EndBlockAtHeader, EndsBlockElsewhere, starts_new_block
  <2>3. ~Header /\ ~CallHeader /\ ~Bstop /\ ~Setc /\ ~SetcTgt /\ ~Setret
    BY Zenon DEF Header, CallHeader, Bstop, Setc, SetcTgt, Setret, Executes
  <2>4. ~Jump /\ ~Compute /\ ~Fentry /\ ~Acrc /\ ~Ebreak /\ ~Unsupported
    BY Zenon DEF Jump, Compute, Fentry, Acrc, Ebreak, Unsupported, Executes
  <2>5. Fexit \/ Fret
    BY <2>1, <2>2, <2>3, <2>4, Zenon DEF Next
  <2> QED
    BY <2>5, FexitUndoes, FretUndoes, Zenon
<1> QED
  BY <1>1, FuncInvHolds, PTL DEF Spec, ReturnsRestore
===============================================================================
