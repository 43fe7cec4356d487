-------------------------------- MODULE Uops --------------------------------
(***************************************************************************)
(* The micro-ops the cycle engine replays.  The functional engine yields a *)
(* commit stream; build_uops turns it into CycleUop records, indexed by    *)
(* their position `seq' in the stream.  The fields build_uops fills in are *)
(* the fields of `uops'; the fields the pipeline writes while a uop is in  *)
(* flight are variables of their own, one function of seq per field.       *)
(***************************************************************************)
EXTENDS Integers, FiniteSets

CONSTANTS
  CommitStreams,  \* the commit streams a run may replay
  Regs,           \* ordinary registers; "x0", "T" and "U" are apart
  None            \* Rust's Option::None

ASSUME NoneAssumption == None \notin Int
ASSUME RegsAssumption == {"x0", "T", "U"} \cap Regs = {}

(***************************************************************************)
(* One entry of a commit stream with its decoded instruction: its          *)
(* uop_group, the mnemonic where the control logic tells mnemonics apart,  *)
(* the memory access, the register written and the two source operands.    *)
(* "T" and "U" are the heads of the two implicit operand queues (REG_T1,   *)
(* REG_U1) and "x0" is the zero register.  `rel' is the number n of a      *)
(* `t#n' or `u#n' operand, 0 when the instruction's assembly has none (the *)
(* code takes the first `t#n' of the assembly for both sources);           *)
(* `wb_queue' says that the assembly names the queue as the destination    *)
(* (`->t'), as the compressed forms do.                                    *)
(***************************************************************************)
Groups == {"ALU", "FSU", "SYS", "BRU", "LDA", "STA", "CMD", "BBD"}
Ops == {"PLAIN", "SETRET", "SETC_TGT", "BSTART", "BSTART_CALL", "BSTOP",
        "FENTRY", "FEXIT", "FRET_RA", "FRET_STK"}

d2_bypass(d) == d.op = "SETRET" \/ d.group = "BBD"

AllRegs == Regs \cup {"x0", "T", "U"}
Source == [reg : AllRegs, rel : Nat]

IsCommitStream(c) ==
  /\ c = [s \in DOMAIN c |-> c[s]]
  /\ IsFiniteSet(DOMAIN c) /\ DOMAIN c # {}
  /\ DOMAIN c = 0 .. Cardinality(DOMAIN c) - 1
  /\ \A s \in DOMAIN c :
       /\ c[s].group \in Groups
       /\ c[s].op \in Ops
       /\ c[s].mem \in {"none", "load", "store"}
       /\ c[s].mem # "none" => ~d2_bypass(c[s])
       /\ c[s].wb \in AllRegs \cup {None}
       /\ c[s].wb_queue \in BOOLEAN
       /\ \A i \in {1, 2} : c[s].src[i] \in Source \cup {None}
       /\ \/ None \in {c[s].src[1], c[s].src[2]}
          \/ c[s].src[1].reg = c[s].src[2].reg => c[s].src[1].rel = c[s].src[2].rel

ASSUME StreamsAssumption == \A c \in CommitStreams : IsCommitStream(c)

\* The loads, and the memory accesses, of the stream c before s.
LoadsBefore(c, s) == {p \in DOMAIN c : p < s /\ c[p].mem = "load"}
MemsBefore(c, s) == {p \in DOMAIN c : p < s /\ c[p].mem # "none"}

\* The n-th latest member of S, counting from 1; None when there is none.
NthLatest(S, n) ==
  IF \E p \in S : Cardinality({q \in S : q > p}) = n - 1
  THEN CHOOSE p \in S : Cardinality({q \in S : q > p}) = n - 1
  ELSE None

source_valid(c, s, i) == c[s].src[i] # None

queue_src_kind(c, s, i) ==
  IF source_valid(c, s, i) /\ c[s].src[i].reg \in {"T", "U"} /\ c[s].src[i].rel > 0
  THEN c[s].src[i].reg ELSE None

queue_dst_kind(c, s) ==
  IF c[s].wb \in {"T", "U"} /\ c[s].wb_queue THEN c[s].wb ELSE None

\* The tagged writers of queue k before s: the code's t_history, u_history.
QueueHistory(c, s, k) == {p \in DOMAIN c : p < s /\ queue_dst_kind(c, p) = k}

(***************************************************************************)
(* Logical tags number the writers of a queue in stream order, so a tag    *)
(* and the seq of its producer determine one another: a tag is represented *)
(* by that seq.                                                            *)
(***************************************************************************)
resolve_logical_queue_src(c, s, i) ==
  IF queue_src_kind(c, s, i) = None THEN None
  ELSE NthLatest(QueueHistory(c, s, c[s].src[i].reg), c[s].src[i].rel)

last_writer(c, s, r) == NthLatest({p \in DOMAIN c : p < s /\ c[p].wb = r}, 1)

Producer(c, s, i) ==
  IF resolve_logical_queue_src(c, s, i) # None
  THEN resolve_logical_queue_src(c, s, i)
  ELSE IF ~source_valid(c, s, i) \/ c[s].src[i].reg = "x0" THEN None
  ELSE last_writer(c, s, c[s].src[i].reg)

build_uops(c) ==
  [s \in DOMAIN c |->
     [commit           |-> c[s],
      bypass_d2        |-> d2_bypass(c[s]),
      src_valid        |-> [i \in {1, 2} |-> source_valid(c, s, i)],
      deps             |-> [i \in {1, 2} |-> Producer(c, s, i)],
      src_queue_kinds  |-> [i \in {1, 2} |-> queue_src_kind(c, s, i)],
      src_logical_tags |-> [i \in {1, 2} |-> resolve_logical_queue_src(c, s, i)],
      dst_queue_kind   |-> queue_dst_kind(c, s),
      is_load          |-> c[s].mem = "load",
      is_store         |-> c[s].mem = "store",
      load_ordinal     |-> Cardinality(LoadsBefore(c, s)),
      load_store_id    |-> Cardinality(MemsBefore(c, s))]]
-----------------------------------------------------------------------------
VARIABLES
  uops,                 \* seq -> the fields set by build_uops
  pick_wakeup_visible,  \* seq -> cycle from which consumers may be picked
  data_ready_visible,   \* seq -> cycle from which the result can be read
  miss_injected,        \* seq -> this load has already taken its miss
  miss_pending_until,   \* seq -> cycle at which the missed line arrives
  e1_cycle,             \* seq -> first cycle in E1
  e4_cycle,             \* seq -> first cycle in E4
  w1_cycle,             \* seq -> first cycle in W1
  done_cycle            \* seq -> first cycle in W2

stage_cycles == <<e1_cycle, e4_cycle, w1_cycle, done_cycle>>
visible_cycles == <<pick_wakeup_visible, data_ready_visible>>
miss_state == <<miss_injected, miss_pending_until>>
uopVars == <<uops, stage_cycles, visible_cycles, miss_state>>

Seqs == DOMAIN uops
Mem(s) == uops[s].is_load \/ uops[s].is_store
Deps(s) == {uops[s].deps[i] : i \in {1, 2}} \ {None}
OptCycle == Nat \cup {None}

UopsInit ==
  /\ \E c \in CommitStreams : uops = build_uops(c)
  /\ pick_wakeup_visible = [s \in Seqs |-> None]
  /\ data_ready_visible = [s \in Seqs |-> None]
  /\ miss_injected = [s \in Seqs |-> FALSE]
  /\ miss_pending_until = [s \in Seqs |-> None]
  /\ e1_cycle = [s \in Seqs |-> None]
  /\ e4_cycle = [s \in Seqs |-> None]
  /\ w1_cycle = [s \in Seqs |-> None]
  /\ done_cycle = [s \in Seqs |-> None]

\* The commit stream being replayed.
Stream == [s \in Seqs |-> uops[s].commit]

UopsTypeOK ==
  /\ Stream \in CommitStreams
  /\ uops = build_uops(Stream)
  /\ pick_wakeup_visible \in [Seqs -> OptCycle]
  /\ data_ready_visible \in [Seqs -> OptCycle]
  /\ miss_injected \in [Seqs -> BOOLEAN]
  /\ miss_pending_until \in [Seqs -> OptCycle]
  /\ e1_cycle \in [Seqs -> OptCycle]
  /\ e4_cycle \in [Seqs -> OptCycle]
  /\ w1_cycle \in [Seqs -> OptCycle]
  /\ done_cycle \in [Seqs -> OptCycle]

\* Is the optional cycle t set and not after `now'?
Reached(t, now) == t # None /\ t <= now
=============================================================================
