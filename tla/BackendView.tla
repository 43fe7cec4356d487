----------------------------- MODULE BackendView -----------------------------
(***************************************************************************)
(* What the stages in front of the back end may rely on: the uops and      *)
(* their sources, where a uop waits to issue, and the tags that announce   *)
(* its result.  None of it mentions `step', so it reads the same of        *)
(* Backend and of the back end inside a larger loop.                       *)
(***************************************************************************)
EXTENDS Backend

\* A queue that holds nothing twice.
Distinct(q) == \A j, k \in DOMAIN q : q[j] = q[k] => j = k

\* Before E1.
Waiting(s) == s \in upstream \/ s \in RangeOf(i2) \/ s \in RangeOf(i2_stay)

\* By CommitInOrder this is what the ROB holds.
InRob(s) == Len(committed) <= s /\ s < Len(committed) + Len(rob)

\* A producer comes earlier in the stream, and a logical tag is that of the
\* producer, a writer of the operand queue the source reads.
SourceView(s, i) ==
  /\ uops[s].deps[i] # None => /\ uops[s].deps[i] \in Seqs /\ uops[s].deps[i] < s
                               /\ uops[s].src_valid[i]
  /\ uops[s].src_logical_tags[i] # None =>
       /\ uops[s].src_logical_tags[i] \in Seqs
       /\ uops[s].deps[i] = uops[s].src_logical_tags[i]
       /\ uops[uops[s].deps[i]].dst_queue_kind = uops[s].src_queue_kinds[i]

\* The uops, their numbers and their sources.
StreamView ==
  /\ Seqs \subseteq Nat /\ IsFiniteSet(Seqs)
  /\ \A s \in Seqs : /\ uops[s].is_load \in BOOLEAN
                     /\ Mem(s) => ~uops[s].bypass_d2
  /\ \A s, t \in Seqs : Mem(s) /\ Mem(t) /\ uops[s].load_store_id = uops[t].load_store_id => s = t
  /\ \A s \in Seqs : \A i \in {1, 2} : SourceView(s, i)

\* Where a uop waits, and that it is in the ROB then.
PlaceView ==
  /\ upstream \subseteq Seqs /\ i2 \in Seq(Seqs) /\ i2_stay \in Seq(Seqs)
  /\ Distinct(i2) /\ Distinct(i2_stay)
  /\ Len(committed) \in Nat /\ Len(rob) \in Nat
  /\ \A s \in Seqs :
       /\ s \in upstream => s \notin RangeOf(i2) /\ s \notin RangeOf(i2_stay)
       /\ s \in RangeOf(i2) => s \notin RangeOf(i2_stay)
       /\ Waiting(s) => InRob(s)

\* The tags that announce a result.
TagView ==
  /\ cycle \in Nat
  /\ pick_wakeup_visible \in [Seqs -> OptCycle] /\ data_ready_visible \in [Seqs -> OptCycle]
  /\ e1_cycle \in [Seqs -> OptCycle] /\ e4_cycle \in [Seqs -> OptCycle] /\ w1_cycle \in [Seqs -> OptCycle]
  /\ \A s \in Seqs : uops[s].is_load =>
       /\ pick_wakeup_visible[s] # None => e1_cycle[s] # None
       /\ data_ready_visible[s] # None => e4_cycle[s] # None
       /\ e1_cycle[s] # None => pick_wakeup_visible[s] = e1_cycle[s] + 1 /\ e1_cycle[s] > 0
       /\ e4_cycle[s] # None => /\ data_ready_visible[s] = e4_cycle[s] + 1
                                /\ e1_cycle[s] # None /\ e1_cycle[s] <= e4_cycle[s]
  /\ \A s \in Seqs : ~uops[s].is_load =>
       /\ pick_wakeup_visible[s] = data_ready_visible[s]
       /\ w1_cycle[s] # None => data_ready_visible[s] = w1_cycle[s] + 1 /\ w1_cycle[s] > 0
  /\ \A s \in Seqs : pick_wakeup_visible[s] # None =>
       s < Len(committed) + Len(rob) /\ (uops[s].bypass_d2 \/ ~Waiting(s))

View == StreamView /\ CommitTypeOK /\ CommitInOrder /\ PlaceView /\ TagView
=============================================================================
