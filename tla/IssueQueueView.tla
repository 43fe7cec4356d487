--------------------------- MODULE IssueQueueView ---------------------------
(***************************************************************************)
(* The inductive invariant of the issue queues.                            *)
(*                                                                         *)
(* None of the properties of IssueQueue is inductive.  That an entry is    *)
(* marked inflight exactly while P1 or I1 holds it, that its sources are   *)
(* woken in time and for a reason, and that memory accesses pass one at a  *)
(* time, each needs the others, and needs to know where the producers of   *)
(* an entry are: BackendView's View of the back end.                       *)
(***************************************************************************)
EXTENDS BackendView, IssueQueue

\* A uop that can still be picked or issued is not past issue; one that
\* takes the D2 bypass never waits for issue.
PastIssue(p) == uops[p].bypass_d2 \/ ~Waiting(p)

\* What pick_from_iq chose and advance_i1_to_i2 has not taken yet.
InPicked(s) == s \in RangeOf(p1) \/ s \in RangeOf(i1) \/ s \in RangeOf(i1_stay)

Shapes ==
  /\ DOMAIN iq \subseteq Seqs
  /\ \A s \in DOMAIN iq : iq[s] \in IqEntries
  /\ dst_qtag \in [Seqs -> QTags \cup {None}]
  /\ src_qtags \in [Seqs -> [{1, 2} -> QTags \cup {None}]]
  /\ p1 \in Seq(Seqs) /\ i1 \in Seq(Seqs) /\ i1_stay \in Seq(Seqs)
  /\ i1_queues \subseteq PhysIqs
  /\ enqueue_ports_used \in [PhysIqs -> 0 .. IQ_ENQUEUE_PORTS]

\* An entry's uop waits upstream.
Entries ==
  /\ \A s \in DOMAIN iq : s \in upstream /\ ~uops[s].bypass_d2
  /\ \A s, t \in DOMAIN iq : iq[s].qtag = iq[t].qtag => s = t

\* An entry is inflight exactly while it is in P1 or I1, once, and I1 has
\* uops set aside only inside advance_i1_to_i2.
PickedOnce ==
  /\ Distinct(p1) /\ Distinct(i1) /\ Distinct(i1_stay)
  /\ \A s \in DOMAIN iq : iq[s].inflight <=> InPicked(s)
  /\ \A s \in Seqs :
       /\ InPicked(s) => s \in DOMAIN iq
       /\ s \in RangeOf(p1) => s \notin RangeOf(i1) /\ s \notin RangeOf(i1_stay)
       /\ s \in RangeOf(i1) => s \notin RangeOf(i1_stay)
  /\ step # "i1" => i1_stay = <<>>
  /\ Len(p1) <= ISSUE_WIDTH /\ Len(i1) + Len(i1_stay) <= ISSUE_WIDTH

\* A memory uop between the queues and E1 has its turn.
MemTurn ==
  \A s \in Seqs : Mem(s) /\ (InPicked(s) \/ s \in RangeOf(i2) \/ s \in RangeOf(i2_stay)) =>
    uops[s].load_store_id = lsid_issue_ptr

\* A source that no longer waits has a producer past issue, and so have
\* all sources of an entry that is inflight.
Woken ==
  \A s \in DOMAIN iq :
    /\ \A i \in {1, 2} :
         /\ iq[s].src[i] = "wait" => uops[s].deps[i] # None
         /\ iq[s].src[i] = "spec" => uops[s].deps[i] # None /\ uops[uops[s].deps[i]].is_load
         /\ iq[s].src[i] # "wait" /\ uops[s].deps[i] # None => PastIssue(uops[s].deps[i])
    /\ iq[s].inflight => \A p \in Deps(s) : PastIssue(p)

\* A uop has a queue tag once it was dispatched, and a source that listens
\* to a queue tag listens to its producer's.
TagOnce ==
  /\ \A p \in Seqs : dst_qtag[p] # None => /\ p < Len(committed) + Len(rob)
                                           /\ p \in upstream => p \in DOMAIN iq
  /\ \A s \in DOMAIN iq, i \in {1, 2} : src_qtags[s][i] # None =>
       /\ uops[s].src_logical_tags[i] # None
       /\ src_qtags[s][i] = dst_qtag[uops[s].src_logical_tags[i]]

\* The crossbar lists the sources that listen.
Crossbar ==
  \A w : w \in qtag_wait_crossbar <=>
           \E s \in DOMAIN iq, i \in {1, 2} : src_qtags[s][i] # None /\ w = <<src_qtags[s][i], s, i>>

\* A source that reads a register, or an operand queue through a queue tag.
Listens(s, i) ==
  uops[s].src_valid[i] /\ (uops[s].src_queue_kinds[i] # None => src_qtags[s][i] # None)

\* Such a source waits only for data that cannot be read yet.
WaitsAhead ==
  \A s \in DOMAIN iq, i \in {1, 2} :
    LET t == data_ready_visible[uops[s].deps[i]]
    IN Listens(s, i) /\ iq[s].src[i] = "wait" /\ t # None =>
         t >= cycle /\ (step \notin {"tag", "publish"} => t > cycle)

\* A uop whose tag is in the ready table has retired.
ReadyRetired == \A p \in ready_table : p \in Seqs /\ p < Len(committed)

\* The inductive invariant.
IqInv ==
  /\ Shapes /\ Entries /\ PickedOnce /\ MemTurn /\ Woken /\ TagOnce /\ Crossbar /\ WaitsAhead
  /\ ReadyRetired /\ ReadyIsBacked
-----------------------------------------------------------------------------
(* What the invariant needs of the three choices that the code makes.      *)

\* arbitrate_i1 admits attempts of P1, each one once.
Admits ==
  /\ admitted_i1 \in Seq(Seqs) /\ Distinct(admitted_i1)
  /\ \A s \in RangeOf(admitted_i1) : s \in RangeOf(p1)
  /\ Len(admitted_i1) <= Len(p1)

\* Oldest puts a set in an order.
Ordered(S) ==
  /\ Oldest(S) \in Seq(S) /\ Distinct(Oldest(S))
  /\ \A s : s \in RangeOf(Oldest(S)) <=> s \in S

\* A queue takes one more entry, and has a tag for it that no entry owns.
RoomFound(q) ==
  /\ q \in PhysIqs /\ enqueue_ports_used[q] < IQ_ENQUEUE_PORTS
  /\ allocate_qtag(q) \in QTags
  /\ \A t \in DOMAIN iq : iq[t].qtag # allocate_qtag(q)
=============================================================================
