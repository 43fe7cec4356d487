---------------------------- MODULE MCIssueQueue ----------------------------
(***************************************************************************)
(* IssueQueue over every commit stream of N uops of the given kinds.  A    *)
(* uop writes and reads the register a0 or the operand queue T.  `hold' is *)
(* the cycle from which a uop may be dispatched; otherwise the front end   *)
(* acts as soon as it can.                                                 *)
(***************************************************************************)
EXTENDS IssueQueueRefinement

CONSTANTS N, Kinds, Holds

From(r) == [reg |-> r, rel |-> IF r = "T" THEN 1 ELSE 0]

Uop(kind, wb, src, hold) ==
  [group |-> CASE kind = "load" -> "LDA" [] kind = "store" -> "STA"
               [] kind = "bypass" -> "BBD" [] OTHER -> "ALU",
   op    |-> "PLAIN",
   mem   |-> IF kind \in {"load", "store"} THEN kind ELSE "none",
   wb    |-> wb,
   wb_queue |-> wb = "T",
   src   |-> [i \in {1, 2} |-> IF i = 1 /\ src # None THEN From(src) ELSE None],
   hold  |-> hold]

UopKinds ==
  {Uop(k, w, r, h) : k \in Kinds \ {"bypass", "store"}, w \in {"a0", "T"}, r \in {"a0", "T", None},
                     h \in Holds}
    \cup {Uop(k, None, r, h) : k \in Kinds \cap {"store"}, r \in {"a0", "T"}, h \in Holds}
    \cup {Uop(k, "a0", None, 0) : k \in Kinds \cap {"bypass"}}

AllStreams == [0 .. N - 1 -> UopKinds]

CanDispatch(s) ==
  /\ s \in upstream \ DOMAIN iq
  /\ uops[s].commit.hold <= cycle
  /\ ~uops[s].bypass_d2 => Routes(s) # {}
  /\ uops[s].bypass_d2 => Cardinality(w2) < ISSUE_WIDTH

Eager ==
  /\ pending_trap' = None
  /\ step = "dispatch" =>
       IF Len(rob) < ROB_CAPACITY /\ Len(committed) + Len(rob) \in Seqs THEN rob' # rob
       ELSE IF \E s \in Seqs : CanDispatch(s)
       THEN LET s == CHOOSE t \in Seqs : CanDispatch(t) /\ \A u \in Seqs : CanDispatch(u) => t <= u
            IN s \in DOMAIN iq' \/ s \in w2'
       ELSE step' # "dispatch"

MCSpec == IqInit /\ [][IqNext /\ Eager]_<<vars, iqVars>>
=============================================================================
