------------------------------ MODULE MCBackend ------------------------------
(***************************************************************************)
(* Backend over every commit stream of N uops of the given kinds, where a  *)
(* uop may read the result of the uop before it.  To keep the instances    *)
(* small, what the environment does is fixed by the stream: a uop also     *)
(* says from which cycle on it may enter I2 (`hold') and whether it traps  *)
(* (`fault'), and otherwise the environment acts as soon as it can.        *)
(***************************************************************************)
EXTENDS Backend

CONSTANTS N, Kinds, Holds, Faults

Uop(kind, dep, hold, fault) ==
  [group |-> CASE kind = "load" -> "LDA" [] kind = "store" -> "STA"
               [] kind = "bypass" -> "BBD" [] OTHER -> "ALU",
   op    |-> "PLAIN",
   mem   |-> IF kind \in {"load", "store"} THEN kind ELSE "none",
   wb    |-> IF kind \in {"load", "alu"} THEN "a0" ELSE None,
   wb_queue |-> FALSE,
   src   |-> [i \in {1, 2} |-> IF i = 1 /\ dep THEN [reg |-> "a0", rel |-> 0] ELSE None],
   hold  |-> hold,
   fault |-> fault]

\* Bypassing uops have no sources and do not pass I2.
UopKinds ==
  {Uop(k, d, h, f) : k \in Kinds \ {"bypass"}, d \in BOOLEAN, h \in Holds, f \in Faults}
    \cup {Uop(k, FALSE, 0, f) : k \in Kinds \cap {"bypass"}, f \in Faults}

AllStreams == [0 .. N - 1 -> UopKinds]

Script(s) == uops[s].commit

\* The environment stays idle only when the script leaves it nothing to do.
Eager ==
  /\ step = "publish" =>
       IF \E s \in Seqs : Script(s).fault /\ ENABLED RaiseTrap(s) /\ pending_trap = None
       THEN \E s \in Seqs : Script(s).fault /\ pending_trap' # None /\ pending_trap'.seq = s
       ELSE step' = "retire"
  /\ step = "feed" =>
       IF \E s \in Seqs : Script(s).hold <= cycle /\ ENABLED FeedI2(s)
       THEN \E s \in upstream : s \notin upstream' /\ Script(s).hold <= cycle
       ELSE step' = "i2"
  /\ step = "dispatch" =>
       IF ENABLED Allocate THEN rob' # rob
       ELSE IF Cardinality(w2) < ISSUE_WIDTH /\ \E s \in Seqs : ENABLED Bypass(s) THEN w2' # w2
       ELSE step' # "dispatch"

MCSpec == Init /\ [][Next /\ Eager]_vars
=============================================================================
