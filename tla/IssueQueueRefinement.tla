------------------------ MODULE IssueQueueRefinement ------------------------
(***************************************************************************)
(* The issue queues in front of the back end implement Backend: they are   *)
(* the environment whose choices Backend leaves open (see FeedI2).         *)
(***************************************************************************)
EXTENDS IssueQueue

\* The issue queues are the environment that Backend assumes (see FeedI2):
\* IqInit has Backend's Init for a conjunct, and every step is a step of the
\* back end or leaves it alone.
BStep ==
  CASE step = "scb" -> "publish" [] step \in {"i1", "arbitrate"} -> "feed"
    [] step = "pick" -> "dispatch" [] OTHER -> step
Abstraction == INSTANCE Backend WITH step <- BStep
FeedsBackend == [][Abstraction!Next]_(Abstraction!vars)
=============================================================================
