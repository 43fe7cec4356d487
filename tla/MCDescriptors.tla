---------------------------- MODULE MCDescriptors ----------------------------
(***************************************************************************)
(* Descriptors with room for four host descriptors besides the inherited   *)
(* one: two pipes, or an eventfd and an epoll instance.                    *)
(***************************************************************************)
EXTENDS Descriptors, TLC

CONSTANTS h1, h2, h3, h4, h5

MCHostFds == {h1, h2, h3, h4, h5}
MCInherited == 2 :> h1
MCEvents == {{"IN"}, {"IN", "ONESHOT"}}

\* Host descriptors and pipes are interchangeable, but for the inherited one.
MCSymmetry == Permutations({h2, h3, h4, h5}) \cup Permutations(Pipes)
=============================================================================
