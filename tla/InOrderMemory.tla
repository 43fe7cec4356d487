---------------------------- MODULE InOrderMemory ----------------------------
(***************************************************************************)
(* What the back end promises the program it replays: commits happen in    *)
(* program order, and so do cache accesses.  A load has accessed the cache *)
(* before it commits; a store accesses it after.                           *)
(***************************************************************************)
EXTENDS Integers

VARIABLES
  program,    \* seq -> is_load, is_store, load_store_id
  commits,    \* number of instructions committed
  performed   \* number of memory accesses performed

Init ==
  /\ commits = 0
  /\ performed = 0

Commit ==
  /\ commits \in DOMAIN program
  /\ program[commits].is_load => program[commits].load_store_id < performed
  /\ commits' = commits + 1
  /\ UNCHANGED <<program, performed>>

Perform ==
  /\ \E s \in DOMAIN program :
       /\ program[s].is_load \/ program[s].is_store
       /\ program[s].load_store_id = performed
       /\ program[s].is_store => s < commits
  /\ performed' = performed + 1
  /\ UNCHANGED <<program, commits>>

Next == Commit \/ Perform

Spec == Init /\ [][Next]_<<program, commits, performed>>
=============================================================================
