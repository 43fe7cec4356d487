--------------------------- MODULE DescriptorProofs ---------------------------
(***************************************************************************)
(* What holds of the descriptors of a guest process for any number of      *)
(* descriptors, pipes and calls.                                           *)
(*                                                                         *)
(* Every system call replaces what a few guest descriptors hold (the set S *)
(* below: none, one, or the two of pipe2) and leaves the others alone.     *)
(* The lemmas of the first part say what such a step keeps; those of the   *)
(* second that each call is one.                                           *)
(***************************************************************************)
EXTENDS Descriptors, TLAPS

\* Leaves go to SMT, with time to spare, unless they name another prover.
USE SMTT(60)

\* The inductive invariant.  Ownership keeps the pipes of eventfds and epoll
\* instances apart, and only then does a byte count belong to one eventfd.
DescInv ==
  /\ DescTypeOK
  /\ HostOwned
  /\ PipePairs
  /\ EventfdSignalled
  /\ RegistrationsOpen

-----------------------------------------------------------------------------
\* Steps that replace the descriptors of S.

\* Descriptor g holds the same host descriptors as before, and is of the same kind.
SameHold(g) ==
  /\ fd_table'[g] = fd_table[g]
  /\ special_fds'[g] = None <=> special_fds[g] = None
  /\ special_fds[g] # None => /\ special_fds'[g].write_fd = special_fds[g].write_fd
                              /\ special_fds'[g].kind = special_fds[g].kind

\* What the descriptors of S held is closed, what they hold now was free, and
\* nothing else changes hands.
Replaces(S) ==
  /\ S \subseteq GuestFds
  /\ \A g \in GuestFds \ S : SameHold(g)
  /\ \A h \in HostFds :
       host[h] # None => host'[h] = IF \E g \in S : h \in HostFdsOf(g) THEN None ELSE host[h]
  /\ \A h \in HostFds : host[h] = None => (host'[h] # None <=> \E g \in S : h \in HostFdsOf(g)')
  /\ \A g \in S : \A h \in HostFdsOf(g)' : host[h] = None
  /\ \A g, k \in S : g # k => \A h \in HostFdsOf(g)' : h \notin HostFdsOf(k)'
  /\ \A g \in S : special_fds'[g] # None => fd_table'[g] # None /\ fd_table'[g] # special_fds'[g].write_fd

\* A descriptor outside S holds what it held.
LEMMA HoldsKept ==
  ASSUME NEW S, Replaces(S), NEW g \in GuestFds \ S
  PROVE  HostFdsOf(g)' = HostFdsOf(g)
  BY DEF Replaces, SameHold, HostFdsOf

\* Such a step keeps the ownership of host descriptors.
LEMMA OwnershipKept ==
  ASSUME HostOwned, NEW S, Replaces(S)
  PROVE  HostOwned'
  <1>1. \A g \in GuestFds \ S : HostFdsOf(g)' = HostFdsOf(g)
    BY HoldsKept
  <1>2. \A g \in GuestFds : \A h \in HostFdsOf(g) : h \in HostFds /\ host[h] # None
    BY DEF HostOwned, HostFdsOf
  <1>3. ASSUME NEW h \in HostFds PROVE host'[h] # None <=> \E g \in GuestFds : h \in HostFdsOf(g)'
    <2>1. CASE host[h] = None
      BY <1>1, <1>2, <2>1 DEF Replaces
    <2>2. CASE host[h] # None
      <3>1. PICK g \in GuestFds : h \in HostFdsOf(g)
        BY <2>2 DEF HostOwned
      <3>2. CASE g \in S
        <4>1. host'[h] = None
          BY <2>2, <3>1, <3>2 DEF Replaces
        <4>2. \A k \in GuestFds \ S : h \notin HostFdsOf(k)
          BY <3>1, <3>2 DEF HostOwned, Replaces
        <4>3. \A k \in S : h \notin HostFdsOf(k)'
          BY <2>2 DEF Replaces
        <4> QED
          BY <4>1, <4>2, <4>3, <1>1
      <3>3. CASE g \notin S
        <4>1. \A k \in S : h \notin HostFdsOf(k)
          BY <3>1, <3>3 DEF HostOwned, Replaces
        <4> QED
          BY <2>2, <3>1, <3>3, <4>1, <1>1 DEF Replaces
      <3> QED
        BY <3>2, <3>3
    <2> QED
      BY <2>1, <2>2
  <1>4. ASSUME NEW g \in GuestFds, NEW k \in GuestFds, g # k, NEW h \in HostFdsOf(g)', h \in HostFdsOf(k)'
        PROVE  FALSE
    <2>1. CASE g \in S /\ k \in S
      BY <1>4, <2>1 DEF Replaces
    <2>2. CASE g \in S /\ k \notin S
      BY <1>4, <1>1, <1>2, <2>2 DEF Replaces
    <2>3. CASE g \notin S /\ k \in S
      BY <1>4, <1>1, <1>2, <2>3 DEF Replaces
    <2>4. CASE g \notin S /\ k \notin S
      BY <1>4, <1>1, <2>4 DEF HostOwned
    <2> QED
      BY <2>1, <2>2, <2>3, <2>4
  <1>5. ASSUME NEW g \in GuestFds, special_fds'[g] # None
        PROVE  fd_table'[g] # None /\ fd_table'[g] # special_fds'[g].write_fd
    <2>1. CASE g \in S
      BY <1>5, <2>1 DEF Replaces
    <2>2. CASE g \notin S
      BY <1>5, <2>2 DEF Replaces, SameHold, HostOwned, Open
    <2> QED
      BY <2>1, <2>2
  <1> QED
    BY <1>3, <1>4, <1>5 DEF HostOwned, Open

\* An eventfd or epoll instance outside S keeps its ends, and they are open.
LEMMA EndsKept ==
  ASSUME DescTypeOK, HostOwned, NEW S, Replaces(S), NEW g \in GuestFds \ S, special_fds[g] # None
  PROVE  /\ fd_table[g] \in HostFds /\ special_fds[g].write_fd \in HostFds
         /\ fd_table'[g] = fd_table[g] /\ special_fds'[g].write_fd = special_fds[g].write_fd
         /\ host[fd_table[g]] # None /\ host'[fd_table[g]] = host[fd_table[g]]
         /\ host[special_fds[g].write_fd] # None
         /\ host'[special_fds[g].write_fd] = host[special_fds[g].write_fd]
  <1>1. fd_table[g] \in HostFds /\ special_fds[g].write_fd \in HostFds
    BY DEF DescTypeOK, HostOwned, Open, SpecialStates
  <1>2. fd_table[g] \in HostFdsOf(g) /\ special_fds[g].write_fd \in HostFdsOf(g)
    BY <1>1 DEF HostFdsOf
  <1>3. \A h \in HostFdsOf(g) : host[h] # None /\ \A k \in S : h \notin HostFdsOf(k)
    BY DEF HostOwned, HostFdsOf, Replaces
  <1>4. fd_table'[g] = fd_table[g] /\ special_fds'[g].write_fd = special_fds[g].write_fd
    BY DEF Replaces, SameHold
  <1> QED
    BY <1>1, <1>2, <1>3, <1>4 DEF Replaces

\* A step that gives no stranger an end of a private pipe keeps the pairs.
LEMMA PairsKept ==
  ASSUME DescTypeOK, HostOwned, PipePairs, NEW S, Replaces(S),
         \A g \in S : special_fds'[g] # None => OwnPipe(g)',
         \A h \in HostFds, k \in GuestFds \ S :
           host[h] = None /\ host'[h] # None /\ special_fds[k] # None => host'[h].pipe # PipeOf(k)
  PROVE  PipePairs'
  <1> SUFFICES ASSUME NEW g \in GuestFds, special_fds'[g] # None, g \notin S PROVE OwnPipe(g)'
    BY DEF PipePairs
  <1>1. special_fds[g] # None
    BY DEF Replaces, SameHold
  <1>2. PICK p \in Pipes :
          /\ host[fd_table[g]] = ReadEnd(p)
          /\ host[special_fds[g].write_fd] = WriteEnd(p)
          /\ \A h \in HostFds : host[h] # None /\ host[h].pipe = p => h \in HostFdsOf(g)
    BY <1>1 DEF PipePairs, OwnPipe
  <1>3. PipeOf(g) = p
    BY <1>2 DEF PipeOf, ReadEnd
  <1>4. HostFdsOf(g)' = HostFdsOf(g)
    BY HoldsKept
  <1>5. ASSUME NEW h \in HostFds, host'[h] # None, host'[h].pipe = p PROVE h \in HostFdsOf(g)
    <2>1. host[h] # None
      BY <1>1, <1>3, <1>5
    <2>2. host'[h] = host[h]
      BY <2>1, <1>5 DEF Replaces
    <2> QED
      BY <2>1, <2>2, <1>2, <1>5
  <1>6. (host[fd_table[g]] = ReadEnd(p) /\ host[special_fds[g].write_fd] = WriteEnd(p))'
    BY <1>1, <1>2, EndsKept DEF ReadEnd, WriteEnd
  <1> QED
    BY <1>4, <1>5, <1>6 DEF OwnPipe

\* A step that leaves the counters and the private pipes of the others alone keeps
\* the eventfds signalled.
LEMMA SignalsKept ==
  ASSUME DescTypeOK, HostOwned, EventfdSignalled, NEW S, Replaces(S),
         \A g \in S : (IsSpecial(g, "eventfd") =>
                         bytes[PipeOf(g)] = IF special_fds[g].counter = 0 THEN 0 ELSE 1)',
         \A g \in GuestFds \ S : IsSpecial(g, "eventfd") =>
           /\ special_fds'[g].counter = special_fds[g].counter
           /\ bytes'[PipeOf(g)] = bytes[PipeOf(g)]
  PROVE  EventfdSignalled'
  <1> SUFFICES ASSUME NEW g \in GuestFds, IsSpecial(g, "eventfd")', g \notin S
               PROVE  (bytes[PipeOf(g)] = IF special_fds[g].counter = 0 THEN 0 ELSE 1)'
    BY DEF EventfdSignalled
  <1>1. IsSpecial(g, "eventfd")
    BY DEF Replaces, SameHold, IsSpecial
  <1>2. PipeOf(g)' = PipeOf(g)
    BY <1>1, EndsKept DEF IsSpecial, PipeOf
  <1> QED
    BY <1>1, <1>2 DEF EventfdSignalled

\* A step that registers nothing and drops the registrations of S keeps them open.
LEMMA RegistrationsKept ==
  ASSUME RegistrationsOpen, NEW S, Replaces(S),
         \A e \in S, g \in GuestFds : (IsSpecial(e, "epoll") => special_fds[e].registrations[g] = None)',
         \A e \in GuestFds \ S, g \in GuestFds :
           IsSpecial(e, "epoll") /\ special_fds'[e].registrations[g] # None =>
             g \notin S /\ special_fds[e].registrations[g] # None
  PROVE  RegistrationsOpen'
  <1> SUFFICES ASSUME NEW e \in GuestFds, IsSpecial(e, "epoll")',
                      NEW g \in GuestFds, special_fds'[e].registrations[g] # None
               PROVE  g # e /\ (Open(g) /\ ~IsSpecial(g, "epoll"))'
    BY DEF RegistrationsOpen, Registered
  <1>1. e \notin S
    OBVIOUS
  <1>2. IsSpecial(e, "epoll")
    BY <1>1 DEF Replaces, SameHold, IsSpecial
  <1>3. g \notin S /\ g \in Registered(e)
    BY <1>1, <1>2 DEF Registered
  <1>4. g # e /\ Open(g) /\ ~IsSpecial(g, "epoll")
    BY <1>2, <1>3 DEF RegistrationsOpen
  <1> QED
    BY <1>3, <1>4 DEF Replaces, SameHold, Open, IsSpecial

-----------------------------------------------------------------------------
\* Calls that open and close descriptors.

\* A descriptor that is not open holds nothing.
LEMMA ClosedHoldsNothing ==
  ASSUME HostOwned, NEW g \in GuestFds, ~Open(g)
  PROVE  special_fds[g] = None /\ HostFdsOf(g) = {}
  <1>1. special_fds[g] = None
    BY DEF HostOwned
  <1> QED
    BY <1>1, DescriptorsAssumption DEF HostFdsOf, Open

\* unregister_from_epolls drops the descriptors of S and their registrations, and
\* changes nothing else.
LEMMA Unregistered ==
  ASSUME DescTypeOK, NEW S, NEW e \in GuestFds
  PROVE  LET u == unregister_from_epolls(S)[e]
         IN /\ u \in SpecialStates \cup {None}
            /\ u = None <=> e \in S \/ special_fds[e] = None
            /\ u # None => /\ u.kind = special_fds[e].kind
                           /\ u.write_fd = special_fds[e].write_fd
                           /\ u.counter = special_fds[e].counter
                           /\ \A g \in GuestFds : u.registrations[g] =
                                IF g \in S THEN None ELSE special_fds[e].registrations[g]
  <1> DEFINE u == unregister_from_epolls(S)[e]
             R == [g \in GuestFds |-> IF g \in S THEN None ELSE special_fds[e].registrations[g]]
  <1>1. CASE e \in S \/ special_fds[e] = None
    BY <1>1 DEF unregister_from_epolls
  <1>2. CASE ~(e \in S \/ special_fds[e] = None)
    <2>1. special_fds[e] \in SpecialStates
      BY <1>2 DEF DescTypeOK
    <2>2. u = [special_fds[e] EXCEPT !.registrations = R]
      BY <1>2 DEF unregister_from_epolls
    <2>3. R \in [GuestFds -> EventSets \cup {None}]
      BY <2>1 DEF SpecialStates
    <2>4. u \in SpecialStates
      BY <2>1, <2>2, <2>3 DEF SpecialStates
    <2>5. /\ u.kind = special_fds[e].kind /\ u.write_fd = special_fds[e].write_fd
          /\ u.counter = special_fds[e].counter /\ u.registrations = R
      BY <2>1, <2>2 DEF SpecialStates
    <2>6. u # None
      BY <2>4, DescriptorsAssumption
    <2> QED
      BY <1>2, <2>4, <2>5, <2>6 DEF u
  <1> QED
    BY <1>1, <1>2

\* The step of close, dup, dup3, openat, pipe2, eventfd2 and epoll_create1: the
\* descriptors of S are released, in a host table to which the call has added what
\* they hold next.
Swap(S, table) ==
  /\ S \subseteq GuestFds
  /\ fd_table' \in [GuestFds -> HostFds \cup {None}]
  /\ special_fds' \in [GuestFds -> SpecialStates \cup {None}]
  /\ table \in [HostFds -> HostEntries \cup {None}]
  /\ host' = [h \in HostFds |-> IF \E g \in S : h \in HostFdsOf(g) THEN None ELSE table[h]]
  /\ \A g \in GuestFds \ S : /\ fd_table'[g] = fd_table[g]
                             /\ special_fds'[g] = unregister_from_epolls(S)[g]
  /\ \A h \in HostFds : host[h] # None => table[h] = host[h]
  /\ \A h \in HostFds : host[h] = None => (table[h] # None <=> \E g \in S : h \in HostFdsOf(g)')
  /\ \A g \in S : \A h \in HostFdsOf(g)' : host[h] = None
  /\ \A g, k \in S : g # k => \A h \in HostFdsOf(g)' : h \notin HostFdsOf(k)'
  /\ \A g \in S : special_fds'[g] # None => fd_table'[g] # None /\ fd_table'[g] # special_fds'[g].write_fd

\* It keeps the invariant if new eventfds and epoll instances get a pipe of their
\* own and the pipes of the others are left alone.
LEMMA SwapKept ==
  ASSUME DescInv, NEW S, NEW table, Swap(S, table),
         bytes' \in [Pipes -> 0 .. PIPE_CAPACITY],
         \A g \in S : special_fds'[g] # None =>
           /\ OwnPipe(g)'
           /\ \A k \in GuestFds : special_fds'[g].registrations[k] = None
           /\ (IsSpecial(g, "eventfd") =>
                 bytes[PipeOf(g)] = IF special_fds[g].counter = 0 THEN 0 ELSE 1)',
         \A h \in HostFds, k \in GuestFds \ S :
           host[h] = None /\ table[h] # None /\ special_fds[k] # None => table[h].pipe # PipeOf(k),
         \A k \in GuestFds \ S : IsSpecial(k, "eventfd") => bytes'[PipeOf(k)] = bytes[PipeOf(k)]
  PROVE  DescInv'
  <1>0. DescTypeOK /\ HostOwned /\ PipePairs /\ EventfdSignalled /\ RegistrationsOpen
    BY DEF DescInv
  <1>1. DescTypeOK'
    BY DEF Swap, DescTypeOK
  <1>2. \A g \in GuestFds \ S :
          /\ special_fds'[g] = None <=> special_fds[g] = None
          /\ special_fds[g] # None =>
               /\ special_fds'[g].kind = special_fds[g].kind
               /\ special_fds'[g].write_fd = special_fds[g].write_fd
               /\ special_fds'[g].counter = special_fds[g].counter
               /\ \A k \in GuestFds : special_fds'[g].registrations[k] =
                    IF k \in S THEN None ELSE special_fds[g].registrations[k]
    BY <1>0, Unregistered DEF Swap
  <1>3. Replaces(S)
    <2>1. \A g \in GuestFds \ S : SameHold(g)
      BY <1>2 DEF SameHold, Swap
    <2>2. \A h \in HostFds :
            host[h] # None => host'[h] = IF \E g \in S : h \in HostFdsOf(g) THEN None ELSE host[h]
      BY DEF Swap
    <2>3. \A h \in HostFds : host[h] = None => \A g \in S : h \notin HostFdsOf(g)
      BY <1>0 DEF HostOwned, Swap
    <2>4. \A h \in HostFds : host[h] = None => (host'[h] # None <=> \E g \in S : h \in HostFdsOf(g)')
      BY <2>3 DEF Swap
    <2> QED
      BY <2>1, <2>2, <2>4 DEF Swap, Replaces
  <1>4. HostOwned'
    BY <1>0, <1>3, OwnershipKept
  <1>5. PipePairs'
    <2>1. \A h \in HostFds, k \in GuestFds \ S :
            host[h] = None /\ host'[h] # None /\ special_fds[k] # None => host'[h].pipe # PipeOf(k)
      BY DEF Swap
    <2> QED
      BY <1>0, <1>3, <2>1, PairsKept
  <1>6. EventfdSignalled'
    <2>1. \A g \in GuestFds \ S : IsSpecial(g, "eventfd") =>
            /\ special_fds'[g].counter = special_fds[g].counter
            /\ bytes'[PipeOf(g)] = bytes[PipeOf(g)]
      BY <1>2 DEF IsSpecial
    <2>2. \A g \in S : (IsSpecial(g, "eventfd") =>
                          bytes[PipeOf(g)] = IF special_fds[g].counter = 0 THEN 0 ELSE 1)'
      BY DEF IsSpecial
    <2> QED
      BY <1>0, <1>3, <2>1, <2>2, SignalsKept
  <1>7. RegistrationsOpen'
    <2>1. \A e \in S, g \in GuestFds : (IsSpecial(e, "epoll") => special_fds[e].registrations[g] = None)'
      BY DEF IsSpecial
    <2>2. \A e \in GuestFds \ S, g \in GuestFds :
            IsSpecial(e, "epoll") /\ special_fds'[e].registrations[g] # None =>
              g \notin S /\ special_fds[e].registrations[g] # None
      BY <1>2 DEF IsSpecial
    <2> QED
      BY <1>0, <1>3, <2>1, <2>2, RegistrationsKept
  <1> QED
    BY <1>1, <1>4, <1>5, <1>6, <1>7 DEF DescInv

\* close releases one descriptor.
LEMMA CloseKeeps ==
  ASSUME DescInv, NEW g \in GuestFds, close_guest_fd(g)
  PROVE  DescInv'
  <1>0. DescTypeOK
    BY DEF DescInv
  <1>1. \A e \in GuestFds : unregister_from_epolls({g})[e] \in SpecialStates \cup {None}
    BY <1>0, Unregistered
  <1>2. /\ fd_table' \in [GuestFds -> HostFds \cup {None}]
        /\ special_fds' \in [GuestFds -> SpecialStates \cup {None}]
    BY <1>0, <1>1 DEF close_guest_fd, DescTypeOK, unregister_from_epolls
  <1>3. fd_table'[g] = None /\ special_fds'[g] = None
    BY <1>0 DEF close_guest_fd, DescTypeOK, unregister_from_epolls
  <1>4. \A h \in HostFds : h \notin HostFdsOf(g)'
    BY <1>3, DescriptorsAssumption DEF HostFdsOf
  <1>5. host' = [h \in HostFds |-> IF \E k \in {g} : h \in HostFdsOf(k) THEN None ELSE host[h]]
    BY DEF close_guest_fd, Closed
  <1>6. Swap({g}, host)
    <2>1. \A h : h \notin HostFdsOf(g)'
      BY <1>4 DEF HostFdsOf
    <2> QED
      BY <1>0, <1>2, <1>3, <1>5, <2>1 DEF Swap, close_guest_fd, DescTypeOK
  <1>7. UNCHANGED bytes /\ bytes' \in [Pipes -> 0 .. PIPE_CAPACITY]
    BY <1>0 DEF close_guest_fd, DescTypeOK
  <1> QED
    BY <1>3, <1>6, <1>7, SwapKept

\* insert_guest_fd swaps one descriptor for host descriptors that were free.
LEMMA InsertSwaps ==
  ASSUME DescInv, NEW g \in GuestFds, NEW h \in HostFds, NEW special \in SpecialStates \cup {None},
         NEW table \in [HostFds -> HostEntries \cup {None}],
         insert_guest_fd(g, h, table, special),
         host[h] = None, table[h] # None,
         special # None =>
           special.write_fd # h /\ host[special.write_fd] = None /\ table[special.write_fd] # None,
         \A k \in HostFds : k # h /\ (special # None => k # special.write_fd) => table[k] = host[k]
  PROVE  Swap({g}, table) /\ fd_table'[g] = h /\ special_fds'[g] = special
  <1>0. DescTypeOK
    BY DEF DescInv
  <1>1. \A e \in GuestFds : unregister_from_epolls({g})[e] \in SpecialStates \cup {None}
    BY <1>0, Unregistered
  <1>2. /\ fd_table' \in [GuestFds -> HostFds \cup {None}] /\ fd_table'[g] = h
        /\ \A k \in GuestFds \ {g} : fd_table'[k] = fd_table[k]
    BY <1>0 DEF insert_guest_fd, DescTypeOK
  <1>3. /\ special_fds' \in [GuestFds -> SpecialStates \cup {None}] /\ special_fds'[g] = special
        /\ \A k \in GuestFds \ {g} : special_fds'[k] = unregister_from_epolls({g})[k]
    <2> DEFINE U == unregister_from_epolls({g})
    <2>1. special_fds' = [U EXCEPT ![g] = special]
      BY DEF insert_guest_fd
    <2>2. U = [e \in GuestFds |-> U[e]]
      BY DEF unregister_from_epolls
    <2>3. \A e \in GuestFds : U[e] \in SpecialStates \cup {None}
      BY <1>1
    <2> HIDE DEF U
    <2>4. U \in [GuestFds -> SpecialStates \cup {None}]
      BY <2>2, <2>3
    <2>5. special_fds' \in [GuestFds -> SpecialStates \cup {None}] /\ special_fds'[g] = special
      BY <2>1, <2>4
    <2>6. \A k \in GuestFds \ {g} : special_fds'[k] = U[k]
      BY <2>1, <2>4
    <2> QED
      BY <2>5, <2>6 DEF U
  <1>4. special # None => special.write_fd \in HostFds
    BY DEF SpecialStates
  <1>5. \A k : k \in HostFdsOf(g)' <=> k = h \/ (special # None /\ k = special.write_fd)
    BY <1>2, <1>3, <1>4 DEF HostFdsOf
  <1>6. host' = [k \in HostFds |-> IF \E e \in {g} : k \in HostFdsOf(e) THEN None ELSE table[k]]
    BY DEF insert_guest_fd, Closed
  <1>7. h # None
    BY DescriptorsAssumption
  <1>8. Swap({g}, table)
    <2>1. \A k \in HostFds : host[k] # None => table[k] = host[k]
      OBVIOUS
    <2>2. \A k \in HostFds : host[k] = None => (table[k] # None <=> \E e \in {g} : k \in HostFdsOf(e)')
      BY <1>5
    <2>3. \A k \in HostFdsOf(g)' : host[k] = None
      BY <1>5
    <2> QED
      BY <1>2, <1>3, <1>6, <1>7, <2>1, <2>2, <2>3 DEF Swap
  <1> QED
    BY <1>2, <1>3, <1>8

\* openat, dup and dup3 insert a plain descriptor; it refers to a file, or to what
\* a plain descriptor refers to already.
LEMMA InsertPlainKeeps ==
  ASSUME DescInv, NEW g \in GuestFds, NEW h \in Free, NEW entry \in HostEntries,
         insert_guest_fd(g, h, [host EXCEPT ![h] = entry], None), UNCHANGED bytes,
         \A k \in GuestFds : special_fds[k] # None => entry.pipe # PipeOf(k)
  PROVE  DescInv'
  <1> DEFINE table == [host EXCEPT ![h] = entry]
  <1>0. DescTypeOK /\ h \in HostFds /\ host[h] = None
    BY DEF DescInv, Free
  <1>1. table \in [HostFds -> HostEntries \cup {None}] /\ table[h] = entry
    BY <1>0 DEF DescTypeOK
  <1>2. \A k \in HostFds : k # h => table[k] = host[k]
    BY <1>0 DEF DescTypeOK
  <1>3. table[h] # None
    BY <1>1, DescriptorsAssumption
  <1>4. insert_guest_fd(g, h, table, None)
    OBVIOUS
  <1> HIDE DEF table
  <1>5. Swap({g}, table) /\ special_fds'[g] = None
    BY <1>0, <1>1, <1>2, <1>3, <1>4, InsertSwaps
  <1>6. \A k \in HostFds, i \in GuestFds \ {g} :
          host[k] = None /\ table[k] # None /\ special_fds[i] # None => table[k].pipe # PipeOf(i)
    BY <1>1, <1>2
  <1> QED
    BY <1>0, <1>5, <1>6, SwapKept DEF DescTypeOK

\* An open descriptor refers to something the host has open.
LEMMA OpenEntry ==
  ASSUME DescInv, NEW g \in GuestFds, Open(g)
  PROVE  fd_table[g] \in HostFdsOf(g) /\ fd_table[g] \in HostFds /\ host[fd_table[g]] \in HostEntries
  <1>1. fd_table[g] \in HostFds
    BY DEF DescInv, DescTypeOK, Open
  <1>2. fd_table[g] \in HostFdsOf(g)
    BY <1>1 DEF HostFdsOf
  <1>3. host[fd_table[g]] # None
    BY <1>1, <1>2 DEF DescInv, HostOwned
  <1> QED
    BY <1>1, <1>2, <1>3 DEF DescInv, DescTypeOK

\* The pipe of an eventfd or epoll instance is a pipe in use, and what any other
\* descriptor refers to is not an end of it.
LEMMA PrivatePipe ==
  ASSUME DescInv, NEW k \in GuestFds, special_fds[k] # None
  PROVE  /\ PipeOf(k) \in Pipes /\ ~Unused(PipeOf(k))
         /\ \A g \in GuestFds : g # k /\ Open(g) => host[fd_table[g]].pipe # PipeOf(k)
  <1>1. Open(k)
    BY DEF DescInv, HostOwned
  <1>2. PICK p \in Pipes :
          /\ host[fd_table[k]] = ReadEnd(p)
          /\ \A h \in HostFds : host[h] # None /\ host[h].pipe = p => h \in HostFdsOf(k)
    BY DEF DescInv, PipePairs, OwnPipe
  <1>3. PipeOf(k) = p
    BY <1>2 DEF PipeOf, ReadEnd
  <1>4. host[fd_table[k]] # None /\ fd_table[k] \in HostFds
    BY <1>1, OpenEntry, DescriptorsAssumption
  <1>5. ~Unused(p)
    BY <1>3, <1>4 DEF Unused, PipeOf
  <1>6. ASSUME NEW g \in GuestFds, g # k, Open(g), host[fd_table[g]].pipe = p PROVE FALSE
    <2>1. fd_table[g] \in HostFdsOf(g) /\ fd_table[g] \in HostFds /\ host[fd_table[g]] # None
      BY <1>6, OpenEntry, DescriptorsAssumption
    <2>2. fd_table[g] \in HostFdsOf(k)
      BY <1>2, <1>6, <2>1
    <2> QED
      BY <1>6, <2>1, <2>2 DEF DescInv, HostOwned
  <1> QED
    BY <1>3, <1>5, <1>6

\* openat.
LEMMA OpenatKeeps == ASSUME DescInv, openat PROVE DescInv'
  <1>1. PICK g \in GuestFds, h \in Free :
          insert_guest_fd(g, h, [host EXCEPT ![h] = File], None) /\ UNCHANGED bytes
    BY DEF openat
  <1>2. File \in HostEntries
    BY DEF File, HostEntries
  <1>3. \A k \in GuestFds : special_fds[k] # None => File.pipe # PipeOf(k)
    BY PrivatePipe, DescriptorsAssumption DEF File
  <1> QED
    BY <1>1, <1>2, <1>3, InsertPlainKeeps

\* A copy of a plain descriptor.
LEMMA CopyKeeps ==
  ASSUME DescInv, NEW g \in GuestFds, NEW new \in GuestFds, NEW h \in Free,
         special_fds[g] = None, Open(g),
         insert_guest_fd(new, h, [host EXCEPT ![h] = host[fd_table[g]]], None), UNCHANGED bytes
  PROVE  DescInv'
  <1>1. host[fd_table[g]] \in HostEntries
    BY OpenEntry
  <1>2. \A k \in GuestFds : special_fds[k] # None => host[fd_table[g]].pipe # PipeOf(k)
    BY PrivatePipe
  <1> QED
    BY <1>1, <1>2, InsertPlainKeeps

\* fcntl's dup.
LEMMA DuplicateKeeps ==
  ASSUME DescInv, NEW g \in GuestFds, NEW min, duplicate_guest_fd(g, min)
  PROVE  DescInv'
  BY CopyKeeps DEF duplicate_guest_fd

\* dup3.
LEMMA DuplicateToKeeps ==
  ASSUME DescInv, NEW g \in GuestFds, NEW target \in Targets, duplicate_guest_fd_to(g, target)
  PROVE  DescInv'
  BY CopyKeeps, DescriptorsAssumption DEF duplicate_guest_fd_to

\* The host table with a new pipe.
LEMMA NewPipeTable ==
  ASSUME DescTypeOK, NEW r \in Free, NEW w \in Free, r # w, NEW p \in Pipes
  PROVE  /\ r \in HostFds /\ w \in HostFds /\ host[r] = None /\ host[w] = None
         /\ WithPipe(r, w, p) \in [HostFds -> HostEntries \cup {None}]
         /\ WithPipe(r, w, p)[r] = ReadEnd(p) /\ WithPipe(r, w, p)[w] = WriteEnd(p)
         /\ ReadEnd(p) # None /\ WriteEnd(p) # None
         /\ ReadEnd(p).pipe = p /\ WriteEnd(p).pipe = p
         /\ \A k \in HostFds : k # r /\ k # w => WithPipe(r, w, p)[k] = host[k]
  <1>1. ReadEnd(p) \in HostEntries /\ WriteEnd(p) \in HostEntries
    BY DEF ReadEnd, WriteEnd, HostEntries
  <1>2. ReadEnd(p).pipe = p /\ WriteEnd(p).pipe = p
    BY DEF ReadEnd, WriteEnd
  <1> QED
    BY <1>1, <1>2, DescriptorsAssumption DEF DescTypeOK, Free, WithPipe

\* eventfd2 and epoll_create1.
LEMMA NewSpecialKeeps ==
  ASSUME DescInv, NEW kind \in {"eventfd", "epoll"}, NEW counter \in 0 .. MAX,
         NEW semaphore \in BOOLEAN, NEW signal \in 0 .. PIPE_CAPACITY,
         kind = "eventfd" => signal = IF counter = 0 THEN 0 ELSE 1,
         NewSpecial(kind, counter, semaphore, signal)
  PROVE  DescInv'
  <1>0. DescTypeOK /\ HostOwned
    BY DEF DescInv
  <1>1. PICK r \in Free, w \in Free, p \in Pipes, g \in GuestFds :
          /\ r # w /\ Unused(p) /\ alloc_guest_fd_from(g, FIRST_FD)
          /\ insert_guest_fd(g, r, WithPipe(r, w, p), SpecialState(kind, w, counter, semaphore))
          /\ bytes' = [bytes EXCEPT ![p] = signal]
    BY Zenon DEF NewSpecial
  <1> DEFINE table == WithPipe(r, w, p)
             special == SpecialState(kind, w, counter, semaphore)
  <1>2. /\ r \in HostFds /\ w \in HostFds /\ host[r] = None /\ host[w] = None
        /\ table \in [HostFds -> HostEntries \cup {None}]
        /\ table[r] = ReadEnd(p) /\ table[w] = WriteEnd(p)
        /\ ReadEnd(p) # None /\ WriteEnd(p) # None
        /\ ReadEnd(p).pipe = p /\ WriteEnd(p).pipe = p
        /\ \A k \in HostFds : k # r /\ k # w => table[k] = host[k]
    BY <1>0, <1>1, NewPipeTable
  <1>3. /\ special \in SpecialStates
        /\ special.kind = kind /\ special.write_fd = w /\ special.counter = counter
        /\ \A k \in GuestFds : special.registrations[k] = None
    BY <1>2 DEF SpecialState, SpecialStates, NoRegistrations
  <1>4. special # None
    BY <1>3, DescriptorsAssumption
  <1>5. insert_guest_fd(g, r, table, special)
    BY <1>1
  <1> HIDE DEF table, special
  <1>6. Swap({g}, table) /\ fd_table'[g] = r /\ special_fds'[g] = special
    BY <1>1, <1>2, <1>3, <1>4, <1>5, InsertSwaps
  <1>7. HostFdsOf(g) = {}
    BY <1>0, <1>1, ClosedHoldsNothing DEF alloc_guest_fd_from
  <1>8. \A h \in HostFds : host'[h] = table[h]
    BY <1>6, <1>7 DEF Swap
  <1>9. OwnPipe(g)'
    <2>1. (host[fd_table[g]] = ReadEnd(p) /\ host[special_fds[g].write_fd] = WriteEnd(p))'
      BY <1>2, <1>3, <1>6, <1>8 DEF ReadEnd, WriteEnd
    <2>2. r \in HostFdsOf(g)' /\ w \in HostFdsOf(g)'
      BY <1>2, <1>3, <1>4, <1>6 DEF HostFdsOf
    <2>3. \A h \in HostFds : host'[h] # None /\ host'[h].pipe = p => h \in {r, w}
      BY <1>1, <1>2, <1>8 DEF Unused
    <2> QED
      BY <2>1, <2>2, <2>3 DEF OwnPipe
  <1>10. (IsSpecial(g, "eventfd") => bytes[PipeOf(g)] = IF special_fds[g].counter = 0 THEN 0 ELSE 1)'
    <2>1. PipeOf(g)' = p
      BY <1>2, <1>6, <1>8 DEF PipeOf
    <2>2. bytes'[p] = signal
      BY <1>0, <1>1 DEF DescTypeOK
    <2> QED
      BY <1>3, <1>6, <2>1, <2>2 DEF IsSpecial
  <1>11. \A k \in GuestFds \ {g} : special_fds[k] # None => PipeOf(k) \in Pipes /\ PipeOf(k) # p
    BY <1>1, PrivatePipe
  <1>12. \A h \in HostFds, k \in GuestFds \ {g} :
           host[h] = None /\ table[h] # None /\ special_fds[k] # None => table[h].pipe # PipeOf(k)
    BY <1>2, <1>11
  <1>13. /\ bytes' \in [Pipes -> 0 .. PIPE_CAPACITY]
         /\ \A k \in GuestFds \ {g} : IsSpecial(k, "eventfd") => bytes'[PipeOf(k)] = bytes[PipeOf(k)]
    BY <1>0, <1>1, <1>11 DEF DescTypeOK, IsSpecial
  <1> QED
    BY <1>3, <1>6, <1>9, <1>10, <1>12, <1>13, SwapKept

\* pipe2: two descriptors get the ends of a new pipe, or its ends are closed again.
LEMMA Pipe2Keeps == ASSUME DescInv, NEW fault \in BOOLEAN, dispatch_pipe2(fault) PROVE DescInv'
  <1>0. DescTypeOK /\ HostOwned
    BY DEF DescInv
  <1>1. PICK r \in Free, w \in Free, p \in Pipes, rg \in GuestFds, wg \in GuestFds :
          /\ r # w /\ Unused(p)
          /\ alloc_guest_fd_from(rg, FIRST_FD) /\ wg # rg /\ alloc_guest_fd_from(wg, rg + 1)
          /\ bytes' = [bytes EXCEPT ![p] = 0]
          /\ IF fault
             THEN /\ host' = Closed(WithPipe(r, w, p), {r, w})
                  /\ UNCHANGED <<fd_table, special_fds>>
             ELSE /\ host' = Closed(WithPipe(r, w, p), HostFdsOf(rg) \cup HostFdsOf(wg))
                  /\ fd_table' = [fd_table EXCEPT ![rg] = r, ![wg] = w]
                  /\ special_fds' = unregister_from_epolls({rg, wg})
    BY Zenon DEF dispatch_pipe2
  <1> DEFINE table == WithPipe(r, w, p)
  <1>2. /\ r \in HostFds /\ w \in HostFds /\ host[r] = None /\ host[w] = None
        /\ table \in [HostFds -> HostEntries \cup {None}]
        /\ table[r] = ReadEnd(p) /\ table[w] = WriteEnd(p)
        /\ ReadEnd(p) # None /\ WriteEnd(p) # None
        /\ ReadEnd(p).pipe = p /\ WriteEnd(p).pipe = p
        /\ \A k \in HostFds : k # r /\ k # w => table[k] = host[k]
    BY <1>0, <1>1, NewPipeTable
  <1>3. \A k \in GuestFds : special_fds[k] # None => PipeOf(k) \in Pipes /\ PipeOf(k) # p
    BY <1>1, PrivatePipe
  <1>4. /\ bytes' \in [Pipes -> 0 .. PIPE_CAPACITY]
        /\ \A k \in GuestFds : IsSpecial(k, "eventfd") => bytes'[PipeOf(k)] = bytes[PipeOf(k)]
    BY <1>0, <1>1, <1>3, DescriptorsAssumption DEF DescTypeOK, IsSpecial
  <1>5. \A S : \A e \in GuestFds : unregister_from_epolls(S)[e] \in SpecialStates \cup {None}
    BY <1>0, Unregistered
  <1>6. CASE fault
    <2>1. host' = host
      BY <1>0, <1>1, <1>2, <1>6 DEF Closed, DescTypeOK
    <2>2. \A e \in GuestFds : unregister_from_epolls({})[e] = special_fds[e]
      BY <1>0 DEF unregister_from_epolls, DescTypeOK, SpecialStates
    <2>3. Swap({}, host)
      <3>1. host' = [h \in HostFds |-> IF \E g \in {} : h \in HostFdsOf(g) THEN None ELSE host[h]]
        BY <1>0, <2>1 DEF DescTypeOK
      <3> QED
        BY <1>0, <1>1, <1>6, <2>2, <3>1 DEF Swap, DescTypeOK
    <2> QED
      BY <1>4, <2>3, SwapKept
  <1>7. CASE ~fault
    <2>1. special_fds[rg] = None /\ HostFdsOf(rg) = {} /\ special_fds[wg] = None /\ HostFdsOf(wg) = {}
      BY <1>0, <1>1, ClosedHoldsNothing DEF alloc_guest_fd_from
    <2>2. /\ fd_table' \in [GuestFds -> HostFds \cup {None}] /\ fd_table'[rg] = r /\ fd_table'[wg] = w
          /\ \A k \in GuestFds \ {rg, wg} : fd_table'[k] = fd_table[k]
      BY <1>0, <1>1, <1>2, <1>7 DEF DescTypeOK
    <2>3. /\ special_fds' \in [GuestFds -> SpecialStates \cup {None}]
          /\ special_fds' = unregister_from_epolls({rg, wg})
          /\ special_fds'[rg] = None /\ special_fds'[wg] = None
      <3>1. special_fds' = unregister_from_epolls({rg, wg})
        BY <1>1, <1>7
      <3>2. \A e \in GuestFds : special_fds'[e] \in SpecialStates \cup {None}
        BY <1>5, <3>1
      <3>3. special_fds' = [e \in GuestFds |-> special_fds'[e]]
        BY <3>1 DEF unregister_from_epolls
      <3>4. special_fds'[rg] = None /\ special_fds'[wg] = None
        BY <3>1 DEF unregister_from_epolls
      <3> QED
        BY <3>1, <3>2, <3>3, <3>4
    <2>4. (\A k : k \in HostFdsOf(rg)' <=> k = r) /\ (\A k : k \in HostFdsOf(wg)' <=> k = w)
      BY <1>2, <2>2, <2>3 DEF HostFdsOf
    <2>5. host' = [h \in HostFds |-> IF \E g \in {rg, wg} : h \in HostFdsOf(g) THEN None ELSE table[h]]
      BY <1>1, <1>7 DEF Closed
    <2> HIDE DEF table
    <2>6. Swap({rg, wg}, table)
      <3>1. \A h \in HostFds : host[h] # None => table[h] = host[h]
        BY <1>2
      <3>2. \A h \in HostFds : host[h] = None => (table[h] # None <=> \E g \in {rg, wg} : h \in HostFdsOf(g)')
        BY <1>2, <2>4
      <3>3. \A g \in {rg, wg} : /\ \A h \in HostFdsOf(g)' : host[h] = None
                                /\ special_fds'[g] = None
        BY <1>2, <2>3, <2>4
      <3>4. \A g, k \in {rg, wg} : g # k => \A h \in HostFdsOf(g)' : h \notin HostFdsOf(k)'
        BY <1>1, <2>4
      <3>5. \A k \in GuestFds \ {rg, wg} : /\ fd_table'[k] = fd_table[k]
                                            /\ special_fds'[k] = unregister_from_epolls({rg, wg})[k]
        BY <2>2, <2>3
      <3>6. {rg, wg} \subseteq GuestFds
        OBVIOUS
      <3> QED
        BY <1>2, <2>2, <2>3, <2>5, <3>1, <3>2, <3>3, <3>4, <3>5, <3>6, Zenon DEF Swap
    <2>7. \A h \in HostFds, k \in GuestFds \ {rg, wg} :
            host[h] = None /\ table[h] # None /\ special_fds[k] # None => table[h].pipe # PipeOf(k)
      BY <1>2, <1>3
    <2>8. \A g \in {rg, wg} : special_fds'[g] = None
      BY <2>3
    <2> QED
      BY <1>4, <2>6, <2>7, <2>8, SwapKept
  <1> QED
    BY <1>6, <1>7

-----------------------------------------------------------------------------
\* Calls that leave the tables alone.

\* A step that changes no more than the bytes in pipes, and the counter and the
\* registrations of one descriptor.
Touches(g) ==
  /\ UNCHANGED <<fd_table, host>>
  /\ special_fds' \in [GuestFds -> SpecialStates \cup {None}]
  /\ \A k \in GuestFds \ {g} : special_fds'[k] = special_fds[k]
  /\ SameHold(g)

\* It replaces nothing.
LEMMA TouchReplaces ==
  ASSUME DescInv, NEW g \in GuestFds, Touches(g)
  PROVE  Replaces({}) /\ HostOwned' /\ PipePairs'
  <1>0. DescTypeOK /\ HostOwned /\ PipePairs
    BY DEF DescInv
  <1>1. \A k \in GuestFds : SameHold(k)
    BY DEF Touches, SameHold
  <1>2. Replaces({})
    BY <1>1 DEF Replaces, Touches
  <1>3. HostOwned'
    BY <1>0, <1>2, OwnershipKept
  <1>4. \A h \in HostFds, k \in GuestFds \ {} :
          host[h] = None /\ host'[h] # None /\ special_fds[k] # None => host'[h].pipe # PipeOf(k)
    BY DEF Touches
  <1>5. PipePairs'
    BY <1>0, <1>2, <1>4, PairsKept
  <1> QED
    BY <1>2, <1>3, <1>5

\* A change of a counter, with the pipe signalled or drained to match, keeps the
\* invariant.
LEMMA CounterKeeps ==
  ASSUME DescInv, NEW g \in GuestFds, IsSpecial(g, "eventfd"), NEW new \in SpecialStates,
         new.kind = special_fds[g].kind, new.write_fd = special_fds[g].write_fd,
         new.registrations = special_fds[g].registrations,
         special_fds' = [special_fds EXCEPT ![g] = new],
         bytes' \in [Pipes -> 0 .. PIPE_CAPACITY],
         bytes'[PipeOf(g)] = IF new.counter = 0 THEN 0 ELSE 1,
         \A p \in Pipes : p # PipeOf(g) => bytes'[p] = bytes[p],
         UNCHANGED <<fd_table, host>>
  PROVE  DescInv'
  <1>0. DescTypeOK /\ HostOwned /\ PipePairs /\ EventfdSignalled /\ RegistrationsOpen
    BY DEF DescInv
  <1>1. special_fds[g] \in SpecialStates /\ special_fds[g] # None
    BY <1>0 DEF DescTypeOK, IsSpecial
  <1>2. new # None
    BY DescriptorsAssumption
  <1>3. /\ special_fds' \in [GuestFds -> SpecialStates \cup {None}] /\ special_fds'[g] = new
        /\ \A k \in GuestFds \ {g} : special_fds'[k] = special_fds[k]
    BY <1>0 DEF DescTypeOK
  <1>4. SameHold(g)
    BY <1>1, <1>2, <1>3 DEF SameHold
  <1>5. Touches(g)
    BY <1>3, <1>4 DEF Touches
  <1>6. Replaces({}) /\ HostOwned' /\ PipePairs'
    BY <1>5, TouchReplaces
  <1>7. PipeOf(g) \in Pipes
    BY <1>1, PrivatePipe
  <1>8. DescTypeOK'
    BY <1>0, <1>3 DEF DescTypeOK
  <1>9. EventfdSignalled'
    <2> SUFFICES ASSUME NEW k \in GuestFds, IsSpecial(k, "eventfd")'
                 PROVE  (bytes[PipeOf(k)] = IF special_fds[k].counter = 0 THEN 0 ELSE 1)'
      BY DEF EventfdSignalled
    <2>1. PipeOf(k)' = PipeOf(k)
      BY DEF PipeOf
    <2>2. CASE k = g
      BY <1>3, <2>1, <2>2
    <2>3. CASE k # g
      <3>1. IsSpecial(k, "eventfd") /\ special_fds'[k] = special_fds[k]
        BY <1>3, <2>3 DEF IsSpecial
      <3>2. PipeOf(k) # PipeOf(g) /\ PipeOf(k) \in Pipes
        <4>1. Open(k)
          BY <1>0, <3>1 DEF HostOwned, IsSpecial
        <4> QED
          BY <1>1, <2>3, <3>1, <4>1, PrivatePipe DEF IsSpecial, PipeOf
      <3>3. bytes'[PipeOf(k)] = bytes[PipeOf(k)]
        BY <3>2
      <3>4. bytes[PipeOf(k)] = IF special_fds[k].counter = 0 THEN 0 ELSE 1
        BY <1>0, <3>1 DEF EventfdSignalled
      <3> QED
        BY <2>1, <3>1, <3>3, <3>4
    <2> QED
      BY <2>2, <2>3
  <1>10. RegistrationsOpen'
    <2>1. \A e \in GuestFds \ {}, k \in GuestFds :
            IsSpecial(e, "epoll") /\ special_fds'[e].registrations[k] # None =>
              k \notin {} /\ special_fds[e].registrations[k] # None
      BY <1>3
    <2> QED
      BY <1>0, <1>6, <2>1, RegistrationsKept
  <1> QED
    BY <1>6, <1>8, <1>9, <1>10 DEF DescInv

\* Writing to an eventfd: its pipe is empty when the counter leaves zero.
LEMMA EventfdWriteKeeps ==
  ASSUME DescInv, NEW g \in GuestFds, NEW value \in 0 .. MAX, dispatch_eventfd_write(g, value)
  PROVE  DescInv'
  <1> DEFINE counter == special_fds[g].counter
  <1>0. IsSpecial(g, "eventfd") /\ special_fds[g] # None
    BY DEF dispatch_eventfd_write, IsSpecial
  <1>1. special_fds[g] \in SpecialStates
    BY <1>0 DEF DescInv, DescTypeOK
  <1>2. counter \in 0 .. MAX
    BY <1>1 DEF SpecialStates
  <1>3. PipeOf(g) \in Pipes /\ bytes \in [Pipes -> 0 .. PIPE_CAPACITY]
    BY <1>0, PrivatePipe DEF DescInv, DescTypeOK
  <1>4. bytes[PipeOf(g)] = IF counter = 0 THEN 0 ELSE 1
    BY <1>0 DEF DescInv, EventfdSignalled
  <1>5. /\ counter <= MAX - 1 - value
        /\ special_fds' = [special_fds EXCEPT ![g].counter = counter + value]
        /\ bytes' = IF counter = 0 /\ value # 0 /\ bytes[PipeOf(g)] < PIPE_CAPACITY
                    THEN [bytes EXCEPT ![PipeOf(g)] = @ + 1] ELSE bytes
        /\ UNCHANGED <<fd_table, host>>
    BY DEF dispatch_eventfd_write
  <1>6. counter + value \in 0 .. MAX
    BY <1>2, <1>5, DescriptorsAssumption
  <1>7. /\ bytes' \in [Pipes -> 0 .. PIPE_CAPACITY]
        /\ bytes'[PipeOf(g)] = IF counter + value = 0 THEN 0 ELSE 1
        /\ \A p \in Pipes : p # PipeOf(g) => bytes'[p] = bytes[p]
    BY <1>2, <1>3, <1>4, <1>5, DescriptorsAssumption
  <1> DEFINE new == [special_fds[g] EXCEPT !.counter = counter + value]
  <1>8. /\ new \in SpecialStates /\ new.counter = counter + value
        /\ new.kind = special_fds[g].kind /\ new.write_fd = special_fds[g].write_fd
        /\ new.registrations = special_fds[g].registrations
    BY <1>1, <1>6 DEF SpecialStates
  <1>9. special_fds' = [special_fds EXCEPT ![g] = new]
    BY <1>5
  <1>10. UNCHANGED <<fd_table, host>>
    BY <1>5
  <1> HIDE DEF new
  <1>11. bytes'[PipeOf(g)] = IF new.counter = 0 THEN 0 ELSE 1
    BY <1>7, <1>8
  <1> QED
    BY <1>0, <1>7, <1>8, <1>9, <1>10, <1>11, CounterKeeps, ZenonT(60)

\* Reading an eventfd: its pipe holds the byte that a read to zero drains.
LEMMA EventfdReadKeeps ==
  ASSUME DescInv, NEW g \in GuestFds, dispatch_eventfd_read(g)
  PROVE  DescInv'
  <1> DEFINE counter == special_fds[g].counter
             left == counter - (IF special_fds[g].semaphore THEN 1 ELSE counter)
  <1>0. IsSpecial(g, "eventfd") /\ special_fds[g] # None
    BY DEF dispatch_eventfd_read, IsSpecial
  <1>1. special_fds[g] \in SpecialStates
    BY <1>0 DEF DescInv, DescTypeOK
  <1>2. counter \in 0 .. MAX
    BY <1>1 DEF SpecialStates
  <1>3. PipeOf(g) \in Pipes /\ bytes \in [Pipes -> 0 .. PIPE_CAPACITY]
    BY <1>0, PrivatePipe DEF DescInv, DescTypeOK
  <1>4. bytes[PipeOf(g)] = IF counter = 0 THEN 0 ELSE 1
    BY <1>0 DEF DescInv, EventfdSignalled
  <1>5. /\ counter # 0
        /\ special_fds' = [special_fds EXCEPT ![g].counter = left]
        /\ bytes' = IF left = 0 /\ bytes[PipeOf(g)] > 0
                    THEN [bytes EXCEPT ![PipeOf(g)] = @ - 1] ELSE bytes
        /\ UNCHANGED <<fd_table, host>>
    BY DEF dispatch_eventfd_read
  <1>6. left \in 0 .. MAX
    BY <1>2, <1>5, DescriptorsAssumption
  <1> HIDE DEF left
  <1>7. /\ bytes' \in [Pipes -> 0 .. PIPE_CAPACITY]
        /\ bytes'[PipeOf(g)] = IF left = 0 THEN 0 ELSE 1
        /\ \A p \in Pipes : p # PipeOf(g) => bytes'[p] = bytes[p]
    BY <1>2, <1>3, <1>4, <1>5, <1>6, DescriptorsAssumption
  <1> DEFINE new == [special_fds[g] EXCEPT !.counter = left]
  <1>8. /\ new \in SpecialStates /\ new.counter = left
        /\ new.kind = special_fds[g].kind /\ new.write_fd = special_fds[g].write_fd
        /\ new.registrations = special_fds[g].registrations
    BY <1>1, <1>6 DEF SpecialStates
  <1>9. special_fds' = [special_fds EXCEPT ![g] = new]
    BY <1>5
  <1>10. UNCHANGED <<fd_table, host>>
    BY <1>5
  <1> HIDE DEF new
  <1>11. bytes'[PipeOf(g)] = IF new.counter = 0 THEN 0 ELSE 1
    BY <1>7, <1>8
  <1> QED
    BY <1>0, <1>7, <1>8, <1>9, <1>10, <1>11, CounterKeeps, ZenonT(60)

\* New registrations of one epoll instance, all of open descriptors that are none,
\* keep the invariant.
LEMMA RegisterKeeps ==
  ASSUME DescInv, NEW ep \in GuestFds, IsSpecial(ep, "epoll"), NEW new \in SpecialStates,
         new.kind = special_fds[ep].kind, new.write_fd = special_fds[ep].write_fd,
         \A g \in GuestFds : new.registrations[g] # None => g # ep /\ Open(g) /\ ~IsSpecial(g, "epoll"),
         special_fds' = [special_fds EXCEPT ![ep] = new],
         UNCHANGED <<fd_table, host, bytes>>
  PROVE  DescInv'
  <1>0. DescTypeOK /\ HostOwned /\ PipePairs /\ EventfdSignalled /\ RegistrationsOpen
    BY DEF DescInv
  <1>1. special_fds[ep] \in SpecialStates /\ special_fds[ep] # None /\ new # None
    BY <1>0, DescriptorsAssumption DEF DescTypeOK, IsSpecial
  <1>2. /\ special_fds' \in [GuestFds -> SpecialStates \cup {None}] /\ special_fds'[ep] = new
        /\ \A k \in GuestFds \ {ep} : special_fds'[k] = special_fds[k]
    BY <1>0 DEF DescTypeOK
  <1>3. SameHold(ep)
    BY <1>1, <1>2 DEF SameHold
  <1>4. Touches(ep)
    BY <1>2, <1>3 DEF Touches
  <1>5. Replaces({}) /\ HostOwned' /\ PipePairs'
    BY <1>4, TouchReplaces
  <1>6. DescTypeOK'
    BY <1>0, <1>2 DEF DescTypeOK
  <1>7. EventfdSignalled'
    <2>1. \A g \in GuestFds \ {} : IsSpecial(g, "eventfd") =>
            /\ special_fds'[g].counter = special_fds[g].counter
            /\ bytes'[PipeOf(g)] = bytes[PipeOf(g)]
      BY <1>2 DEF IsSpecial
    <2> QED
      BY <1>0, <1>5, <2>1, SignalsKept
  <1>8. RegistrationsOpen'
    <2>1. \A g \in GuestFds : /\ Open(g)' <=> Open(g)
                              /\ IsSpecial(g, "epoll")' <=> IsSpecial(g, "epoll")
      BY <1>1, <1>2 DEF Open, IsSpecial
    <2>2. \A g \in GuestFds : g \in Registered(ep)' => g # ep /\ Open(g) /\ ~IsSpecial(g, "epoll")
      BY <1>2 DEF Registered
    <2>3. \A e \in GuestFds \ {ep} : Registered(e)' = Registered(e)
      BY <1>2 DEF Registered
    <2>4. \A e \in GuestFds : \A g \in Registered(e)' : g \in GuestFds
      BY DEF Registered
    <2> QED
      BY <1>0, <2>1, <2>2, <2>3, <2>4 DEF RegistrationsOpen
  <1> QED
    BY <1>5, <1>6, <1>7, <1>8 DEF DescInv

\* epoll_ctl.
LEMMA EpollCtlKeeps ==
  ASSUME DescInv, NEW ep \in GuestFds, NEW op, NEW target \in GuestFds, NEW events \in EventSets,
         dispatch_epoll_ctl(ep, op, target, events)
  PROVE  DescInv'
  <1> DEFINE old == special_fds[ep].registrations
             R == [old EXCEPT ![target] = IF op = "DEL" THEN None ELSE events]
             new == [special_fds[ep] EXCEPT !.registrations = R]
  <1>1. /\ IsSpecial(ep, "epoll") /\ target # ep /\ ~IsSpecial(target, "epoll") /\ Open(target)
        /\ special_fds' = [special_fds EXCEPT ![ep] = new]
        /\ UNCHANGED <<fd_table, host, bytes>>
    BY DEF dispatch_epoll_ctl
  <1>2. special_fds[ep] \in SpecialStates
    BY <1>1 DEF DescInv, DescTypeOK, IsSpecial
  <1>3. old \in [GuestFds -> EventSets \cup {None}]
    BY <1>2 DEF SpecialStates
  <1> HIDE DEF old
  <1>4. /\ R \in [GuestFds -> EventSets \cup {None}]
        /\ \A g \in GuestFds : g # target => R[g] = old[g]
    BY <1>3
  <1> HIDE DEF R
  <1>5. /\ new \in SpecialStates
        /\ new.kind = special_fds[ep].kind /\ new.write_fd = special_fds[ep].write_fd
        /\ new.registrations = R
    BY <1>2, <1>4 DEF SpecialStates
  <1> HIDE DEF new
  <1>6. \A g \in GuestFds : old[g] # None => g # ep /\ Open(g) /\ ~IsSpecial(g, "epoll")
    BY <1>1 DEF DescInv, RegistrationsOpen, Registered, old
  <1>7. \A g \in GuestFds : new.registrations[g] # None => g # ep /\ Open(g) /\ ~IsSpecial(g, "epoll")
    BY <1>1, <1>4, <1>5, <1>6
  <1> QED
    BY <1>1, <1>5, <1>7, RegisterKeeps, ZenonT(60)

\* epoll_pwait drops one-shot registrations.
LEMMA EpollWaitKeeps ==
  ASSUME DescInv, NEW ep \in GuestFds, dispatch_epoll_pwait(ep)
  PROVE  DescInv'
  <1> DEFINE old == special_fds[ep].registrations
             R == [g \in GuestFds |->
                     IF g \in EpollReady(ep) /\ "ONESHOT" \in old[g] THEN None ELSE old[g]]
             new == [special_fds[ep] EXCEPT !.registrations = R]
  <1>1. /\ IsSpecial(ep, "epoll")
        /\ special_fds' = [special_fds EXCEPT ![ep] = new]
        /\ UNCHANGED <<fd_table, host, bytes>>
    BY DEF dispatch_epoll_pwait
  <1>2. special_fds[ep] \in SpecialStates
    BY <1>1 DEF DescInv, DescTypeOK, IsSpecial
  <1>3. old \in [GuestFds -> EventSets \cup {None}]
    BY <1>2 DEF SpecialStates
  <1> HIDE DEF old
  <1>4. /\ R \in [GuestFds -> EventSets \cup {None}]
        /\ \A g \in GuestFds : R[g] # None => R[g] = old[g]
    BY <1>3
  <1> HIDE DEF R
  <1>5. /\ new \in SpecialStates
        /\ new.kind = special_fds[ep].kind /\ new.write_fd = special_fds[ep].write_fd
        /\ new.registrations = R
    BY <1>2, <1>4 DEF SpecialStates
  <1> HIDE DEF new
  <1>6. \A g \in GuestFds : old[g] # None => g # ep /\ Open(g) /\ ~IsSpecial(g, "epoll")
    BY <1>1 DEF DescInv, RegistrationsOpen, Registered, old
  <1>7. \A g \in GuestFds : new.registrations[g] # None => g # ep /\ Open(g) /\ ~IsSpecial(g, "epoll")
    BY <1>4, <1>5, <1>6
  <1> QED
    BY <1>1, <1>5, <1>7, RegisterKeeps, ZenonT(60)

\* read and write through a plain descriptor move bytes of a pipe no eventfd and no
\* epoll instance owns.
LEMMA BytesKeep ==
  ASSUME DescInv, NEW g \in GuestFds, Open(g), special_fds[g] = None,
         bytes' \in [Pipes -> 0 .. PIPE_CAPACITY],
         \A p \in Pipes : p # PipeOf(g) => bytes'[p] = bytes[p],
         UNCHANGED <<fd_table, special_fds, host>>
  PROVE  DescInv'
  <1>1. DescTypeOK'
    BY DEF DescInv, DescTypeOK
  <1>2. HostOwned' /\ PipePairs' /\ RegistrationsOpen'
    <2>1. Touches(g)
      BY DEF Touches, SameHold, DescInv, DescTypeOK
    <2>2. RegistrationsOpen'
      BY DEF DescInv, RegistrationsOpen, Registered, Open, IsSpecial
    <2> QED
      BY <2>1, <2>2, TouchReplaces
  <1>3. \A k \in GuestFds : IsSpecial(k, "eventfd") => bytes'[PipeOf(k)] = bytes[PipeOf(k)]
    BY PrivatePipe DEF IsSpecial, PipeOf
  <1>4. EventfdSignalled'
    BY <1>3 DEF DescInv, EventfdSignalled, IsSpecial, PipeOf
  <1> QED
    BY <1>1, <1>2, <1>4 DEF DescInv

\* A count that changes at one place, if that is a pipe at all.
LEMMA OnePipe ==
  ASSUME NEW f \in [Pipes -> 0 .. PIPE_CAPACITY], NEW x, NEW n, x \in Pipes => n \in 0 .. PIPE_CAPACITY
  PROVE  /\ [f EXCEPT ![x] = n] \in [Pipes -> 0 .. PIPE_CAPACITY]
         /\ \A p \in Pipes : p # x => [f EXCEPT ![x] = n][p] = f[p]
  <1>1. CASE x \in Pipes
    BY <1>1
  <1>2. CASE x \notin Pipes
    <2>1. [f EXCEPT ![x] = n] = [p \in DOMAIN f |-> IF p = x THEN n ELSE f[p]]
      BY Zenon
    <2>2. f = [p \in Pipes |-> f[p]] /\ DOMAIN f = Pipes
      OBVIOUS
    <2>3. [f EXCEPT ![x] = n] = f
      BY <1>2, <2>1, <2>2
    <2> QED
      BY <2>3, Zenon
  <1> QED
    BY <1>1, <1>2

\* read.
LEMMA ReadKeeps == ASSUME DescInv, NEW g \in GuestFds, SysRead(g) PROVE DescInv'
  <1>1. bytes \in [Pipes -> 0 .. PIPE_CAPACITY]
    BY DEF DescInv, DescTypeOK
  <1>2. bytes' = [bytes EXCEPT ![PipeOf(g)] = bytes[PipeOf(g)] - 1] /\ bytes[PipeOf(g)] > 0
    BY DEF SysRead
  <1>3. PipeOf(g) \in Pipes => bytes[PipeOf(g)] - 1 \in 0 .. PIPE_CAPACITY
    BY <1>1, <1>2, DescriptorsAssumption
  <1>4. /\ bytes' \in [Pipes -> 0 .. PIPE_CAPACITY]
        /\ \A p \in Pipes : p # PipeOf(g) => bytes'[p] = bytes[p]
    BY <1>1, <1>2, <1>3, OnePipe
  <1> QED
    BY <1>4, BytesKeep DEF SysRead, IsEnd

\* write.
LEMMA WriteKeeps == ASSUME DescInv, NEW g \in GuestFds, SysWrite(g) PROVE DescInv'
  <1>1. bytes \in [Pipes -> 0 .. PIPE_CAPACITY]
    BY DEF DescInv, DescTypeOK
  <1>2. bytes' = [bytes EXCEPT ![PipeOf(g)] = bytes[PipeOf(g)] + 1] /\ bytes[PipeOf(g)] < PIPE_CAPACITY
    BY DEF SysWrite
  <1>3. PipeOf(g) \in Pipes => bytes[PipeOf(g)] + 1 \in 0 .. PIPE_CAPACITY
    BY <1>1, <1>2, DescriptorsAssumption
  <1>4. /\ bytes' \in [Pipes -> 0 .. PIPE_CAPACITY]
        /\ \A p \in Pipes : p # PipeOf(g) => bytes'[p] = bytes[p]
    BY <1>1, <1>2, <1>3, OnePipe
  <1> QED
    BY <1>4, BytesKeep DEF SysWrite, IsEnd

-----------------------------------------------------------------------------
\* The theorems.

\* A process starts with its inherited descriptors, all plain files.
LEMMA DescStarts == Init => DescInv
  <1> SUFFICES ASSUME Init PROVE DescInv
    OBVIOUS
  <1>0. /\ \A g \in GuestFds : special_fds[g] = None
        /\ \A g \in GuestFds : fd_table[g] = IF g \in DOMAIN Inherited THEN Inherited[g] ELSE None
        /\ \A h \in HostFds : host[h] = IF \E g \in DOMAIN Inherited : Inherited[g] = h THEN File ELSE None
    BY DEF Init
  <1>1. File \in HostEntries /\ File # None
    BY DescriptorsAssumption DEF File, HostEntries
  <1>2. DescTypeOK
    BY <1>1, DescriptorsAssumption DEF Init, DescTypeOK
  <1>3. HostOwned
    <2>1. \A g \in GuestFds, h \in HostFds : h \in HostFdsOf(g) <=> g \in DOMAIN Inherited /\ Inherited[g] = h
      BY <1>0, DescriptorsAssumption DEF HostFdsOf
    <2>2. \A g \in GuestFds : \A h \in HostFdsOf(g) : h \in HostFds
      BY DEF HostFdsOf
    <2>3. \A h \in HostFds : host[h] # None <=> \E g \in GuestFds : h \in HostFdsOf(g)
      BY <1>0, <1>1, <2>1, DescriptorsAssumption
    <2>4. \A g, k \in GuestFds : g # k => HostFdsOf(g) \cap HostFdsOf(k) = {}
      BY <2>1, <2>2, DescriptorsAssumption
    <2> QED
      BY <1>0, <2>3, <2>4 DEF HostOwned
  <1> QED
    BY <1>0, <1>2, <1>3 DEF DescInv, PipePairs, EventfdSignalled, RegistrationsOpen, IsSpecial

\* Every system call keeps the invariant.
LEMMA DescKept == DescInv /\ [Next]_vars => DescInv'
  <1> SUFFICES ASSUME DescInv, [Next]_vars PROVE DescInv'
    OBVIOUS
  <1>1. CASE UNCHANGED vars
    <2>0. UNCHANGED fd_table /\ UNCHANGED special_fds /\ UNCHANGED host /\ UNCHANGED bytes
      BY <1>1 DEF vars
    <2>1. DescTypeOK'
      BY <2>0 DEF DescInv, DescTypeOK
    <2>2. \A g \in GuestFds : HostFdsOf(g)' = HostFdsOf(g) /\ (Open(g)' <=> Open(g))
      BY <2>0 DEF HostFdsOf, Open
    <2>3. HostOwned'
      BY <2>0, <2>2 DEF DescInv, HostOwned
    <2>4. \A g \in GuestFds : OwnPipe(g) => OwnPipe(g)'
      BY <2>0, <2>2 DEF OwnPipe, ReadEnd, WriteEnd
    <2>5. PipePairs'
      BY <2>0, <2>4 DEF DescInv, PipePairs
    <2>6. EventfdSignalled'
      BY <2>0 DEF DescInv, EventfdSignalled, IsSpecial, PipeOf
    <2>7. RegistrationsOpen'
      BY <2>0 DEF DescInv, RegistrationsOpen, Registered, IsSpecial, Open
    <2> QED
      BY <2>1, <2>3, <2>5, <2>6, <2>7 DEF DescInv
  <1>2. CASE openat
    BY <1>2, OpenatKeeps
  <1>3. ASSUME NEW fault \in BOOLEAN, dispatch_pipe2(fault) PROVE DescInv'
    BY <1>3, Pipe2Keeps
  <1>4. ASSUME NEW init \in 0 .. MAX, NEW semaphore \in BOOLEAN, dispatch_eventfd2(init, semaphore)
        PROVE  DescInv'
    <2>1. (IF init # 0 THEN 1 ELSE 0) \in 0 .. PIPE_CAPACITY
      BY DescriptorsAssumption
    <2>2. (IF init # 0 THEN 1 ELSE 0) = IF init = 0 THEN 0 ELSE 1
      OBVIOUS
    <2> QED
      BY <1>4, <2>1, <2>2, NewSpecialKeeps DEF dispatch_eventfd2
  <1>5. CASE dispatch_epoll_create1
    <2>1. 0 \in 0 .. PIPE_CAPACITY /\ 0 \in 0 .. MAX
      BY DescriptorsAssumption
    <2>2. NewSpecial("epoll", 0, FALSE, 0)
      BY <1>5, Zenon DEF dispatch_epoll_create1
    <2>3. "epoll" \in {"eventfd", "epoll"} /\ "epoll" # "eventfd" /\ FALSE \in BOOLEAN
      OBVIOUS
    <2> QED
      BY <2>1, <2>2, <2>3, NewSpecialKeeps, Zenon
  <1>6. ASSUME NEW g \in GuestFds, close_guest_fd(g) PROVE DescInv'
    BY <1>6, CloseKeeps
  <1>7. ASSUME NEW g \in GuestFds, NEW min \in Minimums, duplicate_guest_fd(g, min) PROVE DescInv'
    BY <1>7, DuplicateKeeps
  <1>8. ASSUME NEW g \in GuestFds, NEW target \in Targets, duplicate_guest_fd_to(g, target) PROVE DescInv'
    BY <1>8, DuplicateToKeeps
  <1>9. ASSUME NEW g \in GuestFds, NEW value \in 0 .. MAX, dispatch_eventfd_write(g, value) PROVE DescInv'
    BY <1>9, EventfdWriteKeeps
  <1>10. ASSUME NEW g \in GuestFds, dispatch_eventfd_read(g) PROVE DescInv'
    BY <1>10, EventfdReadKeeps
  <1>11. ASSUME NEW g \in GuestFds, SysRead(g) PROVE DescInv'
    BY <1>11, ReadKeeps
  <1>12. ASSUME NEW g \in GuestFds, SysWrite(g) PROVE DescInv'
    BY <1>12, WriteKeeps
  <1>13. ASSUME NEW g \in GuestFds, NEW op \in {"ADD", "MOD", "DEL"}, NEW target \in GuestFds,
                NEW events \in EventSets, dispatch_epoll_ctl(g, op, target, events)
         PROVE  DescInv'
    BY <1>13, EpollCtlKeeps
  <1>14. ASSUME NEW g \in GuestFds, dispatch_epoll_pwait(g) PROVE DescInv'
    BY <1>14, EpollWaitKeeps
  <1> QED
    BY <1>1, <1>2, <1>3, <1>4, <1>5, <1>6, <1>7, <1>8, <1>9, <1>10, <1>11, <1>12, <1>13, <1>14, Zenon
       DEF Next

\* What the host's poll says of the read end of a pipe.
LEMMA PollOfReadEnd ==
  ASSUME NEW h \in HostFds, host[h].kind = "read", NEW want
  PROVE  \A e : e \in poll(h, want) <=>
           \/ e \in want /\ e = "IN" /\ bytes[host[h].pipe] > 0
           \/ e = "HUP" /\ ~\E k \in HostFds : host[k] # None /\ host[k].kind = "write"
                                             /\ host[k].pipe = host[h].pipe
  BY DEF poll

\* The write end of an eventfd is open, so that its poll is that of its byte.
LEMMA CounterPolled == DescInv => EventfdPolled
  <1> SUFFICES ASSUME DescInv, NEW e \in GuestFds, NEW g \in GuestFds,
                      IsSpecial(e, "epoll"), IsSpecial(g, "eventfd"),
                      special_fds[e].registrations[g] = {"IN"}
               PROVE  g \in EpollReady(e) <=> special_fds[g].counter > 0
    BY DEF EventfdPolled
  <1>1. special_fds[g] # None /\ Open(g)
    BY DEF IsSpecial, DescInv, HostOwned
  <1>2. PICK p \in Pipes : /\ host[fd_table[g]] = ReadEnd(p)
                          /\ host[special_fds[g].write_fd] = WriteEnd(p)
    BY <1>1 DEF DescInv, PipePairs, OwnPipe
  <1>3. fd_table[g] \in HostFds /\ special_fds[g].write_fd \in HostFds
        /\ special_fds[g].counter \in 0 .. MAX
    BY <1>1, OpenEntry DEF DescInv, DescTypeOK, SpecialStates
  <1>4. /\ host[fd_table[g]].kind = "read" /\ host[fd_table[g]].pipe = p
        /\ WriteEnd(p).kind = "write" /\ WriteEnd(p).pipe = p
    BY <1>2 DEF ReadEnd, WriteEnd
  <1>5. host[special_fds[g].write_fd] # None
    <2>1. special_fds[g].write_fd \in HostFdsOf(g)
      BY <1>1, <1>3 DEF HostFdsOf
    <2> QED
      BY <1>3, <2>1 DEF DescInv, HostOwned
  <1>6. bytes[p] = IF special_fds[g].counter = 0 THEN 0 ELSE 1
    BY <1>4 DEF DescInv, EventfdSignalled, PipeOf
  <1>7. \A x : x \in poll(fd_table[g], {"IN"}) <=> x = "IN" /\ special_fds[g].counter > 0
    <2>1. \E k \in HostFds : host[k] # None /\ host[k].kind = "write" /\ host[k].pipe = p
      BY <1>2, <1>3, <1>4, <1>5
    <2>2. bytes[p] > 0 <=> special_fds[g].counter > 0
      BY <1>3, <1>6, DescriptorsAssumption
    <2> QED
      BY <1>3, <1>4, <2>1, <2>2, PollOfReadEnd
  <1>8. {"IN"} \cap {"IN", "OUT"} = {"IN"} /\ {"IN"} \cap {"ET", "ONESHOT"} = {}
    OBVIOUS
  <1>9. epoll_revents(g, {"IN"}) # {} <=> special_fds[g].counter > 0
    BY <1>7, <1>8 DEF epoll_revents
  <1>10. {"IN"} # None
    <2>1. {"IN"} \in EventMasks
      BY DEF EventMasks
    <2> QED
      BY <2>1, DescriptorsAssumption
  <1> QED
    BY <1>9, <1>10 DEF EpollReady, Registered

\* Every write end of a pipe that a plain descriptor reads is held by a plain
\* descriptor.
LEMMA WritersPlain ==
  ASSUME DescInv, NEW g \in GuestFds, Open(g), special_fds[g] = None,
         NEW h \in HostFds, host[h] # None, host[h].kind = "write", host[h].pipe = PipeOf(g)
  PROVE  \E k \in GuestFds : IsEnd(k, "write") /\ PipeOf(k) = PipeOf(g)
  <1>1. PICK k \in GuestFds : h \in HostFdsOf(k)
    BY DEF DescInv, HostOwned
  <1>2. special_fds[k] = None
    <2> SUFFICES ASSUME special_fds[k] # None PROVE FALSE
      OBVIOUS
    <2>1. PICK p \in Pipes : host[fd_table[k]] = ReadEnd(p) /\ host[special_fds[k].write_fd] = WriteEnd(p)
      BY DEF DescInv, PipePairs, OwnPipe
    <2>2. host[h].pipe = p /\ PipeOf(k) = p
      BY <1>1, <2>1 DEF HostFdsOf, PipeOf, ReadEnd, WriteEnd
    <2>3. host[fd_table[g]].pipe # PipeOf(k)
      BY PrivatePipe
    <2> QED
      BY <2>2, <2>3 DEF PipeOf
  <1>3. h = fd_table[k]
    BY <1>1, <1>2 DEF HostFdsOf
  <1>4. Open(k)
    BY <1>3, DescriptorsAssumption DEF Open
  <1> QED
    BY <1>2, <1>3, <1>4 DEF IsEnd, PipeOf

\* So the host sees the end of a file exactly when the guest has closed it.
LEMMA EndSeen == DescInv => EndOfFile
  <1> SUFFICES ASSUME DescInv, NEW g \in GuestFds, IsEnd(g, "read")
               PROVE  "HUP" \in poll(fd_table[g], {}) <=>
                        ~\E k \in GuestFds : IsEnd(k, "write") /\ PipeOf(k) = PipeOf(g)
    BY DEF EndOfFile
  <1>1. Open(g) /\ special_fds[g] = None /\ host[fd_table[g]].kind = "read" /\ fd_table[g] \in HostFds
    BY OpenEntry DEF IsEnd
  <1>2. "HUP" \in poll(fd_table[g], {}) <=>
          ~\E h \in HostFds : host[h] # None /\ host[h].kind = "write" /\ host[h].pipe = PipeOf(g)
    BY <1>1, PollOfReadEnd DEF PipeOf
  <1>3. ASSUME NEW h \in HostFds, host[h] # None, host[h].kind = "write", host[h].pipe = PipeOf(g)
        PROVE  \E k \in GuestFds : IsEnd(k, "write") /\ PipeOf(k) = PipeOf(g)
    BY <1>1, <1>3, WritersPlain
  <1>4. ASSUME NEW k \in GuestFds, IsEnd(k, "write"), PipeOf(k) = PipeOf(g)
        PROVE  \E h \in HostFds : host[h] # None /\ host[h].kind = "write" /\ host[h].pipe = PipeOf(g)
    BY <1>4, OpenEntry, DescriptorsAssumption DEF IsEnd, PipeOf
  <1> QED
    BY <1>2, <1>3, <1>4

\* The invariant holds of every guest process.
LEMMA DescInvariant == Spec => []DescInv
  BY DescStarts, DescKept, PTL DEF Spec

\* No call takes an eventfd's counter past its limit, fills a pipe past its capacity
\* or leaves the descriptor tables in another shape.
THEOREM LimitsKept == Spec => []DescTypeOK
  <1>1. DescInv => DescTypeOK
    BY DEF DescInv
  <1> QED
    BY <1>1, DescInvariant, PTL

\* No call of any sequence of calls leaks a host descriptor, closes one twice or
\* closes one that is in use.
THEOREM NoLeak == Spec => []HostOwned
  <1>1. DescInv => HostOwned
    BY DEF DescInv
  <1> QED
    BY <1>1, DescInvariant, PTL

\* The pipe behind an eventfd or an epoll instance is never shared.
THEOREM PipesPrivate == Spec => []PipePairs
  <1>1. DescInv => PipePairs
    BY DEF DescInv
  <1> QED
    BY <1>1, DescInvariant, PTL

\* An eventfd is readable for the host exactly while its counter is not zero.
THEOREM CounterSignalled == Spec => []EventfdSignalled
  <1>1. DescInv => EventfdSignalled
    BY DEF DescInv
  <1> QED
    BY <1>1, DescInvariant, PTL

\* No registration outlives its descriptor.
THEOREM NoStaleRegistration == Spec => []RegistrationsOpen
  <1>1. DescInv => RegistrationsOpen
    BY DEF DescInv
  <1> QED
    BY <1>1, DescInvariant, PTL

\* epoll_pwait reports an eventfd registered for input exactly while its counter is
\* not zero.
THEOREM PollSeesCounter == Spec => []EventfdPolled
  BY CounterPolled, DescInvariant, PTL

\* A reader is told of the end of its pipe exactly when the guest has closed every
\* descriptor of the write end.
THEOREM ReaderSeesEnd == Spec => []EndOfFile
  BY EndSeen, DescInvariant, PTL
=============================================================================
