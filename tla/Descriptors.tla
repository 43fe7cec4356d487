----------------------------- MODULE Descriptors -----------------------------
(***************************************************************************)
(* The file descriptors of a guest process (funcmodel/src/exec/mod.rs).    *)
(* fd_table gives a guest descriptor its host descriptor.  special_fds     *)
(* makes an eventfd or an epoll instance of it: both own a host pipe, the  *)
(* read end in fd_table, the write end in special_fds.  An eventfd keeps   *)
(* one byte in its pipe while its counter is not zero, so that the host's  *)
(* poll sees it ready; an epoll instance polls what is registered with it. *)
(*                                                                         *)
(* The host is external: a table of open descriptors, each a file or an    *)
(* end of a pipe, and the number of bytes in each pipe.  Each action is    *)
(* one system call; a call that fails without an effect is no step.        *)
(* Status and close-on-exec flags are left out: the code records them for  *)
(* fcntl and never looks at them.                                          *)
(***************************************************************************)
EXTENDS Integers, FiniteSets

CONSTANTS
  GuestFds,       \* guest descriptors (numbers)
  Inherited,      \* those open at the start, and the host files behind them (a function)
  FIRST_FD,       \* the lowest descriptor alloc_guest_fd hands out (3 in the code)
  HostFds,        \* what the host has room for; their numbers never matter
  Pipes,          \* identities of host pipes
  PIPE_CAPACITY,
  MAX,            \* the largest counter value (u64::MAX in the code)
  EventSets,      \* the event masks epoll_ctl is called with
  Minimums,       \* the lower bounds fcntl's dup is called with
  Targets,        \* the descriptors dup3 is called with
  None

\* Masks of poll events and the two flags of epoll_ctl.
EventMasks == SUBSET {"IN", "OUT", "ET", "ONESHOT"}

\* What a host descriptor refers to, and the state of an eventfd or epoll instance.
HostEntries == [kind : {"file", "read", "write"}, pipe : Pipes \cup {None}]
SpecialStates ==
  [kind : {"eventfd", "epoll"}, write_fd : HostFds, counter : 0 .. MAX, semaphore : BOOLEAN,
   registrations : [GuestFds -> EventSets \cup {None}]]

\* None is none of the other values.
ASSUME DescriptorsAssumption ==
  /\ GuestFds \subseteq Nat
  /\ DOMAIN Inherited \subseteq GuestFds
  /\ Inherited \in [DOMAIN Inherited -> HostFds]
  /\ \A g, k \in DOMAIN Inherited : Inherited[g] = Inherited[k] => g = k
  /\ Targets \subseteq GuestFds /\ Minimums \subseteq Nat
  /\ FIRST_FD \in Nat /\ PIPE_CAPACITY \in Nat \ {0} /\ MAX \in Nat
  /\ EventSets \subseteq EventMasks
  /\ None \notin HostFds /\ None \notin Pipes /\ \A mask \in EventMasks : None # mask
  /\ None \notin HostEntries /\ None \notin SpecialStates

VARIABLES
  fd_table,       \* guest descriptor -> host descriptor or None
  special_fds,    \* guest descriptor -> eventfd or epoll state, or None
  host,           \* host descriptor -> what it refers to, or None
  bytes           \* pipe -> bytes in it

vars == <<fd_table, special_fds, host, bytes>>

File == [kind |-> "file", pipe |-> None]
ReadEnd(p) == [kind |-> "read", pipe |-> p]
WriteEnd(p) == [kind |-> "write", pipe |-> p]

NoRegistrations == [g \in GuestFds |-> None]

\* The state of an eventfd or of an epoll instance.
SpecialState(kind, write_fd, counter, semaphore) ==
  [kind |-> kind, write_fd |-> write_fd, counter |-> counter, semaphore |-> semaphore,
   registrations |-> NoRegistrations]

Open(g) == fd_table[g] # None
IsSpecial(g, kind) == special_fds[g] # None /\ special_fds[g].kind = kind

-----------------------------------------------------------------------------
\* Host descriptors.

Free == {h \in HostFds : host[h] = None}

\* A pipe no open descriptor refers to.
Unused(p) == \A h \in HostFds : host[h] # None => host[h].pipe # p

\* The host table with a new pipe at r and w.
WithPipe(r, w, p) == [host EXCEPT ![r] = ReadEnd(p), ![w] = WriteEnd(p)]

\* close() for each descriptor of S.
Closed(table, S) == [h \in HostFds |-> IF h \in S THEN None ELSE table[h]]

-----------------------------------------------------------------------------
\* Guest descriptors.

\* alloc_guest_fd_from: the lowest free descriptor from min on, and never below
\* FIRST_FD.
alloc_guest_fd_from(g, min) ==
  /\ ~Open(g) /\ g >= min /\ g >= FIRST_FD
  /\ \A k \in GuestFds : k >= min /\ k >= FIRST_FD /\ k < g => Open(k)

\* The host descriptors a guest descriptor holds.
HostFdsOf(g) ==
  {h \in HostFds : h = fd_table[g] \/ (special_fds[g] # None /\ h = special_fds[g].write_fd)}

\* special_fds without the descriptors of S, and without their registrations.
unregister_from_epolls(S) ==
  [e \in GuestFds |->
     IF e \in S \/ special_fds[e] = None THEN None
     ELSE [special_fds[e] EXCEPT !.registrations =
             [g \in GuestFds |-> IF g \in S THEN None ELSE @[g]]]]

\* insert_guest_fd(g, h) on a host table in which h is open already: whatever g
\* was before is released first.
insert_guest_fd(g, h, table, special) ==
  /\ fd_table' = [fd_table EXCEPT ![g] = h]
  /\ special_fds' = [unregister_from_epolls({g}) EXCEPT ![g] = special]
  /\ host' = Closed(table, HostFdsOf(g))

\* Mutant: the write end of an eventfd or epoll instance is forgotten.
close_guest_fd_Leak(g) ==
  /\ Open(g)
  /\ fd_table' = [fd_table EXCEPT ![g] = None]
  /\ special_fds' = unregister_from_epolls({g})
  /\ host' = Closed(host, {fd_table[g]})
  /\ UNCHANGED bytes

\* Mutant: the registrations of the closed number stay.
close_guest_fd_Stale(g) ==
  /\ Open(g)
  /\ fd_table' = [fd_table EXCEPT ![g] = None]
  /\ special_fds' = [special_fds EXCEPT ![g] = None]
  /\ host' = Closed(host, HostFdsOf(g))
  /\ UNCHANGED bytes

close_guest_fd(g) ==
  /\ Open(g)
  /\ fd_table' = [fd_table EXCEPT ![g] = None]
  /\ special_fds' = unregister_from_epolls({g})
  /\ host' = Closed(host, HostFdsOf(g))
  /\ UNCHANGED bytes

openat ==
  \E g \in GuestFds, h \in Free :
    /\ alloc_guest_fd_from(g, FIRST_FD)
    /\ insert_guest_fd(g, h, [host EXCEPT ![h] = File], None)
    /\ UNCHANGED bytes

\* dup of a plain descriptor to the lowest free one from min on (fcntl), or to a
\* given one (dup3), which is closed first if it is open.
duplicate_guest_fd(g, min) ==
  \E new \in GuestFds, h \in Free :
    /\ special_fds[g] = None /\ Open(g)
    /\ alloc_guest_fd_from(new, min)
    /\ insert_guest_fd(new, h, [host EXCEPT ![h] = host[fd_table[g]]], None)
    /\ UNCHANGED bytes

\* Mutant: the target is replaced without being closed.
duplicate_guest_fd_to_Leak(g, target) ==
  \E h \in Free :
    /\ g # target /\ special_fds[g] = None /\ Open(g)
    /\ fd_table' = [fd_table EXCEPT ![target] = h]
    /\ special_fds' = unregister_from_epolls({target})
    /\ host' = [host EXCEPT ![h] = host[fd_table[g]]]
    /\ UNCHANGED bytes

duplicate_guest_fd_to(g, target) ==
  \E h \in Free :
    /\ g # target /\ special_fds[g] = None /\ Open(g)
    /\ insert_guest_fd(target, h, [host EXCEPT ![h] = host[fd_table[g]]], None)
    /\ UNCHANGED bytes

\* pipe2: the host pipe exists before the two numbers are stored in guest memory;
\* if that faults, both ends are closed again.
dispatch_pipe2(fault) ==
  \E r, w \in Free, p \in Pipes, rg, wg \in GuestFds :
    /\ r # w /\ Unused(p)
    /\ alloc_guest_fd_from(rg, FIRST_FD) /\ wg # rg /\ alloc_guest_fd_from(wg, rg + 1)
    /\ bytes' = [bytes EXCEPT ![p] = 0]
    /\ IF fault
       THEN /\ host' = Closed(WithPipe(r, w, p), {r, w})
            /\ UNCHANGED <<fd_table, special_fds>>
       ELSE /\ host' = Closed(WithPipe(r, w, p), HostFdsOf(rg) \cup HostFdsOf(wg))
            /\ fd_table' = [fd_table EXCEPT ![rg] = r, ![wg] = w]
            /\ special_fds' = unregister_from_epolls({rg, wg})

-----------------------------------------------------------------------------
\* Eventfds and epoll instances.

\* create_pollable_pipe and the descriptor that owns it; `signal' bytes are put
\* into the pipe.
NewSpecial(kind, counter, semaphore, signal) ==
  \E r, w \in Free, p \in Pipes, g \in GuestFds :
    /\ r # w /\ Unused(p)
    /\ alloc_guest_fd_from(g, FIRST_FD)
    /\ insert_guest_fd(g, r, WithPipe(r, w, p), SpecialState(kind, w, counter, semaphore))
    /\ bytes' = [bytes EXCEPT ![p] = signal]

\* Mutant: the pipe is not signalled for an initial value.
dispatch_eventfd2_Unsignalled(init, semaphore) == NewSpecial("eventfd", init, semaphore, 0)

dispatch_eventfd2(init, semaphore) ==
  NewSpecial("eventfd", init, semaphore, IF init # 0 THEN 1 ELSE 0)

dispatch_epoll_create1 == NewSpecial("epoll", 0, FALSE, 0)

PipeOf(g) == host[fd_table[g]].pipe

\* The write that takes the counter away from zero signals the pipe.
dispatch_eventfd_write(g, value) ==
  LET counter == special_fds[g].counter
  IN /\ IsSpecial(g, "eventfd")
     /\ value # MAX
     /\ counter <= MAX - 1 - value
     /\ special_fds' = [special_fds EXCEPT ![g].counter = counter + value]
     /\ bytes' = IF counter = 0 /\ value # 0 /\ bytes[PipeOf(g)] < PIPE_CAPACITY
                 THEN [bytes EXCEPT ![PipeOf(g)] = @ + 1] ELSE bytes
     /\ UNCHANGED <<fd_table, host>>

\* Mutant: every read drains the pipe, a semaphore's too.
dispatch_eventfd_read_Drain(g) ==
  LET counter == special_fds[g].counter
      left == counter - (IF special_fds[g].semaphore THEN 1 ELSE counter)
  IN /\ IsSpecial(g, "eventfd")
     /\ counter # 0
     /\ special_fds' = [special_fds EXCEPT ![g].counter = left]
     /\ bytes' = IF bytes[PipeOf(g)] > 0
                 THEN [bytes EXCEPT ![PipeOf(g)] = @ - 1] ELSE bytes
     /\ UNCHANGED <<fd_table, host>>

\* The read that brings the counter to zero drains the pipe.  Whether the value can
\* then be stored in guest memory makes no difference to the counter.
dispatch_eventfd_read(g) ==
  LET counter == special_fds[g].counter
      left == counter - (IF special_fds[g].semaphore THEN 1 ELSE counter)
  IN /\ IsSpecial(g, "eventfd")
     /\ counter # 0
     /\ special_fds' = [special_fds EXCEPT ![g].counter = left]
     /\ bytes' = IF left = 0 /\ bytes[PipeOf(g)] > 0
                 THEN [bytes EXCEPT ![PipeOf(g)] = @ - 1] ELSE bytes
     /\ UNCHANGED <<fd_table, host>>

\* ADD wants no registration of the target, MOD and DEL want one.
dispatch_epoll_ctl(ep, op, target, events) ==
  LET registered == special_fds[ep].registrations[target] # None
  IN /\ target # ep /\ ~IsSpecial(target, "epoll") /\ Open(target)
     /\ IsSpecial(ep, "epoll")
     /\ registered <=> op # "ADD"
     /\ special_fds' = [special_fds EXCEPT ![ep].registrations =
                          [@ EXCEPT ![target] = IF op = "DEL" THEN None ELSE events]]
     /\ UNCHANGED <<fd_table, host, bytes>>

\* What the host's poll says of descriptor h.
poll(h, want) ==
  LET other(kind) == \E k \in HostFds : host[k] # None /\ host[k].kind = kind /\ host[k].pipe = host[h].pipe
  IN CASE host[h].kind = "file" -> want \cap {"IN", "OUT"}
       [] host[h].kind = "read" ->
            {e \in want : e = "IN" /\ bytes[host[h].pipe] > 0} \cup (IF other("write") THEN {} ELSE {"HUP"})
       [] host[h].kind = "write" ->
            {e \in want : e = "OUT" /\ bytes[host[h].pipe] < PIPE_CAPACITY}
              \cup (IF other("read") THEN {} ELSE {"ERR"})

\* What epoll_pwait makes of a registration: the poll, and the two flags of the
\* registration whatever the poll says.
epoll_revents(g, events) ==
  poll(fd_table[g], events \cap {"IN", "OUT"}) \cup (events \cap {"ET", "ONESHOT"})

Registered(ep) == {g \in GuestFds : special_fds[ep].registrations[g] # None}
EpollReady(ep) == {g \in Registered(ep) : epoll_revents(g, special_fds[ep].registrations[g]) # {}}

\* One-shot registrations that are ready go, those too that do not fit into the
\* maxevents entries the guest gave.
dispatch_epoll_pwait(ep) ==
  /\ IsSpecial(ep, "epoll")
  /\ special_fds' = [special_fds EXCEPT ![ep].registrations =
       [g \in GuestFds |->
          IF g \in EpollReady(ep) /\ "ONESHOT" \in @[g] THEN None ELSE @[g]]]
  /\ UNCHANGED <<fd_table, host, bytes>>

-----------------------------------------------------------------------------
\* Bytes through the pipes of plain descriptors.

IsEnd(g, kind) == Open(g) /\ special_fds[g] = None /\ host[fd_table[g]].kind = kind

\* The byte is taken from the host before it is stored in guest memory: a fault
\* there loses it.
SysRead(g) ==
  /\ IsEnd(g, "read") /\ bytes[PipeOf(g)] > 0
  /\ bytes' = [bytes EXCEPT ![PipeOf(g)] = @ - 1]
  /\ UNCHANGED <<fd_table, special_fds, host>>

SysWrite(g) ==
  /\ IsEnd(g, "write") /\ bytes[PipeOf(g)] < PIPE_CAPACITY
  /\ \E h \in HostFds : host[h] = ReadEnd(PipeOf(g))
  /\ bytes' = [bytes EXCEPT ![PipeOf(g)] = @ + 1]
  /\ UNCHANGED <<fd_table, special_fds, host>>

\* ppoll over a list of descriptors and masks: the answer for each, and the count
\* the call returns.  A descriptor that is not open gets NVAL; a negative one
\* (None) is skipped.
ppoll_revents(entry) ==
  IF entry.fd = None THEN {}
  ELSE IF ~Open(entry.fd) THEN {"NVAL"}
  ELSE poll(fd_table[entry.fd], entry.events)

dispatch_ppoll(entries) ==
  LET forced == {i \in DOMAIN entries : entries[i].fd # None /\ ~Open(entries[i].fd)}
      rc == {i \in DOMAIN entries \ forced : ppoll_revents(entries[i]) # {}}
  IN Cardinality(forced) + Cardinality(rc)

\* Mutant: a hang-up makes no descriptor readable.
dispatch_pselect6_NoHup(readfds, writefds) ==
  LET asked == readfds \cup writefds
      revents == [g \in asked |-> poll(fd_table[g], (IF g \in readfds THEN {"IN"} ELSE {})
                                                      \cup (IF g \in writefds THEN {"OUT"} ELSE {}))]
      read_ready == {g \in asked : "IN" \in revents[g]}
      write_ready == {g \in asked : "OUT" \in revents[g]}
      except_ready == {g \in asked : "ERR" \in revents[g]}
  IN IF \E g \in asked : ~Open(g) THEN None
     ELSE [read  |-> read_ready, write |-> write_ready, except |-> except_ready,
           count |-> Cardinality(read_ready \cup write_ready \cup except_ready)]

\* pselect6: the answer sets and the count; EBADF (None) when one of the
\* descriptors asked for is not open.
dispatch_pselect6(readfds, writefds) ==
  LET asked == readfds \cup writefds
      revents == [g \in asked |-> poll(fd_table[g], (IF g \in readfds THEN {"IN"} ELSE {})
                                                      \cup (IF g \in writefds THEN {"OUT"} ELSE {}))]
      read_ready == {g \in asked : revents[g] \cap {"IN", "HUP", "ERR"} # {}}
      write_ready == {g \in asked : "OUT" \in revents[g]}
      except_ready == {g \in asked : "ERR" \in revents[g]}
  IN IF \E g \in asked : ~Open(g) THEN None
     ELSE [read  |-> read_ready, write |-> write_ready, except |-> except_ready,
           count |-> Cardinality(read_ready \cup write_ready \cup except_ready)]

-----------------------------------------------------------------------------
Init ==
  /\ fd_table = [g \in GuestFds |-> IF g \in DOMAIN Inherited THEN Inherited[g] ELSE None]
  /\ special_fds = [g \in GuestFds |-> None]
  /\ host = [h \in HostFds |-> IF \E g \in DOMAIN Inherited : Inherited[g] = h THEN File ELSE None]
  /\ bytes = [p \in Pipes |-> 0]

Next ==
  \/ openat
  \/ \E fault \in BOOLEAN : dispatch_pipe2(fault)
  \/ \E init \in 0 .. MAX, semaphore \in BOOLEAN : dispatch_eventfd2(init, semaphore)
  \/ dispatch_epoll_create1
  \/ \E g \in GuestFds :
       \/ close_guest_fd(g)
       \/ \E min \in Minimums : duplicate_guest_fd(g, min)
       \/ \E target \in Targets : duplicate_guest_fd_to(g, target)
       \/ \E value \in 0 .. MAX : dispatch_eventfd_write(g, value)
       \/ dispatch_eventfd_read(g)
       \/ SysRead(g)
       \/ SysWrite(g)
       \/ \E op \in {"ADD", "MOD", "DEL"}, target \in GuestFds, events \in EventSets :
            dispatch_epoll_ctl(g, op, target, events)
       \/ dispatch_epoll_pwait(g)

Spec == Init /\ [][Next]_vars

-----------------------------------------------------------------------------
\* Properties.

\* fd_table and special_fds name host descriptors the host has room for; a pipe
\* holds no more than its capacity; a counter stays below 2^64.
DescTypeOK ==
  /\ fd_table \in [GuestFds -> HostFds \cup {None}]
  /\ host \in [HostFds -> HostEntries \cup {None}]
  /\ bytes \in [Pipes -> 0 .. PIPE_CAPACITY]
  /\ special_fds \in [GuestFds -> SpecialStates \cup {None}]

\* The host descriptors the process has open are exactly those its guest
\* descriptors hold, each held once: release_guest_fd, pipe2's fault path and the
\* replacement in dup3 leak none, close none twice and leave none in use closed.
HostOwned ==
  /\ \A h \in HostFds : host[h] # None <=> \E g \in GuestFds : h \in HostFdsOf(g)
  /\ \A g, k \in GuestFds : g # k => HostFdsOf(g) \cap HostFdsOf(k) = {}
  /\ \A g \in GuestFds : special_fds[g] # None => Open(g) /\ fd_table[g] # special_fds[g].write_fd

\* Descriptor g holds both ends of a pipe, and nobody else holds an end of it.
OwnPipe(g) ==
  \E p \in Pipes :
    /\ host[fd_table[g]] = ReadEnd(p)
    /\ host[special_fds[g].write_fd] = WriteEnd(p)
    /\ \A h \in HostFds : host[h] # None /\ host[h].pipe = p => h \in HostFdsOf(g)

\* The two ends an eventfd or an epoll instance holds are the two ends of one pipe,
\* and nobody else holds an end of it: dup, dup3 and close by other descriptors
\* never touch it.
PipePairs == \A g \in GuestFds : special_fds[g] # None => OwnPipe(g)

\* The pipe of an eventfd holds one byte while its counter is not zero and none
\* while it is: the byte is neither put in twice nor left behind, whatever the
\* order of writes, full and semaphore reads.
EventfdSignalled ==
  \A g \in GuestFds : IsSpecial(g, "eventfd") =>
    bytes[PipeOf(g)] = IF special_fds[g].counter = 0 THEN 0 ELSE 1

\* What is registered with an epoll instance is open and no epoll instance: close
\* and dup3 drop the registrations of the number they release, so epoll_pwait
\* never meets a stale one and never fails half way through its list.
RegistrationsOpen ==
  \A e \in GuestFds : IsSpecial(e, "epoll") =>
    \A g \in Registered(e) : g # e /\ Open(g) /\ ~IsSpecial(g, "epoll")

\* A level-triggered registration of an eventfd for input is reported by
\* epoll_pwait exactly while the eventfd's counter is not zero.
EventfdPolled ==
  \A e, g \in GuestFds :
    IsSpecial(e, "epoll") /\ IsSpecial(g, "eventfd") /\ special_fds[e].registrations[g] = {"IN"} =>
      (g \in EpollReady(e) <=> special_fds[g].counter > 0)

\* The reader of a pipe is told of its end exactly when the guest has closed every
\* descriptor of the write end: no copy of it survives in the host.
EndOfFile ==
  \A g \in GuestFds : IsEnd(g, "read") =>
    ("HUP" \in poll(fd_table[g], {}) <=>
       ~\E k \in GuestFds : IsEnd(k, "write") /\ PipeOf(k) = PipeOf(g))

\* The three ways to wait for descriptors agree on every pair of them: while both
\* are open ppoll and pselect6 count as many ready ones as an epoll instance with
\* both registered reports, and a closed one makes pselect6 fail and is ready for
\* ppoll.
PollsAgree ==
  \A S \in {{g, k} : g, k \in GuestFds}, want \in {"IN", "OUT"} :
    LET ppoll == dispatch_ppoll([g \in S |-> [fd |-> g, events |-> {want}]])
        select == dispatch_pselect6(IF want = "IN" THEN S ELSE {}, IF want = "OUT" THEN S ELSE {})
        closed == {g \in S : ~Open(g)}
        epoll == {g \in S \ closed : epoll_revents(g, {want}) # {}}
    IN /\ ppoll = Cardinality(closed) + Cardinality(epoll)
       /\ IF closed # {} THEN select = None
          ELSE select.count = Cardinality(epoll)
=============================================================================
