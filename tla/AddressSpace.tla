----------------------------- MODULE AddressSpace -----------------------------
(***************************************************************************)
(* What guest memory promises the program that runs in it: a flat space    *)
(* of bytes, each unmapped or carrying permissions and a value.  A call    *)
(* changes the bytes of its own range and no others, as a whole or not at  *)
(* all.                                                                    *)
(***************************************************************************)
EXTENDS Integers, Sequences

CONSTANTS
  Addr,        \* the addresses, 0 .. some top
  PAGE_SIZE,
  Lengths,     \* the lengths, in whole pages, a call may give
  Perms,       \* the permissions a call may give
  Payloads,    \* what one store may write
  None         \* the permissions of an unmapped byte

VARIABLES
  heap_base,   \* start of the heap: never changes
  brk,         \* end of the heap
  mem          \* Addr -> the permissions and the value of the byte

Unmapped == [flags |-> None, byte |-> 0]

Span(addr, size) == addr .. addr + size - 1

\* The bytes of S, all unmapped before, become zeros with permissions f.
Map(S, f) ==
  /\ \A a \in S : mem[a] = Unmapped
  /\ mem' = [a \in Addr |-> IF a \in S THEN [flags |-> f, byte |-> 0] ELSE mem[a]]
  /\ UNCHANGED <<heap_base, brk>>

Unmap(S) ==
  /\ mem' = [a \in Addr |-> IF a \in S THEN Unmapped ELSE mem[a]]
  /\ UNCHANGED <<heap_base, brk>>

Protect(S, f) ==
  /\ \A a \in S : mem[a] # Unmapped
  /\ mem' = [a \in Addr |-> IF a \in S THEN [mem[a] EXCEPT !.flags = f] ELSE mem[a]]
  /\ UNCHANGED <<heap_base, brk>>

\* Growing the heap maps what is missing of it, read-write; shrinking it unmaps
\* what lies behind the new end.
SetBrk(target) ==
  /\ mem' = [a \in Addr |->
       IF a \in target .. brk - 1 THEN Unmapped
       ELSE IF a \in heap_base .. target - 1 /\ mem[a] = Unmapped
       THEN [flags |-> {"R", "W"}, byte |-> 0]
       ELSE mem[a]]
  /\ brk' = target
  /\ UNCHANGED heap_base

Store(addr, data) ==
  LET S == Span(addr, Len(data))
  IN /\ \A a \in S : a \in Addr /\ mem[a] # Unmapped /\ "W" \in mem[a].flags
     /\ mem' = [a \in Addr |-> IF a \in S THEN [mem[a] EXCEPT !.byte = data[a - addr + 1]] ELSE mem[a]]
     /\ UNCHANGED <<heap_base, brk>>

Init ==
  /\ \A a \in Addr : a >= heap_base => mem[a] = Unmapped
  /\ brk = heap_base

Next ==
  \/ \E target \in Addr \cup {brk} : SetBrk(target)
  \/ \E addr \in Addr, data \in Payloads : Store(addr, data)
  \/ \E addr \in {a \in Addr : a % PAGE_SIZE = 0}, size \in Lengths :
       LET S == Span(addr, size) \cap Addr
       IN Unmap(S) \/ \E f \in Perms : Map(S, f) \/ Protect(S, f)

Spec == Init /\ [][Next]_<<heap_base, brk, mem>>
=============================================================================
