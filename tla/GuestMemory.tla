----------------------------- MODULE GuestMemory -----------------------------
(***************************************************************************)
(* The memory of a guest process: the regions the runtime sets up at boot  *)
(* (runtime/src/lib.rs) and the system calls, loads and stores of the      *)
(* functional engine that work on them (funcmodel/src/exec/mod.rs).        *)
(*                                                                         *)
(* Regions are kept in a vector and may overlap; an access goes to the     *)
(* first region that holds all its bytes, so the order of the vector       *)
(* matters and is modelled.  A region is its base, its permissions and its *)
(* bytes; the code's `size' is always the length of `data'.  Addresses and *)
(* pages are small; the arithmetic stays below the 64-bit limit.           *)
(***************************************************************************)
EXTENDS Integers, Sequences, FiniteSets, SequencesExt

CONSTANTS
  PAGE_SIZE,
  BUNDLE,          \* bytes the fetch asks for (8 in the code)
  Images,          \* the possible load images: sequences of regions
  stack_top, stack_size,
  Top,             \* addresses are 0 .. Top - 1: mmap has no room beyond
  BrkTargets,      \* arguments of brk
  CallAddrs,       \* address arguments of munmap and mprotect
  Hints,           \* address arguments of mmap; 0 asks for any address
  Sizes,           \* length arguments
  Prots,           \* protection arguments
  StoreAddrs, Payloads,  \* where a store writes, and what
  MayOverlap,      \* may an mmap hint name addresses that are not Unclaimed?
  None

VARIABLES
  regions,
  brk_base, brk_current, mmap_cursor,
  seen             \* what the regions show a program: a function of `regions'

calls == <<regions, brk_base, brk_current, mmap_cursor>>
vars == <<calls, seen>>

Addr == 0 .. Top - 1

align_down(value) == (value \div PAGE_SIZE) * PAGE_SIZE
align_up(value) == align_down(value + PAGE_SIZE - 1)

End(r) == r.base + Len(r.data)
Zeros(n) == [i \in 1 .. n |-> 0]

-----------------------------------------------------------------------------
\* Lookup.  The regions of rs are tried in their order.

Holds(r, addr, count) == addr >= r.base /\ addr + count <= End(r)

\* Index of the first region that holds the whole range, or 0.
region_containing(rs, addr, count) == SelectInSeq(rs, LAMBDA r : Holds(r, addr, count))

region_containing_with_flags(rs, addr, count, required) ==
  LET i == region_containing(rs, addr, count)
  IN IF i # 0 /\ required \subseteq rs[i].flags THEN i ELSE 0

Bytes(r, addr, count) == SubSeq(r.data, addr - r.base + 1, addr - r.base + count)

\* Mutant: the permission is not looked at.
read_bytes_checked_Unchecked(rs, addr, count) ==
  LET i == region_containing(rs, addr, count)
  IN IF i = 0 THEN None ELSE Bytes(rs[i], addr, count)

read_bytes_checked(rs, addr, count) ==
  LET i == region_containing_with_flags(rs, addr, count, {"R"})
  IN IF i = 0 THEN None ELSE Bytes(rs[i], addr, count)

\* The first executable region that holds pc answers, with what it has left;
\* the rest of the bundle is zero.
fetch_u64_bundle(rs, pc) ==
  LET i == SelectInSeq(rs, LAMBDA r : "X" \in r.flags /\ Holds(r, pc, 1))
      available == IF End(rs[i]) - pc < BUNDLE THEN End(rs[i]) - pc ELSE BUNDLE
  IN IF i = 0 THEN None ELSE Bytes(rs[i], pc, available) \o Zeros(BUNDLE - available)

\* A stable sort by base address.
SortByBase(rs) ==
  LET placed == [i \in DOMAIN rs |-> <<rs[i].base, i>>]
      before(x, y) == x[1] < y[1] \/ (x[1] = y[1] /\ x[2] < y[2])
      order == SortSeq(placed, before)
  IN [k \in DOMAIN rs |-> rs[order[k][2]]]

highest_mapped_address(rs) ==
  CHOOSE top \in {0} \cup {End(rs[i]) : i \in DOMAIN rs} : \A i \in DOMAIN rs : End(rs[i]) <= top

\* Mutant: the regions are taken as they come.
is_range_mapped_Unsorted(rs, addr, size) ==
  LET end == addr + size
      cursor[i \in 0 .. Len(rs)] ==
        IF i = 0 THEN addr
        ELSE IF rs[i].base > cursor[i - 1] \/ End(rs[i]) <= cursor[i - 1] THEN cursor[i - 1]
        ELSE IF End(rs[i]) < end THEN End(rs[i]) ELSE end
  IN size # 0 /\ cursor[Len(rs)] >= end

\* One pass over the regions in address order.  A region that starts behind the
\* cursor ends the scan: so do, for the same reason, all behind it.
is_range_mapped(rs, addr, size) ==
  LET end == addr + size
      sorted == SortByBase(rs)
      cursor[i \in 0 .. Len(rs)] ==
        IF i = 0 THEN addr
        ELSE IF sorted[i].base > cursor[i - 1] \/ End(sorted[i]) <= cursor[i - 1] THEN cursor[i - 1]
        ELSE IF End(sorted[i]) < end THEN End(sorted[i]) ELSE end
  IN size # 0 /\ cursor[Len(rs)] >= end

\* What a program finds at each address.
Seen(rs) ==
  [a \in Addr |->
     LET i == region_containing(rs, a, 1)
     IN IF i = 0 THEN [flags |-> None, byte |-> 0]
        ELSE [flags |-> rs[i].flags, byte |-> Bytes(rs[i], a, 1)[1]]]

-----------------------------------------------------------------------------
\* Changing a range.

region_slice(r, base, end, flags) ==
  [base |-> base, flags |-> flags, data |-> Bytes(r, base, end - base)]

\* Mutant: the rest behind the range gets the new flags too.
Pieces_Spill(r, addr, end, flags) ==
  LET lo == IF r.base > addr THEN r.base ELSE addr
      hi == IF End(r) < end THEN End(r) ELSE end
      piece(first, last, f) == IF first < last THEN <<region_slice(r, first, last, f)>> ELSE <<>>
  IN IF lo >= hi THEN <<r>>
     ELSE piece(r.base, lo, r.flags)
            \o (IF flags = None THEN <<>> ELSE piece(lo, End(r), flags))

\* What is left of r when the range addr .. end - 1 gets the given flags, or is
\* removed (None).
Pieces(r, addr, end, flags) ==
  LET lo == IF r.base > addr THEN r.base ELSE addr
      hi == IF End(r) < end THEN End(r) ELSE end
      piece(first, last, f) == IF first < last THEN <<region_slice(r, first, last, f)>> ELSE <<>>
  IN IF lo >= hi THEN <<r>>
     ELSE piece(r.base, lo, r.flags)
            \o (IF flags = None THEN <<>> ELSE piece(lo, hi, flags))
            \o piece(hi, End(r), r.flags)

remap_range(rs, addr, size, flags) ==
  SortByBase(FlattenSeq([i \in DOMAIN rs |-> Pieces(rs[i], addr, addr + size, flags)]))

\* The regions after the heap's end moved to `target'.  The heap is the first
\* region that starts at brk_base, and is resized in place.
grow_brk(rs, target) ==
  LET size == target - brk_base
      i == SelectInSeq(rs, LAMBDA r : r.base = brk_base)
      resized(data) == [k \in 1 .. size |-> IF k <= Len(data) THEN data[k] ELSE 0]
      heap == [base |-> brk_base, flags |-> {"R", "W"}, data |-> Zeros(size)]
  IN SelectSeq(IF i # 0 THEN [rs EXCEPT ![i].data = resized(@)]
                 ELSE IF size # 0 THEN Append(rs, heap) ELSE rs,
               LAMBDA r : r.data # <<>>)

-----------------------------------------------------------------------------
\* The calls.  A call that is refused changes nothing.

\* brk with argument 0 only asks.
Brk(target) ==
  /\ brk_current' = IF target = 0 THEN brk_current
                    ELSE align_up(IF target > brk_base THEN target ELSE brk_base)
  /\ regions' = IF target = 0 THEN regions ELSE grow_brk(regions, brk_current')
  /\ UNCHANGED <<brk_base, mmap_cursor>>

Push(base, size, flags) ==
  Append(regions, [base |-> base, flags |-> flags, data |-> Zeros(size)])

\* Nobody owns the range and nobody else will be given it: it is unmapped, holds
\* none of the heap's page and ends before the pages mmap has not handed out.
Unclaimed(base, size) ==
  /\ base + size <= mmap_cursor
  /\ \A a \in base .. base + size - 1 :
       region_containing(regions, a, 1) = 0 /\ a \notin brk_base .. brk_base + PAGE_SIZE - 1

\* mmap with a hint takes the hint as it is; without, the next unused pages.
MmapAt(hint, size, prot) ==
  /\ hint # 0 /\ size # 0
  /\ MayOverlap \/ Unclaimed(align_down(hint), align_up(size))
  /\ align_down(hint) + align_up(size) <= Top
  /\ regions' = Push(align_down(hint), align_up(size), prot)
  /\ UNCHANGED <<brk_base, brk_current, mmap_cursor>>

\* Mutant: the cursor does not move.
MmapAnywhere_Again(size, prot) ==
  /\ size # 0
  /\ align_up(mmap_cursor) + align_up(size) <= Top
  /\ regions' = Push(align_up(mmap_cursor), align_up(size), prot)
  /\ mmap_cursor' = align_up(mmap_cursor)
  /\ UNCHANGED <<brk_base, brk_current>>

MmapAnywhere(size, prot) ==
  /\ size # 0
  /\ align_up(mmap_cursor) + align_up(size) <= Top
  /\ regions' = Push(align_up(mmap_cursor), align_up(size), prot)
  /\ mmap_cursor' = align_up(mmap_cursor) + align_up(size)
  /\ UNCHANGED <<brk_base, brk_current>>

Malformed(addr, size) == align_up(size) = 0 \/ addr % PAGE_SIZE # 0

Munmap(addr, size) ==
  IF Malformed(addr, size) THEN UNCHANGED calls
  ELSE /\ regions' = remap_range(regions, addr, align_up(size), None)
       /\ UNCHANGED <<brk_base, brk_current, mmap_cursor>>

Mprotect(addr, size, prot) ==
  IF Malformed(addr, size) \/ ~is_range_mapped(regions, addr, align_up(size)) THEN UNCHANGED calls
  ELSE /\ regions' = remap_range(regions, addr, align_up(size), prot)
       /\ UNCHANGED <<brk_base, brk_current, mmap_cursor>>

\* A store instruction, or a system call's copy-out.
Store(addr, data) ==
  LET i == region_containing_with_flags(regions, addr, Len(data), {"W"})
      write(r) == [k \in DOMAIN r.data |->
                     IF r.base + k - 1 \in addr .. addr + Len(data) - 1
                     THEN data[r.base + k - addr] ELSE r.data[k]]
  IN IF i = 0 THEN UNCHANGED calls
     ELSE /\ regions' = [regions EXCEPT ![i].data = write(regions[i])]
          /\ UNCHANGED <<brk_base, brk_current, mmap_cursor>>

-----------------------------------------------------------------------------
Stack == [base |-> stack_top - stack_size, flags |-> {"R", "W"}, data |-> Zeros(stack_size)]

\* The segments of the image in their order, then the stack.  The heap starts
\* behind everything, and one page behind that mmap starts.
Init ==
  /\ regions \in {Append(image, Stack) : image \in Images}
  /\ brk_base = align_up(highest_mapped_address(regions))
  /\ brk_current = brk_base
  /\ mmap_cursor = brk_base + PAGE_SIZE
  /\ seen = Seen(regions)

Call ==
  \/ \E target \in BrkTargets : Brk(target)
  \/ \E size \in Sizes, prot \in Prots : \E hint \in Hints : MmapAt(hint, size, prot)
  \/ \E size \in Sizes, prot \in Prots : MmapAnywhere(size, prot)
  \/ \E addr \in CallAddrs, size \in Sizes : Munmap(addr, size)
  \/ \E addr \in CallAddrs, size \in Sizes, prot \in Prots : Mprotect(addr, size, prot)
  \/ \E addr \in StoreAddrs, data \in Payloads : Store(addr, data)

Next == Call /\ seen' = Seen(regions')

Spec == Init /\ [][Next]_vars

-----------------------------------------------------------------------------
\* Properties.

Mapped == {a \in Addr : seen[a].flags # None}
Allowing(f) == {a \in Mapped : f \in seen[a].flags}
SamePage(addr, count) == addr \div PAGE_SIZE = (addr + count - 1) \div PAGE_SIZE

\* No byte belongs to two regions, whatever the order of brk, mmap, munmap and
\* mprotect calls.  Lookup takes the first region of a vector that grow_brk and
\* alloc_mmap append to and remap_range sorts: a byte with two owners changes its
\* value and its permissions when the vector is sorted.
NoOverlap ==
  \A i, j \in DOMAIN regions :
    i # j => End(regions[i]) <= regions[j].base \/ End(regions[j]) <= regions[i].base

\* is_range_mapped's single pass, with its cursor and its early exits, answers what
\* it is asked: whether every byte of the range lies in some region.
RangeMapped ==
  LET mapped == Mapped
  IN \A addr \in Addr : \A size \in 0 .. Top - addr :
       is_range_mapped(regions, addr, size)
         <=> size # 0 /\ addr .. addr + size - 1 \subseteq mapped

\* A checked load returns the bytes the addresses hold, and only when all of them
\* are readable.  Within one page it never fails otherwise, however often the
\* region was split; across a page boundary it may (the two bytes may lie in two
\* regions, and region_containing wants one).
LoadSees(addr, count) ==
  LET got == read_bytes_checked(regions, addr, count)
      all == addr .. addr + count - 1 \subseteq Allowing("R")
  IN /\ got # None => all /\ \A k \in 1 .. count : got[k] = seen[addr + k - 1].byte
     /\ all /\ SamePage(addr, count) => got # None

\* The fetch sees an address exactly when it is executable, and the bytes it
\* returns from the page of pc are the ones memory holds there.
FetchSees(pc) ==
  LET got == fetch_u64_bundle(regions, pc)
  IN /\ got # None <=> pc \in Allowing("X")
     /\ got # None => \A k \in 1 .. BUNDLE :
          SamePage(pc, k) /\ pc + k - 1 \in Allowing("X") => got[k] = seen[pc + k - 1].byte

\* Loads and fetches go by what a program finds at each address, its bytes and its
\* permissions, not by how the calls have cut the memory into regions.
AccessesSee ==
  \A addr \in Addr :
    /\ \A count \in {Len(data) : data \in Payloads} : LoadSees(addr, count)
    /\ FetchSees(addr)

Flat == INSTANCE AddressSpace WITH
  Lengths <- {align_up(size) : size \in Sizes}, Perms <- Prots,
  heap_base <- brk_base, brk <- brk_current, mem <- seen

\* The vector of regions implements the flat address space: each call changes the
\* bytes of its own range as it should and no others, a refused call changes
\* nothing, and mmap hands out fresh zeroed bytes that nobody owned.
FlatAddressSpace == Flat!Spec

\* A mapped byte changes its permissions only by an mprotect call that names it.
ProtectionKept ==
  [][\A a \in Mapped \cap Mapped' : seen'[a].flags # seen[a].flags =>
       \E addr \in CallAddrs, size \in Sizes, prot \in Prots :
         a \in addr .. addr + align_up(size) - 1 /\ Mprotect(addr, size, prot)]_vars
=============================================================================
