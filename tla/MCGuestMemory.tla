---------------------------- MODULE MCGuestMemory ----------------------------
(***************************************************************************)
(* Guest memory with pages of two bytes: an image of one segment that ends *)
(* inside its page, a stack of one page, the heap behind it, and two pages *)
(* for mmap.                                                               *)
(***************************************************************************)
EXTENDS GuestMemory

Text == [base |-> 0, flags |-> {"R", "X"}, data |-> <<3>>]
OneImage == {<<Text>>}

MCProts == {{"X"}, {"R", "W"}}
MCPayloads == {<<1, 2>>}
=============================================================================
