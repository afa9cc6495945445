----------------------------- MODULE MCHeapArena -----------------------------
(***************************************************************************)
(* A region of eight bytes at address 7 of a 16-address space: its base is *)
(* unaligned, it ends one byte before the last address, and aligning to 16 *)
(* wraps around.                                                           *)
(***************************************************************************)
EXTENDS HeapArena

mcRequests == {0, 1, 2, 3, Size, Size + 1}
=============================================================================
