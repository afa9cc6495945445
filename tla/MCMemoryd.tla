------------------------------ MODULE MCMemoryd ------------------------------
(***************************************************************************)
(* Small instances of Memoryd.  Three pages of two cells: an allocation    *)
(* can be partly filled, span pages, exhaust the slab, or ask for a size   *)
(* so large that its rounding up would wrap (SizeMax).                     *)
(***************************************************************************)
EXTENDS Memoryd

mcReqSizes == {0, 1, 3, SizeMax}
mcReqOffsets == {0, 1, SizeMax}

\* No guard reads reply, no invariant mentions it, and Pool constrains only its
\* new value, so states that differ in it alone need not be told apart.
AllButReply == <<slabVars, trackerVars, socketVars>>
=============================================================================
