--------------------------------- MODULE MCHook --------------------------------
(***************************************************************************)
(* Instances of Hook.  A page is one byte, so the threshold's floor is 8.  *)
(* One buffer of the network thread is larger than that.                   *)
(***************************************************************************)
EXTENDS Hook, TLC

Alike == Permutations(Apps) \cup Permutations(Blocks)
===============================================================================
