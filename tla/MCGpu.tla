--------------------------------- MODULE MCGpu ---------------------------------
(***************************************************************************)
(* Instances of Gpu: two clients of one thread each, or one client whose   *)
(* two threads share it.                                                   *)
(***************************************************************************)
EXTENDS Gpu, TLC

CONSTANTS t1, t2, c1, c2

OwnClients == (t1 :> c1) @@ (t2 :> c2)
OneClient == [t \in Threads |-> c1]

\* With OwnClients the two pairs are alike only together.
Swaps == {(t1 :> t1 @@ t2 :> t2 @@ c1 :> c1 @@ c2 :> c2),
          (t1 :> t2 @@ t2 :> t1 @@ c1 :> c2 @@ c2 :> c1)}

Alike == {s @@ p @@ d : s \in Swaps, p \in Permutations(Ptrs), d \in Permutations(Data)}
===============================================================================
