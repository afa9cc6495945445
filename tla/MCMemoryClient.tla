---------------------------- MODULE MCMemoryClient ----------------------------
(* Small instances of MemoryClient: peers that take a block of two cells only *)
(* striped, a pair that takes one larger than the cache, and little room.     *)
EXTENDS MemoryClient

CONSTANTS p1, p2, p3

mcTight == (p1 :> 1) @@ (p2 :> 1) @@ (p3 :> 2)
mcCapacity == (p1 :> 2) @@ (p2 :> 1)
mcRoomy == (p1 :> 3) @@ (p2 :> 3)

mcSetup(peers, sizes, pressure, discovery) ==
  [peers |-> peers, sizes |-> sizes, pressure |-> pressure, discovery |-> discovery,
   hangs |-> FALSE]

\* A single thread whose cached blocks are pushed whole or striped, one whose
\* striped block is used in place, and one that shares its only peer with the
\* pressure callback.
mcSetups == {mcSetup({p1, p2}, {1, 2}, FALSE, TRUE), mcSetup({p1, p3}, {3}, FALSE, TRUE),
             mcSetup({p1}, {1}, TRUE, FALSE)}
mcLive == {[mcSetup({p1}, {1, 2}, TRUE, FALSE) EXCEPT !.hangs = TRUE]}
mcPush == {mcSetup({p1, p2}, {1}, FALSE, FALSE)}
===============================================================================
