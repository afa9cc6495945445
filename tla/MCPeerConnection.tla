--------------------------- MODULE MCPeerConnection ---------------------------
(* Small instances of PeerConnection; peers and callers are interchangeable. *)
EXTENDS PeerConnection, TLC

Interchangeable == Permutations(Peers) \cup Permutations(Callers)
===============================================================================
