---------------------------- MODULE MCLanSharing ----------------------------
EXTENDS LanSharing

CONSTANTS p1, p2

mcPaging ==
    {[relock |-> r, procs |-> {p1}, others |-> {p1}, breaks |-> 1] : r \in {"counts", "waits"}}
        \cup {[relock |-> "counts", procs |-> {p1, p2}, others |-> {p1}, breaks |-> 0]}
mcGpu == {"error", "success"}
=============================================================================
