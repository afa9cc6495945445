----------------------------- MODULE LanSharing -----------------------------
(***************************************************************************)
(* The windows-lan-sharing prototype: paging and the CUDA proxy in one     *)
(* program.  The two halves share no state, so a behaviour exercises one   *)
(* of them.                                                                *)
(***************************************************************************)
EXTENDS LanPaging, LanGpu

CONSTANTS PagingSetups, GpuSetups

VARIABLE half

vars == <<half, pagingVars, gpuVars>>

TypeOK == half \in {"paging", "gpu"} /\ PagingTypeOK /\ GpuTypeOK

Init ==
    /\ half \in {"paging", "gpu"}
    /\ \E s \in PagingSetups : PagingInit(s) /\ (half = "gpu" => s = CHOOSE x \in PagingSetups : TRUE)
    /\ \E s \in GpuSetups : GpuInit(s) /\ (half = "paging" => s = CHOOSE x \in GpuSetups : TRUE)

Next ==
    \/ half = "paging" /\ PagingNext /\ UNCHANGED <<half, gpuVars>>
    \/ half = "gpu" /\ GpuNext /\ UNCHANGED <<half, pagingVars>>

Spec == Init /\ [][Next]_vars

(* The threads of programs and servers are scheduled, and one that waits   *)
(* for a mutex which is released again and again gets it; nothing obliges a*)
(* program to make a call or to touch its heap.                            *)
FairSpec ==
    /\ Spec
    /\ \A p \in Procs :
         /\ SF_pagingVars(HandlerStep(p))
         /\ WF_pagingVars(other[p].at # "run" /\ OtherStep(p))
    /\ \A c \in Conns : WF_pagingVars(ServerThread(c))
    /\ \A t \in Threads : SF_gpuVars(ProxyStep(t))
    /\ WF_gpuVars(ExecuteGpu)
=============================================================================
