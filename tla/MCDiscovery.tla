----------------------------- MODULE MCDiscovery -----------------------------
(* Instances of Discovery.                                                  *)
EXTENDS Discovery, TLC

CONSTANTS n1, n2

\* What the client last read influences nothing else.
AllButCapacity ==
  <<daemonVars, probeVars, poolVars, clockVars, due, netVars, peers_, tickDue, changes>>
=============================================================================
