---------------------------- MODULE MCRemoteHeap ----------------------------
(* Instances of RemoteHeap: Windows with failing system calls and macOS with *)
(* a budget of two pages, Linux with one that holds all.                     *)
EXTENDS RemoteHeap

CONSTANTS t1, t2, a, b, c

mcSetup(backend, budget, osFails) ==
  [backend |-> backend, budget |-> budget, osFails |-> osFails]

mcSetups == {mcSetup("windows", 2, TRUE), mcSetup("macos", 2, FALSE),
             mcSetup("linux", 3, FALSE)}
=============================================================================
