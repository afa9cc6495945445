-------------------------- MODULE MCClientLifetime --------------------------
EXTENDS ClientLifetime

mcSetup(platform, faults) ==
    [platform |-> platform, osFails |-> FALSE, overlap |-> FALSE,
     crashes |-> faults, deaths |-> faults]
mcSetups ==
    {mcSetup("linux", 1), mcSetup("macos", 0),
     [mcSetup("windows", 1) EXCEPT !.crashes = 0],
     [mcSetup("windows", 1) EXCEPT !.deaths = 0],
     [mcSetup("linux", 0) EXCEPT !.osFails = TRUE],
     [mcSetup("windows", 0) EXCEPT !.osFails = TRUE]}
=============================================================================
