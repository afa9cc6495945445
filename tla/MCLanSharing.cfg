SPECIFICATION Spec
CONSTANTS
    p1 = p1
    p2 = p2
    Procs = {p1, p2}
    Clusters = {k1, k2}
    Window = 2
    MaxConnects = 2
    MaxDiffs = 2
    Threads = {t1, t2}
    DevicePtrs = {a1, a2}
    MaxPtrs = 2
    MaxLost = 1
    NoThread = NoThread
    PagingSetups <- mcPaging
    GpuSetups <- mcGpu
INVARIANTS
    HeldIsBacked
    DiffsAreKept
CHECK_DEADLOCK FALSE
