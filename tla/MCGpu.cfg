CONSTANTS
  t1 = t1
  t2 = t2
  c1 = c1
  c2 = c2
  Threads = {t1, t2}
  Clients = {c1, c2}
  ClientOf <- OwnClients
  Ptrs = {p1, p2}
  Data = {d1, d2}
  MaxCalls = 3
  WaitForConnect = FALSE
  StopAllowed = TRUE
  None = None
SPECIFICATION Spec
INVARIANT ReadBack
INVARIANT PointersExclusive
INVARIANT NoLeakWhileOpen
SYMMETRY Alike
CHECK_DEADLOCK FALSE
