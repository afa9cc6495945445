SPECIFICATION Spec
CONSTANTS
  p1 = p1
  p2 = p2
  p3 = p3
  Setups <- mcSetups
  Capacity <- mcTight
  Apps = {app}
  Monitor = monitor
  Restarts = FALSE
  Values = {1}
  MaxHandles = 2
  MaxRemote = 2
  MaxFaults = 1
  CacheMax = 2
INVARIANTS ReadsSeeLastWrite NothingLost NothingStranded FreedIsGone NeverForeign
CHECK_DEADLOCK FALSE
