SPECIFICATION FairSpec
CONSTANTS
  p1 = p1
  p2 = p2
  p3 = p3
  Setups <- mcLive
  Capacity <- mcCapacity
  Apps = {app}
  Monitor = monitor
  Restarts = FALSE
  Values = {1}
  MaxHandles = 1
  MaxRemote = 2
  MaxFaults = 1
  CacheMax = 1
PROPERTIES CallsReturn
CHECK_DEADLOCK FALSE
