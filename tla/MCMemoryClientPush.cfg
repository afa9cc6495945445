SPECIFICATION Spec
CONSTANTS
  p1 = p1
  p2 = p2
  p3 = p3
  Setups <- mcPush
  Capacity <- mcRoomy
  Apps = {app}
  Monitor = monitor
  Restarts = FALSE
  Values = {1}
  MaxHandles = 2
  MaxRemote = 3
  MaxFaults = 1
  CacheMax = 1
PROPERTIES PushedBeforeForgotten
CHECK_DEADLOCK FALSE
