SPECIFICATION LiveSpec
CONSTANTS
  t1 = t1
  t2 = t2
  a = a
  b = b
  c = c
  None = None
  Setups <- mcSetups
  Apps = {t1}
  Pages = {a, b, c}
  MaxStores = 2
  MaxLost = 2
CHECK_DEADLOCK FALSE
INVARIANT ReadsSeeLastStore
INVARIANT NotDirtyIsOnPeer
INVARIANT WithinBudget
PROPERTY FlushPushes
PROPERTY AccessEnds
