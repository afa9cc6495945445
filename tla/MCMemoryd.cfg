SPECIFICATION Spec
CONSTANTS
  TotalPages = 3
  PageSize = 2
  SizeMax = 4
  MaxMessage = 3
  Values = {v1}
  Zero = zero
  ReqSizes <- mcReqSizes
  ReqOffsets <- mcReqOffsets
  MaxSessions = 2
  MaxHandles = 2
PROPERTY
  RefinesMemoryPool
INVARIANTS PoolPartition FullyBacked OwnedByLiveSession
VIEW AllButReply
CHECK_DEADLOCK FALSE
