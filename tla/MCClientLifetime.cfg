SPECIFICATION LifetimeFairSpec
CONSTANTS
    Setups <- mcSetups
    Servers = {d1}
    Clients = {me, probe}
    Me = me
    None = None
INVARIANTS
    StartedIsReachable
    PostsToOpenHandle
PROPERTIES
    StopEnds
    RequestReturns
    DestructorEnds
CHECK_DEADLOCK FALSE
