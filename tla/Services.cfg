SPECIFICATION ServicesSpec
CONSTANTS
    Caller = {r1, r2, r3}
    Thread = {r1, r2, r3}
    Strategies = {"count", "rate", "count_or_rate"}
    Threshold = 2
    RateNum = 1
    RateDen = 2
    HalfOpenCalls = 3
    Manual = {"trip", "recover", "reset"}
    MaxCalls = 3
    Server = {1, 2, 3}
    ServerType = {"gateway", "logic"}
    hashOf <- Hashes
    Place = {0, 1, 2, 3, 4, 5, 6}
    Backend = {1, 2, 3}
    serviceOf <- ServiceOf
    Balancers = {"round", "random", "weighted"}
    MaxWeight = 3
    CursorMod = 6
    Borrower = {"t1", "t2"}
    Object = {1, 2, 3, 4, 5}
    Initials = {0, 1, 4}
    MaxSize = 3
    BufferSize = {64, 256}
    InitialCount = 1
    MaxCount = 2
    Publisher = {"t1", "t2"}
    EventType = {"login"}
    Priority = {0, 1}
    MaxId = 2
    MaxDepth = 2
    Checker = {"c1", "c2"}
    Key = {"key"}
    Kinds = {"token", "leaky", "window"}
    Capacity = 2
    FillNum = 1
    FillDen = 2
    WindowSize = 2
    Counts = {1, 2}
    MaxTime = 7
    Conn = {k1, k2, k3, k4, k5}
    NoConn = NoConn
    MinConnections = 1
    MaxConnections = 2
    Faults = {{}, {"refuse", "expire", "shutdown"}}
SYMMETRY Symmetry
INVARIANTS LentSafely CallersServed BreakerSound WithinLimit FairCycle CallsInOrder PoolsConserve
PROPERTY MinimalMovement
