CONSTANTS
    RingCap = 2
    PoolSize = 2
    MaxBurst = 2
    MaxCalls = 6
SPECIFICATION NullSpec
INVARIANT EnqueuedCountExact
CHECK_DEADLOCK FALSE
