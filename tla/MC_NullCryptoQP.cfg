CONSTANTS
    RingCap = 2
    PoolSize = 2
    MaxBurst = 2
    MaxCalls = 6
SPECIFICATION NullSpec
PROPERTY SessionlessServed
CHECK_DEADLOCK FALSE
