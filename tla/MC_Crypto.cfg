CONSTANTS
    NbSlaves = 2
    NbQPs = 2
    ModeSet = TRUE
    Reordering = TRUE
    RingCap = 2
    PoolSize = 2
    MaxBurst = 2
    MaxCalls = 6
SPECIFICATION MC_Spec
INVARIANT TypeOK
INVARIANT NullTypeOK
INVARIANT StartedIsComplete
INVARIANT SessionAllOrNothing
CHECK_DEADLOCK FALSE
