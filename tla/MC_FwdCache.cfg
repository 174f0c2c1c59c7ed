CONSTANTS
    t1 = t1  t2 = t2  k1 = k1  k2 = k2
    Threads <- MC_Threads
    Keys <- MC_OneKey
    KeyHash <- MC_KeyHash
    HashSize = 3
    ScanNum = 2
    Fresh = 1
    Retain = 1
    MaxTime = 3
    MaxVer = 2
    MaxQueries = 3
    Servers <- MC_Servers
    RingCap = 1
    ExRingCap = 2
    Burst = 2

SPECIFICATION FairSpec
INVARIANT TypeOK
INVARIANT NoQueryLostOrDuplicated
PROPERTY StaleFallback
PROPERTY QueryResolved
