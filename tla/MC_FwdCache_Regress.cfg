CONSTANTS
    t1 = t1  t2 = t2  k1 = k1  k2 = k2
    Threads <- MC_Threads
    Keys <- MC_Keys
    KeyHash <- MC_KeyHash
    HashSize = 3
    ScanNum = 2
    Fresh = 1
    Retain = 0
    MaxTime = 2
    MaxVer = 2
    MaxQueries = 3
    Servers <- MC_Servers
    RingCap = 1
    ExRingCap = 2
    Burst = 2

SPECIFICATION Spec
INVARIANT CacheNeverRegresses
