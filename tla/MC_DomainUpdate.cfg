CONSTANTS
    s1 = s1  s2 = s2  d1 = d1  d2 = d2  h1 = h1  h2 = h2
    Slaves <- MC_Slaves
    Domains <- MC_Domains
    Hosts <- MC_Hosts
    DomHash <- MC_DomHashCollide
    HashMask = 3
    RingCap = 1
    Threshold = 1
    MaxRequests = 4

SPECIFICATION Spec
INVARIANT TypeOK
INVARIANT AdminTableWellFormed
INVARIANT ReplayConsistent
PROPERTY EventuallyConsistent
