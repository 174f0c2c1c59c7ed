CONSTANTS
    u1 = u1
    m1 = m1
    m2 = m2
    zero = zero
    UMacs <- MC_UMacs
    MMacs <- MC_MMacs
    ZeroMac = zero
    Vlans <- MC_Vlans
    Vnis <- MC_Vnis
    NumMacAddrs = 3
    MaxMcAddrs = 1
    HwMayFail = TRUE
    RssHwMayFail = TRUE
    TunnRequests <- MC_TunnRequests
    VlanIds <- MC_VlanIds
    NumVlanFilters = 1
    MaxOps = 4
    NumHwfns = 1
    TableSize = 2
    RssCount = 2
    KeySize = 4
    Keys = {"k1"}
    KeyLens = {0, 2, 5}
    HashTypes <- MC_HashTypes
    Entries = {0, 1}
    RetaSizes = {2, 3}
    MaxRssOps = 3
SPECIFICATION MC_Spec
INVARIANTS TypeOK ShadowListsConsistent RssShadowMatchesHw
CHECK_DEADLOCK FALSE
