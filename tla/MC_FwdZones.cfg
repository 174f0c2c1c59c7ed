CONSTANTS
    FwdAddrs <- MC_FwdAddrs
    FwdDefAddr <- MC_FwdDefAddr
    QNames <- MC_QNames
SPECIFICATION Spec
INVARIANT ZoneRoutingLongestSuffix
CHECK_DEADLOCK FALSE
