CONSTANTS
    root = root  com = com  ex = ex  www = www  mail = mail  big = big
    Root = root
    Nodes <- MC_Nodes
    Parent <- MC_Parent
    LabelLen <- MC_LabelLen
    RRsets <- MC_RRsets
    AnswerSets <- MC_AnswerSets
    MaxAnswers = {0, 1}
    HeaderLen <- MC_HeaderLen
    MaxMsgLen = 512
    PtrBits = 14
    CounterBits = 32
    MaxQueries = 4
    MaxDomainLen = 3
    ByteVals = {0, 1, 2, 192}
    MaxQueryLen = 8
    c1 = c1  c2 = c2
    Clients <- MC_Clients
    Names = {"n1", "n2"}
    ZoneNames = {"n1"}
    UpdateNames = {"n2"}
    NumServers = 2
    Behaviours = {"refuse", "unreachable", "silent", "answer"}
    MaxSegment = 1
    SysMayFail = TRUE
SPECIFICATION MC_Spec
INVARIANT TypeOK
INVARIANT DecoderMatchesReference
INVARIANT WithinMessageLimit
PROPERTY TruncationDropsWholeRRset
CHECK_DEADLOCK FALSE
