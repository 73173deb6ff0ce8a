SPECIFICATION Spec
CONSTANTS
    Infinity = Infinity
    SumMax = 1000
    StatUnset = 99
    IpvsMaxServices = 2
    IpvsMaxDests = 2
    WgMaxPeers = 2
    WgPeerId <- MCPeerId
    WgNow = 9
    RuleCounterMaxSeries = 3
    ExpectCap = 2
    MaxTempSensors = 2
    Collectors <- MCCollectors
    Kernel <- MCKernel
    Misread <- MCMisread
    Refusals = {"EPERM", "ENOENT", "EINVAL", "io"}
    Rounds = 2
    MaxFailures = 2
    MaxLeft = 2
INVARIANTS
    AnswersReal
    SampleReal
    StableReported
    SeriesDistinct
    NothingLost
PROPERTIES
    CountersGrow
CHECK_DEADLOCK FALSE
