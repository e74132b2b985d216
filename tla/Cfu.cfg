SPECIFICATION SuiteSpec
CONSTANTS
    Never = Never
    None = None
    Interval = 3
    TimeoutTicks = 3
    MaxRequests = 6
    BufferKinds = {"GiveContent", "FwVersionRequest", "GiveOffer", "AbortUpdate", "FinalizeUpdate"}
    BufferSize = 2
    MaxBlocks = 4
    MaxOthers = 2
    Devices = {d1, d2, d3}
    MaxSplit = 2
    Ids = {1, 2, 3}
    Default = 0
    Clients = {c1, c2}
    first = c1
    Targets = {1, 2, 4}
    CallKinds = {"FwVersionRequest", "GiveOffer", "GiveOfferExtended", "GiveContent"}
    MaxCalls = 2
INVARIANTS
    IdleIsNormal
    BufferHonest
    SplitterHonest
PROPERTIES
    NoEarlyTimeout
    UpdateEnds
    EveryRequestAnswered
CHECK_DEADLOCK FALSE
