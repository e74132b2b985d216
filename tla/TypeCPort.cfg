SPECIFICATION SuiteSpec
CONSTANTS
    None = None
    ConsumerCaps <- OneContract
    ProviderCaps <- OneSource
    UnconstrainedSink <- Above15W
    IrqSize = 4
    LoopSize = 1
    ServiceSize = 1
    HwKinds = {"plug", "sink", "source", "reset", "swap", "notify"}
    CallKinds = {"policy", "voltage", "sync"}
    MaxOps = 5
    MaxFaults = 1
    NumPorts = 2
    Barrels = {barrel}
    Capabilities <- ThreeOffers
    MinPower = 1
    QueueSize = 2
    MaxChanges = 3
INVARIANTS
    ContractOffered
    StatusConverged
    FlagsFollowSources
PROPERTIES
    DeadlineSettles
CHECK_DEADLOCK FALSE
