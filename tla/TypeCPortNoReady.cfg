SPECIFICATION SuiteSpec
CONSTANTS
    None = None
    ConsumerCaps <- OneContract
    ProviderCaps <- OneSource
    UnconstrainedSink <- Above15W
    IrqSize = 4
    LoopSize = 4
    ServiceSize = 2
    HwKinds = {"plug", "sink"}
    CallKinds = {}
    MaxOps = 5
    MaxFaults = 0
    NumPorts = 2
    Barrels = {barrel}
    Capabilities <- ThreeOffers
    MinPower = 1
    QueueSize = 2
    MaxChanges = 0
INVARIANT ContractOfferedAnyController
CHECK_DEADLOCK FALSE
