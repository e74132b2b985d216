SPECIFICATION Spec
CONSTANTS
    None = None
    ConsumerCaps <- ThreeConsumers
    ProviderCaps <- TwoProviders
    ProviderUnlimited <- P3A0
    ProviderLimited <- P1A5
    NumPsus = 2
    NumChargers = 1
    ChannelSize = 2
    MaxProviders = 4
    MinConsumerMw = 0
    LimitedMw = 15000
    DriverOps = {"attach", "detach", "consumer", "withdraw", "teardown", "unplugged", "recover", "charger"}
    MaxOps = 5
    MaxFaults = 1
INVARIANTS
    TypeOK
    SingleConsumer
    ListenersAgree
    SelectionConverged
    ChargersFollow
PROPERTIES
    SelectionSpec
CHECK_DEADLOCK FALSE
