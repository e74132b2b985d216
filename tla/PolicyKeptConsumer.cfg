SPECIFICATION Spec
CONSTANTS
    None = None
    ConsumerCaps <- OneConsumer
    ProviderCaps <- TwoProviders
    ProviderUnlimited <- P3A0
    ProviderLimited <- P1A5
    NumPsus = 1
    NumChargers = 0
    ChannelSize = 2
    MaxProviders = 4
    MinConsumerMw = 0
    LimitedMw = 15000
    DriverOps = {"attach", "consumer", "teardown"}
    MaxOps = 4
    MaxFaults = 0
INVARIANT KeptConsumerConsumes
CHECK_DEADLOCK FALSE
