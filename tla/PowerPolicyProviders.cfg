SPECIFICATION FairSpec
CONSTANTS
    None = None
    ConsumerCaps <- OneConsumer
    ProviderCaps <- ThreeProviders
    ProviderUnlimited <- P3A0
    ProviderLimited <- P1A5
    NumPsus = 2
    NumChargers = 1
    ChannelSize = 2
    MaxProviders = 4
    MinConsumerMw = 0
    LimitedMw = 15000
    DriverOps = {"attach", "detach", "consumer", "provider", "teardown"}
    MaxOps = 5
    MaxFaults = 1
INVARIANTS
    TrackedProvide
    ProviderPowerBounded
PROPERTIES
    EventsDrain
CHECK_DEADLOCK FALSE
