SPECIFICATION FairSpec
CONSTANTS
    None = None
    NumPorts = 2
    MaxPorts = 2
    Thresholds <- Watts
    SinkPowers <- OneSlow
    EnableSets <- AllOnly
    QueueSize = 1
    NoteSize = 2
    PortKinds = {"plug", "contract", "swap", "partner", "reset", "debug"}
    MaxOps = 5
    MaxFaults = 1
INVARIANTS
    PendingAnnounced
    OnlyRacesLost
PROPERTIES
    ChangesServed
CHECK_DEADLOCK FALSE
