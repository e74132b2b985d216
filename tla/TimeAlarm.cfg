SPECIFICATION FairSpec
CONSTANTS
    None = None
    Empty = Empty
    Stop = Stop
    Width = 4
    MaxLeft = 2
    Delays = {2}
    Kinds = {"timer", "policy", "status", "power", "clock", "restart"}
    MaxCalls = 5
    MaxFaults = 1
INVARIANTS
    StateMatchesSource
    AlarmsKept
PROPERTIES
    AlarmGoesOff
