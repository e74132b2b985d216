SPECIFICATION FairSpec
CONSTANTS
    None = None
    BufferSize = 2
    MaxBlocks = 5
    MaxOthers = 0
    Kinds = {"GiveContent", "FwVersionRequest", "GiveOffer", "AbortUpdate", "FinalizeUpdate"}
CHECK_DEADLOCK FALSE
PROPERTY HostAnswered
