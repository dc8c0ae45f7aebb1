SPECIFICATION FairSpec
CONSTANTS
    Peers = {p}
    CmdCap = 1
    PipeCap = 1
    WsCap = 1
    MaxInputs = 3
    MaxTicks = 1
    MaxNews = 1
INVARIANTS CircularWaits
PROPERTIES CommandsHandled
CHECK_DEADLOCK FALSE
