CONSTANTS
    a = a
    b = b
    None = None
    Nodes <- MCNodes
    Links <- MCLinks
    Signals <- MCSignals
    QueueCap = 1
    SignalCap = 1
    WireCap = 2
    Attempts = 1
    MaxEvents = 1
SPECIFICATION FairSpec
INVARIANTS
    DecryptedInOrder
    CircularWaits
PROPERTIES
    JammedForever
    RouteEnds
    SignalArrives
CHECK_DEADLOCK FALSE
