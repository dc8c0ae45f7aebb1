CONSTANTS
    Connections = {c1}
    Shareable = {screen, window, files}
    Shared = {screen, window}
    Params = {low, high}
    NoEncoder = NoEncoder
    MaxRequests = 4
SPECIFICATION FairStreamsSpec
INVARIANTS
    NothingLeftRunning
PROPERTIES
    StoppedAfterDrop
CHECK_DEADLOCK FALSE
