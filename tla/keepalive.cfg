CONSTANTS
    MaxTime = 8
    Rtt = 1
    Delay = 1
    PingRequests = {0, 2}
    PongRequests = {0, 8}
    MaxInterval = 2
    MaxTimeout = 6
    MaxChanges = 1
    MaxSteps = 1
    Step = 4
SPECIFICATION Spec
INVARIANTS
    DeadPeerNoticed
    LoopWatches
PROPERTIES
    NoFalseTimeout
CHECK_DEADLOCK FALSE
