SPECIFICATION FairSpec
CONSTANTS
    Nodes = {n1, n2}
    Conns = {c1, c2}
    None = None
    Announced <- MCOtherKeys
    SignalCap = 1
    MaxCrashes = 0
PROPERTIES BrokenSessionEnds
CHECK_DEADLOCK FALSE
