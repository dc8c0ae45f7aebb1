CONSTANTS
    Ends = {a, b}
    Hosts = {a, b}
    Restarters = {a}
    MaxChanges = 3
    MaxRestarts = 1
    MaxFailures = 1
SPECIFICATION FairSdpSpec
INVARIANTS
    SettlesStable
PROPERTIES
    WedgedForever
    ChangesNegotiated
CHECK_DEADLOCK FALSE
