CONSTANTS
    Sessions = {s1, s2}
    Sizes = {1, 5}
    Requests = {0, 1, 4}
    MinRate = 2
    MaxTime = 6
    MaxSends = 4
    MaxChanges = 1
    Marks = {1, 3}
SPECIFICATION FairSpec
INVARIANTS
    Throttled
    WindowThrottled
PROPERTIES
    AllGetThrough
CHECK_DEADLOCK FALSE
