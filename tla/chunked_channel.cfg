SPECIFICATION FairSpec
CONSTANTS
    Word = 5
    Default = 4
    Writers = {w1, w2}
    Sizes = {1, 2, 3, 4}
    Lengths = {0, 1, 2, 3, 4, 5}
    MaxMsgs = 2
    Free = Free
INVARIANTS DeliveredInOrder NothingLeftOver
PROPERTIES EventuallyDelivered
CHECK_DEADLOCK FALSE
