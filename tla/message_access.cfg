CONSTANTS
    Own <- MCOwn
    Theirs = {"net"}
    TypeOf <- MCTypeOf
    Active = {"desk"}
    MaxKeys = 3
    MaxShutdowns = 1
SPECIFICATION AccessSpec
INVARIANTS
    HandledIsVerified
    OneAfterShutdown
CHECK_DEADLOCK FALSE
