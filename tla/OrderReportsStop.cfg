SPECIFICATION Spec
CONSTANTS
    MaxOrders = 1
    MaxProgress = 1
    MaxDepth = 2
    Stops = TRUE
    SlowLink = TRUE
    None = None
INVARIANT
    NothingSkipped
CHECK_DEADLOCK FALSE
