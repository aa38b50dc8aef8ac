SPECIFICATION FairSpec
CONSTANTS
    MaxOrders = 1
    MaxProgress = 1
    MaxDepth = 2
    Stops = FALSE
    SlowLink = FALSE
    None = None
INVARIANTS
    ArrivesInOrder
    OutcomeStands
PROPERTY EveryReportArrives
