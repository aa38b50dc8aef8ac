SPECIFICATION Spec
CONSTANTS
    Cmd = {c1, c2}
    Maint = {c1, c2}
    Malformed = {c2}
    NoCmd = NoCmd
    NStages = 2
    RetryMax = 2
    MaxHalts = 2
    DiskFaults = FALSE
    PowerCuts = TRUE
INVARIANTS
    TypeOK
    AtMostOnce
    SuccessIsReal
    NothingUnsettled
PROPERTY DispensesOnce
