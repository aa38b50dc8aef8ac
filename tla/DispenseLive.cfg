SPECIFICATION FairSpec
CONSTANTS
    Cmd = {c1, c2}
    Maint = {c2}
    Malformed = {}
    NoCmd = NoCmd
    NStages = 2
    RetryMax = 1
    MaxHalts = 2
    DiskFaults = FALSE
    PowerCuts = FALSE
PROPERTIES
    FinalPhaseStays
    EveryEnvelopeSettles
