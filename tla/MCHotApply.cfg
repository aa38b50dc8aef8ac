SPECIFICATION FairSpec
CONSTANTS
    Settings <- Sets
    Unsupported = {2}
    DefaultCap = 3
    NPumps = 2
    MaxAttempts = 2
    MaxChanges = 2
    MaxFaults = 1
    MaxRests = 1
    None = None
INVARIANTS
    RunsUnderItsSettings
    SetUpForCapacity
    ReportedIsInForce
PROPERTIES
    SettingsArrive
    RecoveryRetries
CHECK_DEADLOCK FALSE
