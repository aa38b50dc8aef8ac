SPECIFICATION PartsSpec
CONSTANTS
    Cmd = {c1}
    Maint = {}
    Malformed = {}
    NoCmd = NoCmd
    NStages = 2
    RetryMax = 2
    MaxHalts = 2
    DiskFaults = TRUE
    PowerCuts = TRUE
    Parts = {"core", "pair", "ledger", "spill", "valves", "recipe"}
    Nobody = Nobody
    NPumps = 2
    Aspirations <- OnePort
    OutPort = 9
    AirPort = 8
    Kinds = {"batch"}
    Retries = 1
    Noise = {"lost", "break", "thread"}
    MaxNoise = 2
    MaxStops = 0
    Key = {c1, c2}
    Junk = Junk
    MaxLines = 3
    MaxRecords = 4
    BufferCap = 2
    MaxSpans = 2
    Slack = 0
    ShipMax = 1
    MaxBad = 2
    Bases = {"sour", "normal"}
    Unwired = "none"
    Workers = {"w1", "w2"}
    MaxSteps = 4
    MaxKills = 1
    Inputs <- RecipeInputs
    Tunings <- TuningSet
    PumpMap <- RackMap
    ValvePorts = 3
    Liquids <- PortLiquids
    LiquidsKnown = TRUE
    Strict = TRUE
INVARIANTS
    MotionIsRecorded
    NobodyLeftDriving
    NothingLostInSilence
    NoValveForgotten
    PourIsWhole
    RunsAsSent
    BatchesKeepTheirVolume
    TunedWithinBounds
PROPERTY ImplementsLedger
CHECK_DEADLOCK FALSE
