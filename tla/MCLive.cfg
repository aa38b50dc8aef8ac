SPECIFICATION PartsSpec
CONSTANTS
    MaxReports = 5
    MaxLen = 3
    Stops = TRUE
    SlowLink = TRUE
    None = None
    Parts = {"deque", "pairing", "stream"}
    Urls <- TwoServers
    Host <- TheirHosts
    Serials <- CpuAndMachine
    Boards <- TwoBoards
    Life = 1
    MaxRetries = 1
    MaxPolls = 1
    MaxTime = 1
    MaxChanges = 2
    PairingFaults = 1
    Envelopes <- OneEnvelope
    AgeLimit = 2
    ReadTimeout = 2
    StaleLimit = 3
    ServerLife = 6
    MaxWait = 1
    MaxExponent = 4
    MaxJob = 5
    MaxFaults = 5
INVARIANTS
    NothingForgotten
    SentByOne
    OldestInFront
    WorksUnderItsOwn
    ReturnsWithoutAsking
PROPERTIES
    EveryRetryEnds
    PairsInTheEnd
    EveryEnvelopeIsHeard
    StopIsHeeded
CHECK_DEADLOCK FALSE
