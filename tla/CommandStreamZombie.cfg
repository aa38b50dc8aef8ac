SPECIFICATION Spec
CONSTANTS
    Envelopes = {e1, e2}
    AgeLimit = 2
    ReadTimeout = 2
    StaleLimit = 3
    ServerLife = 6
    MaxWait = 1
    MaxExponent = 4
    MaxJob = 5
    MaxFaults = 5
INVARIANT RotatesInTime
CHECK_DEADLOCK FALSE
