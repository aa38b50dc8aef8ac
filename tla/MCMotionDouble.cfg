SPECIFICATION Spec
CONSTANTS
    NPumps = 1
    Aspirations <- TwoPorts
    OutPort = 9
    AirPort = 8
    Kinds = {"batch"}
    Retries = 1
    Noise = {"cut"}
    MaxNoise = 1
    MaxStops = 0
INVARIANT NoDoublePour
