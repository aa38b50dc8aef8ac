SPECIFICATION FairSpec
CONSTANTS
    NPumps = 1
    Aspirations <- TwoPorts
    OutPort = 9
    AirPort = 8
    Kinds = {"batch", "plunger"}
    Retries = 1
    Noise = {"lost", "cut", "gone", "late", "break", "thread"}
    MaxNoise = 1
    MaxStops = 1
INVARIANT
    CompletedPoured
PROPERTIES
    DrawnThroughItsPort
    JobEnds
