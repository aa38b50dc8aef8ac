SPECIFICATION FairSpec
CONSTANTS
    NPumps = 2
    NPorts = 2
    Devices = {"absent", "garbled", "mute", "sy01b", "tecan"}
    Servers = {"sy01b"}
    MaxChanges = 2
    MaxNoise = 1
    MaxJobs = 1
INVARIANT
    FramesFit
PROPERTIES
    RestartsEnd
    RackAdopted
