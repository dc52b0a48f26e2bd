SPECIFICATION Spec
CONSTANTS
    Hosts = {"a", "b"}
    NoHost = "none"
    MaxGen = 2
    Asks = {"SELECT"}
    InitPeers <- BothSaved
    Resumes = TRUE
    Faults = {"raise", "policy"}
    MaxFaults = 3
    MaxPackets = 2
    MaxRequests = 0
    MaxQueue = 1
INVARIANT
    LoopSurvives
