SPECIFICATION Spec
CONSTANTS
    Hosts = {"a", "b"}
    NoHost = "none"
    MaxGen = 2
    Asks = {"SELECT", "ENROLL", "ALIAS", "DISCONNECT"}
    InitPeers <- OneSaved
    Resumes = FALSE
    Faults = {"badge", "repeat", "loss", "late", "stale", "link", "panel", "controller", "raise", "policy"}
    MaxFaults = 1
    MaxPackets = 5
    MaxRequests = 2
    MaxQueue = 2
INVARIANTS
    StartsOnce
    OfferedWasSaved
PROPERTIES
    ConfirmedIsOwn
