SPECIFICATION FairSpec
CONSTANTS
    Contents = {"text", "silence"}
    Count <- MCCount
    Modulus = 4
    Fresh = 4
    Period = 1
    Deadline = 2
    MaxAux = 1
    MaxNumber = 4
    MaxSessions = 2
    Budget = 1
    Transit = 1
    Capacity = 2
    CalmBy = 3
INVARIANTS
    SnapshotIsWhole
    FreshIsRecent
PROPERTIES
    NeverBackward
    Repaired
