SPECIFICATION FairSpec
CONSTANTS
    InputCapacity = 2
    InputsPerTick = 1
    MaxOps = 2
    MaxLinks = 1
    MaxSubs = 2
    MaxStarts = 2
    MaxTroubles = 1
INVARIANTS
    HeldIsCurrent
    FaultIsShown
PROPERTIES
    SentWhereArmed
    ImplementsMailbox
    Served
