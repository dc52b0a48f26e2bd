SPECIFICATION FairSpec
CONSTANTS
    Hold = 1
    SuspendMax = 1
    Queue = 1
    Capacity = 2
    Reported = {"src_aux", "src_a2dp"}
    Presses = TRUE
INVARIANTS
    PowerInPhase
    AuxIsLive
PROPERTIES
    TeardownSettles
    Heals
