SPECIFICATION FairSpec
CONSTANTS
    Buttons = {"BT_VOLUP"}
    Taps = {"BT_EBIND"}
    MaxActs = 2
    MaxSeq = 2
    MaxHellos = 2
    MaxBoots = 2
    MaxOthers = 1
    InFlight = 2
    Room = 2
    MaxRehellos = 1
    MaxClients = 1
    MaxHandshakes = 2
INVARIANTS
    RunsOnce
    AnswersAreTrue
    ReleaseIsOwed
PROPERTIES
    StalledEnds
