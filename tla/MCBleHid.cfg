SPECIFICATION FairBleSpec
CONSTANTS
    MaxAttempts = 2
    MaxLinks = 3
    MaxWipes = 2
    MaxTroubles = 2
    MaxBoots = 1
PROPERTIES
    WipeIsSafe
    PauseSettles
    Reachable
