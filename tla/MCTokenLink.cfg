SPECIFICATION TokenSpec
CONSTANTS
    MaxSeq = 2
    MaxBoots = 2
    Tries = 2
    Ring = 1
    Window = 4
    Backoff = 1
    MaxRecent = 2
    Flight = 1
    Stall = 1
    Reboot = 6
INVARIANTS
    ExecutedOnce
    DropsOnlyRepeats
