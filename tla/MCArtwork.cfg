SPECIFICATION FairSpec
CONSTANTS
    Tracks = {"a", "b"}
    Buffers = {"p", "q", "r"}
    Entries = 1
    MaxId = 4
INVARIANTS
    ShownIsAsked
    OwnedOnce
    NoTornCover
PROPERTY Answered
