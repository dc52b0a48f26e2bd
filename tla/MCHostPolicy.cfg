SPECIFICATION Spec
CONSTANTS
    Hosts = {h1, h2}
    NoHost = NoHost
    Rpa = Rpa
    MaxPeers = 2
    MaxOps = 1
    MaxLinks = 2
SYMMETRY Symmetry
INVARIANTS
    InputOnlyToSelected
    UnadmittedLinkIsTerminating
    LiveLinkTracked
    AdvertisingFollowsAdmission
    DurableIntent
PROPERTIES
    NewcomerWins
