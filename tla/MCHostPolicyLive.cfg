SPECIFICATION FairSpec
CONSTANTS
    Hosts = {h1}
    NoHost = NoHost
    Rpa = Rpa
    MaxPeers = 2
    MaxOps = 1
    MaxLinks = 2
PROPERTY
    UnadmittedLinkEnds
