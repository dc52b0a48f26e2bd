SPECIFICATION Spec
CONSTANTS
    PeerMissing = 1
    PeerStable = 1
    RearmStable = 1
    FirstWait = 1
    Backoff = 1
    MaxAttempts = 1
    Profiles = {"home", "typo"}
    Works = {"home"}
    Sites = {{"home", "typo"}}
    Nonces = {"n1"}
    MaxSaves = 2
    ConnectTimeout = 1
    RetryDelay = 1
    TrialTimeout = 2
    ExportWindow = 1
INVARIANTS
    FailedStaysFailed
    NeverStranded
PROPERTIES
    CommitsWhatWorked
    BudgetIsEarned
