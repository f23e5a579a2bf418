SPECIFICATION PingSpec
CONSTANTS
    None = None
    Task = {n1, n2, n3}
    Retries = 0
    MaxPeers = 2
    Configured = {0}
    DefaultRetries = 2
INVARIANTS
    VerdictTellsPings
    ErrorMeansNodeLost
PROPERTY
    CheckEnds
