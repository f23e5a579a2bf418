SPECIFICATION Spec
CONSTANTS
    Bits = 2
    MaxNodes = 3
    OverlayOf <- MCOverlayOf
    Nobody = Nobody
    UploadRetries = 2
    LookRetries = 1
    MaxChunks = 2
INVARIANTS
    EveryChunkReported
    VerdictMatchesMessage
    PassMeansFetched
