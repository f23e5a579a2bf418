SPECIFICATION Spec
CONSTANTS
    Bits = 2
    MaxNodes = 3
    OverlayOf <- MCOverlayOf
    Depths <- MCDepths
    RetryAttempts = 2
    MaxChunks = 1
    MaxUploaders = 2
    Thresholds = {2, 3}
    NoNode = NoNode
INVARIANTS
    NeighbourhoodHoldsChunk
    ReplicatedToThreshold
    CountIsBetween
    EveryChunkLeavesAResult
PROPERTY
    Ends
