SPECIFICATION Spec
CONSTANTS
    NodeCount = 3
    MinPeers = {1, 2}
    Stranger = Stranger
INVARIANTS
    StatsTellResults
    PassMeansPeersSeen
