SPECIFICATION SafetySpec
CONSTANTS
    None = None
    NoFilter = NoFilter
    MaxChecks = 3
    Registry <- MCRegistry
    DataChecks <- MCDataChecks
    Connectivity <- MCConnectivity
    Filters <- MCFilters
INVARIANT
    ContentAfterConnectivity
