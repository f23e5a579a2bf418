SPECIFICATION ApiSpec
CONSTANTS
    None = None
    NoFilter = NoFilter
    Client = {c1}
    MaxChecks = 2
    Registry <- MCRegistry
    DataChecks <- MCDataChecks
    Connectivity <- MCConnectivity
    Filters <- MCFilters
INVARIANTS
    OkMeansFinal
    MetricsListWhatTheyCount
PROPERTIES
    OkIsNeverTakenBack
    PollerLearnsVerdict
