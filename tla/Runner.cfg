SPECIFICATION Spec
CONSTANTS
    None = None
    NoFilter = NoFilter
    MaxChecks = 3
    Registry <- MCRegistry
    DataChecks <- MCDataChecks
    Connectivity <- MCConnectivity
    Filters <- MCFilters
INVARIANTS
    TypeOK
    ReportMatchesTasks
    ResultsInRequestOrder
    VerdictSound
    ExitCodeSound
PROPERTIES
    FrozenAfterVerdict
    EventuallyDecided
    ExitsUnlessKeptAlive
    ImplementsPromise
