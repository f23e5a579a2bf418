SPECIFICATION Spec
CONSTANTS
    Retries = 3
    MaxFiles = 2
    MaxIterations = 2
INVARIANTS
    ReportsTellFates
    TotalsCountFates
    VerdictTellsFates
