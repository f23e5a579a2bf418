SPECIFICATION Spec
CONSTANTS
    None = None
    Task = {t1, t2, t3}
    Retries = 1
INVARIANTS
    TypeOK
    Bookkeeping
    OkMeansAllSucceeded
    ErrMeansSomeFailed
    NobodyIsCutShort
PROPERTY
    AlwaysReturns
