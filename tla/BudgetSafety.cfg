SPECIFICATION Spec
CONSTANTS
    w1 = w1
    w2 = w2
    c1 = c1
    c2 = c2
    Workers = {w1, w2}
    Components = {c1, c2}
    Report = Report
    None = None
    MaxUsd = 6
    CallUsd = 2
    MinCallUsd = 1
    MaxCalls = 5
    Overrun = 1
    MaxBatches = 1
    MaxReviews = 2
    MaxExchanges = 2
    MaxTimeoutRetries = 1
    MaxFailureRetries = 1
    MaxPaidRetries = 1
    Restored <- FreshOnly
    CachedCosts <- OneReceipt
SYMMETRY Symmetry
INVARIANTS
    TypeOK
    SpendWithinLimit
    ReportFunded
    PaidRetriesNearLimit
PROPERTIES
    ImplementsLedger
