SPECIFICATION FairSpec
CONSTANTS
    w1 = w1
    w2 = w2
    c1 = c1
    c2 = c2
    Workers = {w1, w2}
    Components = {c1, c2}
    Report = Report
    None = None
    MaxUsd = 5
    CallUsd = 2
    MinCallUsd = 1
    MaxCalls = 4
    Overrun = 1
    MaxBatches = 1
    MaxReviews = 1
    MaxExchanges = 1
    MaxTimeoutRetries = 1
    MaxFailureRetries = 1
    MaxPaidRetries = 1
    Restored <- FreshOrResumed
    CachedCosts <- OneReceipt
PROPERTIES
    WaitingEnds
    RunEnds
