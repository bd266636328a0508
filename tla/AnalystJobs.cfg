SPECIFICATION FairSpec
CONSTANTS
    p1 = p1
    p2 = p2
    Procs <- TwoProcs
    None = None
    MaxCalls = 2
    MaxRounds = 1
    MaxUser = 2
    MaxKills = 1
INVARIANTS
    TypeOK
    OutcomeStands
    EveryExitCloses
    CancelHeeded
PROPERTIES
    JobsClose
CHECK_DEADLOCK FALSE
