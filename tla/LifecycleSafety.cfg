SPECIFICATION Spec
CONSTANTS
    c1 = c1
    c2 = c2
    j1 = j1
    j2 = j2
    h1 = h1
    Calls <- MCCalls
    Jobs <- MCJobs
    Hooks <- MCHooks
    MaxCalls = 2
    MaxTurns = 1
    MaxUsage = 1
    TranscriptMissing = FALSE
    None = None
SYMMETRY Symmetry
INVARIANTS
    TypeOK
    NoLeak
    BindingsExplained
    LateChargesBounded
    UsageCountedOnce
PROPERTIES
    KeepsPromise
CHECK_DEADLOCK FALSE
