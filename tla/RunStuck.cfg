SPECIFICATION Spec
CONSTANTS
    Jobs = 2
    Optional <- SecondJob
    Instructed <- SecondJob
    Files <- TwoFiles
    User = User
    Legacy = Legacy
    None = None
    Gap = Gap
    Placements <- Anywhere
    MaxStarts = 3
    MaxCalls = 3
    MaxEvents = 2
INVARIANTS
    StartableAfterRun
