SPECIFICATION FairSpec
CONSTANTS
    Jobs = 2
    Optional <- SecondJob
    Instructed <- SecondJob
    Files <- TwoFiles
    User = User
    Legacy = Legacy
    None = None
    Gap = Gap
    Placements <- Elsewhere
    MaxStarts = 2
    MaxCalls = 3
    MaxEvents = 2
PROPERTIES
    DirectoryFreed
