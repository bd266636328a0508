SPECIFICATION FairSpec
CONSTANTS
    Workers = {w1, w2}
    Beat = Beat
    Main = Main
    None = None
    Ceiling = 1
    Overrun = 1
    CachedUsd = 1
    MaxCalls = 2
INVARIANTS
    TypeOK
    CallsCovered
    SpendNearlyCovered
    EndRecorded
PROPERTIES
    SessionEnds
