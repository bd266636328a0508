SPECIFICATION FairSpec
CONSTANTS
    c1 = c1
    c2 = c2
    k1 = k1
    t1 = t1
    x1 = x1
    Controllers <- TwoControllers
    Skills <- OneSkill
    Terminators <- OneTerminator
    Cleaners <- OneCleaner
    None = None
    OwnStale = 1
    Grace = 2
    ShortPhase = 2
    LongPhase = 3
INVARIANTS
    TypeOK
    Exclusion
    HolderNamed
PROPERTIES
    DeadLockExpires
