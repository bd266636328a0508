SPECIFICATION Spec
CONSTANTS
    Workers = {w1, w2}
    Beat = Beat
    Main = Main
    None = None
    Ceiling = 1
    Overrun = 1
    CachedUsd = 1
    MaxCalls = 1
INVARIANTS
    LockReleased
