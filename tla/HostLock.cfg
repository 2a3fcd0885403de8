SPECIFICATION LiveSpec
CONSTANTS
    r1 = r1
    r2 = r2
    r3 = r3
    h1 = h1
    h2 = h2
    Runs <- MCRuns
    Hosts = {h1, h2}
    Targets <- MCTargets
    TTL = 1
    MaxClock = 2
    NoLock = NoLock
INVARIANTS
    WorkIsExclusive
    NothingLeftLocked
PROPERTIES
    OnlyOwnerGivesUp
    EveryRunEnds
CHECK_DEADLOCK FALSE
