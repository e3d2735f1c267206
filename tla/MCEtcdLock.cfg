CONSTANTS
    Keys = {1, 2}
    Sess = {s1, s2}
    Lapsing = {s1}

SPECIFICATION FairSpec

INVARIANTS LockInv WaitsAscend NothingLeftBehind MutualExclusion BatchIsWhole
PROPERTIES ImplementsLockService OnlyOwnerReleases EveryCallReturns OrphansReclaimed
