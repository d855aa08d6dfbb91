SPECIFICATION Spec
CONSTANTS
    Single = t1
    Pair = {t2, t3}
    None = None
SYMMETRY LocksSymmetry
INVARIANTS OpenAtMostOnce NoOrphanLock LockContinuity ReclaimBeforeComplete NothingSentWhileLost
