CONSTANTS
    p1 = p1
    p2 = p2
    p3 = p3
    Proc = {p1, p2, p3}
    Workloads <- MCWorkloads
SPECIFICATION FairSpec
INVARIANTS
    MutualExclusion
    ListsDisjoint
    NoLostWakeup
    NoStaleSleeper
    SignalsConserved
PROPERTIES
    ImplementsRWLock
    NoSleepBesideFreeLock
