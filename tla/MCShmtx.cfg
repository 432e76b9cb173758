SPECIFICATION FairSpec
CONSTANTS
    Procs = {p1, p2, p3}
    Master = master
    Free = free
    Semaphore = TRUE
    MaxCrashes = 2
INVARIANTS
    NoLostWakeup
PROPERTIES
    ImplementsMutexSafely
    FreeLockTaken
    DeadOwnerReleased
