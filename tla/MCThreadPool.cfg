SPECIFICATION FairSpec
CONSTANTS
    Threads = {h1, h2}
    Tasks = {t1, t2, t3, t4}
    MaxQueue = 2
    MayExit = TRUE
    ExitTask = exit
    NoTask = none
CHECK_DEADLOCK FALSE
INVARIANTS
    NothingForgotten
    DestroyedAfterUse
PROPERTIES
    OffloadsSafely
    Completed
    ExitEnds
