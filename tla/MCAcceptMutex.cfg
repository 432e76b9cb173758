SPECIFICATION FairSpec
CONSTANTS
    w1 = w1
    w2 = w2
    Workers = {w1, w2}
    Free = Free
    ConnectionN = 8
    FreeAtStart = {0}
    MultiAccept = TRUE
    MaxArrivals = 2
    MaxFailures = 2
    MaxCrashes = 1
INVARIANTS
    HeldMeansArmed
PROPERTIES
    PendingServed
