SPECIFICATION Spec
CONSTANTS
    a = a
    b = b
    r1 = r1
    r2 = r2
    Requests = {r1, r2}
    Manager = manager
    Loader = loader
    Nodes = {1, 2}
    Keys = {a, b}
    Pages = {a}
    VariantOf <- MCVariantOf
    None = none
    LockAge = 1
    LockTimeout = 1
    MaxTime = 2
    Sites <- MCSites
CHECK_DEADLOCK FALSE
INVARIANTS CountExact NodeKept UpdatingByOne
PROPERTY WaitEnds
