SPECIFICATION KFairSpec
CONSTANTS
    r1 = r1
    r2 = r2
    w1 = w1
    w2 = w2
    Requests = {r1, r2}
    Workers = {w1, w2}
    Configs <- SmallConfigs
    FailTimeout = 0
INVARIANTS
    ConnsExact
    WeightsBalanced
    KeptApart
PROPERTIES
    OneProbe
    PeerReturns
