SPECIFICATION Spec
CONSTANTS
    Conns = {c1, c2}
    Listener = listener
    DrainN = 1
    MaxBatch = 2
    MaxOpens = 3
SYMMETRY Symmetry
INVARIANTS
    PoolExact
    InterestExact
PROPERTIES
    OneReuseNoticed
