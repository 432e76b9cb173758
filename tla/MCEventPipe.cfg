SPECIFICATION Spec
CONSTANTS
    Sites <- MCSites
    MaxFlushed = 1
    MaxBufs = 12
INVARIANTS
    StoredWhole
    BufsKept
PROPERTIES
    ImplementsStream
    Delivered
    PipeEnds
