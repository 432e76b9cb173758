CONSTANTS
    PageShift = 4
    WordBits = 4
    IntBits = 4
    MinShift = 1
    Sites <- MCSites
SPECIFICATION Spec
INVARIANTS RoomKept
PROPERTIES ImplementsAllocator
