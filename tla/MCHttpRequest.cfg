SPECIFICATION Spec
CONSTANTS
    N = 2
    MaxItems = 3
    MaxUriChanges = 1
    UriWidth = 3
    Sites <- MCSites
INVARIANTS
    
    Delivered
 
CHECK_DEADLOCK FALSE
