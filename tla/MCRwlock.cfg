SPECIFICATION RwFairSpec
CONSTANTS
    Users = {p1, p2, p3}
    Nobody = nobody
PROPERTIES
    ImplementsReadWrite
    LockProgress
