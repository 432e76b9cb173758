SPECIFICATION FairSpec
CONSTANTS
    WorkerProcesses = 1
    Helpers = {"manager"}
    FirstDelay = 1
    KillDelay = 1
    None = None
    Invalid = Invalid
    Commands = {"TERM", "QUIT", "HUP", "USR1", "USR2", "WINCH"}
    MaxCommands = 2
    MaxFaults = 2
CHECK_DEADLOCK FALSE
INVARIANT MasterGoesLast
INVARIANT OneConfiguration
PROPERTY TermEnds
PROPERTY WorkersReplaced
PROPERTY UpgradeRolledBack
