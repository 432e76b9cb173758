SPECIFICATION Spec
CONSTANTS
    WorkerProcesses = 1
    Helpers = {}
    FirstDelay = 1
    KillDelay = 1
    None = None
    Invalid = Invalid
    Commands = {"QUIT", "HUP", "USR2", "WINCH"}
    MaxCommands = 4
    MaxFaults = 0
CHECK_DEADLOCK FALSE
INVARIANT MasterExitsWithoutChildren
