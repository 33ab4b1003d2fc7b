SPECIFICATION FairSpec
CONSTANTS
    Hub   = {"local", "h"}
    Local = "local"
    Conn  = {"s1", "s2"}
    MaxId = 2
    Place <- MCPlace
    MayEnd  = {2}
    MayStop = {1}
CHECK_DEADLOCK FALSE
INVARIANTS ConnsTrue ShutdownReaches
PROPERTIES DeadLeave NoOrphans
