SPECIFICATION FairSpec
CONSTANTS
    Hub  = {"a", "b"}
    Name = {"m", "n"}
    MaxId = 3
    MayAsk = {"b"}
    MayDrop = {"a"}
    MaxTask = 3
    MaxVer = 2
    MayRefuse = TRUE
CHECK_DEADLOCK FALSE
INVARIANTS RoutesServed OneFresh
PROPERTIES DeregisterAnswered
