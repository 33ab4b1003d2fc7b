SPECIFICATION FairSpec
CONSTANTS
    Hub     <- MCHub
    Routine = {"asker", "maker"}
    Call    = {"back", "watch"}
    Home    <- MCHome
    ConnId  <- MCConnId
    From    <- MCFrom
    To      <- MCTo
    Kind    <- MCKind
    Id      <- MCId
    OutMax = 2
    MaxChunk = 1
    MayDrop = {"far"}
    MayGiveUp = {"maker"}
CHECK_DEADLOCK FALSE
  
PROPERTIES OpenEnds LeftStops
