SPECIFICATION Spec
CONSTANTS
    Module     <- MCModule
    Above      <- MCAbove
    TreeRoot   = "body"
    Rid        <- Ids3
    Parents    <- FamilyParents
    Claims     <- FamilyClaims
    Starts     <- FamilyStarts
    Asks       <- FamilyAsks
    Fates      <- FamilyFates
    Acquirable = {}
    Again = {}
INVARIANTS DeadHoldNothing
CHECK_DEADLOCK FALSE
