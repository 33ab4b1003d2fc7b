SPECIFICATION FairSpec
CONSTANTS
    Module     <- MCModule
    Above      <- MCAbove
    TreeRoot   = "body"
    Rid        <- Ids3
    Parents    <- FamilyParents
    Claims     <- FamilyClaims
    Starts     <- FamilyStarts
    Asks       <- FamilyAsks
    Fates      <- FamilyFates
    Acquirable = {}
    Again = {}
CHECK_DEADLOCK FALSE
INVARIANTS RunsUnderLock LineSpared StartFindsInstance EndIsTold
PROPERTIES OnlyLowerEvicted StopCompletes EvictionSettles
