SPECIFICATION Spec
CONSTANTS
    Module     <- MCModule
    Above      <- MCAbove
    TreeRoot   = "body"
    Rid        <- Ids2
    Parents    <- ContentionParents
    Claims     <- ContentionClaims
    Starts     <- ContentionStarts
    Asks       <- ContentionAsks
    Fates      <- ContentionFates
    Acquirable <- ContentionAcquirable
    Again <- ContentionAgain
CHECK_DEADLOCK FALSE
INVARIANTS TypeOK RecordsAgree
PROPERTIES LocksSpec
