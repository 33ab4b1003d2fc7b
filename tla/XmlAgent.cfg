SPECIFICATION FairSpec
CONSTANTS
    User = {"u1", "u2"}
    Mail = {"m"}
    MaxReact = 3
    MaxRound = 2
    MaxInterrupt = 1
    MayFail = {1}
CHECK_DEADLOCK FALSE
INVARIANTS OneReact RoundFollowsUser NothingLost ActsWatched
PROPERTIES Answered
