SPECIFICATION FairSpec
CONSTANTS
    Follow = {"f"}
    Steer = {"s"}
    Inject = {"i"}
    Call = {"c1", "c2"}
    Compact = {"k1", "k2"}
    MaxStep = 2
    MaxInterrupt = 1
CHECK_DEADLOCK FALSE
INVARIANTS Kept CompactsAlone BegunIsAnswered
PROPERTIES Answered
