SPECIFICATION Spec
CONSTANTS
    Module   = {body, arm, hand}
    NoModule = none
    Rid      = {root, r1, r2}
    Root     = root
    TreeRoot = body
    MaxAsk   = 2
CHECK_DEADLOCK FALSE
INVARIANTS ListsAgree EvictionClears
PROPERTIES LocksSpec
