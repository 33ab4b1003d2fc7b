SPECIFICATION Spec
CONSTANTS
    Module   = {body, left, right}
    Rid      = {root, r1, r2}
    Root     = root
    TreeRoot = body
CHECK_DEADLOCK FALSE
INVARIANTS TypeOK Exclusion TreeKept
