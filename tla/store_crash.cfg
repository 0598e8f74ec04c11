SPECIFICATION Spec
CONSTANTS
    f1 = f1
    f2 = f2
    Fork = {f1}
    Genesis = f1
    Caller = {1, 2}
    CheckpointInterval = 2
    ErrorListener = FALSE
    Apart = {"restore"}
    Env = {"close", "crash", "restore"}
    NoBlock = NoBlock
    MaxHeight = 2
    MaxBlocks = 4
INVARIANTS
    NoHoles
CHECK_DEADLOCK FALSE
