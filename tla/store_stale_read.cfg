SPECIFICATION Spec
CONSTANTS
    f1 = f1
    f2 = f2
    Fork = {f1, f2}
    Genesis = f1
    Caller = {1}
    CheckpointInterval = 2
    ErrorListener = FALSE
    Apart = {"close", "write", "restore"}
    Env = {"crash"}
    NoBlock = NoBlock
    MaxHeight = 2
    MaxBlocks = 5
INVARIANTS
    ReadsBack
CHECK_DEADLOCK FALSE
