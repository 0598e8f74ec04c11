SPECIFICATION FairSpec
CONSTANTS
    f1 = f1
    f2 = f2
    Fork = {f1, f2}
    Genesis = f1
    Caller = {1, 2}
    CheckpointInterval = 2
    ErrorListener = TRUE
    Apart = {"close", "write", "restore"}
    Env = {"close"}
    NoBlock = NoBlock
    MaxHeight = 2
    MaxBlocks = 4
PROPERTIES
    IndexedOnDisk
    ImplementsChain
CHECK_DEADLOCK FALSE
