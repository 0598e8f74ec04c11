SPECIFICATION SearchSpec
CONSTANTS
    SeedAddress = {"a1", "a2", "a3"}
    DnsSeed = {"d1", "d2"}
    Hardcoded = {"a1"}
    BatchSize = 2
    Enough = 2
    Few = 1
    MaxSearches = 2
INVARIANTS
    SavedAreOffered
CHECK_DEADLOCK FALSE
