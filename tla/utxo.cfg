SPECIFICATION FairSpec
CONSTANTS
    o1 = o1
    o2 = o2
    alice = alice
    bob = bob
    Outpoint = {o1, o2}
    Address = {alice, bob}
    Owner <- MCOwner
    c1 = c1
    c2 = c2
    Caller = {c1, c2}
    CompactionThreshold = 50
    ErrorListener = TRUE
    NoOutpoint = NoOutpoint
    MaxEntries = 4
INVARIANTS
    BooksAgree
PROPERTIES
    ImplementsOutputs
    Compacts
CHECK_DEADLOCK FALSE
