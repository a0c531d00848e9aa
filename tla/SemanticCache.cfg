SPECIFICATION Spec
CONSTANTS
    a1 = a1
    a2 = a2
    b1 = b1
    c1 = c1
    Requests <- MCRequests
    Earlier = {c1}
    Keys <- MCKeys
    KeyOf <- MCKeyOf
    Scope <- MCScope
    Gate <- MCGate
    Recalled <- MCRecalled
    Rank <- MCRank
    Threshold = 3
    StaleDelta = 1
    TopK = 2
    IndexCapacity = 1
    MemoCapacity = 1
    None = None
INVARIANTS
    CacheTypeOK
    ServedFits
PROPERTIES
    DeletedStaysDown
    Capped
CHECK_DEADLOCK FALSE
