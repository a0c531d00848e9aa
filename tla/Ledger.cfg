SPECIFICATION Spec
CONSTANTS
    Records = {p1, p2, p3, a1, f1}
    Streamed = {a1, f1}
    Flushed = {f1}
    BatchSize = 2
    QueueMax = 2
INVARIANTS
    LedgerTypeOK
    WrittenOnce
    NoSilentLoss
PROPERTIES
    
    ShutdownEnds
    Delivered
CHECK_DEADLOCK FALSE
