SPECIFICATION Spec
CONSTANTS
    d1 = d1
    d2 = d2
    d3 = d3
    None = None
    Deployments = {d1, d2, d3}
    MaxAttempts = 2
    Hedging = TRUE
    Stale = TRUE
INVARIANTS
    
    BilledAsSent
    OneOpen
PROPERTIES
    AllClosed
CHECK_DEADLOCK FALSE
