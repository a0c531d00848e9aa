CONSTANTS
    Requests = {r1, r2}
    Months = {"june", "july"}
    Plans <- MCPlans
    Estimates <- MCEstimates
    Usages <- MCUsages
    Ttl = 2
    BatchLimit = 1
    MaxTime = 3
    MaxSkew = 3
    Streams = {r1, r2}
    MaxAttempts = 1
    FailModes = {"open", "closed"}
    Faults = {"redis", "abandon"}
    Calendar <- MCCalendar
    TotalTime = 1
    LastStart = 1
SPECIFICATION Spec
INVARIANTS
    ServiceTypeOK
    NoBudgetLost
    
PROPERTY
    PermitsImplemented
CHECK_DEADLOCK FALSE
