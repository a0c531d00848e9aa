CONSTANTS
    Requests = {r1, r2}
    Months = {"june", "july"}
    Plans <- MCPlans
    Estimates <- MCEstimates
    Usages <- MCUsages
    Ttl = 2
    BatchLimit = 1
    MaxTime = 3
    MaxSkew = 3
    Streams = {}
    MaxAttempts = 2
    FailModes = {"closed"}
    Faults = {"abandon"}
    Calendar <- MCCalendar
    TotalTime = 1
    LastStart = 1
SPECIFICATION Spec
INVARIANTS
    NoBudgetLost
    LiveReservationHeld
PROPERTY
    PermitsImplemented
CHECK_DEADLOCK FALSE
