CONSTANTS
    Requests = {r1}
    Months = {"june", "july"}
    Plans <- MCPlans
    Estimates <- MCEstimates
    Usages <- MCUsages
    Ttl = 2
    BatchLimit = 1
    MaxTime = 3
    MaxSkew = 3
    Streams = {}
    MaxAttempts = 2
    FailModes = {"closed"}
    Faults = {"redis"}
    Calendar <- MCCalendar
    TotalTime = 1
    LastStart = 1
SPECIFICATION Spec
INVARIANT
    SettleFailuresRecovered
CHECK_DEADLOCK FALSE
