CONSTANTS
    Requests = {r1, r2, r3}
    Months = {m1, m2}
    Plans <- MCPlans
    Estimates <- MCEstimates
    Usages <- MCUsages
    Ttl = 1
    BatchLimit = 1
    MaxTime = 3
    MaxSkew = 0
SYMMETRY Symmetry
SPECIFICATION ScriptSpec
INVARIANTS
    TypeOK
    PermitsCoverHeld
    BudgetConserved
    TpmWithinCap
    RateBounded
CHECK_DEADLOCK FALSE
