CONSTANTS
    a = a
    b = b
    Deployments = {a, b}
    Ladder <- MCDegrade
    Calls = {c1, c2}
    MaxAttempts = 2
    WindowSize = 2
    MinSamples = 2
    FailurePercent = 50
    OpenCooldown = 1
    CooldownMax = 2
    HalfOpenProbes = 1
    RetryAfter = 1
    Outcomes = {"turned", "fail", "limited", "abort", "cancel", "hedge"}
    MaxOpenCount = 2
    MaxLeaked = 1
SYMMETRY Symmetry
SPECIFICATION Spec
INVARIANTS
    RoutingTypeOK
PROPERTIES
    OpenNotExtended
    FreshEvidence
