CONSTANTS
    a = a
    b = b
    Deployments = {a, b}
    Ladder <- MCGroup
    Calls = {c1, c2}
    MaxAttempts = 2
    WindowSize = 1
    MinSamples = 1
    FailurePercent = 50
    OpenCooldown = 1
    CooldownMax = 1
    HalfOpenProbes = 2
    RetryAfter = 1
    Outcomes = {"heal", "fail"}
    MaxOpenCount = 1
    MaxLeaked = 0
SPECIFICATION Spec
INVARIANTS
    InflightExact
    ProbesReleased
PROPERTY
    Recovered
