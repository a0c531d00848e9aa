CONSTANTS
    a = a
    b = b
    Deployments = {a, b}
    Ladder <- MCGroup
    Calls = {c1}
    MaxAttempts = 2
    WindowSize = 2
    MinSamples = 2
    FailurePercent = 50
    OpenCooldown = 1
    CooldownMax = 2
    HalfOpenProbes = 1
    RetryAfter = 1
    Outcomes = {"heal", "fail", "limited"}
    MaxOpenCount = 2
    MaxLeaked = 0
SPECIFICATION Spec
PROPERTY
    Recovered
