SPECIFICATION Spec
CONSTANTS
    Requests = {s1, n1, n2}
    Streams = {s1}
    Cascades = {n2}
    Faults = {"cache", "raise", "leave"}
    None = None
INVARIANTS
    FlightTypeOK
    OneLeader
    
    Collapsed
PROPERTY AllReturn
CHECK_DEADLOCK FALSE
