SPECIFICATION Spec
CONSTANTS
    g1 = g1
    g2 = g2
    o1 = o1
    o2 = o2
    Gateways = {g1, g2}
    Ops = {o1, o2}
    OpKind <- MCKind
    OpGateway <- MCGateway
    Looping = {g2}
    Serving = {g2}
    MaxFile = 1
INVARIANTS
    VersionCovers
PROPERTIES
    Converges
    KeysRevoked
CHECK_DEADLOCK FALSE
