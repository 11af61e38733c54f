SPECIFICATION Spec
CONSTANTS
    c1 = c1
    c2 = c2
    c3 = c3
    i1 = i1
    i2 = i2
    i3 = i3
    i0 = i0
    r1 = r1
    r2 = r2
    Bridge = Bridge
    Boot = Boot
    None = None
    Containers = {c1, c2, c3}
    Ports <- MCPorts
    Ifb <- MCIfb
    Requests = {r1, r2}
    Asked <- MCAsked
    MaxFaults = 2
    MaxRestarts = 1
INVARIANTS
    TypeOK StoredIsInForce NoBlackHole
PROPERTIES
    LeftoversDoNotMatter
CHECK_DEADLOCK FALSE
