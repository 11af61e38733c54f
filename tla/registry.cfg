INIT Init
NEXT Next
CONSTANTS
    Requests = {r1, r2, r3}
    Boot = Boot
    Controllers = {c1, c2, c3}
    Cfgs = {f, g}
    None = None
    MaxFaults = 3
    MaxRestarts = 1
SYMMETRY Symmetry
INVARIANTS
    TypeOK
    OneController
    ListedIsServed
CHECK_DEADLOCK FALSE
