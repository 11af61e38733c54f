INIT Init
NEXT Next
CONSTANTS
    Requests = {r1, r2}
    Boot = Boot
    Controllers = {c1, c2}
    Cfgs = {f}
    None = None
    MaxFaults = 2
    MaxRestarts = 0
PROPERTY
    UnregisteredForCause
CHECK_DEADLOCK FALSE
