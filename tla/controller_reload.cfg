INIT Init
NEXT Next
CONSTANTS
    IPs = {a1}
    NoIP = NoIP
    SleepAfter = 2
    BusyWindow = 1
    MaxCall = 1
    MaxFaults = 0
    MaxRestarts = 1
INVARIANT
    PausedOnlyWhenSilent
