SPECIFICATION Spec
CONSTANTS
    IPs = {a1}
    NoIP = NoIP
    SleepAfter = 1
    BusyWindow = 0
    MaxCall = 0
    MaxFaults = 1
    MaxRestarts = 0
PROPERTIES
    WakesOnTraffic FallsAsleep StopsWhenCancelled
