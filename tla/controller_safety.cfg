INIT Init
NEXT Next
CONSTANTS
    IPs = {a1, a2}
    NoIP = NoIP
    SleepAfter = 2
    BusyWindow = 1
    MaxCall = 1
    MaxFaults = 1
    MaxRestarts = 1
SYMMETRY Symmetry
INVARIANTS
    TypeOK ResumeGrace BeliefMatchesDocker WatchFollowsAddress SnapshotConsistent
