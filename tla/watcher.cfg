SPECIFICATION Spec
CONSTANTS
    Sessions = {s1, s2}
    IPs = {a1, a2}
    NoOne = NoOne
INVARIANTS
    TypeOK LatestFilterWins NoSendOnClosed
PROPERTIES
    KeepsOrder ActiveIsCaptured
CHECK_DEADLOCK FALSE
