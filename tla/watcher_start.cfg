SPECIFICATION Spec
CONSTANTS
    Sessions = {s1, s2}
    IPs = {a1}
    NoOne = NoOne
PROPERTIES
    StartReturns
CHECK_DEADLOCK FALSE
