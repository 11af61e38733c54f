SPECIFICATION Spec
CONSTANTS
    n1 = n1
    n2 = n2
    c1 = c1
    c2 = c2
    c3 = c3
    Names = {n1, n2}
    Controllers = {c1, c2, c3}
    NameOf <- MCNameOf
    None = None
    QueueCap = 2
    maxBatchSize = 2
    MaxSnaps <- MCMaxSnaps
    MaxFaults = 1
    MaxDrops = 1
INVARIANTS
    TypeOK SettledRow OneLateBatch
PROPERTIES
    InOrder Drains
CHECK_DEADLOCK FALSE
