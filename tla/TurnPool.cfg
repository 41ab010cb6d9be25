SPECIFICATION FairSpec
CONSTANTS
    Request = {r1, r2}
    Scenario = {s1, s2}
    MaxEvents = 1
    PoolSize = 2
    SnapshotLimit = 1
    NoTurn = NoTurn
PROPERTIES
    EveryRequestSettles
CHECK_DEADLOCK FALSE
