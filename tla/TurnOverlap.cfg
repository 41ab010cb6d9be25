SPECIFICATION Spec
CONSTANTS
    Request = {r1, r2, r3}
    Scenario = {s1}
    MaxEvents = 1
    PoolSize = 4
    SnapshotLimit = 1
    NoTurn = NoTurn
SYMMETRY Symmetry
INVARIANTS
    AdvancesSerialize
CHECK_DEADLOCK FALSE
