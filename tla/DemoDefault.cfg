SPECIFICATION ConsoleFairSpec
CONSTANTS
    Request = {r1}
    Scenario = {s1}
    MaxEvents = 2
    PoolSize = 4
    SnapshotLimit = 1
    NoTurn = NoTurn
    BaseUrl = "path"
    Shown = s1
    ListLimit = 2
    MaxInFlight = 3
    Nobody = Nobody
PROPERTIES
    EventLogPopulates
CHECK_DEADLOCK FALSE
