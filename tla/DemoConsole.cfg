SPECIFICATION ConsoleFairSpec
CONSTANTS
    Request = {r1}
    Scenario = {s1}
    MaxEvents = 3
    PoolSize = 4
    SnapshotLimit = 1
    NoTurn = NoTurn
    BaseUrl = "absolute"
    Shown = s1
    ListLimit = 2
    MaxInFlight = 3
    Nobody = Nobody
INVARIANTS
    ConsoleTypeOK
PROPERTIES
    AnsweredRunStays
    EventLogPopulates
CHECK_DEADLOCK FALSE
