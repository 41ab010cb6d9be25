SPECIFICATION FairSpec
CONSTANTS
    Request = {r1, r2, r3}
    Scenario = {s1}
    MaxEvents = 2
    PoolSize = 4
    SnapshotLimit = 2
    NoTurn = NoTurn
INVARIANTS
    TypeOK
    SnapshotsMatchTurn
    AdvancingHasOwner
    NoConnectionLeak
    OpeningRunArchived
    AnsweredTurnsDiffer
PROPERTIES
    LedgerSpec
    EveryRequestSettles
CHECK_DEADLOCK FALSE
