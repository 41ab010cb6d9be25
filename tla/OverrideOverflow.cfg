SPECIFICATION HistorySpec
CONSTANTS
    Scenario = {s1}
    Agent = {a1}
    EventId = {e1}
    Call = {c1, c2}
    Action = {"auto-approve"}
    Ttl = {0, 2}
    TargetTurn = {1}
    MaxTurn = 1
    MaxInt = 2
    NoPolicy = NoPolicy
SYMMETRY Symmetry
INVARIANTS
    EvaluationAudited
CHECK_DEADLOCK FALSE
