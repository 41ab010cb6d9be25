SPECIFICATION HistorySpec
CONSTANTS
    Scenario = {s1, s2}
    Agent = {a1}
    EventId = {e1}
    Call = {c1, c2, c3}
    Action = {"review"}
    Ttl = {0, 2}
    TargetTurn = {1}
    MaxTurn = 1
    MaxInt = 2
    NoPolicy = NoPolicy
SYMMETRY Symmetry
INVARIANTS
    TypeOK
    RevokedOnce
    CitedPolicyApplied
    VerdictsHeedPolicies
    AnswersAudited
CHECK_DEADLOCK FALSE
