SPECIFICATION FairSpec
CONSTANTS
    Slot = {w1}
    Namespace = {s1, s2}
    MaxCalls = 2
    RedSetting <- Settings
    BlueProfile <- BlueProfiles
    RedProfile <- DoctrineProfile
    TemplateRange <- TemplateRanges
INVARIANTS
    TypeOK
    DagsCausal
    CommitsResolve
    CitesReport
    AnswerCausallyClosed
    DecisionIsWhole
    ShippedScriptsRun
PROPERTY
    RunTurnAnswered
CHECK_DEADLOCK FALSE
