SPECIFICATION Spec
CONSTANTS
    e1 = e1
    e2 = e2
    NoTarget = NoTarget
    Entity = {e1, e2}
    Profile <- Officers
    Call <- MCCall
    TemplateRange <- TemplateRanges
    MaxEvents = 3
    MaxMarks = 2
    MaxTurn = 1
INVARIANTS
    TypeOK
    ContestedSetsAgree
PROPERTIES
    HoldsStand
CHECK_DEADLOCK FALSE
