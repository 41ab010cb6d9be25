SPECIFICATION Spec
CONSTANTS
    Conn = {a}
    Tenant = {t1}
    Watched = {}
    Role = {"white"}
    Body <- Indices
    MaxBufferedBytes = 1
    BufferCap = 1
    Window = 1
    TemplateRange <- TemplateRanges
    Adapter = a
    AdapterTenant = t1
    Profile <- AllProfiles
    Call <- MCCall
    MaxEvents = 1
INVARIANT
    EveryEventYieldsResult
CHECK_DEADLOCK FALSE
