SPECIFICATION FairSpec
CONSTANTS
    Conn = {a, v}
    Tenant = {t1, t2}
    Watched = {"override_pending", "czml_packets"}
    Role = {"white", "blue"}
    Body <- Indices
    MaxBufferedBytes = 0
    BufferCap = 0
    Window = 1
    TemplateRange <- TemplateRanges
    Adapter = a
    AdapterTenant = t1
    Profile <- OneProfile
    Call <- FewCalls
    MaxEvents = 2
INVARIANTS
    TypeOK
    PacketsInOrder
    TenantAndRoleIsolation
    BucketsMatchSockets
    DrawnAsGated
    GatedNeverRejected
PROPERTY
    EveryArrivalHandled
CHECK_DEADLOCK FALSE
