SPECIFICATION FairSpec
CONSTANTS
    t1 = t1
    t2 = t2
    Tenant <- Tenants
    Job = {j1, j2}
    TenantOf <- OwnerOf
    Concurrency = 2
    MaxDeaths = 1
INVARIANTS
    TypeOK
    CrewAfterPredecessor
    TenantIsolation
    RunsOnceUndisturbed
PROPERTIES
    HaltedStopsChain
    JobSettles
CHECK_DEADLOCK FALSE
