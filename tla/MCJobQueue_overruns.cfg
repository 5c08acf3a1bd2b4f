SPECIFICATION Spec
CONSTANTS
    w1 = w1  w2 = w2  t1 = t1  k1 = k1  None = None
    Jobs <- ThreeJobs
    Workers = {w1, w2}
    Operators = {}
    Priority <- MCPriority
    CreatedAt <- MCCreatedAt
    TenantOf <- MCTenantOf
    KeyOf <- MCKeyOf
    RequiredTags <- MCRequiredTags
    WorkerTags <- MCWorkerTags
    AllowedJobs <- MCAllowedJobs
    MaxAttempts <- MixedAttempts
    AttemptCost <- UnitCost
    BudgetUnits <- MCBudgetUnits
    LeaseSeconds = 2
    BackoffSeconds = 1
    MaxRunningPerWorker = 1
    MaxRunningPerTenant = 1
    CandidateScanLimit = 3
    MaxUnitsPerJob = 4
    MaxPendingJobs = 3
    MaxPendingPerTenant = 1
    Backlog = {1, 2, 3}
    MaxClients = 2
    MaxCrashes = 1
    MaxOverruns = 1
    MaxCalls = 0
INVARIANTS
    KeyExclusive TenantCap WorkerCap
