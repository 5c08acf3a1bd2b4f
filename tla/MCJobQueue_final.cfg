SPECIFICATION FairSpec
CONSTANTS
    w1 = w1  w2 = w2  t1 = t1  k1 = k1  None = None
    Jobs = {1}
    Workers = {w1, w2}
    Operators = {o1}
    Priority <- MCPriority
    CreatedAt <- MCCreatedAt
    TenantOf <- MCTenantOf
    KeyOf <- MCKeyOf
    RequiredTags <- MCRequiredTags
    WorkerTags <- MCWorkerTags
    AllowedJobs <- MCAllowedJobs
    MaxAttempts <- TwoAttempts
    AttemptCost <- UnitCost
    BudgetUnits <- MCBudgetUnits
    LeaseSeconds = 2
    BackoffSeconds = 1
    MaxRunningPerWorker = 1
    MaxRunningPerTenant = 1
    CandidateScanLimit = 2
    MaxUnitsPerJob = 4
    MaxPendingJobs = 2
    MaxPendingPerTenant = 1
    Backlog = {1}
    MaxClients = 2
    MaxCrashes = 0
    MaxOverruns = 0
    MaxCalls = 1
PROPERTIES
    SucceededIsFinal
