\* Memory moves, but always leaves room for one call of the largest estimate.
CONSTANTS
    j1 = j1  j2 = j2  j3 = j3  j4 = j4
    light = light  heavy = heavy
    Jobs = {j1, j2, j3}
    Workloads = {light, heavy}
    WorkloadOf <- ThreeJobs
    DefaultEstimate <- Estimates
    MaxConcurrency = 2
    QueueMax = 2
    HardMb = 5
    ReserveMb = 1
    HistoryMax = 1
    RssLevels = {0, 2}
SPECIFICATION FairSpec
PROPERTIES AcceptedCallsEnd
