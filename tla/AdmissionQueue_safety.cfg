\* Memory moves between ample, short for a heavy call, and critical.
CONSTANTS
    j1 = j1  j2 = j2  j3 = j3  j4 = j4
    light = light  heavy = heavy
    Jobs = {j1, j2, j3, j4}
    Workloads = {light, heavy}
    WorkloadOf <- FourJobs
    DefaultEstimate <- Estimates
    MaxConcurrency = 2
    QueueMax = 2
    HardMb = 5
    ReserveMb = 1
    HistoryMax = 2
    RssLevels = {0, 3, 6}
SPECIFICATION Spec
INVARIANTS TypeOK SlotAccounting WorkConserving IdleRearmsAlert
PROPERTIES IdleAdmissionStarts KeepsContract
