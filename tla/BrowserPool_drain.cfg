\* Two plain workers, one request each or both on one; either event may be missed.
CONSTANTS
    plain = plain  other = other  default = default  second = second
    Requests = {r1, r2}
    Workers = {w1, w2}
    NoWorker = NoWorker
    Profiles = {plain}
    Backends = {default}
    BackendOf <- OneProfile
    PlainProfile = plain
    PoolMin = 0
    PoolMax = 1
    ContextsPerWorker = 2
    FailureLimit = 1
    Missable <- AnyMissed
    SoftLevels = {FALSE}
SPECIFICATION FairSpec
\* A closed pool may come to rest.
CHECK_DEADLOCK FALSE
PROPERTIES DrainingLeaves
