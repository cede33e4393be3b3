\* Two backends share the pool; poolMin workers of the default one are kept warm.
CONSTANTS
    plain = plain  other = other  default = default  second = second
    Requests = {r1, r2}
    Workers = {w1, w2, w3}
    NoWorker = NoWorker
    Profiles = {plain, other}
    Backends = {default, second}
    BackendOf <- TwoBackends
    PlainProfile = plain
    PoolMin = 1
    PoolMax = 1
    ContextsPerWorker = 1
    FailureLimit = 1
    Missable <- NoneMissed
    SoftLevels = {FALSE}
SYMMETRY Symmetry
SPECIFICATION Spec
\* A closed pool may come to rest.
CHECK_DEADLOCK FALSE
INVARIANTS OvershootBound LaunchAccounting
