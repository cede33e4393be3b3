\* One backend; either crash event may be missed.
CONSTANTS
    plain = plain  other = other  default = default  second = second
    Requests = {r1, r2}
    Workers = {w1, w2, w3}
    NoWorker = NoWorker
    Profiles = {plain}
    Backends = {default}
    BackendOf <- OneProfile
    PlainProfile = plain
    PoolMin = 1
    PoolMax = 2
    ContextsPerWorker = 1
    FailureLimit = 1
    Missable <- AnyMissed
    SoftLevels = {FALSE, TRUE}
SYMMETRY Symmetry
SPECIFICATION Spec
INVARIANTS TypeOK LeaseAccounting ListedAreServing PoolBound DrainingHasOwner
PROPERTIES RunningNotRecycled
