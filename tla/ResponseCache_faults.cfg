\* Crashes and failing writes.
CONSTANTS
    long = long
    challenge = challenge
    Requests = {r1, r2}
    Keys = {k1, k2}
    NoRequest = NoRequest
    NoKey = NoKey
    Bodies = {long, challenge}
    NoBody = NoBody
    Bytes <- Lengths
    Challenges = {challenge}
    MemoryMax = 2
    DiskMax = 3
    Faults = TRUE
SPECIFICATION FairSpec
INVARIANTS RemovedStaysRemoved
PROPERTIES RequestsEnd
