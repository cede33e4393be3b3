\* Memory holds one long body, the disk a long and a short one.
CONSTANTS
    long = long
    challenge = challenge
    Requests = {r1, r2, r3}
    Keys = {k1, k2}
    NoRequest = NoRequest
    NoKey = NoKey
    Bodies = {long, challenge}
    NoBody = NoBody
    Bytes <- Lengths
    Challenges = {challenge}
    MemoryMax = 2
    DiskMax = 3
    Faults = FALSE
SYMMETRY Symmetry
VIEW View
SPECIFICATION Spec
INVARIANTS TypeOK LayersBounded SingleFlight FilesAreOwned
