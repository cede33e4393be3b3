\* One key, two requests at a time, a job, two days, a restart.  Two windows of two
\* requests meet within a minute, in which the day changes.
CONSTANTS
    LastTick = 2
    Starts = 2
    Keys = {k1}
    Calls = {c1, c2}
    RateLimit = 2
    DailyLimit = 2
    Minute = 2
    DayTicks = 2
    Events = {"rejection", "queue"}
    None = None
    JobIds = {j1}
    Owners = {k1}
    JobTtl = 1
    MaxPages = 2
    NoTime = NoTime
SPECIFICATION Spec
INVARIANTS LimitsHold UsageIsTrue JobsAreTrue
PROPERTIES EndedStays
CHECK_DEADLOCK FALSE
