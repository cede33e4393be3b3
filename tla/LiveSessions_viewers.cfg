\* Two sessions, two handlers at a time, POST and DELETE, beside timers and crashes.
CONSTANTS
    s1 = s1  s2 = s2
    Sessions = {s1, s2}
    Requests = {r1, r2}
    Browsers = {b1, b2}
    Grants = {}
    None = None
    Menu <- OneDeleted
    Creators <- Posted
SPECIFICATION Spec
INVARIANTS ManagerIsSound OneViewer
PROPERTIES HandlersAndBrowsersEnd
CHECK_DEADLOCK FALSE
