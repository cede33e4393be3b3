\* One session, two handlers at a time, a handoff.
CONSTANTS
    s1 = s1  s2 = s2
    Sessions = {s1}
    Requests = {r1, r2}
    Browsers = {b1, b2}
    Grants = {g1}
    None = None
    Menu <- AllHandlersOne
    Creators <- AnybodyOne
SYMMETRY Symmetry
SPECIFICATION Spec
INVARIANTS TypeOK ManagerIsSound SpentGrantsMove
CHECK_DEADLOCK FALSE
