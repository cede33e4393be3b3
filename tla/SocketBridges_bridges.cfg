\* A bridge of any kind and a target.
CONSTANTS
    Bridges = {c1}
    Kinds <- AllKinds
    Targets = {t1}
    MaxMessages = 3
    None = None
SPECIFICATION Spec
INVARIANTS InOrder BridgesAreSound
PROPERTIES BridgesEnd
CHECK_DEADLOCK FALSE
