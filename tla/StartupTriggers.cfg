\* One process and no error.
SPECIFICATION Spec
CONSTANTS
    p1 = p1
    Process = {p1}
    None = None
    MaxFaults = 0
CHECK_DEADLOCK FALSE
INVARIANT TriggersInPlace
