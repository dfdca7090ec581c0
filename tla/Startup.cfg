\* Two processes, two crashes or database errors.  In the end both serve: no
\* deadlock check.
SPECIFICATION Spec
CONSTANTS
    p1 = p1
    p2 = p2
    Process = {p1, p2}
    None = None
    MaxFaults = 2
CHECK_DEADLOCK FALSE
INVARIANTS
    TypeOK
    CleanStartComplete
    QuietRestart
PROPERTY EventuallyServing
