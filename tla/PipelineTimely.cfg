\* Two processes, two diaries, two attempts each, one crash or database error.
SPECIFICATION Spec
CONSTANTS
    p1 = p1
    p2 = p2
    d1 = d1
    d2 = d2
    Proc = {p1, p2}
    Diary = {d1, d2}
    None = None
    MaxSend = 2
    DayOf <- MCDayOf
    Adversity <- Timely
    MaxFaults = 1
SYMMETRY MCSymmetry
INVARIANTS
    TypeOK
    SchedulerExclusion
    FailedOnlyWhenExhausted
    FailureAnnouncedOnce
PROPERTIES
    SettledStays
    EditsAfterDoneSurvive
    ImplementsLifecycle
