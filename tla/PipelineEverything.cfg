\* Every adversity, workers that stall beyond the stale threshold included.  No
\* symmetry: one property is a liveness property.
SPECIFICATION FairSpec
CONSTANTS
    p1 = p1
    p2 = p2
    d1 = d1
    Proc = {p1, p2}
    Diary = {d1}
    None = None
    MaxSend = 2
    DayOf <- MCDayOf
    Adversity <- Adversities
    MaxFaults = 1
INVARIANTS
    DoneHasAnalysis
    OnePushPerAttempt
PROPERTIES
    EventuallySettled
