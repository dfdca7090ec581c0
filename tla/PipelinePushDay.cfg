\* No fault at all: a retry by the scheduler is enough.
SPECIFICATION FairSpec
CONSTANTS
    p1 = p1
    d1 = d1
    Proc = {p1}
    Diary = {d1}
    None = None
    MaxSend = 3
    DayOf <- MCDayOf
    Adversity = {}
    MaxFaults = 0
INVARIANT PushNamesDiaryDay
