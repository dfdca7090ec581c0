\* Two processes whose ticks may overlap (a lost lock) and may meet a late
\* background task.  MAX_SEND_CNT has the value of the code.
SPECIFICATION Spec
CONSTANTS
    p1 = p1
    p2 = p2
    d1 = d1
    Proc = {p1, p2}
    Diary = {d1}
    None = None
    MaxSend = 3
    DayOf <- MCDayOf
    Adversity <- Contended
    MaxFaults = 2
SYMMETRY MCProcSymmetry
INVARIANTS
    OneAnalysisAtATime
    AttemptsBounded
