CONSTANTS
    Users = {u1}
    Sessions = {s1, s2}
    Breaks = {b1, b2}
    Entries = {e1, e2, e3}
    Tasks = {k1, k2}
    None = None
    MaxTime = 3
    DayLength = 2
SYMMETRY Symmetric
SPECIFICATION Spec
CHECK_DEADLOCK FALSE
INVARIANTS
    TimerOnlyWhileWorking
    OnBreakMeansActiveBreak
    SegmentsApart
    SegmentsOutsideBreaks
    Reconciled
    GapsAreIdleTime
PROPERTY HistoryIsFinal
