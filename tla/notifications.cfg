CONSTANTS
    Users = {u1}
    Sessions = {s1}
    Breaks = {}
    Entries = {e1}
    Tasks = {k1}
    None = None
    MaxTime = 3
    DayLength = 2
    Runs = {c1, c2}
    ClockOutThreshold = 2
    TimerThreshold = 2
    TimerCooldown = 1
    UnallocatedThreshold = 1
    CutoffHour = 1
SPECIFICATION FairSpec
INVARIANTS AtMostOnePerRun 
PROPERTY RemindedInTheEnd
