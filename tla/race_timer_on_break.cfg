CONSTANTS
    Users = {u1}
    Sessions = {s1, s2}
    Breaks = {b1}
    Entries = {e1, e2}
    Tasks = {k1}
    None = None
    MaxTime = 0
    Slots = {r1, r2}
    Admins = {}
    Kinds <- RacingKinds
SPECIFICATION Spec
INVARIANT TimerOnlyWhileWorking
