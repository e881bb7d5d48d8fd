CONSTANTS
    Users = {u1, u2}
    Sessions = {s1}
    Breaks = {b1}
    Entries = {e1, e2}
    Tasks = {k1}
    None = None
    MaxTime = 0
    Slots = {r1, r2}
    Admins = {u1}
    Kinds <- AllKinds
SPECIFICATION SerialSpec
SYMMETRY Symmetric
INVARIANT OwnersAgree CompletedTaskNotTimed
PROPERTIES OnlyAdminReopens ServesWorkDay
