CONSTANTS
    Users = {u1}
    Sessions = {s1, s2}
    Breaks = {b1}
    Entries = {e1, e2}
    Tasks = {k1, k2}
    None = None
    MaxTime = 1
    Slots = {r1, r2}
    Admins = {}
    Kinds <- RacingKinds
SPECIFICATION Spec
SYMMETRY Symmetric
INVARIANTS
    OneOpenPerOwner
    EndMeansClosed
    StampOrder
