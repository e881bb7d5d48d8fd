CONSTANTS
    Users = {u1, u2}
    Admins = {u1}
    Sessions = {s1}
    Breaks = {}
    Entries = {e1, e2}
    Tasks = {k1}
    Requests = {q1, q2}
    Slots = {r1, r2}
    None = None
    MaxTime = 1
    Proposals <- EndOnly
SYMMETRY Symmetric
SPECIFICATION SerialSpec
INVARIANTS OriginalsOnRecord
PROPERTIES KeepsPromise DecidedOnce
