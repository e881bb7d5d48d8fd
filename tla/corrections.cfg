CONSTANTS
    Users = {u1, u2}
    Admins = {u2}
    Sessions = {s1, s2}
    Breaks = {b1}
    Entries = {e1, e2}
    Tasks = {k1}
    Requests = {q1}
    None = None
    MaxTime = 1
    Proposals <- AnyProposal
SYMMETRY Symmetric
SPECIFICATION Spec
CHECK_DEADLOCK FALSE
INVARIANT OneOpenPerOwner
PROPERTIES OriginalsKept CorrectedApart
