CONSTANTS
    Users = {u1, u2}
    Admins = {u2}
    Documents = {d1, d2}
    Requests = {q1, q2}
    Slots = {r1, r2}
    None = None
SPECIFICATION SerialSpec
INVARIANTS LiveHasBlob OnePendingEach PurgedAtOnce
PROPERTIES DecidedOnce PendingResolved
