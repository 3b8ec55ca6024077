SPECIFICATION CrashFreeSpec
CONSTANTS
    Users = {u1, u2}
    Requests = {r1}
    Certs = {c1, c2}
    Workers = {w1}
    Durations = {2}
    PolicyMaxes = {0}
    PendingTTL = 0
    MinRemaining = 1
    MaxTime = 1
    NoUser = NoUser
    NoRequest = NoRequest
    NoCert = NoCert
SYMMETRY Symmetry
INVARIANTS RejectedOnceNotApproved
CHECK_DEADLOCK FALSE
