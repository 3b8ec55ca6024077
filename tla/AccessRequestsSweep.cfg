SPECIFICATION Spec
CONSTANTS
    Users = {u1, u2}
    Requests = {r1}
    Certs = {c1}
    Workers = {w1}
    Durations = {1}
    PolicyMaxes = {0}
    PendingTTL = 0
    MinRemaining = 1
    MaxTime = 2
    NoUser = NoUser
    NoRequest = NoRequest
    NoCert = NoCert
SYMMETRY Symmetry
PROPERTIES SweepTakesApproved
CHECK_DEADLOCK FALSE
