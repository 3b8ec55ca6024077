SPECIFICATION FairSpec
CONSTANTS
    Users = {u1, u2}
    Requests = {r1}
    Certs = {c1, c2}
    Workers = {w1}
    Durations = {1}
    PolicyMaxes = {0}
    PendingTTL = 0
    MinRemaining = 1
    MaxTime = 2
    NoUser = NoUser
    NoRequest = NoRequest
    NoCert = NoCert
PROPERTIES ExpiryIsSwept
CHECK_DEADLOCK FALSE
