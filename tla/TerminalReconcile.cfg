SPECIFICATION Spec
CONSTANTS
    Sessions = {s1, s2}
    Sockets = {k1, k2}
    Requests = {r1}
    NoRequest = NoRequest
    NoSession = NoSession
    MaxCrashes = 1
SYMMETRY Symmetry
PROPERTIES OnlyOrphansReconciled
CHECK_DEADLOCK FALSE
