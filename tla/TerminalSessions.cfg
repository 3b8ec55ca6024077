SPECIFICATION FairSpec
CONSTANTS
    Sessions = {s1}
    Sockets = {k1, k2}
    Requests = {r1}
    NoRequest = NoRequest
    NoSession = NoSession
    MaxCrashes = 1
INVARIANTS TypeOK TimerIffDetached EndedHoldsNothing
PROPERTIES RevokedStaysClosed OverIsRecorded
CHECK_DEADLOCK FALSE
