SPECIFICATION FairSpec
CONSTANTS
    Sessions = {s1}
    Sockets = {k1}
    Requests = {r1}
    NoRequest = NoRequest
    NoSession = NoSession
    MaxCrashes = 0

PROPERTIES DeadChannelEnds
CHECK_DEADLOCK FALSE
