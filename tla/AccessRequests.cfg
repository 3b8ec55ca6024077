SPECIFICATION Spec
CONSTANTS
    Users = {u1, u2, u3}
    Requests = {r1}
    Certs = {c1}
    Workers = {w1, w2}
    Durations = {2}
    PolicyMaxes = {1}
    PendingTTL = 1
    MinRemaining = 1
    MaxTime = 2
    NoUser = NoUser
    NoRequest = NoRequest
    NoCert = NoCert
SYMMETRY Symmetry
INVARIANTS TypeOK CertWithinGrant OneDecision DecisionOnRecord
PROPERTIES FinalStaysFinal GrantFixed ImplementsGrants
CONSTRAINT OneDisabled
CHECK_DEADLOCK FALSE
