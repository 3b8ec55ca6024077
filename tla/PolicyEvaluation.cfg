SPECIFICATION PolicySpec
CONSTANTS
    Candidates <- MCCandidates
    Servers <- MCServers
    Principals = {"root", "app"}
    NoPrincipal = "none"
    OrgWide = "null"
    DayTTL = 24
INVARIANTS PolicyTypeOK ProductionIsReviewed BulkAgrees
           BreakGlassIsAuthorised DenyWins
