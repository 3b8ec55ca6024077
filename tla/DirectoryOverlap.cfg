SPECIFICATION Spec
CONSTANTS
    Users = {u2}
    Linked = {u2}
    Mailed = {u2}
    Staff = {}
    Admins = {}
    Locals = 2
    Processes = {p1, p2}
    Editors = {e1}
    Grace = 1
    MaxCount = 1
    MaxPercent = 50
    MaxBadReads = 1
    MaxTime = 1
VIEW Seen
SYMMETRY Symmetry
INVARIANTS TypeOK JobRunsAlone
PROPERTIES NoHastySuspension
