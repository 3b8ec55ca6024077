SPECIFICATION Spec
CONSTANTS
    Users = {u1, u2}
    Linked = {u1}
    Mailed = {u1, u2}
    Staff = {}
    Admins = {u1, u2}
    Locals = 1
    Processes = {p1}
    Editors = {e1}
    Grace = 0
    MaxCount = 2
    MaxPercent = 50
    MaxBadReads = 0
    MaxTime = 0
PROPERTY AnAdminStays
