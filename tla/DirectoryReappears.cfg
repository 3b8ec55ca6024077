SPECIFICATION Spec
CONSTANTS
    Users = {u1, u2}
    Linked = {u1}
    Mailed = {u1, u2}
    Staff = {u1}
    Admins = {u1, u2}
    Locals = 1
    Processes = {p1}
    Editors = {e1}
    Grace = 1
    MaxCount = 1
    MaxPercent = 50
    MaxBadReads = 0
    MaxTime = 2
PROPERTY AbsenceMustPersist
