SPECIFICATION CrashFreeSpec
CONSTANTS
    Tokens = {t1, t2, t3}
    Families = {f1}
    Workers = {w1, w2}
    NoFamily = NoFamily
    Second = 1
    Grace = 1
    TokenTTL = 2
    AbsoluteTTL = 2
    CleanAge = 1
    MaxTime = 3
SYMMETRY Symmetry
INVARIANTS SingleUse
CHECK_DEADLOCK FALSE
