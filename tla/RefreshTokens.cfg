SPECIFICATION Spec
CONSTANTS
    Tokens = {t1, t2}
    Families = {f1, f2}
    Workers = {w1, w2}
    NoFamily = NoFamily
    Second = 2
    Grace = 0
    TokenTTL = 3
    AbsoluteTTL = 3
    CleanAge = 1
    MaxTime = 5
SYMMETRY Symmetry
INVARIANTS TypeOK SignedOutIsUnused WithinAbsoluteLifetime
