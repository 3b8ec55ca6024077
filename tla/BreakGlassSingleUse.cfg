SPECIFICATION CrashFreeSpec
CONSTANTS
    Challenges = {c1}
    Requests = {r1, r2}
    Workers = {w1, w2}
    Durations = {2}
    PolicyMaxes = {0, 2}
    Floor = 1
    MaxAttempts = 2
    MaxTime = 1
    MaxRestarts = 0
    NoChallenge = NoChallenge
SYMMETRY Symmetry
INVARIANTS OneGrantPerChallenge
CHECK_DEADLOCK FALSE
