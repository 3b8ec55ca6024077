SPECIFICATION CrashFreeSpec
CONSTANTS
    Challenges = {c1}
    Requests = {r1}
    Workers = {w1}
    Durations = {3}
    PolicyMaxes = {0, 2}
    Floor = 3
    MaxAttempts = 2
    MaxTime = 1
    MaxRestarts = 0
    NoChallenge = NoChallenge
SYMMETRY Symmetry
PROPERTIES WithinPolicyCeiling
CHECK_DEADLOCK FALSE
