SPECIFICATION Spec
CONSTANTS
    Challenges = {c1}
    Requests = {r1, r2}
    Workers = {w1, w2, w3}
    Durations = {2}
    PolicyMaxes = {0, 2}
    Floor = 1
    MaxAttempts = 2
    MaxTime = 2
    MaxRestarts = 1
    NoChallenge = NoChallenge
SYMMETRY Symmetry
INVARIANTS TypeOK WrongCodesBounded GrantedIsBurned
