SPECIFICATION Spec
CONSTANTS
    Workers = {w1, w2}
    Challenges = {c1}
    Mails = {e1}
    b1 = b1
    b2 = b2
    b3 = b3
    BackupSets <- MCTwoSets
    Threshold = 2
    MaxAttempts = 2
    MaxSends = 1
    ThrottleMax = 2
    NoChallenge = NoChallenge
    NoCode = NoCode
SYMMETRY Symmetry
INVARIANTS TypeOK CodesPerWindowBounded
